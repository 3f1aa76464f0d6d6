---- MODULE PromptSource ----
(***************************************************************************)
(* What a caller of Registry::get may rely on, with no cache in sight.     *)
(* Every path offers a set of answers at each instant (its text, "not      *)
(* found", "failed"); a call answers with something its path offered at    *)
(* some instant between the call and the return.  Since a get changes      *)
(* nothing, that makes every history of gets and edits linearizable.       *)
(***************************************************************************)
CONSTANTS
    Threads,    \* callers of get
    Keys,       \* prompt keys
    Paths,      \* the files the keys stand for
    PathOf,     \* key -> path
    NoAnswer    \* a call that has not returned yet

VARIABLES
    offers,     \* path -> the answers it offers now
    busy,       \* the threads inside a get
    key,        \* thread -> key of its latest get
    seen,       \* thread -> every answer offered since that get was called
    answer      \* thread -> what that get returned

vars == <<offers, busy, key, seen, answer>>

Init ==
    /\ busy = {}
    /\ seen = [t \in Threads |-> {}]
    /\ answer = [t \in Threads |-> NoAnswer]

(* Registry::get is called. *)
Call(t, k) ==
    /\ t \notin busy
    /\ busy' = busy \union {t}
    /\ key' = [key EXCEPT ![t] = k]
    /\ seen' = [seen EXCEPT ![t] = offers[PathOf[k]]]
    /\ answer' = [answer EXCEPT ![t] = NoAnswer]
    /\ UNCHANGED offers

(* Registry::get returns an answer that was true during the call. *)
Reply(t) ==
    /\ t \in busy
    /\ busy' = busy \ {t}
    /\ \E a \in seen[t] : answer' = [answer EXCEPT ![t] = a]
    /\ UNCHANGED <<offers, key, seen>>

(* The file at p changes; the calls under way on it may see the change. *)
Change(p) ==
    /\ \A q \in Paths \ {p} : offers'[q] = offers[q]
    /\ seen' = [t \in Threads |->
                  IF t \in busy /\ PathOf[key[t]] = p
                  THEN seen[t] \union offers'[p]
                  ELSE seen[t]]
    /\ UNCHANGED <<busy, key, answer>>

Next ==
    \/ \E t \in Threads, k \in Keys : Call(t, k)
    \/ \E t \in Threads : Reply(t)
    \/ \E p \in Paths : Change(p)

Spec == Init /\ [][Next]_vars
====
