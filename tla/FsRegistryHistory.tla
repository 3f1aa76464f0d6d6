---- MODULE FsRegistryHistory ----
(***************************************************************************)
(* FsRegistry with the history that two promises to its users are about:   *)
(* that clear_cache makes the next get read the file anew, and that get is *)
(* replayable, so that Runner::prepare is.                                 *)
(***************************************************************************)
EXTENDS FsRegistry

VARIABLES
    renewed,    \* path -> answers that were right since the latest clear_cache
    fresh,      \* threads whose latest get was called after that
    steady,     \* threads since whose call neither their file changed nor
                \* the cache was cleared
    before      \* thread -> answer of its previous get of the same key, if
                \* nothing had changed since that one was called either

histvars == <<vars, renewed, fresh, steady, before>>

InitH ==
    /\ Init
    /\ renewed = [p \in Paths |-> Right(file[p])]
    /\ fresh = {}
    /\ steady = {}
    /\ before = [t \in Threads |-> NoAnswer]

GetH(t, k) ==
    /\ Get(t, k)
    /\ fresh' = fresh \union {t}
    /\ before' = [before EXCEPT ![t] =
                    IF t \in steady /\ key[t] = k THEN answer[t] ELSE NoAnswer]
    /\ steady' = steady \union {t}
    /\ UNCHANGED renewed

ClearCacheH(t) ==
    /\ ClearCache(t)
    /\ fresh' = {}
    /\ renewed' = [p \in Paths |-> Right(file[p])]
    /\ steady' = {}
    /\ UNCHANGED before

InsideH(t) ==
    /\ Stat(t) \/ CheckCache(t) \/ ReadFile(t) \/ Insert(t)
    /\ UNCHANGED <<renewed, fresh, steady, before>>

ChangeH(p) ==
    /\ (\E b \in Bodies : Edit(p, b)) \/ (\E a \in Access : Chmod(p, a))
    /\ renewed' = [renewed EXCEPT ![p] = @ \union Right(file'[p])]
    /\ steady' = {t \in steady : PathOf[key[t]] # p}
    /\ UNCHANGED <<fresh, before>>

NextH ==
    \/ \E t \in Threads, k \in Keys : GetH(t, k)
    \/ \E t \in Threads : ClearCacheH(t) \/ InsideH(t)
    \/ \E p \in Paths : ChangeH(p)

SpecH == InitH /\ [][NextH]_histvars

-----------------------------------------------------------------------------
(* "after clear_cache, should re-read file": a text returned by a get that *)
(* was called after clear_cache was in the file then or later, whatever    *)
(* the mtimes say (prompt_registry, clear_cache and its test).             *)
ClearForcesReread ==
    \A t \in fresh :
        answer[t] \in Contents => answer[t] \in renewed[PathOf[key[t]]]

(* "Calling prepare twice with identical inputs and unchanged registry     *)
(* yields identical output": of two gets of a key in a row, with the file  *)
(* unchanged and the cache not cleared from the first call on, both        *)
(* return the same text, if they return one (runtime prepare).             *)
Replayable ==
    \A t \in steady :
        before[t] \in Contents /\ answer[t] \in Contents => answer[t] = before[t]

-----------------------------------------------------------------------------
(* Why both hold, for any threads on a fine clock, and for one thread on    *)
(* any clock.                                                              *)
TypeOKH ==
    /\ TypeOK
    /\ renewed \in [Paths -> SUBSET Answers]
    /\ fresh \subseteq Threads /\ steady \subseteq Threads
    /\ before \in [Threads -> Answers \union {NoAnswer}]

(* What a file offers now, it has offered since the latest clear_cache. *)
RenewedCurrent == \A p \in Paths : Right(file[p]) \subseteq renewed[p]

(* On a fine clock a get answers what it was offered: since clear_cache, if *)
(* it was called after that, and nothing else than now, if all is steady.  *)
OfferedSince == \A t \in fresh : seen[t] \subseteq renewed[PathOf[key[t]]]

OfferedSteadily ==
    \A t \in steady :
        /\ seen[t] = Right(FileOf(t))
        /\ before[t] # NoAnswer => before[t] \in Right(FileOf(t))

FineInv == IInv /\ TypeOKH /\ RenewedCurrent /\ OfferedSince /\ OfferedSteadily

(* One thread clears the cache between its gets, so that no older text is   *)
(* on its way, and finds what it inserted if all is steady.                *)
Solo == \A t, u \in Threads : t = u

TextsRenewed ==
    /\ \A k \in Keys : cache[k].text # Absent => cache[k].text \in renewed[PathOf[k]]
    /\ \A t \in Threads : pc[t] = "insert" => text[t] \in renewed[PathOf[key[t]]]

InCache(t, a) ==
    cache[key[t]].text = a /\ cache[key[t]].mtime = FileOf(t).mtime

FoundAgain ==
    \A t \in steady :
        /\ pc[t] \in {"check", "read", "insert"} => stamp[t] = FileOf(t).mtime
        /\ answer[t] \in Contents => InCache(t, answer[t])
        /\ before[t] \in Contents =>
              InCache(t, before[t]) /\ pc[t] \notin {"read", "insert"}

SoloInv ==
    /\ TypeOKH
    /\ \A t \in Threads : pc[t] # "idle" => answer[t] = NoAnswer
    /\ RenewedCurrent /\ TextsRenewed /\ FoundAgain
    /\ ClearForcesReread
====
