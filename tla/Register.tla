---- MODULE Register ----
(***************************************************************************)
(* What Checkpointer promises to callers on any thread: one slot, each     *)
(* save and load taking effect at one instant between its call and its     *)
(* return, or failing and taking no effect at all.                         *)
(***************************************************************************)
CONSTANTS
    Threads,    \* callers
    States,     \* checkpointed states
    None,       \* no checkpoint yet
    Failures    \* ways a call can fail

VARIABLES
    slot,       \* the latest checkpoint
    request,    \* thread -> state to save, "load", or "idle"
    outcome     \* thread -> what its latest call came to, "open" until then

vars == <<slot, request, outcome>>

Init ==
    /\ slot \in States \union {None}
    /\ request = [t \in Threads |-> "idle"]
    /\ outcome = [t \in Threads |-> "open"]

Call(t, r) ==
    /\ request[t] = "idle"
    /\ request' = [request EXCEPT ![t] = r]
    /\ outcome' = [outcome EXCEPT ![t] = "open"]
    /\ UNCHANGED slot

Pending(t) == request[t] # "idle" /\ outcome[t] = "open"

Save(t) ==
    /\ Pending(t) /\ request[t] \in States
    /\ slot' = request[t]
    /\ outcome' = [outcome EXCEPT ![t] = request[t]]
    /\ UNCHANGED request

Load(t) ==
    /\ Pending(t) /\ request[t] = "load"
    /\ outcome' = [outcome EXCEPT ![t] = slot]
    /\ UNCHANGED <<slot, request>>

Fail(t) ==
    /\ Pending(t)
    /\ \E e \in Failures : outcome' = [outcome EXCEPT ![t] = e]
    /\ UNCHANGED <<slot, request>>

Return(t) ==
    /\ request[t] # "idle" /\ outcome[t] # "open"
    /\ request' = [request EXCEPT ![t] = "idle"]
    /\ UNCHANGED <<slot, outcome>>

Next == \E t \in Threads :
    \/ \E r \in States \union {"load"} : Call(t, r)
    \/ Save(t) \/ Load(t) \/ Fail(t) \/ Return(t)

Spec == Init /\ [][Next]_vars
====
