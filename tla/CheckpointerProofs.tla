---- MODULE CheckpointerProofs ----
(***************************************************************************)
(* InMemoryCheckpointer implements a linearizable slot, for any number of  *)
(* threads, whatever S::clone panics on.                                   *)
(***************************************************************************)
EXTENDS Checkpointer, TLAPS

LEMMA IInvInit == Init => IInv
  BY CheckpointerAssumption
  DEF Init, IInv, TypeOK, GuardsExclusive, ErrorsMeanPoison

LEMMA IInvNext == IInv /\ [Next]_vars => IInv'
  <1> SUFFICES ASSUME IInv, [Next]_vars
               PROVE  IInv'
    OBVIOUS
  <1> USE CheckpointerAssumption
      DEF IInv, TypeOK, GuardsExclusive, ErrorsMeanPoison
  <1>1. ASSUME NEW t \in Threads, NEW r \in States \union {"load"}, Call(t, r)
        PROVE  IInv'
    BY <1>1 DEF Call
  <1>2. ASSUME NEW t \in Threads, LockWrite(t)
        PROVE  IInv'
    BY <1>2 DEF LockWrite, Waiting
  <1>3. ASSUME NEW t \in Threads, Store(t)
        PROVE  IInv'
    BY <1>3 DEF Store
  <1>4. ASSUME NEW t \in Threads, StorePanics(t)
        PROVE  IInv'
    BY <1>4 DEF StorePanics
  <1>5. ASSUME NEW t \in Threads, LockRead(t)
        PROVE  IInv'
    BY <1>5 DEF LockRead, Waiting
  <1>6. ASSUME NEW t \in Threads, Fetch(t)
        PROVE  IInv'
    BY <1>6 DEF Fetch
  <1>7. ASSUME NEW t \in Threads, Return(t)
        PROVE  IInv'
    BY <1>7 DEF Return
  <1>8. CASE UNCHANGED vars
    BY <1>8 DEF vars
  <1> QED
    BY <1>1, <1>2, <1>3, <1>4, <1>5, <1>6, <1>7, <1>8 DEF Next

LEMMA Invariance == Spec => []IInv
  BY IInvInit, IInvNext, PTL DEF Spec

(* Every variable of the checkpointer keeps its type. *)
THEOREM TypeCorrect == Spec => []TypeOK
  <1>1. IInv => TypeOK
    BY DEF IInv
  <1> QED
    BY Invariance, <1>1, PTL

(* A call fails on a poisoned lock only, whoever poisoned it (save, load).  *)
THEOREM ErrorsFromPoison == Spec => []ErrorsMeanPoison
  <1>1. IInv => ErrorsMeanPoison
    BY DEF IInv
  <1> QED
    BY Invariance, <1>1, PTL

(* A writer is alone and on a healthy lock, for any number of threads. *)
THEOREM Exclusive == Spec => []GuardsExclusive
  <1>1. IInv => GuardsExclusive
    BY DEF IInv
  <1> QED
    BY Invariance, <1>1, PTL

(* After a panic under the write guard the slot never changes again and     *)
(* nothing succeeds any more.                                              *)
THEOREM Final == Spec => PoisonIsFinal
  <1>1. IInv /\ [Next]_vars =>
          [poisoned =>
             /\ poisoned' /\ inner' = inner
             /\ \A t \in Threads :
                   outcome'[t] # outcome[t] => outcome'[t] \in {"open", Err}]_vars
    BY CheckpointerAssumption
    DEF IInv, TypeOK, GuardsExclusive, Next, vars, Call, LockWrite, Store,
        StorePanics, LockRead, Fetch, Return
  <1> QED
    BY Invariance, <1>1, PTL DEF Spec, PoisonIsFinal

LEMMA RegisterNext == IInv /\ [Next]_vars => [Shared!Next]_(Shared!vars)
  <1> SUFFICES ASSUME IInv, [Next]_vars
               PROVE  [Shared!Next]_(Shared!vars)
    OBVIOUS
  <1> USE CheckpointerAssumption
      DEF IInv, TypeOK, GuardsExclusive, Shared!vars, Shared!Pending
  <1>1. ASSUME NEW t \in Threads, NEW r \in States \union {"load"}, Call(t, r)
        PROVE  Shared!Call(t, r)
    BY <1>1 DEF Call, Shared!Call
  <1>2. ASSUME NEW t \in Threads, LockWrite(t)
        PROVE  Shared!Fail(t) \/ UNCHANGED Shared!vars
    BY <1>2 DEF LockWrite, Waiting, Shared!Fail
  <1>3. ASSUME NEW t \in Threads, Store(t)
        PROVE  Shared!Save(t)
    BY <1>3 DEF Store, Shared!Save
  <1>4. ASSUME NEW t \in Threads, StorePanics(t)
        PROVE  Shared!Fail(t)
    BY <1>4 DEF StorePanics, Shared!Fail
  <1>5. ASSUME NEW t \in Threads, LockRead(t)
        PROVE  Shared!Fail(t) \/ UNCHANGED Shared!vars
    BY <1>5 DEF LockRead, Waiting, Shared!Fail
  <1>6. ASSUME NEW t \in Threads, Fetch(t)
        PROVE  Shared!Load(t) \/ Shared!Fail(t)
    BY <1>6 DEF Fetch, Shared!Load, Shared!Fail
  <1>7. ASSUME NEW t \in Threads, Return(t)
        PROVE  Shared!Return(t)
    BY <1>7 DEF Return, Shared!Return
  <1>8. CASE UNCHANGED vars
    BY <1>8 DEF vars
  <1> QED
    BY <1>1, <1>2, <1>3, <1>4, <1>5, <1>6, <1>7, <1>8 DEF Next, Shared!Next

(* All clones of a checkpointer share one linearizable slot: "two runner    *)
(* instances sharing a checkpointer see the same latest checkpoint".       *)
THEOREM Implements == Spec => ImplementsRegister
  <1>1. Init => Shared!Init
    BY DEF Init, Shared!Init
  <1> QED
    BY Invariance, <1>1, RegisterNext, PTL
    DEF Spec, ImplementsRegister, Shared!Spec
====
