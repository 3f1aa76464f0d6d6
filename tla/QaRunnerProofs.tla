---- MODULE QaRunnerProofs ----
(***************************************************************************)
(* What the exit code of qa_runner stands for, with any logs, snapshots    *)
(* and registry.                                                           *)
(***************************************************************************)
EXTENDS QaRunner, TLAPS

(* How many checks have ended at each stage. *)
Ended(stage) ==
    CASE stage \in {"load", "prompt_found"} -> 0
      [] stage = "policy_deny" -> 1
      [] stage = "replay" -> 2
      [] stage = "snapshot" -> 3
      [] stage \in {"overall", "done"} -> 4

GoodUpTo(n) == \A k \in 1..n : log[k] \in Registered
GoodSnapshot ==
    \/ \A p \in Places : snapshots[p] \in Unusable
    \/ Plausible(Found)

(* What the checks that have ended, and the one that is run, have found. *)
Counted ==
    /\ passed + failed = Ended(pc)
    /\ pc = "load" => log = <<>> /\ i <= Len(Candidates) + 1 /\ ok
    /\ pc = "prompt_found" => i <= Len(log) + 1 /\ (ok <=> GoodUpTo(i - 1))
    /\ pc = "replay" => ok
    /\ pc \in {"policy_deny", "replay", "snapshot"} =>
          (failed = 0 <=> GoodUpTo(Len(log)))
    /\ pc \in {"overall", "done"} =>
          (failed = 0 <=> GoodUpTo(Len(log)) /\ GoodSnapshot)
    /\ exit = IF pc # "done" THEN None ELSE IF failed = 0 THEN 0 ELSE 1

(* The type, but for the bounds that Counted implies. *)
Typed ==
    /\ logs \in [Places -> LogFiles]
    /\ snapshots \in [Places -> Snapshots]
    /\ pc \in Stages
    /\ i \in Nat \ {0}
    /\ i <= Len(log) + Len(Candidates) + 1
    /\ log \in Logs \union (IF pc = "load" THEN {<<>>} ELSE {Fallback})
    /\ log \in Seq(Entries)
    /\ ok \in BOOLEAN
    /\ passed \in Nat /\ failed \in Nat

Inv == Typed /\ Counted

LEMMA InvInit == Init => Inv
  BY DEF Init, Inv, Typed, Counted, Stages, Ended, Candidates

(* The candidates are gone through, and a log is found, or the fallback. *)
LEMMA LoadInv ==
    ASSUME Inv, Load \/ LoadFallback
    PROVE  Inv'
  <1>1. /\ Typed /\ Counted /\ pc = "load" /\ log = <<>> /\ Len(Candidates) = 3
        /\ passed + failed = 0
    BY DEF Inv, Load, LoadFallback, Counted, Ended, Candidates
  <1>2. UNCHANGED <<logs, snapshots, ok, passed, failed, exit>>
    BY DEF Load, LoadFallback, env
  <1>3. CASE /\ log' \in Logs \union {Fallback} /\ pc' = "prompt_found" /\ i' = 1
    <2>1. log' \in Seq(Entries) /\ Len(log') \in Nat
      BY <1>3, QaAssumption
    <2>2. Typed'
      BY <1>1, <1>2, <1>3, <2>1 DEF Typed, Stages
    <2> QED
      BY <1>1, <1>2, <1>3, <2>1, <2>2 DEF Inv, Counted, Ended, GoodUpTo
  <1>4. CASE Load /\ i' = i + 1 /\ UNCHANGED <<log, pc>>
    BY <1>1, <1>2, <1>4 DEF Load, Inv, Typed, Counted, Candidates
  <1> QED
    BY <1>3, <1>4 DEF Load, LoadFallback

LEMMA PromptFoundInv ==
    ASSUME Inv, PromptFound
    PROVE  Inv'
  <1>1. /\ Typed /\ Counted /\ pc = "prompt_found" /\ Len(log) \in Nat
        /\ passed = 0 /\ failed = 0 /\ exit = None
        /\ i <= Len(log) + 1 /\ (ok <=> GoodUpTo(i - 1))
    BY DEF Inv, PromptFound, Typed, Counted, Ended
  <1>2. CASE /\ i <= Len(log) /\ ok' = (ok /\ log[i] \in Registered) /\ i' = i + 1
             /\ UNCHANGED <<env, pc, log, passed, failed, exit>>
    <2>1. Typed'
      BY <1>1, <1>2 DEF Typed, env, Candidates
    <2>2. GoodUpTo(i) <=> GoodUpTo(i - 1) /\ log[i] \in Registered
      BY <1>1 DEF GoodUpTo, Typed
    <2>3. GoodUpTo(i - 1)' <=> GoodUpTo(i)
      <3>1. i' - 1 = i /\ log' = log
        BY <1>1, <1>2 DEF Typed
      <3> QED
        BY <3>1 DEF GoodUpTo
    <2>4. /\ passed' + failed' = Ended(pc') /\ pc' = "prompt_found"
          /\ i' <= Len(log') + 1 /\ exit' = None
      BY <1>1, <1>2 DEF Typed, Counted
    <2>5. ok' <=> GoodUpTo(i - 1)'
      BY <1>1, <1>2, <2>2, <2>3
    <2> QED
      BY <2>1, <2>4, <2>5 DEF Inv, Counted
  <1>3. CASE i > Len(log) /\ Count(ok, "policy_deny")
    <2>1. /\ UNCHANGED <<logs, snapshots, log, exit>> /\ pc' = "policy_deny" /\ i' = 1
          /\ passed' = (IF ok THEN 1 ELSE 0) /\ failed' = (IF ok THEN 0 ELSE 1)
          /\ ok' = TRUE
      BY <1>1, <1>3 DEF Count, env
    <2>2. ok <=> GoodUpTo(Len(log))
      BY <1>1, <1>3 DEF Typed
    <2>3. Typed'
      BY <1>1, <2>1 DEF Typed, Stages, Candidates
    <2> QED
      BY <1>1, <2>1, <2>2, <2>3 DEF Inv, Counted, Ended, GoodUpTo
  <1> QED
    BY <1>1, <1>2, <1>3 DEF PromptFound

(* The second check depends on nothing but the policies. *)
LEMMA PolicyDenies ==
    /\ ~ReadWrite!Check("Greeting", "refund")
    /\ ReadWrite!Check("Greeting", "read")
    /\ All!Check("Greeting", "refund")
  BY DEF ReadWrite!Check, All!Check

LEMMA PolicyDenyInv ==
    ASSUME Inv, PolicyDeny
    PROVE  Inv'
  <1>1. /\ Typed /\ Counted /\ pc = "policy_deny" /\ Len(log) \in Nat
        /\ passed + failed = 1 /\ exit = None
        /\ (failed = 0 <=> GoodUpTo(Len(log)))
    BY DEF Inv, PolicyDeny, Typed, Counted, Ended
  <1>2. /\ UNCHANGED <<logs, snapshots, log, exit>> /\ pc' = "replay" /\ i' = 1
        /\ passed' = passed + 1 /\ failed' = failed + 0 /\ ok' = TRUE
    BY PolicyDenies DEF PolicyDeny, Count, env
  <1>3. Typed'
    BY <1>1, <1>2 DEF Typed, Stages, Candidates
  <1>4. passed' + failed' = 2 /\ (failed' = 0 <=> failed = 0)
    BY <1>1, <1>2 DEF Typed
  <1> QED
    BY <1>1, <1>2, <1>3, <1>4 DEF Inv, Counted, Ended, GoodUpTo

LEMMA ReplayInv ==
    ASSUME Inv, Replay
    PROVE  Inv'
  <1>1. /\ Typed /\ Counted /\ pc = "replay" /\ Len(log) \in Nat /\ ok
        /\ passed + failed = 2 /\ exit = None
        /\ (failed = 0 <=> GoodUpTo(Len(log)))
    BY DEF Inv, Replay, Typed, Counted, Ended
  <1>2. CASE i <= Len(log) /\ i' = i + 1 /\ UNCHANGED <<env, pc, log, ok, passed, failed, exit>>
    <2>1. Typed'
      BY <1>1, <1>2 DEF Typed, env, Candidates
    <2> QED
      BY <1>1, <1>2, <2>1 DEF Inv, Counted, Ended, GoodUpTo
  <1>3. CASE Count(ok, "snapshot")
    <2>1. /\ UNCHANGED <<logs, snapshots, log, exit>> /\ pc' = "snapshot" /\ i' = 1
          /\ passed' = passed + 1 /\ failed' = failed + 0 /\ ok' = TRUE
      BY <1>1, <1>3 DEF Count, env
    <2>2. Typed'
      BY <1>1, <2>1 DEF Typed, Stages, Candidates
    <2>3. passed' + failed' = 3 /\ (failed' = 0 <=> failed = 0)
      BY <1>1, <2>1 DEF Typed
    <2> QED
      BY <1>1, <2>1, <2>2, <2>3 DEF Inv, Counted, Ended, GoodUpTo
  <1> QED
    BY <1>2, <1>3 DEF Replay

(* Found is what its name says: None only if no snapshot can be read. *)
LEMMA FoundSays ==
    ASSUME Typed
    PROVE  Found = None \/ Plausible(Found) <=> GoodSnapshot
  <1> DEFINE readable == {k \in DOMAIN Candidates : snapshots[Candidates[k]] \notin Unusable}
             first == CHOOSE k \in readable : \A j \in readable : k <= j
  <1>1. DOMAIN Candidates = 1..3 /\ readable \subseteq 1..3
    BY DEF Candidates
  <1>2. \A k \in 1..3 : Candidates[k] \in Places
    BY DEF Candidates, Places
  <1>3. CASE readable = {}
    <2>1. Found = None
      BY <1>3 DEF Found
    <2>2. \A k \in 1..3 : snapshots[Candidates[k]] \in Unusable
      BY <1>1, <1>3
    <2>3. \A p \in Places : snapshots[p] \in Unusable
      BY <2>2 DEF Places, Candidates
    <2> QED
      BY <2>1, <2>3 DEF GoodSnapshot
  <1>4. CASE readable # {}
    <2>1. \E k \in readable : \A j \in readable : k <= j
      <3>1. CASE 1 \in readable
        BY <1>1, <3>1
      <3>2. CASE 1 \notin readable /\ 2 \in readable
        BY <1>1, <3>2
      <3>3. CASE 1 \notin readable /\ 2 \notin readable
        BY <1>1, <1>4, <3>3
      <3> QED
        BY <3>1, <3>2, <3>3
    <2>2. first \in readable
      BY <2>1
    <2>3. Found = snapshots[Candidates[first]]
      BY <1>4 DEF Found
    <2> HIDE DEF first
    <2>4. Candidates[first] \in Places /\ snapshots[Candidates[first]] \notin Unusable
      BY <1>1, <1>2, <2>2
    <2>5. Found # None
      BY <2>3, <2>4, QaAssumption DEF Typed
    <2> QED
      BY <2>3, <2>4, <2>5 DEF GoodSnapshot
  <1> QED
    BY <1>3, <1>4

LEMMA SnapshotInv ==
    ASSUME Inv, Snapshot
    PROVE  Inv'
  <1> DEFINE good == Found = None \/ Plausible(Found)
  <1>1. /\ Typed /\ Counted /\ pc = "snapshot" /\ Len(log) \in Nat
        /\ passed + failed = 3 /\ exit = None
        /\ (failed = 0 <=> GoodUpTo(Len(log)))
    BY DEF Inv, Snapshot, Typed, Counted, Ended
  <1>2. good <=> GoodSnapshot
    BY <1>1, FoundSays
  <1>3. /\ UNCHANGED <<logs, snapshots, log, exit>> /\ pc' = "overall" /\ i' = 1
        /\ passed' = passed + (IF good THEN 1 ELSE 0)
        /\ failed' = failed + (IF good THEN 0 ELSE 1) /\ ok' = TRUE
    BY DEF Snapshot, Count, env
  <1>4. GoodSnapshot' <=> GoodSnapshot
    BY <1>3 DEF GoodSnapshot, Found
  <1> HIDE DEF good
  <1>5. Typed'
    BY <1>1, <1>3 DEF Typed, Stages, Candidates
  <1>6. passed' + failed' = 4 /\ (failed' = 0 <=> failed = 0 /\ good)
    BY <1>1, <1>3 DEF Typed
  <1>7. GoodUpTo(Len(log))' <=> GoodUpTo(Len(log))
    BY <1>3 DEF GoodUpTo
  <1> QED
    BY <1>1, <1>2, <1>3, <1>4, <1>5, <1>6, <1>7 DEF Inv, Counted, Ended

LEMMA OverallInv ==
    ASSUME Inv, Overall
    PROVE  Inv'
  <1>1. /\ Typed /\ Counted /\ pc = "overall" /\ pc' = "done"
        /\ UNCHANGED <<logs, snapshots, i, log, ok, passed, failed>>
        /\ exit' = IF failed = 0 THEN 0 ELSE 1
    BY DEF Inv, Overall, env
  <1>2. Typed'
    BY <1>1 DEF Typed, Stages
  <1>3. (GoodSnapshot' <=> GoodSnapshot) /\ (GoodUpTo(Len(log))' <=> GoodUpTo(Len(log)))
    BY <1>1 DEF GoodSnapshot, Found, GoodUpTo
  <1> QED
    BY <1>1, <1>2, <1>3 DEF Inv, Counted, Ended

-----------------------------------------------------------------------------
(* Every stage finds the counts, the log and the verdict it expects, with   *)
(* whatever files (qa_runner main).                                        *)
THEOREM CountsHold == Spec => []Inv
  <1>1. Inv /\ [Next]_vars => Inv'
    <2>1. Inv /\ UNCHANGED vars => Inv'
      <3> SUFFICES ASSUME Inv, UNCHANGED vars
                   PROVE  Inv'
        OBVIOUS
      <3>1. Typed'
        BY DEF Inv, Typed, vars
      <3>2. (GoodSnapshot' <=> GoodSnapshot) /\ \A n : GoodUpTo(n)' <=> GoodUpTo(n)
        BY DEF GoodSnapshot, Found, GoodUpTo, vars
      <3> QED
        BY <3>1, <3>2 DEF Inv, Counted, vars
    <2> QED
      BY <2>1, LoadInv, PromptFoundInv, PolicyDenyInv, ReplayInv, SnapshotInv,
         OverallInv DEF Next
  <1> QED
    BY <1>1, InvInit, PTL DEF Spec

(* The index stays within the candidates and the log, and no more than four *)
(* checks are counted (qa_runner main, load_event_log).                    *)
THEOREM RunnerTyped == Spec => []TypeOK
  <1>1. Inv => TypeOK
    <2> SUFFICES ASSUME Inv
                 PROVE  TypeOK
      OBVIOUS
    <2>1. Typed /\ passed + failed \in 0..4 /\ Len(log) \in Nat
      BY DEF Inv, Typed, Counted, Ended, Stages
    <2>2. passed \in 0..4 /\ failed \in 0..4
      BY <2>1 DEF Typed
    <2>3. exit \in {0, 1, None}
      BY DEF Inv, Counted
    <2> QED
      BY <2>1, <2>2, <2>3 DEF TypeOK, Typed, Candidates
  <1> QED
    BY <1>1, CountsHold, PTL

(* The exit code is 0 exactly if every entry of the log in use has a prompt *)
(* and the snapshot in use, if there is one, is plausible; whatever fails,  *)
(* all four checks are counted (qa_runner main).                           *)
THEOREM ExitIsRight == Spec => []ExitTells
  <1>1. Inv => ExitTells
    <2> SUFFICES ASSUME Inv, exit # None
                 PROVE  ExitTells
      BY DEF ExitTells
    <2>1. pc = "done" /\ passed + failed = 4
      BY DEF Inv, Counted, Ended
    <2>2. failed = 0 <=> GoodUpTo(Len(log)) /\ GoodSnapshot
      BY <2>1 DEF Inv, Counted
    <2>3. exit = 0 <=> failed = 0
      BY <2>1 DEF Inv, Counted
    <2>4. DOMAIN log = 1..Len(log)
      BY DEF Inv, Typed
    <2> QED
      BY <2>1, <2>2, <2>3, <2>4 DEF ExitTells, GoodUpTo, GoodSnapshot
  <1> QED
    BY <1>1, CountsHold, PTL
====
