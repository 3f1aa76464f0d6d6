---- MODULE FsRegistryProofs ----
(***************************************************************************)
(* FsRegistry on a file system that never gives two changes of a file the  *)
(* same mtime: the cache is coherent, every answer was right during its    *)
(* call, and the registry implements PromptSource.  There, and for one     *)
(* thread on any file system, clear_cache and replay are what they promise.*)
(***************************************************************************)
EXTENDS FsRegistryHistory, TLAPS

LEMMA RightTyped ==
    ASSUME NEW f \in Files
    PROVE  Right(f) \subseteq Answers
  BY DEF Right, Files, Bodies, Access, Answers

LEMMA FileOfTyped ==
    ASSUME TypeOK, NEW t \in Threads
    PROVE  /\ PathOf[key[t]] \in Paths
           /\ FileOf(t) \in Files
  BY RegistryAssumption DEF TypeOK, FileOf

LEMMA TypeInit == Init => TypeOK
  BY RegistryAssumption
  DEF Init, TypeOK, Files, Bodies, Access, Entries, NoEntry

(* The environment's half: a changed file is a file, a witness sees         *)
(* answers.                                                                *)
LEMMA EditTyped ==
    ASSUME TypeOK, NEW p \in Paths, NEW b \in Bodies, Edit(p, b)
    PROVE  /\ clock' \in Nat
           /\ file' \in [Paths -> Files]
           /\ seen' \in [Threads -> SUBSET Answers]
  <1>1. clock' \in Nat
    BY DEF Edit, TypeOK
  <1>2. file' \in [Paths -> Files]
    BY <1>1 DEF Edit, TypeOK, Files
  <1>3. Right(file'[p]) \subseteq Answers
    BY <1>2, RightTyped
  <1> QED
    BY <1>1, <1>2, <1>3 DEF Edit, Witness, TypeOK

LEMMA ChmodTyped ==
    ASSUME TypeOK, NEW p \in Paths, NEW a \in Access, Chmod(p, a)
    PROVE  /\ file' \in [Paths -> Files]
           /\ seen' \in [Threads -> SUBSET Answers]
  <1>1. file' \in [Paths -> Files]
    BY DEF Chmod, TypeOK, Files
  <1>2. Right(file'[p]) \subseteq Answers
    BY <1>1, RightTyped
  <1> QED
    BY <1>1, <1>2 DEF Chmod, Witness, TypeOK

LEMMA TypeNext == TypeOK /\ [Next]_vars => TypeOK'
  <1> SUFFICES ASSUME TypeOK, [Next]_vars
               PROVE  TypeOK'
    OBVIOUS
  <1> USE RegistryAssumption, DistinctAssumption
  <1>1. ASSUME NEW t \in Threads, NEW k \in Keys, Get(t, k)
        PROVE  TypeOK'
    <2>1. Right(file[PathOf[k]]) \subseteq Answers
      BY RightTyped DEF TypeOK
    <2> QED
      BY <1>1, <2>1 DEF Get, TypeOK
  <1>2. ASSUME NEW t \in Threads, Stat(t)
        PROVE  TypeOK'
    <2>1. FileOf(t).mtime \in Nat
      BY FileOfTyped DEF Files
    <2> QED
      BY <1>2, <2>1 DEF Stat, Return, Goto, TypeOK, Answers
  <1>3. ASSUME NEW t \in Threads, CheckCache(t)
        PROVE  TypeOK'
    <2>1. cache[key[t]] \in Entries
      BY DEF TypeOK
    <2>2. Hit(t) => cache[key[t]].text \in Contents
      BY <2>1 DEF Hit, Entries
    <2> QED
      BY <1>3, <2>2 DEF CheckCache, Return, Goto, TypeOK, Answers
  <1>4. ASSUME NEW t \in Threads, ReadFile(t)
        PROVE  TypeOK'
    BY <1>4 DEF ReadFile, Return, Goto, TypeOK, Answers
  <1>5. ASSUME NEW t \in Threads, Insert(t)
        PROVE  TypeOK'
    <2>1. text[t] \in Contents /\ stamp[t] \in Nat
      BY <1>5 DEF Insert, TypeOK
    <2> QED
      BY <1>5, <2>1 DEF Insert, Return, TypeOK, Entries, Answers
  <1>6. ASSUME NEW t \in Threads, ClearCache(t)
        PROVE  TypeOK'
    BY <1>6 DEF ClearCache, NoEntry, TypeOK, Entries
  <1>7. ASSUME NEW p \in Paths, NEW b \in Bodies, Edit(p, b)
        PROVE  TypeOK'
    BY <1>7, EditTyped DEF Edit, TypeOK
  <1>8. ASSUME NEW p \in Paths, NEW a \in Access, Chmod(p, a)
        PROVE  TypeOK'
    BY <1>8, ChmodTyped DEF Chmod, TypeOK
  <1>9. CASE UNCHANGED vars
    BY <1>9 DEF vars, TypeOK
  <1> QED
    BY <1>1, <1>2, <1>3, <1>4, <1>5, <1>6, <1>7, <1>8, <1>9
    DEF Next, Step, Environment

(* Every variable stays in its type: in particular only texts, never the   *)
(* marks of a missing or unreadable file, reach the cache.                 *)
THEOREM TypeCorrect == Spec => []TypeOK
  BY TypeInit, TypeNext, PTL DEF Spec

-----------------------------------------------------------------------------
(* What an edit does to the gets under way on its path, and to the others. *)
LEMMA WitnessKeeps ==
    ASSUME TypeOK, NEW p \in Paths, Witness(p), NEW t \in Threads
    PROVE  /\ seen[t] \subseteq seen'[t]
           /\ pc[t] # "idle" /\ PathOf[key[t]] = p => Right(file'[p]) \subseteq seen'[t]
  BY DEF Witness, TypeOK

(* An edit on a fine clock moves its file to an mtime nothing has used, so  *)
(* that no entry, present or on its way, matches the new file.             *)
LEMMA EditFresh ==
    ASSUME FineClock, TypeOK, StampsPast,
           NEW p \in Paths, NEW b \in Bodies, Edit(p, b)
    PROVE  /\ file'[p].mtime = clock' /\ clock' = clock + 1
           /\ \A q \in Paths \ {p} : file'[q] = file[q]
           /\ \A k \in Keys : cache[k].mtime # file'[p].mtime
           /\ \A t \in Threads : stamp[t] # file'[p].mtime
  <1>1. clock' = clock + 1 /\ file'[p].mtime = clock'
    BY DEF Edit, TypeOK, Files
  <1>2. \A q \in Paths \ {p} : file'[q] = file[q]
    BY DEF Edit, TypeOK
  <1>3. /\ \A k \in Keys : cache[k].mtime \in Nat /\ cache[k].mtime <= clock
        /\ \A t \in Threads : stamp[t] \in Nat /\ stamp[t] <= clock
        /\ clock \in Nat
    BY DEF TypeOK, Entries, StampsPast
  <1> QED
    BY <1>1, <1>2, <1>3

(* A change of permissions leaves body and mtime of every file alone. *)
LEMMA ChmodKeeps ==
    ASSUME TypeOK, NEW p \in Paths, NEW a \in Access, Chmod(p, a),
           NEW q \in Paths
    PROVE  /\ file'[q].mtime = file[q].mtime
           /\ file'[q].body = file[q].body
           /\ q # p => file'[q] = file[q]
  BY DEF Chmod, TypeOK, Files

LEMMA StampsNext ==
    ASSUME TypeOK, StampsPast, [Next]_vars
    PROVE  StampsPast'
  <1> USE RegistryAssumption DEF StampsPast
  <1>1. ASSUME NEW t \in Threads, Step(t)
        PROVE  StampsPast'
    <2>1. CASE \E k \in Keys : Get(t, k)
      BY <2>1 DEF Get, TypeOK
    <2>2. CASE Stat(t)
      BY <2>2, FileOfTyped DEF Stat, Return, Goto, TypeOK, FileOf
    <2>3. CASE CheckCache(t)
      BY <2>3 DEF CheckCache, Return, Goto
    <2>4. CASE ReadFile(t)
      BY <2>4 DEF ReadFile, Return, Goto
    <2>5. CASE Insert(t)
      BY <2>5 DEF Insert, Return, TypeOK
    <2>6. CASE ClearCache(t)
      BY <2>6 DEF ClearCache, NoEntry, TypeOK
    <2> QED
      BY <1>1, <2>1, <2>2, <2>3, <2>4, <2>5, <2>6 DEF Step
  <1>3. ASSUME NEW p \in Paths, NEW b \in Bodies, Edit(p, b)
        PROVE  StampsPast'
    <2>1. clock' \in Nat /\ clock \in Nat /\ clock <= clock'
      BY <1>3 DEF Edit, TypeOK
    <2>2. \A q \in Paths : file'[q].mtime \in {file[q].mtime, clock'}
      BY <1>3 DEF Edit, TypeOK, Files
    <2>3. \A q \in Paths : file[q].mtime \in Nat
      BY DEF TypeOK, Files
    <2>4. \A k \in Keys : cache[k].mtime \in Nat
      BY DEF TypeOK, Entries
    <2> QED
      BY <1>3, <2>1, <2>2, <2>3, <2>4 DEF Edit, TypeOK
  <1>4. ASSUME NEW p \in Paths, NEW a \in Access, Chmod(p, a)
        PROVE  StampsPast'
    BY <1>4, ChmodKeeps DEF Chmod
  <1>5. CASE UNCHANGED vars
    BY <1>5 DEF vars
  <1> QED
    BY <1>1, <1>3, <1>4, <1>5 DEF Next, Environment

-----------------------------------------------------------------------------
LEMMA IInvInit == Init => IInv
  <1> SUFFICES ASSUME Init PROVE IInv
    OBVIOUS
  <1>1. TypeOK
    BY TypeInit
  <1> QED
    BY <1>1, RegistryAssumption
    DEF Init, IInv, StampsPast, SeenCurrent, CacheCoherent, PendingCoherent,
        HitsRight, AnswerWasRight, NoEntry

LEMMA IInvNext == FineClock /\ IInv /\ [Next]_vars => IInv'
  <1> SUFFICES ASSUME FineClock, IInv, [Next]_vars
               PROVE  IInv'
    OBVIOUS
  <1>0. TypeOK' /\ StampsPast'
    BY TypeNext, StampsNext DEF IInv
  <1> USE RegistryAssumption, DistinctAssumption
  <1> DEFINE Rest == /\ SeenCurrent /\ CacheCoherent /\ PendingCoherent
                     /\ HitsRight /\ AnswerWasRight
  <1> SUFFICES Rest'
    BY <1>0 DEF IInv
  <1>1. ASSUME NEW t \in Threads, NEW k \in Keys, Get(t, k)
        PROVE  Rest'
    BY <1>1 DEF Get, IInv, TypeOK, SeenCurrent, CacheCoherent, PendingCoherent,
                HitsRight, AnswerWasRight, FileOf, Hit
  <1>2. ASSUME NEW t \in Threads, Stat(t)
        PROVE  Rest'
    <2> USE DEF Stat, Return, Goto, FileOf
    <2>1. SeenCurrent'
      BY <1>2 DEF IInv, TypeOK, SeenCurrent
    <2>2. CacheCoherent'
      BY <1>2 DEF IInv, CacheCoherent
    <2>3. PendingCoherent'
      BY <1>2 DEF IInv, TypeOK, PendingCoherent
    <2>4. AnswerWasRight'
      BY <1>2 DEF IInv, TypeOK, AnswerWasRight, SeenCurrent, Right
    <2>5. ASSUME FileOf(t).access # "nostat", FileOf(t).body # Absent
          PROVE  /\ \A k \in Keys : k = key[t] /\ cache[k].text # Absent
                       /\ cache[k].mtime = FileOf(t).mtime => cache[k].text \in seen[t]
                 /\ \A u \in Threads :
                      pc[u] = "insert" /\ key[u] = key[t] /\ stamp[u] = FileOf(t).mtime
                      => text[u] \in seen[t]
      <3>1. FileOf(t).body \in Contents => FileOf(t).body \in seen[t]
        BY <1>2, <2>5 DEF IInv, SeenCurrent, Right
      <3>2. \A k \in Keys : cache[k].text # Absent => cache[k].text \in Contents
        BY DEF IInv, TypeOK, Entries
      <3> QED
        BY <3>1, <3>2 DEF IInv, TypeOK, CacheCoherent, PendingCoherent
    <2>6. HitsRight'
      BY <1>2, <2>5 DEF IInv, TypeOK, HitsRight, Hit
    <2> QED
      BY <2>1, <2>2, <2>3, <2>4, <2>6
  <1>3. ASSUME NEW t \in Threads, CheckCache(t)
        PROVE  Rest'
    BY <1>3 DEF CheckCache, Return, Goto, IInv, TypeOK, SeenCurrent,
                CacheCoherent, PendingCoherent, HitsRight, AnswerWasRight, FileOf, Hit
  <1>4. ASSUME NEW t \in Threads, ReadFile(t)
        PROVE  Rest'
    BY <1>4 DEF ReadFile, Return, Goto, IInv, TypeOK, SeenCurrent,
                CacheCoherent, PendingCoherent, HitsRight, AnswerWasRight,
                FileOf, Hit, Right
  <1>5. ASSUME NEW t \in Threads, Insert(t)
        PROVE  Rest'
    BY <1>5 DEF Insert, Return, IInv, TypeOK, SeenCurrent,
                CacheCoherent, PendingCoherent, HitsRight, AnswerWasRight,
                FileOf, Hit
  <1>6. ASSUME NEW t \in Threads, ClearCache(t)
        PROVE  Rest'
    BY <1>6 DEF ClearCache, NoEntry, IInv, TypeOK, SeenCurrent, CacheCoherent,
                PendingCoherent, HitsRight, AnswerWasRight, FileOf, Hit
  <1>7. ASSUME NEW p \in Paths, NEW b \in Bodies, Edit(p, b)
        PROVE  Rest'
    BY <1>7, EditFresh, WitnessKeeps
    DEF Edit, IInv, TypeOK, SeenCurrent, CacheCoherent,
        PendingCoherent, HitsRight, AnswerWasRight, FileOf, Hit
  <1>8. ASSUME NEW p \in Paths, NEW a \in Access, Chmod(p, a)
        PROVE  Rest'
    BY <1>8, ChmodKeeps, WitnessKeeps
    DEF Chmod, IInv, TypeOK, SeenCurrent, CacheCoherent,
        PendingCoherent, HitsRight, AnswerWasRight, FileOf, Hit
  <1>9. CASE UNCHANGED vars
    BY <1>9 DEF vars, IInv, SeenCurrent, CacheCoherent, PendingCoherent,
                HitsRight, AnswerWasRight, FileOf, Hit
  <1> QED
    BY <1>1, <1>2, <1>3, <1>4, <1>5, <1>6, <1>7, <1>8, <1>9
    DEF Next, Step, Environment

(* On a fine clock the cache, what threads are about to insert, and what    *)
(* the gets under way were offered stay coherent (FsRegistry::get).        *)
THEOREM Invariance == ASSUME FineClock PROVE Spec => []IInv
  <1>1. IInv /\ [Next]_vars => IInv'
    BY IInvNext
  <1> QED
    BY IInvInit, <1>1, PTL DEF Spec

(* On a fine clock, for any number of threads, keys, files and texts: the   *)
(* entry a get would use is never a superseded text.                       *)
THEOREM Coherent == ASSUME FineClock PROVE Spec => []CacheCoherent
  <1>1. IInv => CacheCoherent
    BY DEF IInv
  <1> QED
    BY Invariance, <1>1, PTL

(* On a fine clock: what a get answers, with or without the cache, was      *)
(* right at some instant between its call and its return.                  *)
THEOREM AnswersRight == ASSUME FineClock PROVE Spec => []AnswerWasRight
  <1>1. IInv => AnswerWasRight
    BY DEF IInv
  <1> QED
    BY Invariance, <1>1, PTL

-----------------------------------------------------------------------------
LEMMA SourceInit == Init => Source!Init
  BY DEF Init, Source!Init

(* Every way a get can return is a Reply: what it returns has been seen. *)
LEMMA ReturnReplies ==
    ASSUME IInv, NEW t \in Threads, pc[t] # "idle", NEW a, Return(t, a), a \in seen[t]
    PROVE  Source!Reply(t)
  BY DEF IInv, TypeOK, Return, Source!Reply

(* Moving on inside a get is invisible. *)
LEMMA GotoStutters ==
    ASSUME IInv, NEW t \in Threads, pc[t] # "idle",
           NEW l \in {"check", "read", "insert"}, Goto(t, l)
    PROVE  UNCHANGED Source!vars
  BY DEF IInv, TypeOK, Goto, Source!vars

LEMMA SourceNext == IInv /\ IInv' /\ [Next]_vars => [Source!Next]_(Source!vars)
  <1> SUFFICES ASSUME IInv, IInv', [Next]_vars
               PROVE  [Source!Next]_(Source!vars)
    OBVIOUS
  <1> USE RegistryAssumption, DistinctAssumption
  <1>1. ASSUME NEW t \in Threads, NEW k \in Keys, Get(t, k)
        PROVE  Source!Call(t, k)
    <2>1. {u \in Threads : pc'[u] # "idle"} = {u \in Threads : pc[u] # "idle"} \union {t}
      BY <1>1 DEF Get, IInv, TypeOK
    <2>2. PathOf[k] \in Paths
      OBVIOUS
    <2>3. [p \in Paths |-> Right(file[p])][PathOf[k]] = Right(file[PathOf[k]])
      BY <2>2
    <2> QED
      BY <1>1, <2>1, <2>3 DEF Get, Source!Call
  <1>2. ASSUME NEW t \in Threads, Stat(t)
        PROVE  Source!Reply(t) \/ UNCHANGED Source!vars
    <2>1. Right(FileOf(t)) \subseteq seen[t]
      BY <1>2 DEF Stat, IInv, SeenCurrent
    <2> QED
      BY <1>2, <2>1, ReturnReplies, GotoStutters DEF Stat, Right
  <1>3. ASSUME NEW t \in Threads, CheckCache(t)
        PROVE  Source!Reply(t) \/ UNCHANGED Source!vars
    BY <1>3, ReturnReplies, GotoStutters DEF CheckCache, IInv, HitsRight
  <1>4. ASSUME NEW t \in Threads, ReadFile(t)
        PROVE  Source!Reply(t) \/ UNCHANGED Source!vars
    <2>1. Right(FileOf(t)) \subseteq seen[t]
      BY <1>4 DEF ReadFile, IInv, SeenCurrent
    <2> QED
      BY <1>4, <2>1, ReturnReplies, GotoStutters DEF ReadFile, Right
  <1>5. ASSUME NEW t \in Threads, Insert(t)
        PROVE  Source!Reply(t)
    BY <1>5, ReturnReplies DEF Insert, IInv, PendingCoherent
  <1>6. ASSUME NEW t \in Threads, ClearCache(t)
        PROVE  UNCHANGED Source!vars
    BY <1>6 DEF ClearCache, Source!vars
  <1>7. ASSUME NEW p \in Paths, NEW b \in Bodies, Edit(p, b)
        PROVE  Source!Change(p)
    BY <1>7 DEF Edit, Witness, IInv, TypeOK, Source!Change
  <1>8. ASSUME NEW p \in Paths, NEW a \in Access, Chmod(p, a)
        PROVE  Source!Change(p)
    BY <1>8 DEF Chmod, Witness, IInv, TypeOK, Source!Change
  <1>9. CASE UNCHANGED vars
    BY <1>9 DEF vars, Source!vars
  <1> QED
    BY <1>1, <1>2, <1>3, <1>4, <1>5, <1>6, <1>7, <1>8, <1>9
    DEF Next, Step, Environment, Source!Next

(* On a fine clock the registry implements the source without a cache:     *)
(* every history of gets and edits could have been that of plain reads.    *)
THEOREM Implements == ASSUME FineClock PROVE Spec => ImplementsSource
  <1>1. IInv /\ [Next]_vars => IInv'
    BY IInvNext
  <1> QED
    BY IInvInit, <1>1, SourceInit, SourceNext, PTL
    DEF Spec, ImplementsSource, Source!Spec

-----------------------------------------------------------------------------
(* The history is only watched: what it is added to is the registry. *)
LEMMA HistoryNext == [NextH]_histvars => [Next]_vars
  BY DEF NextH, histvars, GetH, ClearCacheH, InsideH, ChangeH, Next, Step, Environment

LEMMA TypeHInit == InitH => TypeOKH /\ RenewedCurrent
  <1> SUFFICES ASSUME InitH
               PROVE  TypeOKH /\ RenewedCurrent
    OBVIOUS
  <1>1. TypeOK
    BY TypeInit DEF InitH
  <1>2. \A p \in Paths : Right(file[p]) \subseteq Answers
    BY <1>1, RightTyped DEF TypeOK
  <1> QED
    BY <1>1, <1>2 DEF InitH, TypeOKH, RenewedCurrent

LEMMA TypeHNext ==
    ASSUME TypeOKH, RenewedCurrent, [NextH]_histvars
    PROVE  TypeOKH' /\ RenewedCurrent'
  <1>1. TypeOK'
    BY HistoryNext, TypeNext DEF TypeOKH
  <1>2. \A p \in Paths : Right(file[p]) \subseteq Answers /\ Right(file'[p]) \subseteq Answers
    BY <1>1, RightTyped DEF TypeOKH, TypeOK
  <1>3. ASSUME NEW t \in Threads, NEW k \in Keys, GetH(t, k)
        PROVE  TypeOKH' /\ RenewedCurrent'
    BY <1>1, <1>3 DEF GetH, Get, TypeOKH, TypeOK, RenewedCurrent
  <1>4. ASSUME NEW t \in Threads, ClearCacheH(t)
        PROVE  TypeOKH' /\ RenewedCurrent'
    BY <1>1, <1>2, <1>4 DEF ClearCacheH, ClearCache, TypeOKH, RenewedCurrent
  <1>5. ASSUME NEW t \in Threads, InsideH(t)
        PROVE  TypeOKH' /\ RenewedCurrent'
    BY <1>1, <1>5 DEF InsideH, Stat, CheckCache, ReadFile, Insert, Return, Goto,
                      TypeOKH, RenewedCurrent
  <1>6. ASSUME NEW p \in Paths, ChangeH(p)
        PROVE  TypeOKH' /\ RenewedCurrent'
    <2>1. \A q \in Paths \ {p} : file'[q] = file[q]
      BY <1>6 DEF ChangeH, Edit, Chmod, TypeOKH, TypeOK
    <2>2. renewed' = [renewed EXCEPT ![p] = @ \union Right(file'[p])]
      BY <1>6 DEF ChangeH
    <2>3. RenewedCurrent'
      BY <2>1, <2>2 DEF TypeOKH, RenewedCurrent
    <2> QED
      BY <1>1, <1>2, <1>6, <2>2, <2>3 DEF ChangeH, TypeOKH
  <1>7. CASE UNCHANGED histvars
    BY <1>1, <1>7 DEF histvars, vars, TypeOKH, RenewedCurrent
  <1> QED
    BY <1>3, <1>4, <1>5, <1>6, <1>7 DEF NextH

-----------------------------------------------------------------------------
LEMMA FineInit == InitH => FineInv
  BY TypeHInit, IInvInit DEF InitH, FineInv, OfferedSince, OfferedSteadily

LEMMA FineNext == FineClock /\ FineInv /\ [NextH]_histvars => FineInv'
  <1> SUFFICES ASSUME FineClock, FineInv, [NextH]_histvars
               PROVE  FineInv'
    OBVIOUS
  <1>1. /\ IInv /\ TypeOKH /\ RenewedCurrent /\ TypeOK
        /\ IInv' /\ TypeOKH' /\ RenewedCurrent'
    BY HistoryNext, IInvNext, TypeHNext DEF FineInv, TypeOKH
  <1> SUFFICES OfferedSince' /\ OfferedSteadily'
    BY <1>1 DEF FineInv
  <1> USE RegistryAssumption
  <1>2. ASSUME NEW t \in Threads, NEW k \in Keys, GetH(t, k)
        PROVE  OfferedSince' /\ OfferedSteadily'
    <2>1. seen'[t] = Right(file[PathOf[k]]) /\ key'[t] = k /\ file' = file
      BY <1>1, <1>2 DEF GetH, Get, TypeOK
    <2>2. \A u \in Threads \ {t} : seen'[u] = seen[u] /\ key'[u] = key[u]
      BY <1>1, <1>2 DEF GetH, Get, TypeOK
    <2>3. OfferedSince'
      <3>1. fresh' = fresh \union {t} /\ renewed' = renewed /\ PathOf[k] \in Paths
        BY <1>2 DEF GetH
      <3>2. seen'[t] \subseteq renewed[PathOf[k]]
        BY <1>1, <2>1, <3>1 DEF RenewedCurrent
      <3>3. \A u \in fresh \ {t} : seen'[u] \subseteq renewed[PathOf[key'[u]]]
        BY <1>1, <2>2 DEF FineInv, OfferedSince, TypeOKH
      <3> QED
        BY <2>1, <3>1, <3>2, <3>3 DEF OfferedSince
    <2>4. before'[t] # NoAnswer =>
             t \in steady /\ key[t] = k /\ before'[t] = answer[t]
      BY <1>1, <1>2 DEF GetH, TypeOKH
    <2>5. before'[t] # NoAnswer => before'[t] \in Right(file[PathOf[k]])
      BY <1>1, <2>4 DEF FineInv, OfferedSteadily, IInv, AnswerWasRight, FileOf
    <2>6. OfferedSteadily'
      BY <1>1, <1>2, <2>1, <2>2, <2>5
      DEF GetH, FineInv, OfferedSteadily, FileOf, TypeOKH
    <2> QED
      BY <2>3, <2>6
  <1>3. ASSUME NEW t \in Threads, ClearCacheH(t)
        PROVE  OfferedSince' /\ OfferedSteadily'
    BY <1>3 DEF ClearCacheH, OfferedSince, OfferedSteadily
  <1>4. ASSUME NEW t \in Threads, InsideH(t)
        PROVE  OfferedSince' /\ OfferedSteadily'
    <2>1. UNCHANGED <<file, key, seen, renewed, fresh, steady, before>>
      BY <1>4 DEF InsideH, Stat, CheckCache, ReadFile, Insert, Return, Goto
    <2> QED
      BY <2>1 DEF FineInv, OfferedSince, OfferedSteadily, FileOf
  <1>5. ASSUME NEW p \in Paths, ChangeH(p)
        PROVE  OfferedSince' /\ OfferedSteadily'
    <2>1. /\ \A q \in Paths \ {p} : file'[q] = file[q] /\ renewed'[q] = renewed[q]
          /\ renewed'[p] = renewed[p] \union Right(file'[p])
          /\ UNCHANGED <<key, fresh, before>>
          /\ steady' = {t \in steady : PathOf[key[t]] # p}
          /\ Witness(p)
      BY <1>1, <1>5 DEF ChangeH, Edit, Chmod, TypeOKH, TypeOK
    <2>2. \A t \in Threads :
             IF PathOf[key[t]] = p THEN seen'[t] \subseteq seen[t] \union Right(file'[p])
                                   ELSE seen'[t] = seen[t]
      BY <2>1 DEF Witness
    <2>3. \A t \in Threads : PathOf[key[t]] \in Paths
      BY <1>1 DEF TypeOK
    <2>4. OfferedSince'
      <3>1. SUFFICES ASSUME NEW t \in fresh
                     PROVE  seen'[t] \subseteq renewed'[PathOf[key[t]]]
        BY <2>1 DEF OfferedSince
      <3>2. t \in Threads /\ seen[t] \subseteq renewed[PathOf[key[t]]]
        BY <1>1 DEF FineInv, OfferedSince, TypeOKH
      <3> QED
        BY <2>1, <2>2, <2>3, <3>2
    <2>5. OfferedSteadily'
      BY <1>1, <2>1, <2>2, <2>3 DEF FineInv, OfferedSteadily, FileOf, TypeOKH
    <2> QED
      BY <2>4, <2>5
  <1>6. CASE UNCHANGED histvars
    BY <1>6 DEF histvars, vars, FineInv, OfferedSince, OfferedSteadily, FileOf
  <1> QED
    BY <1>2, <1>3, <1>4, <1>5, <1>6 DEF NextH

-----------------------------------------------------------------------------
LEMMA SoloInit == InitH => SoloInv
  BY TypeHInit
  DEF InitH, Init, SoloInv, TextsRenewed, FoundAgain, ClearForcesReread, NoEntry

LEMMA SoloNext == Solo /\ SoloInv /\ [NextH]_histvars => SoloInv'
  <1> SUFFICES ASSUME Solo, SoloInv, [NextH]_histvars
               PROVE  SoloInv'
    OBVIOUS
  <1> DEFINE Quiet == \A t \in Threads : pc[t] # "idle" => answer[t] = NoAnswer
             Rest == Quiet /\ TextsRenewed /\ FoundAgain /\ ClearForcesReread
  <1>1. /\ TypeOKH /\ RenewedCurrent /\ TypeOK /\ Rest
        /\ TypeOKH' /\ RenewedCurrent'
    BY TypeHNext DEF SoloInv, TypeOKH
  <1> SUFFICES Rest'
    BY <1>1 DEF SoloInv
  <1> USE RegistryAssumption, DistinctAssumption
  <1>2. ASSUME NEW t \in Threads, NEW k \in Keys, GetH(t, k)
        PROVE  Rest'
    <2>1. /\ pc[t] = "idle" /\ pc'[t] = "stat" /\ answer'[t] = NoAnswer /\ key'[t] = k
          /\ UNCHANGED <<file, cache, renewed>>
      BY <1>1, <1>2 DEF GetH, Get, TypeOK
    <2>2. \A u \in Threads : u = t
      BY DEF Solo
    <2>3. Quiet' /\ TextsRenewed' /\ ClearForcesReread'
      BY <1>1, <2>1, <2>2 DEF TextsRenewed, ClearForcesReread, TypeOKH
    <2>4. before'[t] # NoAnswer =>
             t \in steady /\ key[t] = k /\ before'[t] = answer[t]
      BY <1>1, <1>2 DEF GetH, TypeOKH
    <2>5. before'[t] \in Contents =>
             /\ cache[k].text = before'[t]
             /\ cache[k].mtime = file[PathOf[k]].mtime
      BY <1>1, <2>4 DEF FoundAgain, InCache, FileOf
    <2>6. FoundAgain'
      BY <1>1, <2>1, <2>2, <2>5 DEF FoundAgain, InCache, FileOf, TypeOKH
    <2> QED
      BY <2>3, <2>6
  <1>3. ASSUME NEW t \in Threads, ClearCacheH(t)
        PROVE  Rest'
    <2>1. /\ pc[t] = "idle" /\ UNCHANGED <<pc, answer>>
          /\ fresh' = {} /\ steady' = {} /\ cache' = [k \in Keys |-> NoEntry]
      BY <1>3 DEF ClearCacheH, ClearCache
    <2>2. \A u \in Threads : u = t
      BY DEF Solo
    <2> QED
      BY <1>1, <2>1, <2>2 DEF TextsRenewed, FoundAgain, ClearForcesReread, NoEntry
  <1>4. ASSUME NEW t \in Threads, InsideH(t)
        PROVE  Rest'
    <2>1. UNCHANGED <<file, key, renewed, fresh, steady, before>> /\ PathOf[key[t]] \in Paths
      BY <1>1, <1>4 DEF InsideH, Stat, CheckCache, ReadFile, Insert, Return, Goto, TypeOK
    <2>2. \A u \in Threads : u = t
      BY DEF Solo
    <2>3. /\ pc[t] # "idle" => answer[t] = NoAnswer
          /\ cache[key[t]].text # Absent => cache[key[t]].text \in renewed[PathOf[key[t]]]
          /\ pc[t] = "insert" => text[t] \in renewed[PathOf[key[t]]]
          /\ Right(FileOf(t)) \subseteq renewed[PathOf[key[t]]]
          /\ t \in steady =>
                /\ pc[t] \in {"check", "read", "insert"} => stamp[t] = FileOf(t).mtime
                /\ answer[t] \in Contents => InCache(t, answer[t])
                /\ before[t] \in Contents =>
                      InCache(t, before[t]) /\ pc[t] \notin {"read", "insert"}
          /\ key[t] \in Keys /\ cache[key[t]] \in Entries
          /\ pc[t] = "insert" => text[t] \in Contents
      BY <1>1, <2>1 DEF TextsRenewed, FoundAgain, RenewedCurrent, TypeOK, FileOf
    <2>4. CASE Stat(t)
      <3> USE DEF Stat, Return, Goto
      <3>1. Quiet'
        BY <1>1, <2>2, <2>3, <2>4 DEF TypeOK
      <3>2. TextsRenewed'
        BY <1>1, <2>1, <2>2, <2>3, <2>4 DEF TextsRenewed, TypeOK
      <3>3. FoundAgain'
        BY <1>1, <2>1, <2>2, <2>3, <2>4 DEF FoundAgain, InCache, FileOf, TypeOKH, TypeOK
      <3>4. ClearForcesReread'
        BY <1>1, <2>1, <2>2, <2>3, <2>4 DEF ClearForcesReread, TypeOKH, TypeOK
      <3> QED
        BY <3>1, <3>2, <3>3, <3>4
    <2>5. CASE CheckCache(t)
      <3> USE DEF CheckCache, Return, Goto, Hit, Entries
      <3>1. Quiet'
        BY <1>1, <2>2, <2>3, <2>5 DEF TypeOK
      <3>2. TextsRenewed'
        BY <1>1, <2>1, <2>2, <2>3, <2>5 DEF TextsRenewed, TypeOK
      <3>3. FoundAgain'
        BY <1>1, <2>1, <2>2, <2>3, <2>5 DEF FoundAgain, InCache, FileOf, TypeOKH, TypeOK
      <3>4. ClearForcesReread'
        BY <1>1, <2>1, <2>2, <2>3, <2>5 DEF ClearForcesReread, TypeOKH, TypeOK
      <3> QED
        BY <3>1, <3>2, <3>3, <3>4
    <2>6. CASE ReadFile(t)
      <3> USE DEF ReadFile, Return, Goto, Right
      <3>1. Quiet'
        BY <1>1, <2>2, <2>3, <2>6 DEF TypeOK
      <3>2. TextsRenewed'
        BY <1>1, <2>1, <2>2, <2>3, <2>6 DEF TextsRenewed, TypeOK
      <3>3. FoundAgain'
        BY <1>1, <2>1, <2>2, <2>3, <2>6 DEF FoundAgain, InCache, FileOf, TypeOKH, TypeOK
      <3>4. ClearForcesReread'
        BY <1>1, <2>1, <2>2, <2>3, <2>6 DEF ClearForcesReread, TypeOKH, TypeOK
      <3> QED
        BY <3>1, <3>2, <3>3, <3>4
    <2>7. CASE Insert(t)
      <3> USE DEF Insert, Return
      <3>1. Quiet'
        BY <1>1, <2>2, <2>3, <2>7 DEF TypeOK
      <3>2. TextsRenewed'
        BY <1>1, <2>1, <2>2, <2>3, <2>7 DEF TextsRenewed, TypeOK
      <3>3. FoundAgain'
        BY <1>1, <2>1, <2>2, <2>3, <2>7 DEF FoundAgain, InCache, FileOf, TypeOKH, TypeOK
      <3>4. ClearForcesReread'
        BY <1>1, <2>1, <2>2, <2>3, <2>7 DEF ClearForcesReread, TypeOKH, TypeOK
      <3> QED
        BY <3>1, <3>2, <3>3, <3>4
    <2> QED
      BY <1>4, <2>4, <2>5, <2>6, <2>7 DEF InsideH
  <1>5. ASSUME NEW p \in Paths, ChangeH(p)
        PROVE  Rest'
    <2>1. /\ \A q \in Paths : renewed[q] \subseteq renewed'[q]
          /\ \A q \in Paths \ {p} : file'[q] = file[q]
          /\ UNCHANGED <<cache, pc, key, stamp, text, answer, fresh, before>>
          /\ steady' = {t \in steady : PathOf[key[t]] # p}
      BY <1>1, <1>5 DEF ChangeH, Edit, Chmod, TypeOKH, TypeOK
    <2>2. \A t \in Threads : PathOf[key[t]] \in Paths
      BY <1>1 DEF TypeOK
    <2>3. Quiet' /\ TextsRenewed' /\ ClearForcesReread'
      BY <1>1, <2>1, <2>2 DEF TextsRenewed, ClearForcesReread, TypeOKH
    <2>4. FoundAgain'
      BY <1>1, <2>1, <2>2 DEF FoundAgain, InCache, FileOf, TypeOKH
    <2> QED
      BY <2>3, <2>4
  <1>6. CASE UNCHANGED histvars
    BY <1>1, <1>6 DEF histvars, vars, TextsRenewed, FoundAgain, ClearForcesReread,
                      InCache, FileOf
  <1> QED
    BY <1>2, <1>3, <1>4, <1>5, <1>6 DEF NextH

-----------------------------------------------------------------------------
(* A text returned by a get that was called after clear_cache was in the    *)
(* file then or later: for any threads if no two changes of a file share an *)
(* mtime, and for one thread whatever the mtimes (FsRegistry::clear_cache). *)
THEOREM ForcesReread == ASSUME FineClock \/ Solo PROVE SpecH => []ClearForcesReread
  <1>1. CASE FineClock
    <2>1. FineInv => ClearForcesReread
      BY DistinctAssumption DEF FineInv, OfferedSince, IInv, AnswerWasRight,
                                ClearForcesReread, TypeOKH
    <2>2. FineInv /\ [NextH]_histvars => FineInv'
      BY <1>1, FineNext
    <2> QED
      BY <2>1, <2>2, FineInit, PTL DEF SpecH
  <1>2. CASE Solo
    <2>1. SoloInv => ClearForcesReread
      BY DEF SoloInv
    <2>2. SoloInv /\ [NextH]_histvars => SoloInv'
      BY <1>2, SoloNext
    <2> QED
      BY <2>1, <2>2, SoloInit, PTL DEF SpecH
  <1> QED
    BY <1>1, <1>2

(* Two gets of a key in a row, with nothing changed from the first call on, *)
(* return the same text if they return one, under the same alternatives    *)
(* (FsRegistry::get, as Runner::prepare calls it).                         *)
THEOREM Replays == ASSUME FineClock \/ Solo PROVE SpecH => []Replayable
  <1>1. CASE FineClock
    <2>1. FineInv => Replayable
      <3>1. SUFFICES ASSUME FineInv, NEW t \in steady,
                            before[t] \in Contents, answer[t] \in Contents
                     PROVE  answer[t] = before[t]
        BY DEF Replayable
      <3>2. answer[t] \in Right(FileOf(t)) /\ before[t] \in Right(FileOf(t))
        BY <3>1, DistinctAssumption
        DEF FineInv, OfferedSteadily, IInv, AnswerWasRight, TypeOKH
      <3> QED
        BY <3>1, <3>2, DistinctAssumption DEF Right
    <2>2. FineInv /\ [NextH]_histvars => FineInv'
      BY <1>1, FineNext
    <2> QED
      BY <2>1, <2>2, FineInit, PTL DEF SpecH
  <1>2. CASE Solo
    <2>1. SoloInv => Replayable
      <3>1. SUFFICES ASSUME SoloInv, NEW t \in steady,
                            before[t] \in Contents, answer[t] \in Contents
                     PROVE  answer[t] = before[t]
        BY DEF Replayable
      <3>2. InCache(t, answer[t]) /\ InCache(t, before[t])
        BY <3>1 DEF SoloInv, FoundAgain
      <3> QED
        BY <3>2 DEF InCache
    <2>2. SoloInv /\ [NextH]_histvars => SoloInv'
      BY <1>2, SoloNext
    <2> QED
      BY <2>1, <2>2, SoloInit, PTL DEF SpecH
  <1> QED
    BY <1>1, <1>2
====
