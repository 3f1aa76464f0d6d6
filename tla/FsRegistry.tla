---- MODULE FsRegistry ----
(***************************************************************************)
(* FsRegistry: prompts read from root/<state>/<event>.md through a cache   *)
(* keyed by PromptKey and validated by modification time.  get is not one  *)
(* step: it stats the file, looks in the cache under the read lock, reads  *)
(* the file, and inserts under the write lock, and other threads and the   *)
(* authors of the files act in between.                                    *)
(***************************************************************************)
EXTENDS Naturals

CONSTANTS
    Threads,    \* threads that share the registry
    Keys,       \* prompt keys
    Paths,      \* files under the root
    PathOf,     \* path_for_key; two keys may share a path ("a/b" x "c")
    Contents,   \* texts a file may hold
    Absent,     \* body of a file that does not exist; also: no text
    Garbled,    \* body that is not UTF-8
    NotFound,   \* FormeError::RegistryNotFound
    Failed,     \* FormeError::PersistenceFailed
    NoAnswer,   \* the get has not returned
    FineClock,  \* TRUE: two changes of a file never get the same mtime
    MaxClock    \* bound on the file system's clock

ASSUME RegistryAssumption ==
    /\ Keys # {}
    /\ PathOf \in [Keys -> Paths]
    /\ FineClock \in BOOLEAN
    /\ MaxClock \in Nat

ASSUME DistinctAssumption ==
    /\ {Absent, Garbled, NotFound, Failed, NoAnswer} \intersect Contents = {}
    /\ Absent # Garbled
    /\ NotFound # Failed
    /\ NoAnswer \notin {NotFound, Failed}

VARIABLES
    clock,      \* file system time, the latest mtime handed out
    file,       \* path -> body, mtime and access rights
    cache,      \* key -> text and the mtime it was stored under
    pc,         \* thread -> where its get is
    key,        \* thread -> key of its latest get
    stamp,      \* thread -> mtime its get read from the metadata
    text,       \* thread -> content its get read from the file
    answer,     \* thread -> what its latest get returned
    seen        \* history: thread -> answers that were right since its call

vars == <<clock, file, cache, pc, key, stamp, text, answer, seen>>

Bodies == Contents \union {Absent, Garbled}
Access == {"ok", "noread", "nostat"}
Files == [body: Bodies, mtime: Nat, access: Access]
Entries == [text: Contents \union {Absent}, mtime: Nat]
Answers == Contents \union {NotFound, Failed}

NoEntry == [text |-> Absent, mtime |-> 0]

TypeOK ==
    /\ clock \in Nat
    /\ file \in [Paths -> Files]
    /\ cache \in [Keys -> Entries]
    /\ pc \in [Threads -> {"idle", "stat", "check", "read", "insert"}]
    /\ key \in [Threads -> Keys]
    /\ stamp \in [Threads -> Nat]
    /\ text \in [Threads -> Contents \union {Absent}]
    /\ answer \in [Threads -> Answers \union {NoAnswer}]
    /\ seen \in [Threads -> SUBSET Answers]
    /\ \A t \in Threads : pc[t] = "insert" => text[t] \in Contents

-----------------------------------------------------------------------------
(* What a get may rightly answer about a file in state f.  An unreadable    *)
(* file still has its text: permissions do not change the mtime, so the     *)
(* cache may go on serving what was read before.                            *)
Right(f) ==
    IF f.access = "nostat" THEN {Failed}
    ELSE IF f.body = Absent THEN {NotFound}
    ELSE IF f.body = Garbled THEN {Failed}
    ELSE IF f.access = "noread" THEN {f.body, Failed} ELSE {f.body}

FileOf(t) == file[PathOf[key[t]]]

Init ==
    /\ clock = 0
    /\ file \in [Paths -> [body: Bodies, mtime: {0}, access: {"ok"}]]
    /\ cache = [k \in Keys |-> NoEntry]
    /\ pc = [t \in Threads |-> "idle"]
    /\ key = [t \in Threads |-> CHOOSE k \in Keys : TRUE]
    /\ stamp = [t \in Threads |-> 0]
    /\ text = [t \in Threads |-> Absent]
    /\ answer = [t \in Threads |-> NoAnswer]
    /\ seen = [t \in Threads |-> {}]

(* get(key) is called; the path is computed, nothing is read yet. *)
Get(t, k) ==
    /\ pc[t] = "idle"
    /\ pc' = [pc EXCEPT ![t] = "stat"]
    /\ key' = [key EXCEPT ![t] = k]
    /\ stamp' = [stamp EXCEPT ![t] = 0]
    /\ text' = [text EXCEPT ![t] = Absent]
    /\ answer' = [answer EXCEPT ![t] = NoAnswer]
    /\ seen' = [seen EXCEPT ![t] = Right(file[PathOf[k]])]
    /\ UNCHANGED <<clock, file, cache>>

Return(t, a) ==
    /\ pc' = [pc EXCEPT ![t] = "idle"]
    /\ answer' = [answer EXCEPT ![t] = a]
    /\ UNCHANGED <<clock, file, key, seen>>

Goto(t, label) ==
    /\ pc' = [pc EXCEPT ![t] = label]
    /\ UNCHANGED <<clock, file, cache, key, answer, seen>>

(* fs::metadata, and the mtime that the rest of the get goes by. *)
Stat(t) ==
    /\ pc[t] = "stat"
    /\ \/ /\ FileOf(t).access = "nostat"
          /\ Return(t, Failed) /\ UNCHANGED <<cache, stamp, text>>
       \/ /\ FileOf(t).access # "nostat" /\ FileOf(t).body = Absent
          /\ Return(t, NotFound) /\ UNCHANGED <<cache, stamp, text>>
       \/ /\ FileOf(t).access # "nostat" /\ FileOf(t).body # Absent
          /\ stamp' = [stamp EXCEPT ![t] = FileOf(t).mtime]
          /\ Goto(t, "check") /\ UNCHANGED text

(* Mutant of Hit: an entry answers whatever its mtime. *)
HitAnyAge(t) == cache[key[t]].text # Absent

(* The entry of the thread's key answers a get that saw the same mtime. *)
Hit(t) ==
    /\ cache[key[t]].text # Absent
    /\ cache[key[t]].mtime = stamp[t]

(* Mutant of CheckCache: a stale entry gets the new mtime, not the new text. *)
CheckCacheTouches(t) ==
    /\ pc[t] = "check"
    /\ \/ Hit(t) /\ Return(t, cache[key[t]].text) /\ UNCHANGED <<cache, text>>
       \/ /\ ~Hit(t) /\ cache[key[t]].text # Absent
          /\ text' = [text EXCEPT ![t] = cache[key[t]].text]
          /\ Goto(t, "insert")
       \/ ~Hit(t) /\ cache[key[t]].text = Absent /\ Goto(t, "read") /\ UNCHANGED text
    /\ UNCHANGED stamp

CheckCache(t) ==
    /\ pc[t] = "check"
    /\ \/ Hit(t) /\ Return(t, cache[key[t]].text) /\ UNCHANGED cache
       \/ ~Hit(t) /\ Goto(t, "read")
    /\ UNCHANGED <<stamp, text>>

(* Mutant of ReadFile: the file is read lossily, whatever its bytes. *)
ReadFileLossy(t) ==
    /\ pc[t] = "read"
    /\ \/ /\ FileOf(t).access # "ok" \/ FileOf(t).body = Absent
          /\ Return(t, Failed) /\ UNCHANGED <<cache, text>>
       \/ /\ FileOf(t).access = "ok" /\ FileOf(t).body # Absent
          /\ text' = [text EXCEPT ![t] = FileOf(t).body]
          /\ Goto(t, "insert")
    /\ UNCHANGED stamp

(* Mutant of ReadFile: a file that is gone is answered for by the cache. *)
ReadFileFallsBack(t) ==
    /\ pc[t] = "read"
    /\ LET f == FileOf(t)
           kept == cache[key[t]].text
       IN  \/ /\ f.access # "nostat" /\ f.body = Absent
              /\ Return(t, IF kept # Absent THEN kept ELSE NotFound)
              /\ UNCHANGED <<cache, text>>
           \/ /\ \/ f.access = "nostat" \/ f.body = Garbled
                 \/ f.access = "noread" /\ f.body # Absent
              /\ Return(t, Failed) /\ UNCHANGED <<cache, text>>
           \/ /\ f.access = "ok" /\ f.body \in Contents
              /\ text' = [text EXCEPT ![t] = f.body]
              /\ Goto(t, "insert")
    /\ UNCHANGED stamp

(* fs::read_to_string, which fails on a file without UTF-8 or permission. *)
ReadFile(t) ==
    /\ pc[t] = "read"
    /\ \/ /\ FileOf(t).access # "nostat" /\ FileOf(t).body = Absent
          /\ Return(t, NotFound) /\ UNCHANGED <<cache, text>>
       \/ /\ \/ FileOf(t).access = "nostat"
             \/ FileOf(t).body = Garbled
             \/ FileOf(t).access = "noread" /\ FileOf(t).body # Absent
          /\ Return(t, Failed) /\ UNCHANGED <<cache, text>>
       \/ /\ FileOf(t).access = "ok" /\ FileOf(t).body \in Contents
          /\ text' = [text EXCEPT ![t] = FileOf(t).body]
          /\ Goto(t, "insert")
    /\ UNCHANGED stamp

(* Mutant of Insert: the file is stat'ed after it was read. *)
InsertLateStat(t) ==
    /\ pc[t] = "insert"
    /\ cache' = [cache EXCEPT ![key[t]] = [text |-> text[t], mtime |-> FileOf(t).mtime]]
    /\ Return(t, text[t])
    /\ UNCHANGED <<stamp, text>>

(* Mutant of Insert: the get is answered with the entry it replaces. *)
InsertAnswersOld(t) ==
    /\ pc[t] = "insert"
    /\ cache' = [cache EXCEPT ![key[t]] = [text |-> text[t], mtime |-> stamp[t]]]
    /\ Return(t, IF cache[key[t]].text = Absent THEN text[t] ELSE cache[key[t]].text)
    /\ UNCHANGED <<stamp, text>>

(* The text goes into the cache under the mtime of the earlier stat. *)
Insert(t) ==
    /\ pc[t] = "insert"
    /\ cache' = [cache EXCEPT ![key[t]] = [text |-> text[t], mtime |-> stamp[t]]]
    /\ Return(t, text[t])
    /\ UNCHANGED <<stamp, text>>

(* Mutant of ClearCache: entries are marked stale by mtime UNIX_EPOCH. *)
ClearCacheStamps(t) ==
    /\ pc[t] = "idle"
    /\ cache' = [k \in Keys |-> [cache[k] EXCEPT !.mtime = 0]]
    /\ UNCHANGED <<clock, file, pc, key, stamp, text, answer, seen>>

(* clear_cache, called by a thread that is not inside a get. *)
ClearCache(t) ==
    /\ pc[t] = "idle"
    /\ cache' = [k \in Keys |-> NoEntry]
    /\ UNCHANGED <<clock, file, pc, key, stamp, text, answer, seen>>

(* The gets under way on p may answer for its new state as well. *)
Witness(p) ==
    seen' = [t \in Threads |->
               IF pc[t] # "idle" /\ PathOf[key[t]] = p
               THEN seen[t] \union Right(file'[p])
               ELSE seen[t]]

(* Someone writes, creates or removes the file.  On a coarse clock the new  *)
(* mtime may be the one the file already had.                               *)
Edit(p, b) ==
    /\ clock' \in {clock, clock + 1}
    /\ clock' <= MaxClock
    /\ FineClock => clock' = clock + 1
    /\ file' = [file EXCEPT ![p].body = b, ![p].mtime = clock']
    /\ Witness(p)
    /\ UNCHANGED <<cache, pc, key, stamp, text, answer>>

(* Someone changes the permissions, which leaves the mtime alone. *)
Chmod(p, a) ==
    /\ file[p].access # a
    /\ file' = [file EXCEPT ![p].access = a]
    /\ Witness(p)
    /\ UNCHANGED <<clock, cache, pc, key, stamp, text, answer>>

Step(t) ==
    \/ \E k \in Keys : Get(t, k)
    \/ Stat(t)
    \/ CheckCache(t)
    \/ ReadFile(t)
    \/ Insert(t)
    \/ ClearCache(t)

Environment ==
    \/ \E p \in Paths, b \in Bodies : Edit(p, b)
    \/ \E p \in Paths, a \in Access : Chmod(p, a)

Next == (\E t \in Threads : Step(t)) \/ Environment

Spec == Init /\ [][Next]_vars

-----------------------------------------------------------------------------
(* An entry that the next get would use holds what the file holds: no      *)
(* interleaving of stat, read and insert leaves a superseded text under    *)
(* the mtime of the text that superseded it (prompt_registry get).         *)
CacheCoherent ==
    \A k \in Keys :
        /\ cache[k].text # Absent
        /\ cache[k].mtime = file[PathOf[k]].mtime
        => cache[k].text = file[PathOf[k]].body

(* A get answers with a text, "not found" or "failed" that was right at    *)
(* some instant between its call and its return, cached or not.            *)
AnswerWasRight ==
    \A t \in Threads : answer[t] # NoAnswer => answer[t] \in seen[t]

-----------------------------------------------------------------------------
(* The inductive invariant behind both, on a fine clock.                   *)

(* No mtime in use is ahead of the file system's clock. *)
StampsPast ==
    /\ \A p \in Paths : file[p].mtime <= clock
    /\ \A k \in Keys : cache[k].mtime <= clock
    /\ \A t \in Threads : stamp[t] <= clock

(* What a file offers now, every get under way on it has been offered. *)
SeenCurrent ==
    \A t \in Threads : pc[t] # "idle" => Right(FileOf(t)) \subseteq seen[t]

(* A text on its way into the cache is right for its get, and coherent if  *)
(* the file still has the mtime it will be stored under.                   *)
PendingCoherent ==
    \A t \in Threads : pc[t] = "insert" =>
        /\ text[t] \in seen[t]
        /\ stamp[t] = FileOf(t).mtime => text[t] = FileOf(t).body

(* A get that could be answered by an entry, present or on its way, would  *)
(* be answered rightly.                                                    *)
HitsRight ==
    \A t \in Threads : pc[t] = "check" =>
        /\ Hit(t) => cache[key[t]].text \in seen[t]
        /\ \A u \in Threads :
              pc[u] = "insert" /\ key[u] = key[t] /\ stamp[u] = stamp[t]
              => text[u] \in seen[t]

IInv ==
    /\ TypeOK
    /\ StampsPast
    /\ SeenCurrent
    /\ CacheCoherent
    /\ PendingCoherent
    /\ HitsRight
    /\ AnswerWasRight

-----------------------------------------------------------------------------
(* The registry implements a source of prompts without a cache.            *)
Source == INSTANCE PromptSource WITH
    offers <- [p \in Paths |-> Right(file[p])],
    busy <- {t \in Threads : pc[t] # "idle"}

ImplementsSource == Source!Spec
====
