---- MODULE Checkpointer ----
(***************************************************************************)
(* InMemoryCheckpointer: one Option<S> behind an Arc<RwLock>, shared by    *)
(* every clone of the handle.  save and load take the lock, and clone a    *)
(* state while they hold it; S::clone is the user's code and may panic,    *)
(* which poisons the lock if it happens under the write guard.             *)
(***************************************************************************)
CONSTANTS
    Threads,    \* threads holding a clone of the handle
    States,     \* values of S
    None,       \* Option::None
    Err,        \* FormeError::PersistenceFailed
    Panic,      \* the call unwound
    NoThread    \* nobody holds the write guard

ASSUME CheckpointerAssumption ==
    /\ {None, Err, Panic, "load", "idle", "open"} \intersect States = {}
    /\ {None, "open"} \intersect {Err, Panic} = {}
    /\ Err # Panic /\ None # "open"
    /\ NoThread \notin Threads

VARIABLES
    inner,      \* the Option<S>
    writer,     \* thread that holds the write guard
    readers,    \* threads that hold a read guard
    poisoned,   \* the lock's poison flag
    request,    \* thread -> state it is saving, "load", or "idle"
    outcome     \* thread -> result of its latest call, "open" until known

vars == <<inner, writer, readers, poisoned, request, outcome>>

TypeOK ==
    /\ inner \in States \union {None}
    /\ writer \in Threads \union {NoThread}
    /\ readers \subseteq Threads
    /\ poisoned \in BOOLEAN
    /\ request \in [Threads -> States \union {"load", "idle"}]
    /\ outcome \in [Threads -> States \union {None, Err, Panic, "open"}]

(* new() or with_state(state). *)
Init ==
    /\ inner \in States \union {None}
    /\ writer = NoThread
    /\ readers = {}
    /\ poisoned = FALSE
    /\ request = [t \in Threads |-> "idle"]
    /\ outcome = [t \in Threads |-> "open"]

Call(t, r) ==
    /\ request[t] = "idle"
    /\ request' = [request EXCEPT ![t] = r]
    /\ outcome' = [outcome EXCEPT ![t] = "open"]
    /\ UNCHANGED <<inner, writer, readers, poisoned>>

(* The call is under way and does not hold a guard yet. *)
Waiting(t) ==
    /\ request[t] # "idle" /\ outcome[t] = "open"
    /\ writer # t /\ t \notin readers

(* Mutant of LockWrite: it does not wait for the readers. *)
LockWriteAmongReaders(t) ==
    /\ Waiting(t) /\ request[t] \in States
    /\ writer = NoThread
    /\ \/ poisoned /\ outcome' = [outcome EXCEPT ![t] = Err] /\ UNCHANGED writer
       \/ ~poisoned /\ writer' = t /\ UNCHANGED outcome
    /\ UNCHANGED <<inner, readers, poisoned, request>>

(* self.inner.write() once no guard is out; a poisoned lock hands over an   *)
(* error, and the guard inside it is dropped at once.                      *)
LockWrite(t) ==
    /\ Waiting(t) /\ request[t] \in States
    /\ writer = NoThread /\ readers = {}
    /\ \/ poisoned /\ outcome' = [outcome EXCEPT ![t] = Err] /\ UNCHANGED writer
       \/ ~poisoned /\ writer' = t /\ UNCHANGED outcome
    /\ UNCHANGED <<inner, readers, poisoned, request>>

(* Mutant of Store: guard.get_or_insert(state.clone()). *)
StoreOnce(t) ==
    /\ writer = t
    /\ inner' = IF inner = None THEN request[t] ELSE inner
    /\ writer' = NoThread
    /\ outcome' = [outcome EXCEPT ![t] = request[t]]
    /\ UNCHANGED <<readers, poisoned, request>>

(* *guard = Some(state.clone()), and the guard is dropped. *)
Store(t) ==
    /\ writer = t
    /\ inner' = request[t]
    /\ writer' = NoThread
    /\ outcome' = [outcome EXCEPT ![t] = request[t]]
    /\ UNCHANGED <<readers, poisoned, request>>

(* Mutant of StorePanics: clone_from, in place, leaves half a state. *)
StorePanicsHalfway(t) ==
    /\ writer = t
    /\ inner' = Panic
    /\ writer' = NoThread
    /\ poisoned' = TRUE
    /\ outcome' = [outcome EXCEPT ![t] = Panic]
    /\ UNCHANGED <<readers, request>>

(* state.clone() panics before the assignment; unwinding drops the guard. *)
StorePanics(t) ==
    /\ writer = t
    /\ writer' = NoThread
    /\ poisoned' = TRUE
    /\ outcome' = [outcome EXCEPT ![t] = Panic]
    /\ UNCHANGED <<inner, readers, request>>

(* Mutant of LockRead: try_read, which fails while a writer is in. *)
LockReadTries(t) ==
    /\ Waiting(t) /\ request[t] = "load"
    /\ \/ /\ poisoned \/ writer # NoThread
          /\ outcome' = [outcome EXCEPT ![t] = Err] /\ UNCHANGED readers
       \/ /\ ~poisoned /\ writer = NoThread
          /\ readers' = readers \union {t} /\ UNCHANGED outcome
    /\ UNCHANGED <<inner, writer, poisoned, request>>

(* Mutant of LockRead: the guard is taken out of the poison error. *)
LockReadRecovers(t) ==
    /\ Waiting(t) /\ request[t] = "load"
    /\ writer = NoThread
    /\ readers' = readers \union {t}
    /\ UNCHANGED <<inner, writer, poisoned, request, outcome>>

(* self.inner.read() once no write guard is out. *)
LockRead(t) ==
    /\ Waiting(t) /\ request[t] = "load"
    /\ writer = NoThread
    /\ \/ poisoned /\ outcome' = [outcome EXCEPT ![t] = Err] /\ UNCHANGED readers
       \/ ~poisoned /\ readers' = readers \union {t} /\ UNCHANGED outcome
    /\ UNCHANGED <<inner, writer, poisoned, request>>

(* guard.clone(); a panic under a read guard poisons nothing. *)
Fetch(t) ==
    /\ t \in readers
    /\ readers' = readers \ {t}
    /\ \/ outcome' = [outcome EXCEPT ![t] = inner]
       \/ inner # None /\ outcome' = [outcome EXCEPT ![t] = Panic]
    /\ UNCHANGED <<inner, writer, poisoned, request>>

Return(t) ==
    /\ request[t] # "idle" /\ outcome[t] # "open"
    /\ request' = [request EXCEPT ![t] = "idle"]
    /\ UNCHANGED <<inner, writer, readers, poisoned, outcome>>

Next == \E t \in Threads :
    \/ \E r \in States \union {"load"} : Call(t, r)
    \/ LockWrite(t) \/ Store(t) \/ StorePanics(t)
    \/ LockRead(t) \/ Fetch(t)
    \/ Return(t)

Spec == Init /\ [][Next]_vars

-----------------------------------------------------------------------------
(* Guards and calls match, and a writer works alone on a healthy lock: what *)
(* save does between lock and drop cannot interleave with a load.          *)
GuardsExclusive ==
    /\ \A t \in readers : request[t] = "load" /\ outcome[t] = "open"
    /\ writer # NoThread =>
          request[writer] \in States /\ outcome[writer] = "open" /\ readers = {}
    /\ poisoned => writer = NoThread /\ readers = {}

(* "errors only arise from poisoned locks": a call that merely had to wait  *)
(* for another one does not fail (persistence InMemoryCheckpointer).       *)
ErrorsMeanPoison ==
    \A t \in Threads : outcome[t] = Err => poisoned

(* One panic in a save retires the checkpoint for good: the last state that *)
(* was saved stays in the slot, the lock stays poisoned, and whatever call *)
(* finishes after the panic, save or load, fails.                          *)
PoisonIsFinal ==
    [][poisoned =>
         /\ poisoned' /\ inner' = inner
         /\ \A t \in Threads :
               outcome'[t] # outcome[t] => outcome'[t] \in {"open", Err}]_vars

IInv == TypeOK /\ GuardsExclusive /\ ErrorsMeanPoison

-----------------------------------------------------------------------------
(* Every clone of the handle sees one linearizable slot.                   *)
Shared == INSTANCE Register WITH slot <- inner, Failures <- {Err, Panic}

ImplementsRegister == Shared!Spec
====
