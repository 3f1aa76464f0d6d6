---- MODULE QaRunner ----
(***************************************************************************)
(* qa_runner: loads a log of entries, runs four checks, each to its end    *)
(* whatever the others found, and exits with 0 if none failed.  Files are  *)
(* looked for in several places and do not change while it runs.           *)
(***************************************************************************)
EXTENDS Integers, Sequences

CONSTANTS
    Entries,    \* (state, event) pairs a log may have
    Registered, \* entries whose key make_registry holds
    Logs,       \* non-empty logs a file may hold
    Fallback,   \* the in-memory log
    Absent, Unreadable, Unparsable, \* instead of a file's contents
    None

(* The candidate paths, in order; the first two are the same file. *)
Places == {"tests", "caulk"}
Candidates == <<"tests", "tests", "caulk">>

Unusable == {Absent, Unreadable}
LogFiles == Unusable \union {Unparsable, <<>>} \union Logs
(* Contents of a snapshot: text with one of the words looked for, or        *)
(* without but of more than 50 bytes, of at most 50, or of at most 10.     *)
Snapshots == Unusable \union {"worded", "long", "short", "tiny"}

ASSUME QaAssumption ==
    /\ Registered \subseteq Entries
    /\ Logs \subseteq Seq(Entries) \ {<<>>}
    /\ Fallback \in Seq(Entries) \ {<<>>}
    /\ {Absent, Unreadable, Unparsable} \intersect Logs = {}
    /\ None \notin Snapshots

VARIABLES
    logs,       \* place -> log file
    snapshots,  \* place -> snapshot file
    pc,         \* what main is at
    i,          \* index into the candidates or into the log
    log,        \* the log that was loaded
    ok,         \* no entry failed the current check
    passed, failed,
    exit        \* the exit code

env == <<logs, snapshots>>
vars == <<logs, snapshots, pc, i, log, ok, passed, failed, exit>>

Stages == {"load", "prompt_found", "policy_deny", "replay", "snapshot", "overall", "done"}

TypeOK ==
    /\ logs \in [Places -> LogFiles]
    /\ snapshots \in [Places -> Snapshots]
    /\ pc \in Stages
    /\ i \in 1..(Len(log) + Len(Candidates) + 1)
    /\ log \in Logs \union (IF pc = "load" THEN {<<>>} ELSE {Fallback})
    /\ ok \in BOOLEAN
    /\ passed \in 0..4 /\ failed \in 0..4
    /\ exit \in {0, 1, None}

-----------------------------------------------------------------------------
Init ==
    /\ logs \in [Places -> LogFiles]
    /\ snapshots \in [Places -> Snapshots]
    /\ pc = "load" /\ i = 1 /\ log = <<>> /\ ok = TRUE
    /\ passed = 0 /\ failed = 0 /\ exit = None

(* A check ends: it is counted, and the next one begins. *)
Count(result, next) ==
    /\ passed' = passed + (IF result THEN 1 ELSE 0)
    /\ failed' = failed + (IF result THEN 0 ELSE 1)
    /\ pc' = next /\ i' = 1 /\ ok' = TRUE
    /\ UNCHANGED <<env, log, exit>>

(* Mutant of Load: a file that cannot be used is tried again. *)
LoadRetries ==
    /\ pc = "load" /\ i <= Len(Candidates)
    /\ logs[Candidates[i]] \in Logs
    /\ log' = logs[Candidates[i]] /\ pc' = "prompt_found" /\ i' = 1
    /\ UNCHANGED <<env, ok, passed, failed, exit>>

(* Mutant of Load: an empty log is a log. *)
LoadEmpty ==
    /\ pc = "load" /\ i <= Len(Candidates)
    /\ LET file == logs[Candidates[i]]
       IN  \/ /\ file \in Logs \union {<<>>}
              /\ log' = file /\ pc' = "prompt_found" /\ i' = 1
           \/ /\ file \notin Logs \union {<<>>}
              /\ i' = i + 1 /\ UNCHANGED <<log, pc>>
    /\ UNCHANGED <<env, ok, passed, failed, exit>>

(* load_event_log: one candidate ... *)
Load ==
    /\ pc = "load" /\ i <= Len(Candidates)
    /\ LET file == logs[Candidates[i]]
       IN  \/ /\ file \in Logs
              /\ log' = file /\ pc' = "prompt_found" /\ i' = 1
           \/ /\ file \notin Logs
              /\ i' = i + 1 /\ UNCHANGED <<log, pc>>
    /\ UNCHANGED <<env, ok, passed, failed, exit>>

(* ... and none of them any good. *)
LoadFallback ==
    /\ pc = "load" /\ i > Len(Candidates)
    /\ log' = Fallback /\ pc' = "prompt_found" /\ i' = 1
    /\ UNCHANGED <<env, ok, passed, failed, exit>>

(* Mutant of PromptFound: the last entry decides. *)
PromptFoundLast ==
    /\ pc = "prompt_found"
    /\ \/ /\ i <= Len(log)
          /\ ok' = (log[i] \in Registered)
          /\ i' = i + 1
          /\ UNCHANGED <<env, pc, log, passed, failed, exit>>
       \/ i > Len(log) /\ Count(ok, "policy_deny")

(* Check 1: get and prepare find a prompt for each entry. *)
PromptFound ==
    /\ pc = "prompt_found"
    /\ \/ /\ i <= Len(log)
          /\ ok' = (ok /\ log[i] \in Registered)
          /\ i' = i + 1
          /\ UNCHANGED <<env, pc, log, passed, failed, exit>>
       \/ i > Len(log) /\ Count(ok, "policy_deny")

(* Check 2: of read, write and refund, an allow list of the first two       *)
(* denies refund and allows read, and AllowAllPolicy allows refund.        *)
ReadWrite == INSTANCE Policy WITH
    Tools <- {"read", "write", "refund"}, States <- {"Greeting"}, MaxLen <- 2,
    kind <- "allow_list", given <- <<"read", "write">>, rest <- <<>>,
    set <- {"read", "write"}, list <- <<"read", "write">>, table <- <<>>
All == INSTANCE Policy WITH
    Tools <- {"read", "write", "refund"}, States <- {"Greeting"}, MaxLen <- 0,
    kind <- "allow_all", given <- <<>>, rest <- <<>>, set <- {}, list <- <<>>,
    table <- <<>>

PolicyDeny ==
    /\ pc = "policy_deny"
    /\ Count(/\ ~ReadWrite!Check("Greeting", "refund")
             /\ ReadWrite!Check("Greeting", "read")
             /\ All!Check("Greeting", "refund"), "replay")

(* Check 3: two prepares, then two steps, agree, in error or not.  They do: *)
(* the registry, the builder, the policy and the canned reply are fixed.   *)
Replay ==
    /\ pc = "replay"
    /\ \/ /\ i <= Len(log)
          /\ i' = i + 1
          /\ UNCHANGED <<env, pc, log, ok, passed, failed, exit>>
       \/ i > Len(log) /\ Count(ok, "snapshot")

(* The first snapshot that can be read, if there is one. *)
Found ==
    LET readable == {k \in DOMAIN Candidates : snapshots[Candidates[k]] \notin Unusable}
    IN  IF readable = {} THEN None
        ELSE snapshots[Candidates[CHOOSE k \in readable : \A j \in readable : k <= j]]

Plausible(content) == content \in {"worded", "long"}

(* Check 4: a snapshot that looks like one, or none at all. *)
Snapshot ==
    /\ pc = "snapshot"
    /\ Count(Found = None \/ Plausible(Found), "overall")

Overall ==
    /\ pc = "overall"
    /\ exit' = IF failed = 0 THEN 0 ELSE 1
    /\ pc' = "done"
    /\ UNCHANGED <<env, i, log, ok, passed, failed>>

Next ==
    \/ Load \/ LoadFallback
    \/ PromptFound \/ PolicyDeny \/ Replay \/ Snapshot
    \/ Overall

(* A program of one thread: it runs until it exits. *)
Spec == Init /\ [][Next]_vars /\ WF_vars(Next)

-----------------------------------------------------------------------------
(* The exit code tells whether the log and the snapshot in use are good:    *)
(* one bad entry anywhere in the log, or a bad snapshot behind a file that  *)
(* cannot be read, is enough for 1, and a failed check does not keep the    *)
(* later ones from being run (qa_runner main).                             *)
ExitTells ==
    exit # None =>
        /\ passed + failed = 4
        /\ exit = 0 <=> /\ \A k \in DOMAIN log : log[k] \in Registered
                        /\ \/ \A p \in Places : snapshots[p] \in Unusable
                           \/ Plausible(Found)

(* It exits, with whatever files (qa_runner main, load_event_log). *)
Exits == <>(exit # None)
====
