---- MODULE GraphFlow ----
(***************************************************************************)
(* Workflows of graph-flow whose tasks are FormeTasks and FormeLlmTasks.   *)
(* A task calls the Runner they all share, and copies what it returns into *)
(* the workflow's Context, one cell after the other.  A caller drives its  *)
(* workflow one task at a time, and drives the same task again if it fails.*)
(***************************************************************************)
EXTENDS Runner, Sequences

CONSTANTS
    Graph,      \* what a FormeGraphBuilder has built
    NoHistory,  \* the window of a task that was given none
    Canonical,  \* PromptKey::canonical: key -> one text
    Unwritable  \* kinds of task and cells whose context.set may fail

(* The texts of states and events, and of keys. *)
Names == {Display[i] : i \in States \union Events}
Written == {Canonical[k] : k \in Keys}

-----------------------------------------------------------------------------
(* FormeTask::new and FormeLlmTask::new: the state's text for an id, no     *)
(* history, and Next.  Each may be overridden.                             *)
NewTask(state, event) ==
    [kind |-> "prepare", id |-> Display[state],
     call |-> [state |-> state, event |-> event, window |-> NoHistory],
     next |-> [type |-> "Next"]]
NewLlmTask(state, event) == [NewTask(state, event) EXCEPT !.kind = "step"]
WithId(task, id) == [task EXCEPT !.id = id]
WithHistory(task, window) == [task EXCEPT !.call.window = window]
WithNext(task, action) == [task EXCEPT !.next = action]

(* FormeGraphBuilder; the condition of a conditional edge is not looked at. *)
NewGraph == [tasks |-> {}, edges |-> {}, start |-> None]
AddTask(graph, task) == [graph EXCEPT !.tasks = @ \union {task}]
AddEdge(graph, from, to) == [graph EXCEPT !.edges = @ \union {<<from, to>>}]
AddConditionalEdge(graph, from, yes, no) ==
    AddEdge(AddEdge(graph, from, yes), from, no)
SetStartTask(graph, id) == [graph EXCEPT !.start = id]

Ids == {t.id : t \in Graph.tasks}
Task == [i \in Ids |-> CHOOSE t \in Graph.tasks : t.id = i]
After(id) == {i \in Ids : <<id, i>> \in Graph.edges}

(* with_id: "must be unique in graph"; build validates edges and start. *)
ASSUME GraphAssumption ==
    /\ \A t \in Graph.tasks :
          /\ t.kind \in {"prepare", "step"} /\ t.call \in Calls /\ t.next \in Actions
          /\ \A u \in Graph.tasks : t.id = u.id => t = u
    /\ Graph.edges \subseteq Ids \X Ids
    /\ Graph.start \in Ids
    /\ NoHistory \in Windows
    /\ DOMAIN Canonical = Keys
    /\ None \notin Ids \union Keys \union Tools \union Names \union Written
    /\ None \notin PreparedSet /\ None \notin Outputs

Cells ==
    {"prompt", "context", "prompt_key", "tools", "response", "state", "event"}
Contents ==
    [prompt: Prompts \union {None}, context: Contexts \union {None},
     prompt_key: Written \union {None}, tools: Tools \union {None},
     response: Requests \union {None}, state: Names \union {None},
     event: Names \union {None}]

VARIABLES
    at,         \* workflow -> its current task
    status,     \* workflow -> what the caller or the task is doing
    todo,       \* workflow -> cells its task has yet to write
    cells,      \* workflow -> its Context
    prior,      \* workflow -> its latest task that ended well
    last        \* workflow -> how its latest task ended

flow == <<at, status, todo, cells, prior, last>>
allvars == <<vars, flow>>

FlowTypeOK ==
    /\ TypeOK
    /\ at \in [Callers -> Ids]
    /\ status \in [Callers -> {"ready", "awaiting", "writing", "completed"}]
    /\ todo \in [Callers -> Seq(Cells)]
    /\ cells \in [Callers -> Contents]
    /\ prior \in [Callers -> Ids \union {None}]
    /\ last \in [Callers -> {"none", "prepared", "stepped", "failed"}]
    /\ \A w \in Callers :
          /\ status[w] = "awaiting" <=> waiting[w] # None
          /\ todo[w] # <<>> => status[w] = "writing"
          /\ status[w] = "writing" =>
                IF Task[at[w]].kind = "prepare" THEN prepared[w] # None
                                                ELSE output[w] # None

-----------------------------------------------------------------------------
(* From<caulk NextAction> for graph_flow NextAction. *)
ToGraphFlow(action) ==
    CASE action.type \in {"Next", "Continue"} -> [type |-> "Continue"]
      [] action.type \in {"Branch", "Transition"} ->
            [type |-> "GoTo", to |-> Display[action.to]]
      [] action.type = "Halt" -> [type |-> "End"]

Current(w) == Task[at[w]]

(* Mutant of Writes: FormeLlmTask leaves prompt and context to FormeTask. *)
WritesOnce(kind) ==
    IF kind = "prepare"
    THEN <<"prompt", "context", "prompt_key", "tools", "state", "event">>
    ELSE <<"response", "state">>

(* Mutant of Writes: FormeTask records the state first. *)
WritesStateFirst(kind) ==
    IF kind = "prepare"
    THEN <<"state", "event", "prompt", "context", "prompt_key", "tools">>
    ELSE <<"prompt", "context", "response", "state">>

(* What each task writes, in order. *)
Writes(kind) ==
    IF kind = "prepare"
    THEN <<"prompt", "context", "prompt_key", "tools", "state", "event">>
    ELSE <<"prompt", "context", "response", "state">>

(* Mutant of Checked: prompt_key is left to the unlikely errors, too. *)
CheckedButKey(kind) == IF kind = "prepare" THEN {"prompt", "context"} ELSE {}

(* The sets whose error a task returns; it ignores the others'. *)
Checked(kind) ==
    IF kind = "prepare" THEN {"prompt", "context", "prompt_key"} ELSE {}

Value(w, cell) ==
    LET from == IF Current(w).kind = "prepare" THEN prepared[w] ELSE output[w]
    IN  CASE cell = "prompt" -> from.prompt
          [] cell = "context" -> from.context
          [] cell = "prompt_key" -> Canonical[from.key]
          [] cell = "tools" -> from.tools
          [] cell = "response" -> from.reply
          [] cell = "state" -> Display[Current(w).call.state]
          [] cell = "event" -> Display[Current(w).call.event]

FlowInit ==
    /\ Init
    /\ at = [w \in Callers |-> Graph.start]
    /\ status = [w \in Callers |-> "ready"]
    /\ todo = [w \in Callers |-> <<>>]
    /\ cells = [w \in Callers |-> [c \in Cells |-> None]]
    /\ prior = [w \in Callers |-> None]
    /\ last = [w \in Callers |-> "none"]

(* The task returns an error: the workflow stays where it is. *)
Fails(w) ==
    /\ status' = [status EXCEPT ![w] = "ready"]
    /\ todo' = [todo EXCEPT ![w] = <<>>]
    /\ last' = [last EXCEPT ![w] = "failed"]
    /\ UNCHANGED <<at, cells, prior>>

StartsWriting(w) ==
    /\ status' = [status EXCEPT ![w] = "writing"]
    /\ todo' = [todo EXCEPT ![w] = Writes(Current(w).kind)]
    /\ UNCHANGED <<at, cells, prior, last>>

(* FormeTask::run, up to its first context.set. *)
RunPrepare(w) ==
    /\ status[w] = "ready" /\ Current(w).kind = "prepare"
    /\ Prepare(w, Current(w).call)
    /\ \/ PrepareError(Current(w).call) = None /\ StartsWriting(w)
       \/ PrepareError(Current(w).call) # None /\ Fails(w)

(* FormeLlmTask::run, up to its await ... *)
RunStep(w) ==
    /\ status[w] = "ready" /\ Current(w).kind = "step"
    /\ StepCall(w, Current(w).call)
    /\ \/ /\ PrepareError(Current(w).call) = None
          /\ status' = [status EXCEPT ![w] = "awaiting"]
          /\ UNCHANGED <<at, todo, cells, prior, last>>
       \/ PrepareError(Current(w).call) # None /\ Fails(w)

(* ... and after it. *)
Answered(w) ==
    /\ status[w] = "awaiting"
    /\ \/ StepReturn(w) /\ StartsWriting(w)
       \/ (\E e \in Errors : StepFail(w, e)) /\ Fails(w)

(* Mutant of TimesOut: the task runs on after its timeout. *)
TimesOutDetached(w) == status[w] = "awaiting" /\ Fails(w) /\ UNCHANGED vars

(* Mutant of TimesOut: a timeout only begins the wait anew. *)
TimesOutAnew(w) == status[w] = "awaiting" /\ UNCHANGED allvars

(* graph-flow's task timeout drops the future that awaits the model. *)
TimesOut(w) == status[w] = "awaiting" /\ Cancel(w) /\ Fails(w)

(* context.set of the next cell. *)
Write(w) ==
    /\ status[w] = "writing" /\ todo[w] # <<>>
    /\ LET cell == Head(todo[w])
       IN  \/ /\ cells' = [cells EXCEPT ![w][cell] = Value(w, cell)]
              /\ todo' = [todo EXCEPT ![w] = Tail(@)]
              /\ UNCHANGED <<at, status, prior, last>>
           \/ /\ <<Current(w).kind, cell>> \in Unwritable
              /\ cell \in Checked(Current(w).kind)
              /\ Fails(w)
           \/ /\ <<Current(w).kind, cell>> \in Unwritable
              /\ cell \notin Checked(Current(w).kind)
              /\ todo' = [todo EXCEPT ![w] = Tail(@)]
              /\ UNCHANGED <<at, status, cells, prior, last>>
    /\ UNCHANGED vars

(* The task returns, and graph-flow acts on its next action: along an edge  *)
(* (or nowhere, if there is none), to the task named, or to the end.        *)
Finish(w) ==
    /\ status[w] = "writing" /\ todo[w] = <<>>
    /\ LET task == Current(w)
           action == ToGraphFlow(task.next)
           ended == IF task.kind = "prepare" THEN "prepared" ELSE "stepped"
       IN  \/ /\ action.type = "Continue"
              /\ \E t \in IF After(at[w]) = {} THEN {at[w]} ELSE After(at[w]) :
                    at' = [at EXCEPT ![w] = t]
              /\ status' = [status EXCEPT ![w] = "ready"]
              /\ last' = [last EXCEPT ![w] = ended]
              /\ prior' = [prior EXCEPT ![w] = at[w]]
           \/ /\ action.type = "GoTo" /\ action.to \in Ids
              /\ at' = [at EXCEPT ![w] = action.to]
              /\ status' = [status EXCEPT ![w] = "ready"]
              /\ last' = [last EXCEPT ![w] = ended]
              /\ prior' = [prior EXCEPT ![w] = at[w]]
           \/ /\ action.type = "GoTo" /\ action.to \notin Ids
              /\ status' = [status EXCEPT ![w] = "ready"]
              /\ last' = [last EXCEPT ![w] = "failed"]
              /\ UNCHANGED <<at, prior>>
           \/ /\ action.type = "End"
              /\ status' = [status EXCEPT ![w] = "completed"]
              /\ last' = [last EXCEPT ![w] = ended]
              /\ prior' = [prior EXCEPT ![w] = at[w]]
              /\ UNCHANGED at
    /\ UNCHANGED <<vars, todo, cells>>

FlowNext ==
    \/ \E k \in Keys, p \in Prompts \union {Missing, Broken} :
          Publish(k, p) /\ UNCHANGED flow
    \/ \E w \in Callers :
          \/ RunPrepare(w) \/ RunStep(w)
          \/ Answered(w) \/ TimesOut(w)
          \/ Write(w) \/ Finish(w)

(* A task that is running runs on, and its timeout expires; that the model  *)
(* answers, or that the caller drives the workflow, is not assumed.        *)
Fairness ==
    \A w \in Callers :
        WF_allvars(TimesOut(w)) /\ WF_allvars(Write(w)) /\ WF_allvars(Finish(w))

FlowSpec == FlowInit /\ [][FlowNext]_allvars /\ Fairness

-----------------------------------------------------------------------------
(* What a reader of the Context may rely on, of a graph and a context.set of *)
(* which the following is known.                                           *)

(* The cells of a kind of task whose set may fail without a notice. *)
Lost(kind) == {c \in Cells : <<kind, c>> \in Unwritable /\ c \notin Checked(kind)}
AnswerLost == Lost("step") \cap {"prompt", "context", "response"} # {}
MetadataLost == Lost("prepare") \cap {"tools", "state", "event"} # {}

(* Where the next action of the task of an id may lead. *)
Successors(i) ==
    LET action == ToGraphFlow(Task[i].next)
    IN  CASE action.type = "Continue" -> IF After(i) = {} THEN {i} ELSE After(i)
          [] action.type = "GoTo" -> {action.to} \cap Ids
          [] action.type = "End" -> {}

(* An assumption about the graph, which the code neither makes nor checks:  *)
(* a workflow begins with a FormeTask, and a FormeLlmTask, which leaves    *)
(* prompt_key and tools alone, is only reached from tasks of its state.    *)
Paired ==
    /\ Task[Graph.start].kind = "prepare"
    /\ \A i \in Ids : \A j \in Successors(i) :
          Task[j].kind = "step" =>
             Display[Task[j].call.state] = Display[Task[i].call.state]

(* prompt_key and tools are those of the state and the event in the other   *)
(* cells, whatever failed, timed out or was republished, when no task is    *)
(* writing (FormeTask::run, FormeLlmTask::run, in a paired graph).         *)
MetadataOfOneStep ==
    \A w \in Callers : status[w] # "writing" /\ cells[w].state # None =>
        /\ cells[w].prompt_key = Canonical[<<cells[w].state, cells[w].event>>]
        /\ \E s \in States : Display[s] = cells[w].state /\ cells[w].tools = Plan[s]

(* While the latest task is a FormeLlmTask that succeeded, the response is  *)
(* the model's answer to the prompt and the context beside it, even if the *)
(* prompt was republished since its FormeTask (FormeLlmTask::run).         *)
ResponseCurrent ==
    \A w \in Callers : status[w] # "writing" /\ last[w] = "stepped" =>
        cells[w].response =
            Request([prompt |-> cells[w].prompt, context |-> cells[w].context])

(* After a FormeTask, prompt, context and prompt_key are all of its one      *)
(* prepare, in any graph and whatever context.set fails: the errors of     *)
(* these three are not dropped (FormeTask::run).                           *)
PreparationCurrent ==
    \A w \in Callers :
        status[w] \in {"ready", "completed"} /\ last[w] = "prepared" =>
            /\ cells[w].prompt = prepared[w].prompt
            /\ cells[w].context = prepared[w].context
            /\ cells[w].prompt_key = Canonical[prepared[w].key]

(* The key that handle_edge gives for the next action of a task. *)
EdgeKey(i) == HandleEdge(Task[i].next, Task[i].call.state, Task[i].call.event)

(* From i to j the two readings of NextAction keep together: both handle    *)
(* one event, an edge stays in its state, and a state that is gone to is   *)
(* the state of the task that has its text for an id.                      *)
Together(i, j) ==
    LET type == ToGraphFlow(Task[i].next).type
    IN  /\ Display[Task[j].call.event] = Display[Task[i].call.event]
        /\ type = "Continue" => Display[Task[j].call.state] = Display[Task[i].call.state]
        /\ type = "GoTo" => Display[Task[j].call.state] = j

(* The key that handle_edge gives for the latest task that ended well is    *)
(* the key of the task that graph-flow runs next, and runs again if it     *)
(* fails, exactly where the two readings keep together, which no code sees *)
(* to (runtime handle_edge, graph_flow_adapter conversion and with_id).    *)
EdgePredicts ==
    \A w \in Callers : status[w] = "ready" /\ prior[w] # None =>
        (KeyFor(Current(w).call) = EdgeKey(prior[w]) <=> Together(prior[w], at[w]))

(* A run of a task ends, whether or not the model answers (with the task    *)
(* timeout of graph-flow, FormeGraphBuilder::with_task_timeout).           *)
RunEnds ==
    \A w \in Callers :
        status[w] \in {"awaiting", "writing"} ~> status[w] \in {"ready", "completed"}
====
