---- MODULE Runner ----
(***************************************************************************)
(* Runner: prepare resolves a prompt, builds a context and takes a snapshot*)
(* of the tools a state allows; step also sends prompt and context to a    *)
(* model and awaits the reply.  Callers share the runner, prompts are      *)
(* republished while they wait, and a caller may give up waiting.          *)
(*                                                                         *)
(* The registry is a PromptSource: get takes effect at one instant.        *)
(***************************************************************************)
CONSTANTS
    Callers,    \* tasks that call the runner
    States, Events,
    Display,    \* state or event -> its text; texts need not be distinct
    Windows,    \* history windows a caller may pass
    Prompts,    \* prompt texts
    Build,      \* ContextBuilder: [event, window] -> context
    Plan,       \* Policy::allowed: state -> the tools it lists
    Adapters,   \* the LlmAdapters a runner may have
    Empty,      \* a context of white space, or no preamble
    Missing,    \* no prompt for the key: RegistryNotFound
    Broken,     \* the prompt cannot be read: PersistenceFailed
    Unbuildable,\* the builder fails: ContextBuildFailed
    None

(* PromptKey: two texts. *)
Keys == {<<Display[s], Display[e]>> : s \in States, e \in Events}
Calls == [state: States, event: Events, window: Windows]
Contexts == {Build[i] : i \in Events \X Windows} \ {Unbuildable}
Tools == {Plan[s] : s \in States}

Requests ==
    [preamble: Prompts \union {Empty}, user: Prompts \union Contexts]
Errors ==
    {"RegistryNotFound", "PersistenceFailed", "ContextBuildFailed", "LlmFailed"}

(* NextAction *)
Actions ==
    [type: {"Next", "Continue", "Halt"}]
    \union [type: {"Branch", "Transition"}, to: States]

ASSUME RunnerAssumption ==
    /\ States \union Events \subseteq DOMAIN Display
    /\ DOMAIN Build = Events \X Windows
    /\ DOMAIN Plan = States
    /\ Adapters \subseteq {"model", "closure", "agent", "factory"}
    /\ {Empty, Missing, Broken, None} \intersect Prompts = {}
    /\ {Unbuildable, None} \intersect (Prompts \union {Empty}) = {}
    /\ None \notin Contexts \union Errors \union Requests
    /\ Missing # Broken

PreparedSet ==
    [call: Calls, key: Keys, prompt: Prompts, context: Contexts, tools: Tools]
(* The reply is the model's answer to a request; the request stands for it. *)
Outputs ==
    [next: States, key: Keys, prompt: Prompts, context: Contexts,
     tools: Tools, reply: Requests]

VARIABLES
    adapter,    \* the runner's llm
    prompts,    \* what the registry offers for each key
    waiting,    \* caller -> what its step prepared, while it awaits the model
    sent,       \* caller -> request its latest step sent to the provider
    error,      \* caller -> error of its latest call
    prepared,   \* caller -> Prepared, if its latest call was a prepare
    output      \* caller -> StepOutput of its latest step

vars == <<adapter, prompts, waiting, sent, error, prepared, output>>

TypeOK ==
    /\ adapter \in Adapters
    /\ prompts \in [Keys -> Prompts \union {Missing, Broken}]
    /\ waiting \in [Callers -> PreparedSet \union {None}]
    /\ sent \in [Callers -> Requests \union {None}]
    /\ error \in [Callers -> Errors \union {None}]
    /\ prepared \in [Callers -> PreparedSet \union {None}]
    /\ output \in [Callers -> Outputs \union {None}]
    /\ \A c \in Callers : waiting[c] # None => sent[c] # None

-----------------------------------------------------------------------------
(* PromptKey::key_for *)
KeyFor(call) == <<Display[call.state], Display[call.event]>>

(* Mutant of HandleEdge: a branch is taken for staying. *)
HandleEdgeBranchStays(action, state, event) ==
    IF action.type = "Transition"
    THEN <<Display[action.to], Display[event]>>
    ELSE <<Display[state], Display[event]>>

(* Runner::handle_edge: the key of the prompt after an edge. *)
HandleEdge(action, state, event) ==
    IF action.type \in {"Branch", "Transition"}
    THEN <<Display[action.to], Display[event]>>
    ELSE <<Display[state], Display[event]>>

ContextOf(call) == Build[<<call.event, call.window>>]

(* Mutant of PrepareError: the builder's error is dropped. *)
PrepareErrorUnbuilt(call) ==
    CASE prompts[KeyFor(call)] = Missing -> "RegistryNotFound"
      [] prompts[KeyFor(call)] = Broken -> "PersistenceFailed"
      [] OTHER -> None

(* The error prepare returns, None if it succeeds; the registry is asked    *)
(* before the builder.                                                     *)
PrepareError(call) ==
    CASE prompts[KeyFor(call)] = Missing -> "RegistryNotFound"
      [] prompts[KeyFor(call)] = Broken -> "PersistenceFailed"
      [] prompts[KeyFor(call)] \in Prompts /\ ContextOf(call) = Unbuildable ->
            "ContextBuildFailed"
      [] OTHER -> None

(* Mutant of PreparedOf: the policy is asked about some fixed state. *)
PreparedOfFixed(call) ==
    [call |-> call, key |-> KeyFor(call), prompt |-> prompts[KeyFor(call)],
     context |-> ContextOf(call), tools |-> Plan[CHOOSE s \in States : TRUE]]

PreparedOf(call) ==
    [call |-> call, key |-> KeyFor(call), prompt |-> prompts[KeyFor(call)],
     context |-> ContextOf(call), tools |-> Plan[call.state]]

(* What each adapter's call sends to the provider.  The user message is the *)
(* context or, if that is blank, the prompt.                               *)
UserMessage(p) == IF p.context = Empty THEN p.prompt ELSE p.context

(* RigAgentAdapter: the agent has a preamble of its own. *)
AgentRequest(p) == [preamble |-> Empty, user |-> UserMessage(p)]

(* RigModelAdapter: the prompt is the preamble, if not the user message. *)
ModelRequest(p) ==
    [preamble |-> IF p.context = Empty THEN Empty ELSE p.prompt,
     user |-> UserMessage(p)]

(* RigAgentFactory: an agent is built for the call, with the prompt. *)
FactoryRequest(p) == [preamble |-> p.prompt, user |-> UserMessage(p)]

(* ClosureAdapter and MockLlm: a function is handed both. *)
ClosureRequest(p) == [preamble |-> p.prompt, user |-> p.context]

Request(p) ==
    CASE adapter = "model" -> ModelRequest(p)
      [] adapter = "agent" -> AgentRequest(p)
      [] adapter = "factory" -> FactoryRequest(p)
      [] adapter = "closure" -> ClosureRequest(p)

Idle(c) == waiting[c] = None

Init ==
    /\ adapter \in Adapters
    /\ prompts \in [Keys -> Prompts \union {Missing, Broken}]
    /\ waiting = [c \in Callers |-> None]
    /\ sent = [c \in Callers |-> None]
    /\ error = [c \in Callers |-> None]
    /\ prepared = [c \in Callers |-> None]
    /\ output = [c \in Callers |-> None]

(* The registry's prompts change under the runner. *)
Publish(k, p) ==
    /\ prompts' = [prompts EXCEPT ![k] = p]
    /\ UNCHANGED <<adapter, waiting, sent, error, prepared, output>>

(* Both calls begin with prepare: its error is the call's error. *)
Begin(c, call) ==
    /\ Idle(c)
    /\ error' = [error EXCEPT ![c] = PrepareError(call)]
    /\ output' = [output EXCEPT ![c] = None]
    /\ UNCHANGED <<adapter, prompts>>

(* Runner::prepare *)
Prepare(c, call) ==
    /\ Begin(c, call)
    /\ prepared' = [prepared EXCEPT ![c] =
                      IF PrepareError(call) = None THEN PreparedOf(call) ELSE None]
    /\ sent' = [sent EXCEPT ![c] = None]
    /\ UNCHANGED waiting

(* Runner::step up to its await: nothing is sent if prepare fails. *)
StepCall(c, call) ==
    /\ Begin(c, call)
    /\ prepared' = [prepared EXCEPT ![c] = None]
    /\ \/ /\ PrepareError(call) = None
          /\ waiting' = [waiting EXCEPT ![c] = PreparedOf(call)]
          /\ sent' = [sent EXCEPT ![c] = Request(PreparedOf(call))]
       \/ /\ PrepareError(call) # None
          /\ sent' = [sent EXCEPT ![c] = None]
          /\ UNCHANGED waiting

(* Mutant of StepReturn: the prompt is looked up again after the await. *)
StepReturnRereads(c) ==
    /\ ~Idle(c)
    /\ prompts[waiting[c].key] \in Prompts
    /\ output' = [output EXCEPT ![c] =
                    [next |-> waiting[c].call.state, key |-> waiting[c].key,
                     prompt |-> prompts[waiting[c].key], context |-> waiting[c].context,
                     tools |-> waiting[c].tools, reply |-> sent[c]]]
    /\ waiting' = [waiting EXCEPT ![c] = None]
    /\ UNCHANGED <<adapter, prompts, sent, error, prepared>>

(* The model answers; the output is made from the snapshot. *)
StepReturn(c) ==
    /\ ~Idle(c)
    /\ output' = [output EXCEPT ![c] =
                    [next |-> waiting[c].call.state, key |-> waiting[c].key,
                     prompt |-> waiting[c].prompt, context |-> waiting[c].context,
                     tools |-> waiting[c].tools, reply |-> sent[c]]]
    /\ waiting' = [waiting EXCEPT ![c] = None]
    /\ UNCHANGED <<adapter, prompts, sent, error, prepared>>

(* Mutant of Normalised: the adapter's error is returned as it is. *)
NormalisedNot(e) == e

(* The adapter fails with whatever error; step makes it an LlmFailed. *)
Normalised(e) == IF e = "LlmFailed" THEN e ELSE "LlmFailed"

StepFail(c, e) ==
    /\ ~Idle(c)
    /\ error' = [error EXCEPT ![c] = Normalised(e)]
    /\ waiting' = [waiting EXCEPT ![c] = None]
    /\ UNCHANGED <<adapter, prompts, sent, prepared, output>>

(* The caller drops the future at its await: a timeout, a select. *)
Cancel(c) ==
    /\ ~Idle(c)
    /\ waiting' = [waiting EXCEPT ![c] = None]
    /\ UNCHANGED <<adapter, prompts, sent, error, prepared, output>>

Next ==
    \/ \E k \in Keys, p \in Prompts \union {Missing, Broken} : Publish(k, p)
    \/ \E c \in Callers :
          \/ \E call \in Calls : Prepare(c, call) \/ StepCall(c, call)
          \/ StepReturn(c)
          \/ \E e \in Errors : StepFail(c, e)
          \/ Cancel(c)

Spec == Init /\ [][Next]_vars

-----------------------------------------------------------------------------
(* An output is of one piece, however often its prompt was republished     *)
(* while the step waited: the reply answers the very prompt and context    *)
(* that the output reports, with the tools of the state it was asked for   *)
(* (runtime step: everything after the await comes from the snapshot).     *)
OutputOfOnePiece ==
    \A c \in Callers : output[c] # None =>
        /\ output[c].reply = Request(output[c])
        /\ output[c].tools = Plan[output[c].next]
        /\ \E e \in Events, w \in Windows :
              /\ output[c].key = <<Display[output[c].next], Display[e]>>
              /\ output[c].context = Build[<<e, w>>]

(* The error tells the stage that failed: a caller that sees LlmFailed has  *)
(* sent a request, which may have had effects, and one that sees any other *)
(* error has not (runtime step, the map_err after the await).              *)
ErrorTellsStage ==
    \A c \in Callers : error[c] # None =>
        /\ output[c] = None
        /\ error[c] = "LlmFailed" <=> sent[c] # None

(* "agent.preamble(prompt).prompt(context)": the prompt the registry chose  *)
(* for the state and the event is part of what is sent to the provider; a  *)
(* RigAgentAdapter, whose agent has a preamble of its own, sends it only   *)
(* if there is no context (rig_adapter, each adapter's call).              *)
PromptReachesModel ==
    \A c \in Callers : waiting[c] # None =>
        \/ waiting[c].prompt \in {sent[c].preamble, sent[c].user}
        \/ adapter = "agent" /\ waiting[c].context # Empty

(* What makes it so: while a step waits, the request out is the one made    *)
(* from its snapshot, and the snapshot is of its call.                     *)
WaitingIntact ==
    \A c \in Callers : waiting[c] # None =>
        /\ sent[c] = Request(waiting[c])
        /\ waiting[c].key = KeyFor(waiting[c].call)
        /\ waiting[c].tools = Plan[waiting[c].call.state]
        /\ waiting[c].context = ContextOf(waiting[c].call)
        /\ error[c] = None /\ output[c] = None

IInv == TypeOK /\ WaitingIntact /\ OutputOfOnePiece /\ ErrorTellsStage
====
