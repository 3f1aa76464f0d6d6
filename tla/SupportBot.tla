---- MODULE SupportBot ----
(***************************************************************************)
(* The support bot, a product on top of the whole runtime: a conversation  *)
(* of turns, each with a prepare, a tool that the policy has to refuse, a  *)
(* step, and an edge; prompts come from an InMemoryRegistry, contexts from *)
(* a ParagraphBuilder, replies from a MockLlm.  The bot's main plays one   *)
(* script; here any script over its states and events may be played.       *)
(***************************************************************************)
EXTENDS Naturals, SequencesExt

CONSTANTS
    Infos,      \* what a user may tell in an InfoProvided
    MaxTurns,   \* bound on the length of a script
    N,          \* paragraphs of context, 2 in main
    Bot,        \* the one caller of the runner
    Empty, Missing, Broken, Unbuildable, None   \* as in Runner

ASSUME BotAssumption == MaxTurns \in Nat /\ N \in Nat

VARIABLES
    adapter, prompts, waiting, sent, error, prepared, output,   \* of Runner
    script,     \* the turns of this conversation
    idx,        \* the turn it is at
    phase,      \* what main does next
    history,    \* events of the turns before
    shown,      \* what this turn's prepare returned
    verdict,    \* what the policy said of this turn's tool
    said,       \* what the latest reply is about
    edge        \* key that handle_edge gave at the end of the turn before

runner == <<adapter, prompts, waiting, sent, error, prepared, output>>
vars == <<runner, script, idx, phase, history, shown, verdict, said, edge>>

-----------------------------------------------------------------------------
(* SupportState and SupportEvent; their Display leaves an info out. *)
Named(n) == [name |-> n]
Greeting == Named("Greeting")
CollectingInfo == Named("CollectingInfo")
Resolving == Named("Resolving")
States == {Greeting, CollectingInfo, Resolving}

UserAskedRefund == Named("UserAskedRefund")
RefundRequested == Named("RefundRequested")
Events == {UserAskedRefund, RefundRequested}
              \union [name: {"InfoProvided"}, info: Infos]

Text(x) == x.name
Display == [x \in States \union Events |-> Text(x)]

Turns == [state: States, event: Events]
UpTo(n, S) == UNION {[1..k -> S] : k \in 0..n}

(* The prompts: the key each was written for, and the words in it that a    *)
(* mock might look for.                                                    *)
Prompt(state, event, words) == [for |-> <<state, event>>, words |-> words]
Greet == Prompt("Greeting", "UserAskedRefund", {"greeting", "refund"})
Clarify == Prompt("CollectingInfo", "InfoProvided", {"collecting", "refund"})
Resolve == Prompt("Resolving", "RefundRequested", {"resolving", "refund"})
Fallback == Prompt("Greeting", "RefundRequested", {"greeting", "refund"})
Prompts == {Greet, Clarify, Resolve, Fallback}

(* InMemoryRegistry: a HashMap, in which the latest entry of a key counts,  *)
(* and get.                                                                *)
FromIter(entries) ==
    [k \in {entries[i][1] : i \in DOMAIN entries} |->
        LET latest == CHOOSE i \in DOMAIN entries :
                /\ entries[i][1] = k
                /\ \A j \in DOMAIN entries : entries[j][1] = k => j <= i
        IN  entries[latest][2]]

Lookup(map, key) == IF key \in DOMAIN map THEN map[key] ELSE Missing

Registry ==
    FromIter([i \in 1..4 |->
        LET prompt == <<Greet, Clarify, Resolve, Fallback>>[i]
        IN  <<prompt.for, prompt>>])

(* SupportPolicy, and the tool that each state has to refuse. *)
Allowed ==
    [s \in States |->
        CASE s = Greeting -> <<"read_profile", "read_order">>
          [] s = CollectingInfo -> <<"read_profile", "read_order", "ask_clarification">>
          [] s = Resolving -> <<"read_profile", "read_order", "process_refund">>]
Tools == {"read_profile", "read_order", "ask_clarification", "process_refund"}

Attempt(state) ==
    IF state = Resolving THEN "ask_clarification" ELSE "process_refund"

(* Mutant of Respond: a prompt that speaks of a refund gets one. *)
RespondRefunds(prompt) ==
    IF "refund" \in prompt.words THEN "refund" ELSE "hello"

(* MockLlm::with_fn: what the reply to a prompt is about. *)
Respond(prompt) ==
    IF "greeting" \in prompt.words THEN "hello"
    ELSE IF "collecting" \in prompt.words THEN "clarify"
    ELSE IF "resolving" \in prompt.words THEN "refund"
    ELSE "other"

-----------------------------------------------------------------------------
Here == script[idx]
Call == [state |-> Here.state, event |-> Here.event, window |-> history]

(* The lines an event is displayed in; what the latest request has of them. *)
LinesOf(h) == [i \in DOMAIN h |-> <<Text(h[i])>>]

Prose == INSTANCE ParagraphBuilder WITH
    Blank <- "", Events <- {<<Text(e)>> : e \in Events}, MaxHistory <- MaxTurns,
    history <- LinesOf(Append(history, Here.event)), context <- sent[Bot].user

Windows == UpTo(MaxTurns, Events)
Build ==
    [i \in Events \X Windows |->
        [selected |-> Prose!Selected(LinesOf(i[2])), event |-> <<Text(i[1])>>]]

(* A MockLlm's function is handed the prompt and the context, as a closure. *)
R == INSTANCE Runner WITH
    Callers <- {Bot}, Plan <- Allowed, Adapters <- {"closure"}

(* An error is no value, and a ParagraphBuilder never fails. *)
ASSUME BotValues ==
    /\ Missing # Broken /\ {Missing, Broken} \intersect Prompts = {}
    /\ None \notin R!Errors
    /\ \A i \in DOMAIN Build : Build[i] # Unbuildable

SupportPolicy == INSTANCE Policy WITH
    MaxLen <- 3, kind <- "table", table <- Allowed,
    given <- <<>>, rest <- <<>>, set <- {}, list <- <<>>

Init ==
    /\ prompts = [k \in R!Keys |-> Lookup(Registry, k)]
    /\ R!Init
    /\ script \in UpTo(MaxTurns, Turns)
    /\ idx = 1
    /\ phase = IF script = <<>> THEN "done" ELSE "turn"
    /\ history = <<>>
    /\ shown = None /\ verdict = "unasked" /\ said = "nothing" /\ edge = None

(* Mutant of PrepareTurn: an error of prepare is left to step. *)
PrepareTurnUnchecked ==
    /\ phase = "turn"
    /\ R!Prepare(Bot, Call)
    /\ shown' = prepared'[Bot]
    /\ phase' = "check"
    /\ verdict' = "unasked"
    /\ UNCHANGED <<script, idx, history, said, edge>>

(* prepare(..).expect(..) *)
PrepareTurn ==
    /\ phase = "turn"
    /\ R!Prepare(Bot, Call)
    /\ shown' = prepared'[Bot]
    /\ phase' = IF error'[Bot] = None THEN "check" ELSE "panicked"
    /\ verdict' = "unasked"
    /\ UNCHANGED <<script, idx, history, said, edge>>

(* Mutant of CheckTool: the policy is asked about the state to come. *)
CheckToolAhead ==
    /\ phase = "check"
    /\ LET next == script[IF idx < Len(script) THEN idx + 1 ELSE idx].state
       IN  verdict' = IF SupportPolicy!Check(next, Attempt(Here.state))
                      THEN "allowed" ELSE "denied"
    /\ phase' = "step"
    /\ UNCHANGED <<runner, script, idx, history, shown, said, edge>>

(* runner.policy().check(state, tool) *)
CheckTool ==
    /\ phase = "check"
    /\ verdict' = IF SupportPolicy!Check(Here.state, Attempt(Here.state))
                  THEN "allowed" ELSE "denied"
    /\ phase' = "step"
    /\ UNCHANGED <<runner, script, idx, history, shown, said, edge>>

(* Mutant of StepTurn: the event is in the history that step is given. *)
StepTurnPushed ==
    /\ phase = "step"
    /\ R!StepCall(Bot, [Call EXCEPT !.window = Append(@, Here.event)])
    /\ phase' = IF error'[Bot] = None THEN "await" ELSE "panicked"
    /\ UNCHANGED <<script, idx, history, shown, verdict, said, edge>>

(* block_on(step(..)).expect(..), until the mock is called ... *)
StepTurn ==
    /\ phase = "step"
    /\ R!StepCall(Bot, Call)
    /\ phase' = IF error'[Bot] = None THEN "await" ELSE "panicked"
    /\ UNCHANGED <<script, idx, history, shown, verdict, said, edge>>

(* Mutant of Answer: the future is pending at every poll. *)
AnswerPending == phase = "await" /\ UNCHANGED vars

(* ... and its answer, which is there at the first poll. *)
Answer ==
    /\ phase = "await"
    /\ R!StepReturn(Bot)
    /\ said' = Respond(waiting[Bot].prompt)
    /\ phase' = "edge"
    /\ UNCHANGED <<script, idx, history, shown, verdict, edge>>

(* Mutant of EndTurn: the history is not kept. *)
EndTurnForgets ==
    /\ phase = "edge"
    /\ edge' = R!HandleEdge([type |-> "Halt"], Here.state, Here.event)
    /\ idx' = idx + 1
    /\ phase' = IF idx < Len(script) THEN "turn" ELSE "done"
    /\ UNCHANGED <<runner, script, history, shown, verdict, said>>

(* handle_edge, with the next turn's state if there is one, and the event   *)
(* joins the history.                                                      *)
EndTurn ==
    /\ phase = "edge"
    /\ LET action == IF idx < Len(script)
                     THEN [type |-> "Transition", to |-> script[idx + 1].state]
                     ELSE [type |-> "Halt"]
       IN  edge' = R!HandleEdge(action, Here.state, Here.event)
    /\ history' = Append(history, Here.event)
    /\ idx' = idx + 1
    /\ phase' = IF idx < Len(script) THEN "turn" ELSE "done"
    /\ UNCHANGED <<runner, script, shown, verdict, said>>

Next == PrepareTurn \/ CheckTool \/ StepTurn \/ Answer \/ EndTurn

(* main is one thread, and block_on polls until its future is ready. *)
Spec == Init /\ [][Next]_vars /\ WF_vars(Next)

-----------------------------------------------------------------------------
TypeOK ==
    /\ script \in Seq(Turns) /\ Len(script) <= MaxTurns
    /\ idx \in 1..Len(script) + 1
    /\ phase \in {"turn", "check", "step", "await", "edge", "done", "panicked"}
    /\ history \in Seq(Events) /\ Len(history) = idx - 1
    /\ shown # None => shown.key \in DOMAIN Registry
    /\ verdict \in {"unasked", "allowed", "denied"}
    /\ said \in {"nothing", "hello", "clarify", "refund", "other"}
    /\ edge \in R!Keys \union {None}

(* "prepare (pure, deterministic)": the prompt, context and tools that the  *)
(* bot shows for a turn are those its step then works with and returns,    *)
(* although prepare ran twice (support_bot main, Runner::step).            *)
TurnAgrees ==
    phase = "edge" =>
        /\ output[Bot].key = shown.key /\ output[Bot].prompt = shown.prompt
        /\ output[Bot].context = shown.context /\ output[Bot].tools = shown.tools
        /\ output[Bot].next = Here.state

(* The model is sent the newest N paragraphs of the turns before, and then  *)
(* this turn's event, which is not in the history yet (main pushes it last,*)
(* ParagraphBuilder::build).                                               *)
SendsNewest == phase \in {"await", "edge"} => Prose!KeepsNewest

(* A reply that speaks of a processed refund is given only in a state whose *)
(* policy allows process_refund, whatever is asked in whatever order: what *)
(* the model is told to do and what it may do are kept apart, in registry  *)
(* and policy, and agree (support_bot's prompts, SupportPolicy, MockLlm).  *)
RefundAllowed ==
    said = "refund" /\ phase = "edge" =>
        /\ SupportPolicy!Check(Here.state, "process_refund")
        /\ "process_refund" \in ToSet(output[Bot].tools)

(* The tool that a turn attempts is refused, and is not in the tool plan    *)
(* that the turn's prepare returned (Policy::check's default, ToolPlan).   *)
AttemptDenied ==
    phase \in {"step", "await", "edge"} =>
        /\ verdict = "denied"
        /\ Attempt(Here.state) \notin ToSet(shown.tools)

(* Only a missing prompt makes main panic, at its first expect: by then the *)
(* turn has neither asked the policy nor sent anything.                    *)
PanicsUnsent ==
    phase = "panicked" =>
        /\ prompts[R!KeyFor(Call)] = Missing
        /\ verdict = "unasked" /\ sent[Bot] = None /\ shown = None

(* A script whose turns all have a prompt is played to its end, and any     *)
(* other one ends in a panic.                                              *)
Ends ==
    LET registered == \A i \in DOMAIN script :
                <<Text(script[i].state), Text(script[i].event)>> \in DOMAIN Registry
    IN  <>(phase = IF registered THEN "done" ELSE "panicked")
====
