---- MODULE SupportBotProofs ----
(***************************************************************************)
(* What a turn of the support bot's conversation shows, checks and sends,  *)
(* in any script of any length and with any infos.                         *)
(***************************************************************************)
EXTENDS SupportBot, TLAPS

(* What is proved of the paragraph builder, for this one. *)
PB == INSTANCE ParagraphBuilderProofs WITH
    Blank <- "", Events <- {<<Text(e)>> : e \in Events}, MaxHistory <- MaxTurns,
    history <- LinesOf(Append(history, Here.event)), context <- sent[Bot].user

(* What prepare returns for the turn that main is at. *)
Prepared == R!PreparedOf(Call)

Turning ==
    /\ script \in Seq(Turns) /\ Len(script) <= MaxTurns
    /\ idx \in 1..Len(script) + 1
    /\ phase \in {"turn", "check", "step", "await", "edge", "done", "panicked"}
    /\ phase # "done" => idx <= Len(script)
    /\ history \in Seq(Events) /\ Len(history) = idx - 1

(* The registry is never changed, and the runner has the one caller. *)
Shared ==
    /\ prompts = [k \in R!Keys |-> Lookup(Registry, k)]
    /\ DOMAIN waiting = {Bot} /\ DOMAIN sent = {Bot} /\ DOMAIN error = {Bot}
    /\ DOMAIN prepared = {Bot} /\ DOMAIN output = {Bot}

(* What each step of a turn leaves for the later ones. *)
Shows ==
    phase \in {"check", "step", "await", "edge"} =>
        shown = Prepared /\ R!PrepareError(Call) = None
Asks == phase \in {"step", "await", "edge"} => verdict = "denied"
Awaits == phase = "await" => waiting[Bot] = Prepared
Answers ==
    phase = "edge" =>
        /\ output[Bot].next = Here.state /\ output[Bot].key = Prepared.key
        /\ output[Bot].prompt = Prepared.prompt
        /\ output[Bot].context = Prepared.context
        /\ output[Bot].tools = Prepared.tools
        /\ said = Respond(Prepared.prompt)

Kept ==
    /\ shown # None => shown.key \in DOMAIN Registry
    /\ verdict \in {"unasked", "allowed", "denied"}
    /\ said \in {"nothing", "hello", "clarify", "refund", "other"}
    /\ edge \in R!Keys \union {None}

Inv ==
    /\ Turning /\ Shared /\ Kept
    /\ Shows /\ Asks /\ Awaits /\ Answers /\ PanicsUnsent

-----------------------------------------------------------------------------
(* get returns what was registered for the key. *)
LEMMA RegisteredFor ==
    \A k \in DOMAIN Registry : Registry[k] \in Prompts /\ Registry[k].for = k
  <1> DEFINE entries == [i \in 1..4 |->
                           LET prompt == <<Greet, Clarify, Resolve, Fallback>>[i]
                           IN  <<prompt.for, prompt>>]
             keys == {entries[i][1] : i \in DOMAIN entries}
             Latest(i, k) == /\ entries[i][1] = k
                             /\ \A j \in DOMAIN entries : entries[j][1] = k => j <= i
  <1>1. \A i \in 1..4 : entries[i][2] \in Prompts /\ entries[i][2].for = entries[i][1]
    BY DEF Prompts
  <1>2. DOMAIN entries = 1..4
    OBVIOUS
  <1> HIDE DEF entries
  <1>3. ASSUME NEW k \in keys
        PROVE  \E i \in DOMAIN entries : Latest(i, k)
    <2>1. PICK i \in 1..4 : entries[i][1] = k
      BY <1>2
    <2>2. CASE entries[4][1] = k
      BY <1>2, <2>2
    <2>3. CASE entries[4][1] # k /\ entries[3][1] = k
      BY <1>2, <2>3
    <2>4. CASE entries[4][1] # k /\ entries[3][1] # k /\ entries[2][1] = k
      BY <1>2, <2>4
    <2>5. CASE entries[4][1] # k /\ entries[3][1] # k /\ entries[2][1] # k
      BY <1>2, <2>1, <2>5
    <2> QED
      BY <2>2, <2>3, <2>4, <2>5
  <1>4. ASSUME NEW k \in keys
        PROVE  LET i == CHOOSE i \in DOMAIN entries : Latest(i, k)
               IN  entries[i][2] \in Prompts /\ entries[i][2].for = k
    BY <1>1, <1>2, <1>3, <1>4
  <1>5. Registry = [k \in keys |->
                      LET i == CHOOSE i \in DOMAIN entries : Latest(i, k)
                      IN  entries[i][2]]
    BY DEF Registry, FromIter, entries
  <1> QED
    BY <1>4, <1>5

(* The turn that main is at is one the runner can be called for. *)
LEMMA TurnCalled ==
    ASSUME Turning, idx <= Len(script)
    PROVE  /\ Here \in Turns /\ Here.state \in States /\ Here.event \in Events
           /\ <<Here.event, history>> \in DOMAIN Build
           /\ R!KeyFor(Call) = <<Text(Here.state), Text(Here.event)>>
           /\ R!KeyFor(Call) \in R!Keys
  <1>1. Here \in Turns
    BY DEF Turning, Here
  <1>2. Here.state \in States /\ Here.event \in Events
    BY <1>1 DEF Turns
  <1>3. history \in Windows
    <2>1. Len(history) \in 0..MaxTurns /\ history \in [1..Len(history) -> Events]
      BY BotAssumption DEF Turning
    <2> QED
      BY <2>1 DEF Windows, UpTo
  <1>4. /\ Display[Here.state] = Text(Here.state)
        /\ Display[Here.event] = Text(Here.event)
    BY <1>2 DEF Display
  <1>5. R!KeyFor(Call) = <<Display[Here.state], Display[Here.event]>>
    BY DEF R!KeyFor, Call
  <1>6. R!KeyFor(Call) \in R!Keys
    BY <1>2, <1>5 DEF R!Keys
  <1> QED
    BY <1>1, <1>2, <1>3, <1>4, <1>5, <1>6 DEF Build

(* prepare fails only for want of a prompt, and otherwise it returns the one *)
(* that was registered for the state and the event.                        *)
LEMMA PrepareTells ==
    ASSUME Turning, Shared, idx <= Len(script)
    PROVE  /\ R!PrepareError(Call) # None => prompts[R!KeyFor(Call)] = Missing
           /\ R!PrepareError(Call) = None =>
                 /\ Prepared.key = R!KeyFor(Call) /\ Prepared.key \in DOMAIN Registry
                 /\ Prepared.prompt \in Prompts /\ Prepared.prompt.for = Prepared.key
                 /\ Prepared.tools = Allowed[Here.state]
  <1> DEFINE key == R!KeyFor(Call)
  <1>1. /\ key \in R!Keys /\ R!ContextOf(Call) # Unbuildable
        /\ prompts[key] = Lookup(Registry, key)
    BY TurnCalled, BotValues DEF Shared, R!ContextOf, Call
  <1>2. /\ Prepared.key = key /\ Prepared.prompt = prompts[key]
        /\ Prepared.tools = Allowed[Here.state]
    BY DEF Prepared, R!PreparedOf, Call
  <1>3. CASE key \in DOMAIN Registry
    <2>1. prompts[key] = Registry[key] /\ Registry[key] \in Prompts /\ Registry[key].for = key
      BY <1>1, <1>3, RegisteredFor DEF Lookup
    <2>2. R!PrepareError(Call) = None
      BY <1>1, <2>1, BotValues DEF R!PrepareError
    <2> QED
      BY <1>2, <1>3, <2>1, <2>2
  <1>4. CASE key \notin DOMAIN Registry
    <2>1. prompts[key] = Missing
      BY <1>1, <1>4 DEF Lookup
    <2>2. R!PrepareError(Call) = "RegistryNotFound"
      BY <2>1, BotValues DEF R!PrepareError
    <2> QED
      BY <2>1, <2>2, BotValues DEF R!Errors
  <1> QED
    BY <1>3, <1>4

(* Within a turn nothing that prepare depends on changes. *)
LEMMA SameTurn ==
    ASSUME UNCHANGED <<prompts, script, idx, history>>
    PROVE  /\ Here' = Here /\ Call' = Call /\ Prepared' = Prepared
           /\ R!PrepareError(Call)' = R!PrepareError(Call)
           /\ R!KeyFor(Call)' = R!KeyFor(Call)
  <1>1. Here' = Here /\ Call' = Call
    BY DEF Here, Call
  <1> QED
    BY <1>1 DEF Prepared, R!PreparedOf, R!PrepareError, R!KeyFor, R!ContextOf

-----------------------------------------------------------------------------
LEMMA InvInit == Init => Inv
  <1> SUFFICES ASSUME Init
               PROVE  Inv
    OBVIOUS
  <1>1. script \in Seq(Turns) /\ Len(script) \in 0..MaxTurns
    <2>1. PICK n \in 0..MaxTurns : script \in [1..n -> Turns]
      BY DEF Init, UpTo
    <2> QED
      BY <2>1, BotAssumption
  <1>2. Turning
    BY <1>1, BotAssumption DEF Init, Turning
  <1>3. Shared
    BY DEF Init, Shared, R!Init
  <1>4. phase \in {"turn", "done"} /\ idx = 1
    BY DEF Init
  <1> QED
    BY <1>2, <1>3, <1>4 DEF Init, Inv, Kept, Shows, Asks, Awaits, Answers,
       PanicsUnsent

LEMMA PrepareTurnInv ==
    ASSUME Inv, PrepareTurn
    PROVE  Inv'
  <1>1. /\ Turning /\ Shared /\ Kept /\ phase = "turn" /\ idx <= Len(script)
        /\ UNCHANGED <<prompts, waiting, script, idx, history, said, edge>>
        /\ shown' = prepared'[Bot] /\ verdict' = "unasked"
    BY DEF Inv, Turning, PrepareTurn, R!Prepare, R!Begin
  <1>2. /\ error'[Bot] = R!PrepareError(Call) /\ sent'[Bot] = None
        /\ prepared'[Bot] = IF R!PrepareError(Call) = None THEN Prepared ELSE None
        /\ Shared'
    BY <1>1 DEF Shared, PrepareTurn, R!Prepare, R!Begin, Prepared
  <1>3. phase' = IF R!PrepareError(Call) = None THEN "check" ELSE "panicked"
    BY <1>2 DEF PrepareTurn
  <1>4. Turning'
    BY <1>1, <1>3 DEF Turning
  <1>5. Kept'
    BY <1>1, <1>2, PrepareTells DEF Kept
  <1>6. Shows'
    BY <1>1, <1>2, <1>3, SameTurn DEF Shows
  <1>7. PanicsUnsent'
    BY <1>1, <1>2, <1>3, PrepareTells, SameTurn DEF PanicsUnsent
  <1> QED
    BY <1>2, <1>3, <1>4, <1>5, <1>6, <1>7 DEF Inv, Asks, Awaits, Answers

(* No state's policy lists the tool that its turn attempts. *)
LEMMA AttemptRefused ==
    ASSUME NEW s \in States
    PROVE  /\ ~SupportPolicy!Check(s, Attempt(s))
           /\ Attempt(s) \notin ToSet(Allowed[s])
  <1>1. Greeting # CollectingInfo /\ Greeting # Resolving /\ CollectingInfo # Resolving
    BY DEF Greeting, CollectingInfo, Resolving, Named
  <1>2. /\ Allowed[Greeting] = <<"read_profile", "read_order">>
        /\ Allowed[CollectingInfo] = <<"read_profile", "read_order", "ask_clarification">>
        /\ Allowed[Resolving] = <<"read_profile", "read_order", "process_refund">>
    BY <1>1 DEF Allowed, States
  <1>3. Attempt(s) \notin ToSet(Allowed[s])
    BY <1>1, <1>2 DEF Attempt, States, ToSet
  <1>4. SupportPolicy!Listed(Allowed[s]) = ToSet(Allowed[s])
    BY DEF SupportPolicy!Listed, ToSet
  <1>5. SupportPolicy!Check(s, Attempt(s)) = (Attempt(s) \in SupportPolicy!Listed(Allowed[s]))
    BY DEF SupportPolicy!Check, SupportPolicy!Allowed
  <1> QED
    BY <1>3, <1>4, <1>5

LEMMA CheckToolInv ==
    ASSUME Inv, CheckTool
    PROVE  Inv'
  <1>1. /\ Turning /\ Shared /\ Kept /\ Shows /\ phase = "check" /\ phase' = "step"
        /\ idx <= Len(script)
        /\ UNCHANGED <<prompts, waiting, sent, error, prepared, output>>
        /\ UNCHANGED <<script, idx, history, shown, said, edge>>
    BY DEF Inv, Turning, CheckTool, runner
  <1>2. verdict' = "denied"
    <2>1. ~SupportPolicy!Check(Here.state, Attempt(Here.state))
      BY <1>1, TurnCalled, AttemptRefused
    <2> QED
      BY <2>1 DEF CheckTool
  <1>3. Turning' /\ Shared' /\ Kept'
    BY <1>1, <1>2 DEF Turning, Shared, Kept
  <1>4. Shows'
    BY <1>1, SameTurn DEF Shows
  <1> QED
    BY <1>1, <1>2, <1>3, <1>4 DEF Inv, Asks, Awaits, Answers, PanicsUnsent

LEMMA StepTurnInv ==
    ASSUME Inv, StepTurn
    PROVE  Inv'
  <1>1. /\ Turning /\ Shared /\ Kept /\ Shows /\ Asks /\ phase = "step"
        /\ R!StepCall(Bot, Call)
        /\ UNCHANGED <<prompts, script, idx, history, shown, verdict, said, edge>>
    BY DEF Inv, StepTurn, R!StepCall, R!Begin
  <1>2. R!PrepareError(Call) = None
    BY <1>1 DEF Shows
  <1>3. error'[Bot] = None /\ waiting'[Bot] = Prepared /\ Shared'
    BY <1>1, <1>2 DEF R!StepCall, R!Begin, Shared, Prepared
  <1>4. phase' = "await"
    BY <1>3 DEF StepTurn
  <1>5. Turning' /\ Kept' /\ Asks'
    BY <1>1, <1>4 DEF Turning, Kept, Asks
  <1>6. Shows' /\ Awaits'
    BY <1>1, <1>3, <1>4, SameTurn DEF Shows, Awaits
  <1> QED
    BY <1>3, <1>4, <1>5, <1>6 DEF Inv, Answers, PanicsUnsent

LEMMA AnswerInv ==
    ASSUME Inv, Answer
    PROVE  Inv'
  <1>1. /\ Turning /\ Shared /\ Kept /\ Shows /\ Asks /\ phase = "await"
        /\ waiting[Bot] = Prepared /\ R!StepReturn(Bot)
        /\ said' = Respond(Prepared.prompt) /\ phase' = "edge"
        /\ UNCHANGED <<prompts, script, idx, history, shown, verdict, edge>>
    BY DEF Inv, Awaits, Answer, R!StepReturn
  <1>2. /\ output'[Bot] = [next |-> Prepared.call.state, key |-> Prepared.key,
                           prompt |-> Prepared.prompt, context |-> Prepared.context,
                           tools |-> Prepared.tools, reply |-> sent[Bot]]
        /\ Shared'
    BY <1>1 DEF R!StepReturn, Shared
  <1>3. Prepared.call.state = Here.state
    BY DEF Prepared, R!PreparedOf, Call
  <1>4. Answers'
    BY <1>1, <1>2, <1>3, SameTurn DEF Answers
  <1>5. Turning' /\ Kept' /\ Asks'
    BY <1>1 DEF Turning, Kept, Asks, Respond
  <1>6. Shows'
    BY <1>1, SameTurn DEF Shows
  <1> QED
    BY <1>1, <1>2, <1>4, <1>5, <1>6 DEF Inv, Awaits, PanicsUnsent

LEMMA EndTurnInv ==
    ASSUME Inv, EndTurn
    PROVE  Inv'
  <1>1. /\ Turning /\ Shared /\ Kept /\ Shows /\ phase = "edge" /\ idx <= Len(script)
        /\ idx \in Nat \ {0} /\ Len(script) \in Nat
        /\ UNCHANGED <<prompts, waiting, sent, error, prepared, output>>
        /\ UNCHANGED <<script, shown, verdict, said>>
        /\ history' = Append(history, Here.event) /\ idx' = idx + 1
        /\ phase' = IF idx < Len(script) THEN "turn" ELSE "done"
    BY DEF Inv, Turning, EndTurn, runner
  <1>2. /\ Here.state \in States /\ Here.event \in Events
        /\ Display[Here.state] = Text(Here.state)
        /\ Display[Here.event] = Text(Here.event)
    BY <1>1, TurnCalled DEF Display
  <1>3. Turning'
    BY <1>1, <1>2 DEF Turning
  <1>4. CASE idx < Len(script)
    <2>1. Here' = script[idx + 1] /\ Here' \in Turns
      BY <1>1, <1>4 DEF Here, Turning
    <2>2. Here'.state \in States /\ Display[Here'.state] = Text(Here'.state)
      BY <2>1 DEF Turns, Display
    <2>3. edge' = <<Display[Here'.state], Display[Here.event]>>
      BY <1>4, <2>1 DEF EndTurn, R!HandleEdge
    <2>4. edge' \in R!Keys
      BY <1>2, <2>2, <2>3 DEF R!Keys
    <2> QED
      BY <1>1, <1>3, <1>4, <2>4 DEF Inv, Shared, Kept, Shows, Asks, Awaits, Answers,
         PanicsUnsent
  <1>5. CASE ~(idx < Len(script))
    <2>1. edge' = <<Display[Here.state], Display[Here.event]>>
      BY <1>5 DEF EndTurn, R!HandleEdge
    <2>2. edge' \in R!Keys
      BY <1>2, <2>1 DEF R!Keys
    <2> QED
      BY <1>1, <1>3, <1>5, <2>2 DEF Inv, Shared, Kept, Shows, Asks, Awaits, Answers,
         PanicsUnsent
  <1> QED
    BY <1>4, <1>5

LEMMA InvNext == Inv /\ [Next]_vars => Inv'
  <1>1. Inv /\ UNCHANGED vars => Inv'
    <2> SUFFICES ASSUME Inv, UNCHANGED vars
                 PROVE  Inv'
      OBVIOUS
    <2>1. /\ UNCHANGED <<prompts, waiting, sent, error, prepared, output>>
          /\ UNCHANGED <<script, idx, phase, history, shown, verdict, said, edge>>
      BY DEF vars, runner
    <2>2. Turning' /\ Shared' /\ Kept' /\ Asks'
      BY <2>1 DEF Inv, Turning, Shared, Kept, Asks
    <2>3. Shows' /\ Awaits' /\ Answers' /\ PanicsUnsent'
      BY <2>1, SameTurn DEF Inv, Shows, Awaits, Answers, PanicsUnsent
    <2> QED
      BY <2>2, <2>3 DEF Inv
  <1> QED
    BY <1>1, PrepareTurnInv, CheckToolInv, StepTurnInv, AnswerInv, EndTurnInv DEF Next

-----------------------------------------------------------------------------
(* What a turn leaves for its later steps, in any conversation: what it has  *)
(* shown, asked, sent and been answered is all of one prepare, for as long  *)
(* as the turn lasts (support_bot main).                                   *)
THEOREM TurnKept == Spec => []Inv
  BY InvInit, InvNext, PTL DEF Spec

(* The history has one event for every turn that has ended, and main never  *)
(* looks beyond its script (support_bot main).                             *)
THEOREM BotTyped == Spec => []TypeOK
  <1>1. Inv => TypeOK
    BY DEF Inv, Turning, Kept, TypeOK
  <1> QED
    BY <1>1, TurnKept, PTL

(* The step of a turn works with what its prepare has shown, whatever the    *)
(* script (Runner::prepare and step, as main calls them).                  *)
THEOREM StepsAgree == Spec => []TurnAgrees
  <1>1. Inv => TurnAgrees
    BY DEF Inv, Shows, Answers, TurnAgrees
  <1> QED
    BY <1>1, TurnKept, PTL

(* In no state and with no event does the bot get to use the tool it tries  *)
(* (SupportPolicy, Policy::check, ToolPlan).                               *)
THEOREM AttemptsDenied == Spec => []AttemptDenied
  <1>1. Inv => AttemptDenied
    <2> SUFFICES ASSUME Inv, phase \in {"step", "await", "edge"}
                 PROVE  /\ verdict = "denied"
                        /\ Attempt(Here.state) \notin ToSet(shown.tools)
      BY DEF AttemptDenied
    <2>1. /\ verdict = "denied" /\ shown = Prepared /\ Turning /\ Shared
          /\ idx <= Len(script) /\ R!PrepareError(Call) = None
      BY DEF Inv, Asks, Shows, Turning
    <2>2. shown.tools = Allowed[Here.state] /\ Here.state \in States
      BY <2>1, PrepareTells, TurnCalled
    <2> QED
      BY <2>1, <2>2, AttemptRefused
  <1> QED
    BY <1>1, TurnKept, PTL

(* The mock speaks of a refund only to the prompt of Resolving, and get gives *)
(* that prompt only for Resolving, whose policy allows the tool            *)
(* (support_bot's registry, SupportPolicy and MockLlm).                    *)
THEOREM RefundsAllowed == Spec => []RefundAllowed
  <1>1. Inv => RefundAllowed
    <2> SUFFICES ASSUME Inv, said = "refund", phase = "edge"
                 PROVE  /\ SupportPolicy!Check(Here.state, "process_refund")
                        /\ "process_refund" \in ToSet(output[Bot].tools)
      BY DEF RefundAllowed
    <2>1. /\ Turning /\ Shared /\ idx <= Len(script) /\ R!PrepareError(Call) = None
          /\ Respond(Prepared.prompt) = "refund" /\ output[Bot].tools = Prepared.tools
      BY DEF Inv, Shows, Answers, Turning
    <2>2. /\ Prepared.prompt \in Prompts
          /\ Prepared.prompt.for = <<Text(Here.state), Text(Here.event)>>
          /\ Prepared.tools = Allowed[Here.state] /\ Here.state \in States
      BY <2>1, PrepareTells, TurnCalled
    <2>3. \A p \in Prompts : Respond(p) = "refund" => p.for[1] = "Resolving"
      BY DEF Prompts, Greet, Clarify, Resolve, Fallback, Prompt, Respond
    <2>4. Here.state = Resolving
      BY <2>1, <2>2, <2>3 DEF States, Greeting, CollectingInfo, Resolving, Named, Text
    <2>5. Allowed[Here.state] = <<"read_profile", "read_order", "process_refund">>
      BY <2>4 DEF Allowed, States, Greeting, CollectingInfo, Resolving, Named
    <2>6. "process_refund" \in ToSet(Allowed[Here.state])
      BY <2>5 DEF ToSet
    <2>7. SupportPolicy!Check(Here.state, "process_refund")
      BY <2>6 DEF SupportPolicy!Check, SupportPolicy!Allowed, SupportPolicy!Listed, ToSet
    <2> QED
      BY <2>1, <2>2, <2>6, <2>7
  <1> QED
    BY <1>1, TurnKept, PTL

(* Nothing but a missing prompt makes main panic, and then before it has     *)
(* asked the policy or sent anything in that turn (support_bot main).      *)
THEOREM PanicsBeforeSending == Spec => []PanicsUnsent
  <1>1. Inv => PanicsUnsent
    BY DEF Inv
  <1> QED
    BY <1>1, TurnKept, PTL

-----------------------------------------------------------------------------
(* What the closure is handed: the context of the turn's prepare. *)
Sends ==
    /\ adapter = "closure"
    /\ phase \in {"await", "edge"} => sent[Bot].user = Prepared.context

LEMMA SendsNext == Inv /\ Sends /\ [Next]_vars => Sends'
  <1> SUFFICES ASSUME Inv, Sends, [Next]_vars
               PROVE  Sends'
    OBVIOUS
  <1>1. CASE PrepareTurn
    <2>1. phase' \in {"check", "panicked"} /\ adapter' = adapter
      BY <1>1 DEF PrepareTurn, R!Prepare, R!Begin
    <2> QED
      BY <2>1 DEF Sends
  <1>2. CASE CheckTool
    BY <1>2 DEF CheckTool, runner, Sends
  <1>3. CASE StepTurn
    <2>1. /\ Shared /\ Shows /\ phase = "step" /\ R!StepCall(Bot, Call)
          /\ UNCHANGED <<adapter, prompts, script, idx, history>>
      BY <1>3 DEF Inv, StepTurn, R!StepCall, R!Begin
    <2>2. R!PrepareError(Call) = None
      BY <2>1 DEF Shows
    <2>3. sent'[Bot] = R!Request(Prepared)
      BY <2>1, <2>2 DEF R!StepCall, Shared, Prepared
    <2>4. sent'[Bot].user = Prepared.context
      BY <2>3 DEF Sends, R!Request, R!ClosureRequest
    <2> QED
      BY <2>1, <2>4, SameTurn DEF Sends
  <1>4. CASE Answer
    <2>1. UNCHANGED <<adapter, prompts, sent, script, idx, history>> /\ phase = "await"
      BY <1>4 DEF Answer, R!StepReturn
    <2> QED
      BY <2>1, SameTurn DEF Sends
  <1>5. CASE EndTurn
    BY <1>5 DEF EndTurn, runner, Sends
  <1>6. CASE UNCHANGED vars
    <2>1. UNCHANGED <<adapter, prompts, sent, script, idx, phase, history>>
      BY <1>6 DEF vars, runner
    <2> QED
      BY <2>1, SameTurn DEF Sends
  <1> QED
    BY <1>1, <1>2, <1>3, <1>4, <1>5, <1>6 DEF Next

(* The builder that the bot has and the one that the lemmas are about are   *)
(* instances of one module.                                                *)
LEMMA OneBuilder ==
    /\ \A e : Prose!RunsOf(e) = PB!RunsOf(e)
    /\ \A h : Prose!Selected(h) = PB!Selected(h)
    /\ \A ss : Prose!FlattenSeq(ss) = PB!FlattenSeq(ss)
    /\ \A s, t : Prose!IsSuffix(s, t) = PB!IsSuffix(s, t)
  <1>1. ASSUME NEW e
        PROVE  Prose!RunsOf(e) = PB!RunsOf(e)
    BY DEF Prose!RunsOf, PB!RunsOf, Prose!RunAt, PB!RunAt, Prose!Rank, PB!Rank,
       Prose!Runs, PB!Runs, Prose!IsRun, PB!IsRun, Prose!Cardinality, PB!Cardinality
  <1>2. ASSUME NEW ss
        PROVE  Prose!FlattenSeq(ss) = PB!FlattenSeq(ss)
    BY DEF Prose!FlattenSeq, PB!FlattenSeq
  <1>3. ASSUME NEW e
        PROVE  Prose!Split(e) = PB!Split(e)
    BY DEF Prose!Split, PB!Split, Prose!FoldLeft, PB!FoldLeft, Prose!TakeLine,
       PB!TakeLine, Prose!EndParagraph, PB!EndParagraph, Prose!MapThenFoldSet,
       PB!MapThenFoldSet, Prose!Max, PB!Max
  <1>4. ASSUME NEW h
        PROVE  Prose!AllParagraphs(h) = PB!AllParagraphs(h)
    BY <1>2, <1>3 DEF Prose!AllParagraphs, PB!AllParagraphs
  <1>5. ASSUME NEW h
        PROVE  Prose!Selected(h) = PB!Selected(h)
    BY <1>4 DEF Prose!Selected, PB!Selected, Prose!Reverse, PB!Reverse
  <1>6. ASSUME NEW s, NEW t
        PROVE  Prose!IsSuffix(s, t) = PB!IsSuffix(s, t)
    BY DEF Prose!IsSuffix, PB!IsSuffix, Prose!IsPrefix, PB!IsPrefix, Prose!Reverse,
       PB!Reverse
  <1> QED
    BY <1>1, <1>2, <1>5, <1>6

LEMMA ItsAssumption == PB!ParagraphAssumption
  <1>1. \A e \in Events : <<Text(e)>> \in Seq(PB!ToSet(<<Text(e)>>))
    BY DEF PB!ToSet
  <1> QED
    BY <1>1, BotAssumption DEF PB!ParagraphAssumption

LEMMA Newest ==
    ASSUME PB!ParagraphAssumption, NEW X, NEW h \in Seq(Seq(X)), N \in Nat
    PROVE  LET runs == PB!FlattenSeq([i \in 1..Len(h) |-> PB!RunsOf(h[i])])
           IN  /\ PB!IsSuffix(PB!Selected(h), runs)
               /\ Len(PB!Selected(h)) = IF Len(runs) < N THEN Len(runs) ELSE N
  BY PB!NewestSelected

(* The closure is handed the newest N paragraphs of the turns before and     *)
(* this turn's event, which is not in the history yet, in any script       *)
(* (support_bot main, ParagraphBuilder::build, Runner::step).              *)
THEOREM NewestSent == Spec => []SendsNewest
  <1>1. Init => Sends
    BY DEF Init, R!Init, Sends
  <1>2. Inv /\ Sends => SendsNewest
    <2> SUFFICES ASSUME Inv, Sends, phase \in {"await", "edge"}
                 PROVE  Prose!KeepsNewest
      BY DEF SendsNewest
    <2> DEFINE h == LinesOf(history)
               all == LinesOf(Append(history, Here.event))
    <2>1. Turning /\ idx <= Len(script) /\ history \in Seq(Events)
      BY DEF Inv, Turning
    <2>2. Here.event \in Events /\ <<Here.event, history>> \in DOMAIN Build
      BY <2>1, TurnCalled
    <2>3. sent[Bot].user = Build[<<Here.event, history>>]
      BY DEF Sends, Prepared, R!PreparedOf, R!ContextOf, Call
    <2>4. sent[Bot].user = [selected |-> Prose!Selected(h), event |-> <<Text(Here.event)>>]
      BY <2>2, <2>3 DEF Build
    <2>5. /\ Len(history) \in Nat /\ Len(h) = Len(history)
          /\ Len(all) = Len(history) + 1
          /\ all[Len(all)] = <<Text(Here.event)>>
          /\ \A i \in 1..Len(history) : all[i] = h[i]
      BY <2>1, <2>2 DEF LinesOf
    <2>6. h \in Seq(Seq({Text(e) : e \in Events}))
      <3> DEFINE X == {Text(e) : e \in Events}
      <3>1. h = [i \in 1..Len(history) |-> <<Text(history[i])>>]
        BY <2>1 DEF LinesOf
      <3>2. \A i \in 1..Len(history) : Text(history[i]) \in X
        BY <2>1
      <3> HIDE DEF X
      <3>3. \A i \in 1..Len(history) : <<Text(history[i])>> \in Seq(X)
        BY <3>2
      <3>4. h \in Seq(Seq(X))
        BY <2>5, <3>1, <3>3
      <3> QED
        BY <3>4 DEF X
    <2> HIDE DEF h, all
    <2>7. N \in Nat
      BY BotAssumption
    <2> DEFINE runs == Prose!FlattenSeq([i \in 1..Len(all) - 1 |-> Prose!RunsOf(all[i])])
    <2>8. [i \in 1..Len(all) - 1 |-> Prose!RunsOf(all[i])]
            = [i \in 1..Len(h) |-> PB!RunsOf(h[i])]
      BY <2>5, OneBuilder
    <2>9. runs = PB!FlattenSeq([i \in 1..Len(h) |-> PB!RunsOf(h[i])])
      BY <2>8, OneBuilder
    <2> HIDE DEF runs
    <2>10. /\ PB!IsSuffix(PB!Selected(h), runs)
           /\ Len(PB!Selected(h)) = IF Len(runs) < N THEN Len(runs) ELSE N
      BY <2>6, <2>7, <2>9, ItsAssumption, Newest
    <2>11. /\ Prose!IsSuffix(Prose!Selected(h), runs)
           /\ Len(Prose!Selected(h)) = IF Len(runs) < N THEN Len(runs) ELSE N
      BY <2>10, OneBuilder
    <2> QED
      BY <2>4, <2>5, <2>11 DEF Prose!KeepsNewest, runs, all
  <1> QED
    BY <1>1, <1>2, SendsNext, TurnKept, PTL DEF Spec
====
