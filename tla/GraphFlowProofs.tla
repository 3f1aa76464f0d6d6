---- MODULE GraphFlowProofs ----
(***************************************************************************)
(* A runner's outputs are of one piece and its errors tell the stage that  *)
(* failed, for any number of callers, states, events and prompts; and what *)
(* the Context of a workflow on such a runner holds, for any graph, any    *)
(* number of workflows and any failures, timeouts and changes of prompts.  *)
(***************************************************************************)
EXTENDS GraphFlow, Integers, TLAPS

(* The runner, whoever calls it. *)
LEMMA CallTyped ==
    ASSUME NEW call \in Calls
    PROVE  /\ KeyFor(call) \in Keys
           /\ call.state \in States /\ call.event \in Events /\ call.window \in Windows
           /\ Plan[call.state] \in Tools
           /\ ContextOf(call) # Unbuildable => ContextOf(call) \in Contexts
  BY DEF Calls, KeyFor, Keys, Tools, ContextOf, Contexts

(* A call that prepare has no error for has a snapshot. *)
LEMMA PreparedTyped ==
    ASSUME TypeOK, NEW call \in Calls, PrepareError(call) = None
    PROVE  PreparedOf(call) \in PreparedSet
  <1>1. prompts[KeyFor(call)] \in Prompts \union {Missing, Broken}
    BY CallTyped DEF TypeOK
  <1>2. prompts[KeyFor(call)] \in Prompts /\ ContextOf(call) # Unbuildable
    BY <1>1, RunnerAssumption DEF PrepareError, Errors
  <1> QED
    BY <1>2, CallTyped DEF PreparedOf, PreparedSet

LEMMA ErrorTyped ==
    ASSUME NEW call \in Calls
    PROVE  PrepareError(call) \in (Errors \ {"LlmFailed"}) \union {None}
  BY DEF PrepareError, Errors

LEMMA RequestTyped ==
    ASSUME TypeOK, NEW p, p.prompt \in Prompts, p.context \in Contexts
    PROVE  Request(p) \in Requests
  BY RunnerAssumption
  DEF Request, ModelRequest, AgentRequest, FactoryRequest, ClosureRequest,
      UserMessage, Requests, TypeOK

(* The parts of IInv about one caller. *)
CallerOK(c) ==
    /\ waiting[c] # None =>
        /\ sent[c] = Request(waiting[c])
        /\ waiting[c].key = KeyFor(waiting[c].call)
        /\ waiting[c].tools = Plan[waiting[c].call.state]
        /\ waiting[c].context = ContextOf(waiting[c].call)
        /\ error[c] = None /\ output[c] = None
    /\ output[c] # None =>
        /\ output[c].reply = Request(output[c])
        /\ output[c].tools = Plan[output[c].next]
        /\ \E e \in Events, w \in Windows :
              /\ output[c].key = <<Display[output[c].next], Display[e]>>
              /\ output[c].context = Build[<<e, w>>]
    /\ error[c] # None =>
        /\ output[c] = None
        /\ error[c] = "LlmFailed" <=> sent[c] # None

LEMMA ByCaller == IInv <=> TypeOK /\ \A c \in Callers : CallerOK(c)
  BY DEF IInv, WaitingIntact, OutputOfOnePiece, ErrorTellsStage, CallerOK

(* A step that leaves a caller's variables alone leaves its part alone. *)
LEMMA OthersKept ==
    ASSUME NEW c \in Callers, CallerOK(c), adapter' = adapter,
           waiting'[c] = waiting[c], sent'[c] = sent[c],
           error'[c] = error[c], output'[c] = output[c]
    PROVE  CallerOK(c)'
  BY DEF CallerOK, Request, ModelRequest, AgentRequest, FactoryRequest,
         ClosureRequest, UserMessage, KeyFor, ContextOf

LEMMA TypeNext == TypeOK /\ [Next]_vars => TypeOK'
  <1> SUFFICES ASSUME TypeOK, [Next]_vars PROVE TypeOK'
    OBVIOUS
  <1>1. ASSUME NEW k \in Keys, NEW p \in Prompts \union {Missing, Broken}, Publish(k, p)
        PROVE  TypeOK'
    BY <1>1 DEF Publish, TypeOK
  <1>2. ASSUME NEW c \in Callers, NEW call \in Calls, Prepare(c, call)
        PROVE  TypeOK'
    <2>1. PrepareError(call) = None => PreparedOf(call) \in PreparedSet
      BY PreparedTyped
    <2>2. PrepareError(call) \in Errors \union {None}
      BY ErrorTyped
    <2> HIDE DEF PrepareError, PreparedOf, PreparedSet
    <2> QED
      BY <1>2, <2>1, <2>2 DEF Prepare, Begin, Idle, TypeOK
  <1>3. ASSUME NEW c \in Callers, NEW call \in Calls, StepCall(c, call)
        PROVE  TypeOK'
    <2>1. PrepareError(call) = None => Request(PreparedOf(call)) \in Requests
      BY PreparedTyped, RequestTyped DEF PreparedSet
    <2>6. None \notin Requests
      BY RunnerAssumption
    <2>2. PrepareError(call) = None => PreparedOf(call) \in PreparedSet
      BY PreparedTyped
    <2>3. PrepareError(call) \in Errors \union {None}
      BY ErrorTyped
    <2> HIDE DEF PrepareError, PreparedOf, PreparedSet
    <2>4. CASE PrepareError(call) = None
      BY <1>3, <2>1, <2>2, <2>4, <2>6 DEF StepCall, Begin, TypeOK
    <2>5. CASE PrepareError(call) # None
      BY <1>3, <2>3, <2>5 DEF StepCall, Begin, Idle, TypeOK
    <2> QED
      BY <2>4, <2>5
  <1>4. ASSUME NEW c \in Callers, StepReturn(c)
        PROVE  TypeOK'
    <2>1. waiting[c] \in PreparedSet /\ sent[c] \in Requests
      BY <1>4 DEF StepReturn, Idle, TypeOK
    <2> QED
      BY <1>4, <2>1 DEF StepReturn, TypeOK, PreparedSet, Outputs, Calls
  <1>5. ASSUME NEW c \in Callers, NEW e \in Errors, StepFail(c, e)
        PROVE  TypeOK'
    BY <1>5 DEF StepFail, Normalised, TypeOK, Errors
  <1>6. ASSUME NEW c \in Callers, Cancel(c)
        PROVE  TypeOK'
    BY <1>6 DEF Cancel, TypeOK
  <1>7. CASE UNCHANGED vars
    BY <1>7 DEF vars, TypeOK
  <1> QED
    BY <1>1, <1>2, <1>3, <1>4, <1>5, <1>6, <1>7 DEF Next

LEMMA IInvInit == Init => IInv
  BY DEF Init, IInv, TypeOK, WaitingIntact, OutputOfOnePiece, ErrorTellsStage

LEMMA IInvNext == IInv /\ [Next]_vars => IInv'
  <1> SUFFICES ASSUME IInv, [Next]_vars PROVE IInv'
    OBVIOUS
  <1>0. TypeOK /\ TypeOK' /\ \A c \in Callers : CallerOK(c)
    BY TypeNext, ByCaller
  <1> SUFFICES ASSUME NEW c \in Callers PROVE CallerOK(c)'
    BY <1>0, ByCaller DEF IInv, WaitingIntact, OutputOfOnePiece, ErrorTellsStage, CallerOK
  <1>1. ASSUME NEW k \in Keys, NEW p \in Prompts \union {Missing, Broken}, Publish(k, p)
        PROVE  CallerOK(c)'
    BY <1>0, <1>1, OthersKept DEF Publish
  <1>2. ASSUME NEW d \in Callers, d # c, NEW call \in Calls,
               Prepare(d, call) \/ StepCall(d, call)
        PROVE  CallerOK(c)'
    BY <1>0, <1>2, OthersKept DEF Prepare, StepCall, Begin, TypeOK
  <1>3. ASSUME NEW d \in Callers, d # c, NEW e \in Errors,
               StepReturn(d) \/ StepFail(d, e) \/ Cancel(d)
        PROVE  CallerOK(c)'
    BY <1>0, <1>3, OthersKept DEF StepReturn, StepFail, Cancel, TypeOK
  <1>4. ASSUME NEW call \in Calls, Prepare(c, call)
        PROVE  CallerOK(c)'
    <2>1. waiting'[c] = None /\ output'[c] = None /\ sent'[c] = None
          /\ error'[c] = PrepareError(call)
      BY <1>0, <1>4 DEF Prepare, Begin, Idle, TypeOK
    <2> QED
      BY <2>1, ErrorTyped DEF CallerOK, Errors
  <1>5. ASSUME NEW call \in Calls, StepCall(c, call)
        PROVE  CallerOK(c)'
    <2>1. output'[c] = None /\ error'[c] = PrepareError(call) /\ adapter' = adapter
      BY <1>0, <1>5 DEF StepCall, Begin, TypeOK
    <2>2. CASE PrepareError(call) = None
      <3>1. waiting'[c] = PreparedOf(call) /\ sent'[c] = Request(PreparedOf(call))
        BY <1>0, <1>5, <2>2 DEF StepCall, TypeOK
      <3> QED
        BY <2>1, <2>2, <3>1
        DEF CallerOK, PreparedOf, Request, ModelRequest, AgentRequest,
            FactoryRequest, ClosureRequest, UserMessage, KeyFor, ContextOf
    <2>3. CASE PrepareError(call) # None
      <3>1. waiting'[c] = None /\ sent'[c] = None
        BY <1>0, <1>5, <2>3 DEF StepCall, Begin, Idle, TypeOK
      <3> QED
        BY <2>1, <3>1, ErrorTyped DEF CallerOK, Errors
    <2> QED
      BY <2>2, <2>3
  <1>6. ASSUME StepReturn(c)
        PROVE  CallerOK(c)'
    <2>1. waiting[c] # None /\ waiting[c] \in PreparedSet
      BY <1>0, <1>6 DEF StepReturn, Idle, TypeOK
    <2>2. /\ waiting'[c] = None /\ error'[c] = None /\ adapter' = adapter
          /\ output'[c] = [next |-> waiting[c].call.state, key |-> waiting[c].key,
                           prompt |-> waiting[c].prompt, context |-> waiting[c].context,
                           tools |-> waiting[c].tools, reply |-> sent[c]]
      BY <1>0, <1>6, <2>1 DEF StepReturn, CallerOK, TypeOK
    <2>3. waiting[c].call.window \in Windows /\ waiting[c].call.event \in Events
      BY <2>1 DEF PreparedSet, Calls
    <2>4. /\ sent[c] = Request(waiting[c])
          /\ waiting[c].key =
                <<Display[waiting[c].call.state], Display[waiting[c].call.event]>>
          /\ waiting[c].tools = Plan[waiting[c].call.state]
          /\ waiting[c].context = Build[<<waiting[c].call.event, waiting[c].call.window>>]
      BY <1>0, <2>1 DEF CallerOK, KeyFor, ContextOf
    <2>5. (output[c].reply = Request(output[c]))'
      <3>1. /\ output'[c].reply = Request(waiting[c])
            /\ output'[c].prompt = waiting[c].prompt
            /\ output'[c].context = waiting[c].context
        BY <2>2, <2>4
      <3> QED
        BY <2>2, <3>1
        DEF Request, ModelRequest, AgentRequest, FactoryRequest, ClosureRequest,
            UserMessage
    <2>6. /\ output'[c].key =
                <<Display[output'[c].next], Display[waiting[c].call.event]>>
          /\ output'[c].tools = Plan[output'[c].next]
          /\ output'[c].context = Build[<<waiting[c].call.event, waiting[c].call.window>>]
      BY <2>2, <2>4
    <2>7. \E e \in Events, w \in Windows :
             /\ output'[c].key = <<Display[output'[c].next], Display[e]>>
             /\ output'[c].context = Build[<<e, w>>]
      BY <2>3, <2>6
    <2> QED
      BY <2>2, <2>5, <2>6, <2>7 DEF CallerOK
  <1>7. ASSUME NEW e \in Errors, StepFail(c, e)
        PROVE  CallerOK(c)'
    <2>1. waiting[c] # None /\ waiting[c] \in PreparedSet
      BY <1>0, <1>7 DEF StepFail, Idle, TypeOK
    <2>2. waiting'[c] = None /\ error'[c] = "LlmFailed" /\ output'[c] = None
          /\ sent'[c] = sent[c] /\ sent[c] = Request(waiting[c])
      BY <1>0, <1>7, <2>1 DEF StepFail, Normalised, CallerOK, TypeOK
    <2>3. Request(waiting[c]) \in Requests
      BY <1>0, <2>1, RequestTyped DEF PreparedSet
    <2>4. None \notin Requests
      BY RunnerAssumption
    <2> QED
      BY <2>2, <2>3, <2>4 DEF CallerOK
  <1>8. ASSUME Cancel(c)
        PROVE  CallerOK(c)'
    BY <1>0, <1>8 DEF Cancel, Idle, TypeOK, CallerOK
  <1>9. CASE UNCHANGED vars
    BY <1>0, <1>9, OthersKept DEF vars
  <1>10. ASSUME NEW d \in Callers,
                \/ \E call \in Calls : Prepare(d, call) \/ StepCall(d, call)
                \/ StepReturn(d)
                \/ \E e \in Errors : StepFail(d, e)
                \/ Cancel(d)
         PROVE  CallerOK(c)'
    <2>1. CASE d = c
      BY <1>4, <1>5, <1>6, <1>7, <1>8, <1>10, <2>1
    <2>2. CASE d # c
      <3>1. Errors # {}
        BY DEF Errors
      <3> QED
        BY <1>2, <1>3, <1>10, <2>2, <3>1
    <2> QED
      BY <2>1, <2>2
  <1> QED
    BY <1>1, <1>9, <1>10 DEF Next

(* A waiting step's request is the one of its snapshot, and the snapshot is *)
(* of its call, for any number of callers (Runner::prepare, Runner::step). *)
THEOREM Invariance == Spec => []IInv
  BY IInvInit, IInvNext, PTL DEF Spec

-----------------------------------------------------------------------------
(* Every variable of the runner keeps its type (TypeOK). *)
THEOREM TypeCorrect == Spec => []TypeOK
  <1>1. IInv => TypeOK
    BY DEF IInv
  <1> QED
    BY <1>1, Invariance, PTL

(* However often prompts are republished while steps wait, the reply of an  *)
(* output answers the prompt and context it reports (Runner::step).        *)
THEOREM OnePiece == Spec => []OutputOfOnePiece
  <1>1. IInv => OutputOfOnePiece
    BY DEF IInv
  <1> QED
    BY <1>1, Invariance, PTL

(* A caller sees LlmFailed exactly when its call had reached the model      *)
(* before it failed (Runner::step, prepare's ? and the final map_err).     *)
THEOREM StageTold == Spec => []ErrorTellsStage
  <1>1. IInv => ErrorTellsStage
    BY DEF IInv
  <1> QED
    BY <1>1, Invariance, PTL

(* The registry's prompt is in what is sent, with any adapter and any       *)
(* context but a RigAgentAdapter's that is not blank.                      *)
THEOREM PromptSent == Spec => []PromptReachesModel
  <1>1. IInv => PromptReachesModel
    <2> SUFFICES ASSUME IInv, NEW c \in Callers, waiting[c] # None
                 PROVE  \/ waiting[c].prompt \in {sent[c].preamble, sent[c].user}
                        \/ adapter = "agent" /\ waiting[c].context # Empty
      BY DEF PromptReachesModel
    <2>1. sent[c] = Request(waiting[c])
      BY DEF IInv, WaitingIntact
    <2>2. adapter \in {"model", "closure", "factory", "agent"}
      BY RunnerAssumption DEF IInv, TypeOK
    <2>3. CASE adapter = "agent"
      BY <2>1, <2>3 DEF Request, AgentRequest, UserMessage
    <2>4. CASE adapter # "agent"
      BY <2>1, <2>2, <2>4
      DEF Request, ModelRequest, FactoryRequest, ClosureRequest, UserMessage
    <2> QED
      BY <2>3, <2>4
  <1> QED
    BY <1>1, Invariance, PTL

-----------------------------------------------------------------------------
(* The tasks of a workflow. *)
LEMMA TaskTyped ==
    ASSUME NEW i \in Ids
    PROVE  /\ Task[i].kind \in {"prepare", "step"}
           /\ Task[i].call \in Calls
           /\ Task[i].next \in Actions
  <1>1. PICK t \in Graph.tasks : t.id = i
    BY DEF Ids
  <1>2. Task[i] \in Graph.tasks
    BY <1>1 DEF Task
  <1> QED
    BY <1>2, GraphAssumption

LEMMA CurrentTyped ==
    ASSUME FlowTypeOK, NEW w \in Callers
    PROVE  /\ Current(w).kind \in {"prepare", "step"}
           /\ Current(w).call \in Calls
           /\ Current(w).next \in Actions
  <1>1. at[w] \in Ids
    BY DEF FlowTypeOK
  <1> QED
    BY <1>1, TaskTyped DEF Current

(* A workflow uses the runner as any caller may. *)
LEMMA RunnerNext == FlowTypeOK /\ [FlowNext]_allvars => [Next]_vars
  <1> SUFFICES ASSUME FlowTypeOK, [FlowNext]_allvars
               PROVE  [Next]_vars
    OBVIOUS
  <1>1. ASSUME NEW w \in Callers, RunPrepare(w)
        PROVE  Next
    BY <1>1, CurrentTyped DEF RunPrepare, Next
  <1>2. ASSUME NEW w \in Callers, RunStep(w)
        PROVE  Next
    BY <1>2, CurrentTyped DEF RunStep, Next
  <1>3. ASSUME NEW w \in Callers, Answered(w)
        PROVE  Next
    BY <1>3 DEF Answered, Next
  <1>4. ASSUME NEW w \in Callers, TimesOut(w)
        PROVE  Next
    BY <1>4 DEF TimesOut, Next
  <1>5. ASSUME NEW w \in Callers, Write(w) \/ Finish(w)
        PROVE  UNCHANGED vars
    BY <1>5 DEF Write, Finish, vars
  <1>6. ASSUME NEW k \in Keys, NEW p \in Prompts \union {Missing, Broken}, Publish(k, p)
        PROVE  Next
    BY <1>6 DEF Next
  <1>7. CASE UNCHANGED allvars
    BY <1>7 DEF allvars
  <1> QED
    BY <1>1, <1>2, <1>3, <1>4, <1>5, <1>6, <1>7 DEF FlowNext

-----------------------------------------------------------------------------
(* The type of one workflow's part of the state. *)
FlowOK(w) ==
    /\ at[w] \in Ids
    /\ status[w] \in {"ready", "awaiting", "writing", "completed"}
    /\ todo[w] \in Seq(Cells)
    /\ cells[w] \in Contents
    /\ prior[w] \in Ids \union {None}
    /\ last[w] \in {"none", "prepared", "stepped", "failed"}
    /\ status[w] = "awaiting" <=> waiting[w] # None
    /\ todo[w] # <<>> => status[w] = "writing"
    /\ status[w] = "writing" =>
          IF Task[at[w]].kind = "prepare" THEN prepared[w] # None
                                          ELSE output[w] # None

Functions ==
    /\ DOMAIN at = Callers /\ at = [w \in Callers |-> at[w]]
    /\ DOMAIN status = Callers /\ status = [w \in Callers |-> status[w]]
    /\ DOMAIN todo = Callers /\ todo = [w \in Callers |-> todo[w]]
    /\ DOMAIN cells = Callers /\ cells = [w \in Callers |-> cells[w]]
    /\ DOMAIN prior = Callers /\ prior = [w \in Callers |-> prior[w]]
    /\ DOMAIN last = Callers /\ last = [w \in Callers |-> last[w]]

LEMMA ByWorkflow ==
    FlowTypeOK <=> TypeOK /\ Functions /\ \A w \in Callers : FlowOK(w)
  BY DEF FlowTypeOK, FlowOK, Functions

(* Another workflow's step leaves all of a workflow's state alone. *)
Mine(w) ==
    <<at[w], status[w], todo[w], cells[w], prior[w], last[w],
      waiting[w], sent[w], error[w], prepared[w], output[w]>>

LEMMA OthersUntouched ==
    ASSUME FlowTypeOK, NEW w \in Callers, NEW v \in Callers, v # w,
           RunPrepare(w) \/ RunStep(w) \/ Answered(w) \/ TimesOut(w)
              \/ Write(w) \/ Finish(w)
    PROVE  Mine(v)' = Mine(v) /\ adapter' = adapter /\ Functions'
  <1> USE DEF FlowTypeOK, TypeOK, Mine, Functions
  <1>1. CASE RunPrepare(w)
    BY <1>1 DEF RunPrepare, Prepare, Begin, StartsWriting, Fails
  <1>2. CASE RunStep(w)
    BY <1>2 DEF RunStep, StepCall, Begin, Fails
  <1>3. CASE Answered(w)
    BY <1>3 DEF Answered, StepReturn, StepFail, StartsWriting, Fails
  <1>4. CASE TimesOut(w)
    BY <1>4 DEF TimesOut, Cancel, Fails
  <1>5. CASE Write(w)
    BY <1>5 DEF Write, Fails, vars
  <1>6. CASE Finish(w)
    BY <1>6 DEF Finish, vars
  <1> QED
    BY <1>1, <1>2, <1>3, <1>4, <1>5, <1>6

LEMMA WriteTyped ==
    ASSUME NEW r \in Contents, NEW cell \in Cells, NEW v,
           cell = "prompt" => v \in Prompts,
           cell = "context" => v \in Contexts,
           cell = "prompt_key" => v \in Written,
           cell = "tools" => v \in Tools,
           cell = "response" => v \in Requests,
           cell \in {"state", "event"} => v \in Names
    PROVE  [r EXCEPT ![cell] = v] \in Contents
  <1>1. CASE cell = "prompt"
    BY <1>1 DEF Contents
  <1>2. CASE cell = "context"
    BY <1>2 DEF Contents
  <1>3. CASE cell = "prompt_key"
    BY <1>3 DEF Contents
  <1>4. CASE cell = "tools"
    BY <1>4 DEF Contents
  <1>5. CASE cell = "response"
    BY <1>5 DEF Contents
  <1>6. CASE cell = "state"
    BY <1>6 DEF Contents
  <1>7. CASE cell = "event"
    BY <1>7 DEF Contents
  <1> QED
    BY <1>1, <1>2, <1>3, <1>4, <1>5, <1>6, <1>7 DEF Cells

(* A cell that a task of this kind writes, and what it puts there. *)
LEMMA ValueTyped ==
    ASSUME FlowTypeOK, NEW w \in Callers, status[w] = "writing", NEW cell \in Cells,
           Current(w).kind = "prepare" => cell # "response",
           Current(w).kind = "step" => cell \in {"prompt", "context", "response", "state"}
    PROVE  /\ cell = "prompt" => Value(w, cell) \in Prompts
           /\ cell = "context" => Value(w, cell) \in Contexts
           /\ cell = "prompt_key" => Value(w, cell) \in Written
           /\ cell = "tools" => Value(w, cell) \in Tools
           /\ cell = "response" => Value(w, cell) \in Requests
           /\ cell \in {"state", "event"} => Value(w, cell) \in Names
  <1>1. /\ Current(w).kind = "prepare" => prepared[w] \in PreparedSet
        /\ Current(w).kind = "step" => output[w] \in Outputs
    BY CurrentTyped DEF FlowTypeOK, TypeOK, Current
  <1>2. Display[Current(w).call.state] \in Names /\ Display[Current(w).call.event] \in Names
    BY CurrentTyped DEF Names, Calls
  <1>3. CASE Current(w).kind = "prepare"
    BY <1>1, <1>2, <1>3 DEF Value, PreparedSet, Written
  <1>4. CASE Current(w).kind = "step"
    BY <1>1, <1>2, <1>4 DEF Value, Outputs
  <1> QED
    BY <1>3, <1>4, CurrentTyped

-----------------------------------------------------------------------------
(* A task has yet to write the last cells of what its kind writes; Done is  *)
(* how many it has behind it.                                              *)
Done(l, kind) == Len(Writes(kind)) - Len(l)

Ending(l, kind) ==
    /\ l \in Seq(Cells)
    /\ Done(l, kind) \in Nat
    /\ \A i \in 1..Len(l) : l[i] = Writes(kind)[Done(l, kind) + i]

LEMMA PrepareWrites ==
    /\ Writes("prepare") \in Seq(Cells) /\ Len(Writes("prepare")) = 6
    /\ Writes("prepare")[1] = "prompt" /\ Writes("prepare")[2] = "context"
    /\ Writes("prepare")[3] = "prompt_key" /\ Writes("prepare")[4] = "tools"
    /\ Writes("prepare")[5] = "state" /\ Writes("prepare")[6] = "event"
  BY DEF Writes, Cells

LEMMA StepWrites ==
    /\ Writes("step") \in Seq(Cells) /\ Len(Writes("step")) = 4
    /\ Writes("step")[1] = "prompt" /\ Writes("step")[2] = "context"
    /\ Writes("step")[3] = "response" /\ Writes("step")[4] = "state"
  BY DEF Writes, Cells

LEMMA EndingAtFirst ==
    ASSUME NEW kind \in {"prepare", "step"}
    PROVE  Ending(Writes(kind), kind) /\ Done(Writes(kind), kind) = 0
  BY PrepareWrites, StepWrites DEF Ending, Done

LEMMA EndingTail ==
    ASSUME NEW kind \in {"prepare", "step"}, NEW l, Ending(l, kind), l # <<>>
    PROVE  /\ Ending(Tail(l), kind)
           /\ Done(Tail(l), kind) = Done(l, kind) + 1
           /\ Head(l) = Writes(kind)[Done(l, kind) + 1]
           /\ Done(l, kind) + 1 \in 1..Len(Writes(kind))
           /\ Head(l) \in Cells
           /\ kind = "prepare" => Head(l) # "response"
           /\ kind = "step" => Head(l) \in {"prompt", "context", "response", "state"}
  <1>1. /\ l \in Seq(Cells) /\ Len(l) \in Nat \ {0} /\ Len(Writes(kind)) \in Nat
        /\ Tail(l) \in Seq(Cells) /\ Len(Tail(l)) = Len(l) - 1
        /\ \A i \in 1..Len(l) - 1 : Tail(l)[i] = l[i + 1]
        /\ Head(l) = l[1] /\ Head(l) \in Cells
    BY PrepareWrites, StepWrites DEF Ending
  <1>2. Done(Tail(l), kind) = Done(l, kind) + 1
    BY <1>1 DEF Done
  <1>3. Done(l, kind) \in Nat /\ Done(l, kind) + 1 \in 1..Len(Writes(kind))
    BY <1>1 DEF Done, Ending
  <1>4. Head(l) = Writes(kind)[Done(l, kind) + 1]
    BY <1>1 DEF Ending
  <1>5. ASSUME NEW i \in 1..Len(Tail(l))
        PROVE  Tail(l)[i] = Writes(kind)[Done(Tail(l), kind) + i]
    <2>1. i + 1 \in 1..Len(l) /\ Tail(l)[i] = l[i + 1]
      BY <1>1
    <2>2. l[i + 1] = Writes(kind)[Done(l, kind) + (i + 1)]
      BY <2>1 DEF Ending
    <2> QED
      BY <2>1, <2>2, <1>2, <1>3
  <1>6. Ending(Tail(l), kind)
    BY <1>1, <1>2, <1>3, <1>5 DEF Ending
  <1>7. CASE kind = "prepare"
    <2>1. Done(l, kind) + 1 \in 1..6
      BY <1>3, <1>7, PrepareWrites
    <2> QED
      BY <1>1, <1>2, <1>3, <1>4, <1>6, <1>7, <2>1, PrepareWrites
  <1>8. CASE kind = "step"
    <2>1. Done(l, kind) + 1 \in 1..4
      BY <1>3, <1>8, StepWrites
    <2> QED
      BY <1>1, <1>2, <1>3, <1>4, <1>6, <1>8, <2>1, StepWrites
  <1> QED
    BY <1>7, <1>8

LEMMA WrittenCells ==
    ASSUME NEW kind \in {"prepare", "step"}, NEW j \in 1..Len(Writes(kind))
    PROVE  Writes(kind)[j] \in Cells
  BY PrepareWrites, StepWrites

-----------------------------------------------------------------------------
(* While a task writes, the cells behind it hold what it has to say. *)
WritingIntact(w) ==
    status[w] = "writing" =>
        /\ Ending(todo[w], Current(w).kind)
        /\ \A j \in 1..Done(todo[w], Current(w).kind) :
              LET cell == Writes(Current(w).kind)[j]
              IN  cell \notin Lost(Current(w).kind) => cells[w][cell] = Value(w, cell)

AwaitingSteps(w) == status[w] = "awaiting" => Current(w).kind = "step"

AnswerKept(w) ==
    ~AnswerLost /\ status[w] # "writing" /\ last[w] = "stepped" =>
        cells[w].response =
            Request([prompt |-> cells[w].prompt, context |-> cells[w].context])

Intact(w) == WritingIntact(w) /\ AwaitingSteps(w) /\ AnswerKept(w)
Own(w) == FlowOK(w) /\ Intact(w)

FlowInv == IInv /\ FlowTypeOK /\ \A w \in Callers : Intact(w)

LEMMA StartsWritingOwn ==
    ASSUME FlowTypeOK, NEW w \in Callers, StartsWriting(w),
           waiting'[w] = None,
           IF Current(w).kind = "prepare" THEN prepared'[w] # None
                                          ELSE output'[w] # None
    PROVE  Own(w)'
  <1> USE DEF FlowTypeOK
  <1>1. at' = at /\ cells' = cells /\ prior' = prior /\ last' = last
    BY DEF StartsWriting
  <1>2. status'[w] = "writing" /\ todo'[w] = Writes(Current(w).kind)
    BY DEF StartsWriting
  <1>3. Current(w)' = Current(w) /\ Current(w).kind \in {"prepare", "step"}
    BY <1>1, CurrentTyped DEF Current
  <1>4. Ending(todo'[w], Current(w).kind) /\ Done(todo'[w], Current(w).kind) = 0
    BY <1>2, <1>3, EndingAtFirst
  <1>5. FlowOK(w)'
    BY <1>1, <1>2, <1>4 DEF FlowOK, Ending, Current
  <1>6. WritingIntact(w)'
    BY <1>2, <1>3, <1>4 DEF WritingIntact
  <1> QED
    BY <1>2, <1>5, <1>6 DEF Own, Intact, AwaitingSteps, AnswerKept

LEMMA FailsOwn ==
    ASSUME FlowTypeOK, NEW w \in Callers, Fails(w), waiting'[w] = None
    PROVE  Own(w)'
  BY DEF FlowTypeOK, Fails, Own, FlowOK, Intact, WritingIntact, AwaitingSteps,
         AnswerKept

(* What a prepare or a step leaves is never taken for nothing. *)
LEMMA SomethingThere ==
    ASSUME TypeOK, NEW call \in Calls, PrepareError(call) = None
    PROVE  PreparedOf(call) \in PreparedSet /\ PreparedOf(call) # None
  BY PreparedTyped, GraphAssumption

LEMMA RunPrepareOwn ==
    ASSUME FlowTypeOK, NEW w \in Callers, RunPrepare(w)
    PROVE  Own(w)'
  <1>1. /\ Current(w).call \in Calls /\ Current(w).kind = "prepare"
        /\ status[w] = "ready" /\ Prepare(w, Current(w).call)
    BY CurrentTyped DEF RunPrepare
  <1>2. waiting'[w] = None
    BY <1>1 DEF FlowTypeOK, Prepare
  <1>3. CASE PrepareError(Current(w).call) = None /\ StartsWriting(w)
    <2>1. prepared'[w] = PreparedOf(Current(w).call)
      BY <1>1, <1>3 DEF FlowTypeOK, TypeOK, Prepare
    <2>2. prepared'[w] # None
      BY <1>1, <1>3, <2>1, SomethingThere DEF FlowTypeOK
    <2> QED
      BY <1>1, <1>2, <1>3, <2>2, StartsWritingOwn
  <1>4. CASE Fails(w)
    BY <1>2, <1>4, FailsOwn
  <1> QED
    BY <1>3, <1>4 DEF RunPrepare

LEMMA RunStepOwn ==
    ASSUME FlowTypeOK, NEW w \in Callers, RunStep(w), Intact(w)
    PROVE  Own(w)'
  <1>1. /\ Current(w).call \in Calls
        /\ status[w] = "ready" /\ waiting[w] = None /\ StepCall(w, Current(w).call)
    BY CurrentTyped DEF RunStep, FlowTypeOK
  <1>2. CASE PrepareError(Current(w).call) = None
    <2>1. waiting'[w] = PreparedOf(Current(w).call)
      BY <1>1, <1>2 DEF FlowTypeOK, TypeOK, StepCall
    <2>2. waiting'[w] # None
      BY <1>1, <1>2, <2>1, SomethingThere DEF FlowTypeOK
    <2>3. /\ status'[w] = "awaiting" /\ UNCHANGED <<at, todo, cells, prior, last>>
      BY <1>2 DEF RunStep, FlowTypeOK
    <2>4. FlowOK(w)'
      BY <1>1, <2>2, <2>3 DEF FlowTypeOK, FlowOK
    <2>5. WritingIntact(w)' /\ AwaitingSteps(w)'
      BY <1>1, <2>3 DEF WritingIntact, AwaitingSteps, Current, RunStep
    <2>6. AnswerKept(w)'
      BY <1>1, <2>3 DEF Intact, AnswerKept, Request, StepCall, Begin,
         ModelRequest, AgentRequest, FactoryRequest, ClosureRequest, UserMessage
    <2> QED
      BY <2>4, <2>5, <2>6 DEF Own, Intact
  <1>3. CASE PrepareError(Current(w).call) # None
    <2>1. Fails(w) /\ waiting'[w] = None
      BY <1>1, <1>3 DEF RunStep, StepCall
    <2> QED
      BY <2>1, FailsOwn
  <1> QED
    BY <1>2, <1>3

LEMMA StepGives ==
    ASSUME TypeOK, NEW w \in Callers, StepReturn(w)
    PROVE  output'[w] \in Outputs /\ waiting'[w] = None
  <1>1. waiting[w] \in PreparedSet /\ sent[w] \in Requests
    BY DEF TypeOK, StepReturn, Idle
  <1>2. output'[w] = [next |-> waiting[w].call.state, key |-> waiting[w].key,
                      prompt |-> waiting[w].prompt, context |-> waiting[w].context,
                      tools |-> waiting[w].tools, reply |-> sent[w]]
    BY DEF TypeOK, StepReturn
  <1> QED
    BY <1>1, <1>2 DEF PreparedSet, Calls, Outputs, TypeOK, StepReturn

LEMMA AnsweredOwn ==
    ASSUME FlowTypeOK, NEW w \in Callers, Answered(w), AwaitingSteps(w)
    PROVE  Own(w)'
  <1>1. CASE StepReturn(w) /\ StartsWriting(w)
    <2>1. output'[w] # None /\ waiting'[w] = None
      BY <1>1, StepGives, GraphAssumption DEF FlowTypeOK
    <2> QED
      BY <1>1, <2>1, StartsWritingOwn DEF Answered, AwaitingSteps
  <1>2. CASE (\E e \in Errors : StepFail(w, e)) /\ Fails(w)
    <2>1. waiting'[w] = None
      BY <1>2 DEF StepFail, FlowTypeOK, TypeOK
    <2> QED
      BY <1>2, <2>1, FailsOwn
  <1> QED
    BY <1>1, <1>2 DEF Answered

LEMMA TimesOutOwn ==
    ASSUME FlowTypeOK, NEW w \in Callers, TimesOut(w)
    PROVE  Own(w)'
  <1>1. waiting'[w] = None
    BY DEF TimesOut, Cancel, FlowTypeOK, TypeOK
  <1> QED
    BY <1>1, FailsOwn DEF TimesOut

LEMMA WriteOwn ==
    ASSUME FlowTypeOK, NEW w \in Callers, Write(w), Intact(w)
    PROVE  Own(w)'
  <1> DEFINE kind == Current(w).kind
             cell == Head(todo[w])
             done == Done(todo[w], kind)
  <1>1. /\ status[w] = "writing" /\ todo[w] # <<>> /\ waiting[w] = None
        /\ UNCHANGED vars /\ kind \in {"prepare", "step"} /\ cells[w] \in Contents
    BY CurrentTyped DEF Write, FlowTypeOK
  <1>2. /\ Ending(todo[w], kind)
        /\ \A j \in 1..done : Writes(kind)[j] \notin Lost(kind) =>
              cells[w][Writes(kind)[j]] = Value(w, Writes(kind)[j])
    BY <1>1 DEF Intact, WritingIntact
  <1>3. /\ Ending(Tail(todo[w]), kind) /\ Done(Tail(todo[w]), kind) = done + 1
        /\ cell = Writes(kind)[done + 1] /\ cell \in Cells /\ done \in Nat
        /\ kind = "prepare" => cell # "response"
        /\ kind = "step" => cell \in {"prompt", "context", "response", "state"}
    BY <1>1, <1>2, EndingTail DEF Ending
  <1>4. CASE Fails(w)
    BY <1>1, <1>4, FailsOwn DEF vars
  <1>5. ASSUME UNCHANGED <<at, status, prior, last>>,
               todo' = [todo EXCEPT ![w] = Tail(@)],
               cells'[w] \in Contents,
               \A c \in Cells : c # cell => cells'[w][c] = cells[w][c],
               cell \notin Lost(kind) => cells'[w][cell] = Value(w, cell)
        PROVE  Own(w)'
    <2>1. Current(w)' = Current(w) /\ status'[w] = "writing" /\ todo'[w] = Tail(todo[w])
      BY <1>1, <1>5 DEF Current, FlowTypeOK
    <2>2. \A c : Value(w, c)' = Value(w, c)
      BY <1>1, <2>1 DEF Value, vars
    <2>3. FlowOK(w)'
      BY <1>1, <1>3, <1>5, <2>1 DEF FlowOK, FlowTypeOK, Ending, vars
    <2>4. ASSUME NEW j \in 1..(done + 1), Writes(kind)[j] \notin Lost(kind)
          PROVE  cells'[w][Writes(kind)[j]] = Value(w, Writes(kind)[j])
      <3>1. CASE Writes(kind)[j] = cell
        BY <1>5, <2>4, <3>1
      <3>2. CASE Writes(kind)[j] # cell
        <4>1. j \in 1..done
          BY <1>3, <3>2
        <4>2. Writes(kind)[j] \in Cells
          BY <1>1, <1>2, <1>3, <4>1, WrittenCells, EndingTail
        <4> QED
          BY <1>2, <1>5, <2>4, <3>2, <4>1, <4>2
      <3> QED
        BY <3>1, <3>2
    <2>5. WritingIntact(w)'
      BY <1>3, <2>1, <2>2, <2>4 DEF WritingIntact
    <2> QED
      BY <2>1, <2>3, <2>5 DEF Own, Intact, AwaitingSteps, AnswerKept
  <1>6. CASE /\ cells' = [cells EXCEPT ![w][cell] = Value(w, cell)]
             /\ todo' = [todo EXCEPT ![w] = Tail(@)]
             /\ UNCHANGED <<at, status, prior, last>>
    <2>1. cells'[w] = [cells[w] EXCEPT ![cell] = Value(w, cell)]
      BY <1>6 DEF FlowTypeOK
    <2>2. cells'[w] \in Contents
      <3> HIDE DEF kind, cell, done
      <3>1. /\ cell = "prompt" => Value(w, cell) \in Prompts
            /\ cell = "context" => Value(w, cell) \in Contexts
            /\ cell = "prompt_key" => Value(w, cell) \in Written
            /\ cell = "tools" => Value(w, cell) \in Tools
            /\ cell = "response" => Value(w, cell) \in Requests
            /\ cell \in {"state", "event"} => Value(w, cell) \in Names
        BY <1>1, <1>3, ValueTyped DEF kind
      <3>2. [cells[w] EXCEPT ![cell] = Value(w, cell)] \in Contents
        BY <1>1, <1>3, <3>1, WriteTyped
      <3> QED
        BY <2>1, <3>2
    <2>3. DOMAIN cells[w] = Cells
      BY <1>1 DEF Contents, Cells
    <2> QED
      BY <1>3, <1>5, <1>6, <2>1, <2>2, <2>3
  <1>7. CASE /\ <<kind, cell>> \in Unwritable /\ cell \notin Checked(kind)
             /\ todo' = [todo EXCEPT ![w] = Tail(@)]
             /\ UNCHANGED <<at, status, cells, prior, last>>
    BY <1>1, <1>3, <1>5, <1>7 DEF Lost
  <1> QED
    BY <1>4, <1>6, <1>7 DEF Write

(* With nothing left to write, all that was not lost is there. *)
LEMMA AllWritten ==
    ASSUME FlowTypeOK, NEW w \in Callers, OutputOfOnePiece, WritingIntact(w),
           status[w] = "writing", todo[w] = <<>>, Current(w).kind = "step",
           ~AnswerLost
    PROVE  cells[w].response =
              Request([prompt |-> cells[w].prompt, context |-> cells[w].context])
  <1>1. output[w] \in Outputs /\ output[w] # None /\ adapter \in Adapters
    BY DEF FlowTypeOK, TypeOK, Current
  <1>2. Done(todo[w], "step") = 4
    BY StepWrites DEF Done
  <1>3. \A j \in 1..4 : Writes("step")[j] \notin Lost("step") =>
           cells[w][Writes("step")[j]] = Value(w, Writes("step")[j])
    BY <1>2 DEF WritingIntact
  <1>4. /\ cells[w].prompt = Value(w, "prompt")
        /\ cells[w].context = Value(w, "context")
        /\ cells[w].response = Value(w, "response")
    BY <1>3, StepWrites DEF AnswerLost
  <1>5. /\ cells[w].prompt = output[w].prompt
        /\ cells[w].context = output[w].context
        /\ cells[w].response = output[w].reply
    BY <1>4 DEF Value
  <1>6. output[w].reply = Request(output[w])
    BY <1>1 DEF OutputOfOnePiece
  <1>7. Request(output[w]) =
           Request([prompt |-> output[w].prompt, context |-> output[w].context])
    BY DEF Request, ModelRequest, AgentRequest, FactoryRequest, ClosureRequest,
           UserMessage
  <1> QED
    BY <1>5, <1>6, <1>7

LEMMA FinishOwn ==
    ASSUME FlowTypeOK, NEW w \in Callers, Finish(w), Intact(w), OutputOfOnePiece
    PROVE  Own(w)'
  <1> DEFINE task == Current(w)
  <1>1. /\ status[w] = "writing" /\ todo[w] = <<>> /\ waiting[w] = None
        /\ task.kind \in {"prepare", "step"} /\ task.call \in Calls
        /\ UNCHANGED <<vars, todo, cells>>
    BY CurrentTyped DEF Finish, FlowTypeOK
  <1>2. at[w] \in Ids
    BY DEF FlowTypeOK
  <1>3. /\ at'[w] \in Ids /\ status'[w] \in {"ready", "completed"}
        /\ prior'[w] \in Ids \union {None}
        /\ last'[w] \in {"prepared", "stepped", "failed"}
        /\ last'[w] = "stepped" => task.kind = "step"
    BY <1>1, <1>2 DEF Finish, FlowTypeOK, After
  <1>4. FlowOK(w)'
    BY <1>1, <1>3 DEF FlowOK, FlowTypeOK, vars
  <1>5. AnswerKept(w)'
    <2>1. SUFFICES ASSUME ~AnswerLost, last'[w] = "stepped"
                   PROVE  cells[w].response =
                             Request([prompt |-> cells[w].prompt,
                                      context |-> cells[w].context])
      BY <1>1 DEF AnswerKept, vars, Request, ModelRequest, AgentRequest,
         FactoryRequest, ClosureRequest, UserMessage
    <2> QED
      BY <1>1, <1>3, <2>1, AllWritten DEF Intact
  <1> QED
    BY <1>3, <1>4, <1>5 DEF Own, Intact, WritingIntact, AwaitingSteps

(* Nor does a step of another workflow, or a change of a prompt, disturb it. *)
LEMMA Undisturbed ==
    ASSUME NEW v \in Callers, Own(v), Mine(v)' = Mine(v), adapter' = adapter
    PROVE  Own(v)'
  <1>1. Current(v)' = Current(v)
    BY DEF Mine, Current
  <1>2. \A c : Value(v, c)' = Value(v, c)
    BY <1>1 DEF Value, Mine
  <1>3. FlowOK(v)'
    BY DEF Own, FlowOK, Mine
  <1>4. WritingIntact(v)' /\ AwaitingSteps(v)'
    BY <1>1, <1>2 DEF Own, Intact, WritingIntact, AwaitingSteps, Mine
  <1>5. AnswerKept(v)'
    BY DEF Own, Intact, AnswerKept, Mine, Request, ModelRequest, AgentRequest,
           FactoryRequest, ClosureRequest, UserMessage
  <1> QED
    BY <1>3, <1>4, <1>5 DEF Own, Intact

LEMMA FlowInvInit == FlowInit => FlowInv
  <1> SUFFICES ASSUME FlowInit
               PROVE  FlowInv
    OBVIOUS
  <1>1. IInv
    BY IInvInit DEF FlowInit
  <1>2. cells \in [Callers -> Contents]
    <2>1. [c \in Cells |-> None] \in Contents
      BY DEF Contents, Cells
    <2> QED
      BY <2>1 DEF FlowInit
  <1>3. FlowTypeOK
    BY <1>1, <1>2, GraphAssumption DEF FlowTypeOK, FlowInit, Init, IInv
  <1> QED
    BY <1>1, <1>3 DEF FlowInv, FlowInit, Intact, WritingIntact, AwaitingSteps, AnswerKept

LEMMA FlowInvNext == FlowInv /\ [FlowNext]_allvars => FlowInv'
  <1> SUFFICES ASSUME FlowInv, [FlowNext]_allvars
               PROVE  FlowInv'
    OBVIOUS
  <1>1. /\ FlowTypeOK /\ IInv /\ OutputOfOnePiece /\ Functions
        /\ \A w \in Callers : Intact(w) /\ AwaitingSteps(w) /\ Own(w)
    BY ByWorkflow DEF FlowInv, IInv, Own, Intact
  <1>2. IInv'
    BY <1>1, RunnerNext, IInvNext
  <1>3. SUFFICES Functions' /\ \A v \in Callers : Own(v)'
    <2>1. SUFFICES ASSUME Functions', \A v \in Callers : Own(v)'
                   PROVE  FlowInv'
      BY <1>3
    <2>2. FlowTypeOK' <=> TypeOK' /\ Functions' /\ \A w \in Callers : FlowOK(w)'
      BY DEF FlowTypeOK, FlowOK, Functions
    <2> QED
      BY <1>2, <2>1, <2>2 DEF FlowInv, IInv, Own
  <1>4. ASSUME NEW w \in Callers,
               RunPrepare(w) \/ RunStep(w) \/ Answered(w) \/ TimesOut(w)
                  \/ Write(w) \/ Finish(w)
        PROVE  Functions' /\ \A v \in Callers : Own(v)'
    <2>1. Own(w)'
      BY <1>1, <1>4, RunPrepareOwn, RunStepOwn, AnsweredOwn, TimesOutOwn, WriteOwn,
         FinishOwn
    <2>2. ASSUME NEW v \in Callers, v # w
          PROVE  Own(v)'
      BY <1>1, <1>4, <2>2, OthersUntouched, Undisturbed
    <2>3. Functions'
      BY <1>1, <1>4 DEF Functions, FlowTypeOK, RunPrepare, RunStep, Answered, TimesOut,
         Write, Finish, StartsWriting, Fails
    <2> QED
      BY <2>1, <2>2, <2>3
  <1>5. ASSUME NEW k \in Keys, NEW p \in Prompts \union {Missing, Broken},
               Publish(k, p) /\ UNCHANGED flow
        PROVE  Functions' /\ \A v \in Callers : Own(v)'
    <2>1. Functions' /\ adapter' = adapter
      BY <1>1, <1>5 DEF Functions, flow, Publish
    <2>2. ASSUME NEW v \in Callers
          PROVE  Mine(v)' = Mine(v)
      BY <1>5 DEF Mine, flow, Publish
    <2> QED
      BY <1>1, <2>1, <2>2, Undisturbed
  <1>6. CASE UNCHANGED allvars
    <2>1. Functions' /\ adapter' = adapter
      BY <1>1, <1>6 DEF Functions, allvars, vars, flow
    <2>2. ASSUME NEW v \in Callers
          PROVE  Mine(v)' = Mine(v)
      BY <1>6 DEF Mine, allvars, vars, flow
    <2> QED
      BY <1>1, <2>1, <2>2, Undisturbed
  <1> QED
    BY <1>4, <1>5, <1>6 DEF FlowNext

-----------------------------------------------------------------------------
(* All that holds between a workflow, its Context and the runner it shares. *)
THEOREM FlowInvariance == FlowSpec => []FlowInv
  BY FlowInvInit, FlowInvNext, PTL DEF FlowSpec

(* No order of runs, failures and timeouts leaves a cell of the Context with *)
(* what does not belong there, or a workflow waiting for no call.            *)
THEOREM FlowTyped == FlowSpec => []FlowTypeOK
  <1>1. FlowInv => FlowTypeOK
    BY DEF FlowInv
  <1> QED
    BY <1>1, FlowInvariance, PTL

(* The response is the answer to the prompt and the context beside it, in    *)
(* any graph, paired or not: FormeLlmTask::run writes all three from one     *)
(* output.  It takes a context.set that loses none of the three.             *)
THEOREM ResponseIsCurrent ==
    ASSUME ~AnswerLost
    PROVE  FlowSpec => []ResponseCurrent
  <1>1. FlowInv => ResponseCurrent
    BY DEF FlowInv, Intact, AnswerKept, ResponseCurrent
  <1> QED
    BY <1>1, FlowInvariance, PTL

-----------------------------------------------------------------------------
(* A Prepared is of its call. *)
PreparedOfOnePiece(w) ==
    /\ prepared[w] # None =>
          /\ prepared[w].key = KeyFor(prepared[w].call)
          /\ prepared[w].tools = Plan[prepared[w].call.state]
    /\ status[w] = "writing" /\ Current(w).kind = "prepare" =>
          prepared[w].call = Current(w).call

(* A FormeLlmTask finds its own state in the Context. *)
StateReached(w) ==
    Current(w).kind = "step" => cells[w].state = Display[Current(w).call.state]

Consistent(w) ==
    cells[w].state # None =>
        /\ cells[w].prompt_key = Canonical[<<cells[w].state, cells[w].event>>]
        /\ \E s \in States : Display[s] = cells[w].state /\ cells[w].tools = Plan[s]

(* A FormeTask that has written prompt_key cannot fail any more. *)
Committed(w) ==
    /\ status[w] = "writing" /\ Current(w).kind = "prepare"
    /\ Done(todo[w], "prepare") >= 3

Meta(w) == PreparedOfOnePiece(w) /\ StateReached(w) /\ (Committed(w) \/ Consistent(w))

LEMMA RunPrepareMeta ==
    ASSUME FlowInv, NEW w \in Callers, RunPrepare(w), Meta(w)
    PROVE  Meta(w)'
  <1> DEFINE call == Current(w).call
  <1>1. /\ FlowTypeOK /\ status[w] = "ready" /\ Current(w).kind = "prepare"
        /\ call \in Calls /\ Prepare(w, call)
    BY CurrentTyped DEF FlowInv, RunPrepare
  <1>2. at' = at /\ cells' = cells /\ Current(w)' = Current(w)
    BY DEF RunPrepare, StartsWriting, Fails, Current
  <1>3. Consistent(w) /\ Consistent(w)' /\ StateReached(w)'
    BY <1>1, <1>2 DEF Meta, Committed, Consistent, StateReached
  <1>4. prepared'[w] = IF PrepareError(call) = None THEN PreparedOf(call) ELSE None
    BY <1>1 DEF Prepare, FlowTypeOK, TypeOK
  <1>5. /\ PreparedOf(call).key = KeyFor(call) /\ PreparedOf(call).call = call
        /\ PreparedOf(call).tools = Plan[call.state]
    BY DEF PreparedOf
  <1>6. status'[w] = "writing" => PrepareError(call) = None
    BY <1>1 DEF RunPrepare, Fails, FlowTypeOK
  <1> QED
    BY <1>2, <1>3, <1>4, <1>5, <1>6 DEF Meta, PreparedOfOnePiece, KeyFor

LEMMA RunStepMeta ==
    ASSUME FlowInv, NEW w \in Callers, RunStep(w), Meta(w)
    PROVE  Meta(w)'
  <1>1. FlowTypeOK /\ status[w] = "ready" /\ StepCall(w, Current(w).call)
    BY DEF FlowInv, RunStep
  <1>2. at' = at /\ cells' = cells /\ Current(w)' = Current(w)
    BY DEF RunStep, Fails, Current
  <1>3. Consistent(w)' /\ StateReached(w)'
    BY <1>1, <1>2 DEF Meta, Committed, Consistent, StateReached
  <1>4. prepared'[w] = None /\ status'[w] # "writing"
    BY <1>1 DEF RunStep, StepCall, Fails, FlowTypeOK, TypeOK
  <1> QED
    BY <1>3, <1>4 DEF Meta, PreparedOfOnePiece

LEMMA AwaitMeta ==
    ASSUME FlowInv, NEW w \in Callers, Answered(w) \/ TimesOut(w), Meta(w)
    PROVE  Meta(w)'
  <1>1. FlowTypeOK /\ status[w] = "awaiting" /\ Current(w).kind = "step"
    BY DEF FlowInv, Answered, TimesOut, Intact, AwaitingSteps
  <1>2. /\ at' = at /\ cells' = cells /\ Current(w)' = Current(w)
        /\ prepared' = prepared
    BY DEF Answered, TimesOut, StepReturn, StepFail, Cancel, StartsWriting, Fails, Current
  <1>3. Consistent(w)' /\ StateReached(w)'
    BY <1>1, <1>2 DEF Meta, Committed, Consistent, StateReached
  <1> QED
    BY <1>1, <1>2, <1>3 DEF Meta, PreparedOfOnePiece, KeyFor

LEMMA WriteMeta ==
    ASSUME FlowInv, NEW w \in Callers, Write(w), Meta(w)
    PROVE  Meta(w)'
  <1> DEFINE kind == Current(w).kind
             cell == Head(todo[w])
             done == Done(todo[w], kind)
  <1>1. /\ FlowTypeOK /\ Intact(w) /\ status[w] = "writing" /\ todo[w] # <<>>
        /\ UNCHANGED vars /\ kind \in {"prepare", "step"}
        /\ cells[w] \in Contents
    BY CurrentTyped DEF Write, FlowInv, FlowTypeOK
  <1>2. Ending(todo[w], kind)
    BY <1>1 DEF Intact, WritingIntact
  <1>3. /\ Done(Tail(todo[w]), kind) = done + 1 /\ done \in Nat
        /\ cell = Writes(kind)[done + 1] /\ cell \in Cells
        /\ done + 1 \in 1..Len(Writes(kind))
        /\ kind = "step" => cell \in {"prompt", "context", "response", "state"}
    BY <1>1, <1>2, EndingTail DEF Ending
  <1>4. at' = at /\ Current(w)' = Current(w)
    BY DEF Write, Fails, Current
  <1>5. PreparedOfOnePiece(w)'
    BY <1>1, <1>4 DEF Meta, PreparedOfOnePiece, KeyFor, vars
  <1>6. CASE /\ Fails(w) /\ cell \in Checked(kind)
    <2>1. kind = "prepare" /\ cell \in {"prompt", "context", "prompt_key"}
      BY <1>1, <1>6 DEF Checked
    <2>2. done + 1 \in 1..6
      BY <1>3, <2>1, PrepareWrites
    <2>3. done + 1 \in 1..3
      BY <1>3, <2>1, <2>2, PrepareWrites
    <2>4. Consistent(w)
      BY <1>3, <2>1, <2>3 DEF Meta, Committed
    <2>5. cells' = cells
      BY <1>6 DEF Fails
    <2> QED
      BY <1>4, <1>5, <2>4, <2>5 DEF Meta, Consistent, StateReached
  <1>7. ASSUME status' = status, todo'[w] = Tail(todo[w]),
               cells'[w] = cells[w] \/ cells'[w] = [cells[w] EXCEPT ![cell] = Value(w, cell)]
        PROVE  Meta(w)'
    <2>1. CASE kind = "prepare"
      <3>1. CASE done >= 2
        <4>1. Committed(w)'
          BY <1>1, <1>3, <1>4, <1>7, <2>1, <3>1 DEF Committed
        <4> QED
          BY <1>4, <1>5, <2>1, <4>1 DEF Meta, StateReached
      <3>2. CASE ~(done >= 2)
        <4>1. done + 1 \in 1..2
          BY <1>3, <3>2
        <4>2. cell \in {"prompt", "context"}
          BY <1>3, <2>1, <4>1, PrepareWrites
        <4>3. /\ cells'[w].state = cells[w].state /\ cells'[w].event = cells[w].event
              /\ cells'[w].tools = cells[w].tools
              /\ cells'[w].prompt_key = cells[w].prompt_key
          BY <1>1, <1>7, <4>2 DEF Contents
        <4>4. Consistent(w)
          BY <1>3, <2>1, <3>2 DEF Meta, Committed
        <4> QED
          BY <1>4, <1>5, <2>1, <4>3, <4>4 DEF Meta, Consistent, StateReached
      <3> QED
        BY <3>1, <3>2
    <2>2. CASE kind = "step"
      <3>1. Value(w, "state") = cells[w].state
        BY <2>2 DEF Value, Meta, StateReached
      <3>2. /\ cells'[w].state = cells[w].state /\ cells'[w].event = cells[w].event
            /\ cells'[w].tools = cells[w].tools
            /\ cells'[w].prompt_key = cells[w].prompt_key
        BY <1>1, <1>3, <1>7, <2>2, <3>1 DEF Contents
      <3>3. Consistent(w)
        BY <2>2 DEF Meta, Committed
      <3> QED
        BY <1>4, <1>5, <3>2, <3>3 DEF Meta, Consistent, StateReached
    <2> QED
      BY <1>1, <2>1, <2>2
  <1>8. CASE /\ status' = status /\ todo' = [todo EXCEPT ![w] = Tail(@)]
             /\ \/ cells' = cells
                \/ cells' = [cells EXCEPT ![w][cell] = Value(w, cell)]
    <2>1. todo'[w] = Tail(todo[w])
      BY <1>1, <1>8 DEF FlowTypeOK
    <2>2. cells'[w] = cells[w] \/ cells'[w] = [cells[w] EXCEPT ![cell] = Value(w, cell)]
      BY <1>1, <1>8 DEF FlowTypeOK
    <2> QED
      BY <1>7, <1>8, <2>1, <2>2
  <1> QED
    BY <1>6, <1>8 DEF Write

(* What a FormeTask leaves, when it has written all. *)
LEMMA AllPrepared ==
    ASSUME FlowInv, NEW w \in Callers, Meta(w), ~MetadataLost,
           Checked("prepare") \cap Lost("prepare") = {},
           status[w] = "writing", todo[w] = <<>>, Current(w).kind = "prepare"
    PROVE  Consistent(w) /\ cells[w].state = Display[Current(w).call.state]
  <1> DEFINE call == Current(w).call
  <1>1. /\ FlowTypeOK /\ WritingIntact(w) /\ call \in Calls /\ prepared[w] # None
    BY CurrentTyped DEF FlowInv, Intact, FlowTypeOK, Current
  <1>2. Done(todo[w], "prepare") = 6
    BY PrepareWrites DEF Done
  <1>3. \A j \in 1..6 : Writes("prepare")[j] \notin Lost("prepare") =>
           cells[w][Writes("prepare")[j]] = Value(w, Writes("prepare")[j])
    BY <1>1, <1>2 DEF WritingIntact
  <1>4. /\ cells[w].prompt_key = Value(w, "prompt_key")
        /\ cells[w].tools = Value(w, "tools")
        /\ cells[w].state = Value(w, "state")
        /\ cells[w].event = Value(w, "event")
    <2>1. "prompt_key" \notin Lost("prepare")
      BY DEF Checked
    <2>2. {"tools", "state", "event"} \cap Lost("prepare") = {}
      BY DEF MetadataLost
    <2> QED
      BY <1>3, <2>1, <2>2, PrepareWrites
  <1>5. /\ cells[w].prompt_key = Canonical[prepared[w].key]
        /\ cells[w].tools = prepared[w].tools
        /\ cells[w].state = Display[call.state]
        /\ cells[w].event = Display[call.event]
    BY <1>4 DEF Value
  <1>6. /\ prepared[w].key = KeyFor(call) /\ prepared[w].tools = Plan[call.state]
    BY <1>1 DEF Meta, PreparedOfOnePiece
  <1>7. call.state \in States
    BY <1>1 DEF Calls
  <1> QED
    BY <1>5, <1>6, <1>7 DEF Consistent, KeyFor

LEMMA FinishMeta ==
    ASSUME FlowInv, NEW w \in Callers, Finish(w), Meta(w), ~MetadataLost, Paired
    PROVE  Meta(w)'
  <1>1. /\ FlowTypeOK /\ status[w] = "writing" /\ todo[w] = <<>>
        /\ UNCHANGED <<vars, todo, cells>> /\ Current(w).kind \in {"prepare", "step"}
        /\ Current(w).next \in Actions /\ at[w] \in Ids
    BY CurrentTyped DEF FlowInv, Finish, FlowTypeOK
  <1>2. Checked("prepare") \cap Lost("prepare") = {}
    BY DEF Lost
  <1>3. Consistent(w) /\ cells[w].state = Display[Current(w).call.state]
    <2>1. CASE Current(w).kind = "prepare"
      BY <1>1, <1>2, <2>1, AllPrepared
    <2>2. CASE Current(w).kind = "step"
      BY <2>2 DEF Meta, Committed, StateReached
    <2> QED
      BY <1>1, <2>1, <2>2
  <1>4. at'[w] \in Successors(at[w]) \/ at'[w] = at[w]
    BY <1>1 DEF Finish, FlowTypeOK, Successors, Current
  <1>5. StateReached(w)'
    BY <1>1, <1>3, <1>4 DEF StateReached, Paired, Current
  <1>6. status'[w] # "writing"
    BY <1>1 DEF Finish, FlowTypeOK
  <1>7. PreparedOfOnePiece(w)'
    BY <1>1, <1>6 DEF Meta, PreparedOfOnePiece, KeyFor, vars
  <1> QED
    BY <1>1, <1>3, <1>5, <1>7 DEF Meta, Consistent

LEMMA UndisturbedMeta ==
    ASSUME NEW v \in Callers, Meta(v), Mine(v)' = Mine(v)
    PROVE  Meta(v)'
  <1>1. Current(v)' = Current(v)
    BY DEF Mine, Current
  <1> QED
    BY <1>1 DEF Meta, PreparedOfOnePiece, StateReached, Consistent, Committed, Mine, KeyFor

LEMMA MetaNext ==
    ASSUME FlowInv, \A w \in Callers : Meta(w), [FlowNext]_allvars,
           Paired, ~MetadataLost
    PROVE  \A v \in Callers : Meta(v)'
  <1>1. FlowTypeOK
    BY DEF FlowInv
  <1>2. ASSUME NEW w \in Callers, NEW v \in Callers,
               RunPrepare(w) \/ RunStep(w) \/ Answered(w) \/ TimesOut(w)
                  \/ Write(w) \/ Finish(w)
        PROVE  Meta(v)'
    <2>1. CASE v = w
      BY <1>2, <2>1, RunPrepareMeta, RunStepMeta, AwaitMeta, WriteMeta, FinishMeta
    <2>2. CASE v # w
      BY <1>1, <1>2, <2>2, OthersUntouched, UndisturbedMeta
    <2> QED
      BY <2>1, <2>2
  <1>3. ASSUME NEW v \in Callers,
               \/ UNCHANGED allvars
               \/ \E k \in Keys, p \in Prompts \union {Missing, Broken} :
                     Publish(k, p) /\ UNCHANGED flow
        PROVE  Meta(v)'
    <2>1. Mine(v)' = Mine(v)
      BY <1>3 DEF Mine, allvars, vars, flow, Publish
    <2> QED
      BY <2>1, UndisturbedMeta
  <1> QED
    BY <1>2, <1>3 DEF FlowNext

-----------------------------------------------------------------------------
(* prompt_key and tools belong to the state and the event beside them, in    *)
(* every paired graph, whatever fails, times out or is republished: what    *)
(* FormeTask::run writes after prompt_key cannot fail, and FormeLlmTask::run *)
(* writes the state that is there.  It takes a context.set that loses none  *)
(* of the cells whose errors the code drops.                               *)
THEOREM MetadataWhole ==
    ASSUME Paired, ~MetadataLost
    PROVE  FlowSpec => []MetadataOfOneStep
  <1> DEFINE Inv == FlowInv /\ \A w \in Callers : Meta(w)
  <1>1. FlowInit => Inv
    <2>1. SUFFICES ASSUME FlowInit
                   PROVE  \A w \in Callers : Meta(w)
      BY FlowInvInit
    <2>2. ASSUME NEW w \in Callers
          PROVE  /\ cells[w].state = None /\ prepared[w] = None
                 /\ status[w] = "ready" /\ Current(w).kind = "prepare"
      BY <2>1 DEF FlowInit, Init, Cells, Current, Paired
    <2> QED
      BY <2>2 DEF Meta, PreparedOfOnePiece, StateReached, Consistent
  <1>2. Inv /\ [FlowNext]_allvars => Inv'
    BY FlowInvNext, MetaNext
  <1>3. Inv => MetadataOfOneStep
    BY DEF Meta, Committed, Consistent, MetadataOfOneStep
  <1> QED
    BY <1>1, <1>2, <1>3, PTL DEF FlowSpec

-----------------------------------------------------------------------------
(* The cells that FormeTask::run checks are of what the latest prepare gave, *)
(* until the next run begins.                                              *)
Kept(w) ==
    status[w] \in {"ready", "completed"} /\ last[w] = "prepared" =>
        /\ cells[w].prompt = prepared[w].prompt
        /\ cells[w].context = prepared[w].context
        /\ cells[w].prompt_key = Canonical[prepared[w].key]

LEMMA CheckedWritten ==
    ASSUME FlowInv, NEW w \in Callers, status[w] = "writing", todo[w] = <<>>,
           Current(w).kind = "prepare"
    PROVE  /\ cells[w].prompt = prepared[w].prompt
           /\ cells[w].context = prepared[w].context
           /\ cells[w].prompt_key = Canonical[prepared[w].key]
  <1>1. Done(todo[w], "prepare") = 6 /\ Checked("prepare") \cap Lost("prepare") = {}
    BY PrepareWrites DEF Done, Lost
  <1>2. \A j \in 1..6 : Writes("prepare")[j] \notin Lost("prepare") =>
           cells[w][Writes("prepare")[j]] = Value(w, Writes("prepare")[j])
    BY <1>1 DEF FlowInv, Intact, WritingIntact
  <1>3. /\ cells[w].prompt = Value(w, "prompt")
        /\ cells[w].context = Value(w, "context")
        /\ cells[w].prompt_key = Value(w, "prompt_key")
    BY <1>1, <1>2, PrepareWrites DEF Checked
  <1> QED
    BY <1>3 DEF Value

LEMMA KeptNext ==
    ASSUME FlowInv, \A w \in Callers : Kept(w), [FlowNext]_allvars
    PROVE  \A v \in Callers : Kept(v)'
  <1>1. FlowTypeOK
    BY DEF FlowInv
  <1>2. ASSUME NEW w \in Callers,
               RunPrepare(w) \/ RunStep(w) \/ Answered(w) \/ TimesOut(w) \/ Write(w)
        PROVE  Kept(w)'
    <2>1. status'[w] \in {"writing", "awaiting"} \/ last'[w] = "failed"
      BY <1>1, <1>2 DEF FlowTypeOK, RunPrepare, RunStep, Answered, TimesOut, Write,
         StartsWriting, Fails
    <2> QED
      BY <2>1 DEF Kept
  <1>3. ASSUME NEW w \in Callers, Finish(w)
        PROVE  Kept(w)'
    <2>1. /\ status[w] = "writing" /\ todo[w] = <<>>
          /\ UNCHANGED <<vars, todo, cells>>
          /\ last'[w] = "prepared" => Current(w).kind = "prepare"
      BY <1>1, <1>3 DEF Finish, FlowTypeOK
    <2> QED
      BY <2>1, CheckedWritten DEF Kept, vars
  <1>4. ASSUME NEW v \in Callers, Mine(v)' = Mine(v)
        PROVE  Kept(v)'
    BY <1>4 DEF Kept, Mine
  <1>5. ASSUME NEW w \in Callers, NEW v \in Callers,
               RunPrepare(w) \/ RunStep(w) \/ Answered(w) \/ TimesOut(w)
                  \/ Write(w) \/ Finish(w)
        PROVE  Kept(v)'
    <2>1. CASE v = w
      BY <1>2, <1>3, <1>5, <2>1
    <2>2. CASE v # w
      BY <1>1, <1>4, <1>5, <2>2, OthersUntouched
    <2> QED
      BY <2>1, <2>2
  <1>6. ASSUME NEW v \in Callers,
               \/ UNCHANGED allvars
               \/ \E k \in Keys, p \in Prompts \union {Missing, Broken} :
                     Publish(k, p) /\ UNCHANGED flow
        PROVE  Kept(v)'
    <2>1. Mine(v)' = Mine(v)
      BY <1>6 DEF Mine, allvars, vars, flow, Publish
    <2> QED
      BY <1>4, <2>1
  <1> QED
    BY <1>5, <1>6 DEF FlowNext

(* After a FormeTask that succeeded, prompt, context and prompt_key are of   *)
(* its prepare, in any graph and whatever set may fail: a set of these     *)
(* three that fails makes the task fail (FormeTask::run).                  *)
THEOREM PreparationIsCurrent == FlowSpec => []PreparationCurrent
  <1> DEFINE Inv == FlowInv /\ \A w \in Callers : Kept(w)
  <1>1. FlowInit => Inv
    BY FlowInvInit DEF FlowInit, Kept
  <1>2. Inv /\ [FlowNext]_allvars => Inv'
    BY FlowInvNext, KeptNext
  <1>3. Inv => PreparationCurrent
    BY DEF Kept, PreparationCurrent
  <1> QED
    BY <1>1, <1>2, <1>3, PTL DEF FlowSpec

-----------------------------------------------------------------------------
(* A workflow is at a successor of the task that ended last, while that one  *)
(* runs, fails, times out or waits.                                        *)
Arrived(w) ==
    status[w] # "completed" /\ prior[w] # None =>
        prior[w] \in Ids /\ at[w] \in Ids /\ at[w] \in Successors(prior[w])

(* Only the end of a task changes where its workflow is and where it was. *)
LEMMA RunArrived ==
    ASSUME FlowInv, NEW w \in Callers, Arrived(w),
           RunPrepare(w) \/ RunStep(w) \/ Answered(w) \/ TimesOut(w) \/ Write(w)
    PROVE  Arrived(w)'
  <1>1. FlowTypeOK /\ status[w] # "completed"
    BY DEF FlowInv, RunPrepare, RunStep, Answered, TimesOut, Write
  <1>2. at' = at /\ prior' = prior
    BY DEF RunPrepare, RunStep, Answered, TimesOut, Write, StartsWriting, Fails
  <1> QED
    BY <1>1, <1>2 DEF Arrived

LEMMA FinishArrived ==
    ASSUME FlowInv, NEW w \in Callers, Arrived(w), Finish(w)
    PROVE  Arrived(w)'
  <1> DEFINE action == ToGraphFlow(Current(w).next)
  <1>1. /\ FlowTypeOK /\ status[w] = "writing" /\ at[w] \in Ids
        /\ action = ToGraphFlow(Task[at[w]].next)
    BY DEF FlowInv, Finish, FlowTypeOK, Current
  <1>2. CASE /\ action.type = "Continue"
             /\ \E t \in IF After(at[w]) = {} THEN {at[w]} ELSE After(at[w]) :
                   at' = [at EXCEPT ![w] = t]
             /\ prior' = [prior EXCEPT ![w] = at[w]]
    <2>1. at'[w] \in Successors(at[w]) /\ at'[w] \in Ids
      BY <1>1, <1>2 DEF Successors, FlowTypeOK, After
    <2> QED
      BY <1>1, <1>2, <2>1 DEF Arrived, FlowTypeOK
  <1>3. CASE /\ action.type = "GoTo" /\ action.to \in Ids
             /\ at' = [at EXCEPT ![w] = action.to]
             /\ prior' = [prior EXCEPT ![w] = at[w]]
    <2>1. at'[w] \in Successors(at[w]) /\ at'[w] \in Ids
      BY <1>1, <1>3 DEF Successors, FlowTypeOK
    <2> QED
      BY <1>1, <1>3, <2>1 DEF Arrived, FlowTypeOK
  <1>4. CASE UNCHANGED <<at, prior>>
    BY <1>1, <1>4 DEF Arrived
  <1>5. CASE status' = [status EXCEPT ![w] = "completed"]
    BY <1>1, <1>5 DEF Arrived, FlowTypeOK
  <1> QED
    BY <1>2, <1>3, <1>4, <1>5 DEF Finish

LEMMA ArrivedNext ==
    ASSUME FlowInv, \A w \in Callers : Arrived(w), [FlowNext]_allvars
    PROVE  \A v \in Callers : Arrived(v)'
  <1>1. FlowTypeOK
    BY DEF FlowInv
  <1>2. ASSUME NEW v \in Callers, Mine(v)' = Mine(v)
        PROVE  Arrived(v)'
    BY <1>2 DEF Arrived, Mine
  <1>3. ASSUME NEW w \in Callers, NEW v \in Callers,
               RunPrepare(w) \/ RunStep(w) \/ Answered(w) \/ TimesOut(w)
                  \/ Write(w) \/ Finish(w)
        PROVE  Arrived(v)'
    <2>1. CASE v = w
      BY <1>3, <2>1, RunArrived, FinishArrived
    <2>2. CASE v # w
      BY <1>1, <1>2, <1>3, <2>2, OthersUntouched
    <2> QED
      BY <2>1, <2>2
  <1>4. ASSUME NEW v \in Callers,
               \/ UNCHANGED allvars
               \/ \E k \in Keys, p \in Prompts \union {Missing, Broken} :
                     Publish(k, p) /\ UNCHANGED flow
        PROVE  Arrived(v)'
    <2>1. Mine(v)' = Mine(v)
      BY <1>4 DEF Mine, allvars, vars, flow, Publish
    <2> QED
      BY <1>2, <2>1
  <1> QED
    BY <1>3, <1>4 DEF FlowNext

(* What handle_edge says of a task and what its successors' keys are: they   *)
(* are one where the two readings of NextAction keep together, and nowhere *)
(* else.                                                                   *)
LEMMA EdgeKeyTogether ==
    ASSUME NEW i \in Ids, NEW j \in Successors(i), Task[i].next \in Actions
    PROVE  KeyFor(Task[j].call) = EdgeKey(i) <=> Together(i, j)
  <1> DEFINE task == Task[i]
             action == ToGraphFlow(task.next)
  <1>1. action.type \in {"Continue", "GoTo"}
    BY DEF Successors, ToGraphFlow, Actions
  <1>2. CASE action.type = "Continue"
    <2>1. EdgeKey(i) = <<Display[task.call.state], Display[task.call.event]>>
      BY <1>2 DEF ToGraphFlow, EdgeKey, HandleEdge, Actions
    <2> QED
      BY <1>2, <2>1 DEF Together, KeyFor
  <1>3. CASE action.type = "GoTo"
    <2>1. /\ task.next.type \in {"Branch", "Transition"}
          /\ action.to = Display[task.next.to]
      BY <1>3 DEF ToGraphFlow, Actions
    <2>2. j = Display[task.next.to]
      BY <1>3, <2>1 DEF Successors
    <2>3. EdgeKey(i) = <<j, Display[task.call.event]>>
      BY <2>1, <2>2 DEF EdgeKey, HandleEdge
    <2> QED
      BY <1>3, <2>3 DEF Together, KeyFor
  <1> QED
    BY <1>1, <1>2, <1>3

(* handle_edge gives the key of the task that graph-flow runs next, however  *)
(* often that fails, if their events agree, an edge stays in its state and *)
(* an id is of its state, and it gives another key if not: in any graph    *)
(* (runtime handle_edge, graph_flow_adapter From and with_id).             *)
THEOREM EdgeForetells == FlowSpec => []EdgePredicts
  <1> DEFINE Inv == FlowInv /\ \A w \in Callers : Arrived(w)
  <1>1. FlowInit => Inv
    BY FlowInvInit DEF FlowInit, Arrived
  <1>2. Inv /\ [FlowNext]_allvars => Inv'
    BY FlowInvNext, ArrivedNext
  <1>3. Inv => EdgePredicts
    <2> SUFFICES ASSUME Inv, NEW w \in Callers, status[w] = "ready", prior[w] # None
                 PROVE  KeyFor(Current(w).call) = EdgeKey(prior[w])
                           <=> Together(prior[w], at[w])
      BY DEF EdgePredicts
    <2>1. prior[w] \in Ids /\ at[w] \in Successors(prior[w])
      BY DEF Arrived
    <2>2. Task[prior[w]].next \in Actions
      BY <2>1, TaskTyped
    <2> QED
      BY <2>1, <2>2, EdgeKeyTogether DEF Current
  <1> QED
    BY <1>1, <1>2, <1>3, PTL DEF FlowSpec
====
