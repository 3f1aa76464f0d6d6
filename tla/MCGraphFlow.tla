---- MODULE MCGraphFlow ----
(***************************************************************************)
(* Instance of GraphFlow for TLC.  s1 has a FormeTask with the id of its   *)
(* state and a FormeLlmTask after it, which goes to s2; but that of s2 was  *)
(* given another id, so that only an edge, from s1, finds it.  FormeLlmTasks*)
(* after it go back to s1 or end the workflow.  In s1 a FormeTask for      *)
(* another event may be next, whose history its builder cannot use.        *)
(***************************************************************************)
EXTENDS GraphFlow, TLC, SequencesExt

CONSTANTS s1, s2, ev, other, quiet, talk, bad, ctx, plan1, plan2

SampleBuild ==
    [i \in {ev, other} \X {quiet, talk, bad} |->
        CASE i[2] = quiet -> Empty
          [] i[2] = bad -> Unbuildable
          [] i[2] = talk -> ctx]
SamplePlan == (s1 :> plan1) @@ (s2 :> plan2)
Texts == (s1 :> "s1") @@ (s2 :> "s2") @@ (ev :> "ev") @@ (other :> "other")
Joined == [k \in Keys |-> k[1] \o "::" \o k[2]]

Move(type, s) == [type |-> type, to |-> s]
Talking(task) == WithHistory(task, talk)

PairedTasks ==
    {NewTask(s1, ev),
     WithId(WithHistory(NewTask(s1, other), bad), "muddle"),
     WithId(WithNext(NewLlmTask(s1, ev), Move("Transition", s2)), "answer"),
     WithId(WithNext(Talking(NewTask(s2, ev)), [type |-> "Continue"]), "found"),
     WithId(WithNext(Talking(NewLlmTask(s2, ev)), Move("Branch", s1)), "pay"),
     WithId(WithNext(Talking(NewLlmTask(s2, ev)), [type |-> "Halt"]), "bye")}

PairedGraph ==
    LET tasks == FoldSet(LAMBDA t, g : AddTask(g, t), NewGraph, PairedTasks)
        first == AddConditionalEdge(tasks, "s1", "answer", "muddle")
        more == AddConditionalEdge(first, "found", "pay", "bye")
    IN  SetStartTask(AddEdge(more, "s1", "found"), "s1")

(* A set that fails and is noticed, and one that is not. *)
SampleUnwritable == {<<"prepare", "prompt_key">>, <<"step", "state">>}

ASSUME InstanceAssumption == Paired /\ ~AnswerLost /\ ~MetadataLost
====
