---- MODULE Policy ----
(***************************************************************************)
(* A Policy says which tools a state may use: allowed lists them, for the  *)
(* ToolPlan of a step, and check decides about one.  An AllowListPolicy    *)
(* keeps a list for the first and a set for the second, built in one loop. *)
(***************************************************************************)
EXTENDS Naturals, Sequences, FiniteSets

CONSTANTS
    Tools, States,
    MaxLen      \* length of the iterators a policy is built from

Lists == UNION {[1..n -> Tools] : n \in 0..MaxLen}
Listed(l) == {l[i] : i \in DOMAIN l}

ASSUME PolicyAssumption == MaxLen \in Nat

VARIABLES
    kind,       \* which policy, "none" before one is asked for
    given,      \* AllowListPolicy::new: what the iterator yields ...
    rest,       \* ... and has still to yield
    set,        \* tools of an AllowListPolicy or a DenyListPolicy
    list,       \* tools of an AllowListPolicy, in the order of allowed
    table       \* state -> list of a policy that implements allowed only

vars == <<kind, given, rest, set, list, table>>

TypeOK ==
    /\ kind \in {"none", "building", "allow_list", "deny_list", "allow_all", "table"}
    /\ given \in Seq(Tools) /\ rest \in Seq(Tools)
    /\ set \in SUBSET Tools
    /\ list \in Seq(Tools)
    /\ table \in [States -> Seq(Tools)]
    /\ kind # "building" => rest = <<>>

-----------------------------------------------------------------------------
(* Policy::allowed: what the ToolPlan of a step is made of. *)
Allowed(s) ==
    CASE kind = "allow_list" -> list
      [] kind = "table" -> table[s]
      [] OTHER -> <<>>            \* of AllowAllPolicy and DenyListPolicy

(* Mutant of Check: an empty list means all, for every policy. *)
CheckEmptyOpen(s, t) ==
    CASE kind = "allow_all" -> TRUE
      [] kind = "deny_list" -> t \notin set
      [] OTHER -> Allowed(s) = <<>> \/ t \in Listed(Allowed(s))

Check(s, t) ==
    CASE kind = "allow_all" -> TRUE
      [] kind = "deny_list" -> t \notin set
      [] kind = "allow_list" -> t \in set
      [] OTHER -> t \in Listed(Allowed(s))    \* the trait's own check

Init ==
    /\ kind = "none"
    /\ given = <<>> /\ rest = <<>> /\ set = {} /\ list = <<>>
    /\ table = [s \in States |-> <<>>]

(* AllowAllPolicy, DenyListPolicy and a policy like the support bot's. *)
NewAllowAll ==
    /\ kind = "none" /\ kind' = "allow_all"
    /\ UNCHANGED <<given, rest, set, list, table>>

NewDenyList(denied) ==
    /\ kind = "none" /\ kind' = "deny_list"
    /\ set' = denied
    /\ UNCHANGED <<given, rest, list, table>>

NewTable(t) ==
    /\ kind = "none" /\ kind' = "table"
    /\ table' = t
    /\ UNCHANGED <<given, rest, set, list>>

(* AllowListPolicy::from_set (and empty): the list has the set's order. *)
NewFromSet(tools, order) ==
    /\ kind = "none" /\ kind' = "allow_list"
    /\ Listed(order) = tools /\ Len(order) = Cardinality(tools)
    /\ set' = tools /\ list' = order
    /\ UNCHANGED <<given, rest, table>>

(* AllowListPolicy::new *)
Begin(iter) ==
    /\ kind = "none" /\ kind' = "building"
    /\ given' = iter /\ rest' = iter
    /\ UNCHANGED <<set, list, table>>

(* Mutant of Insert: a repeated tool moves to the end. *)
InsertMoves ==
    /\ kind = "building" /\ rest # <<>>
    /\ set' = set \union {Head(rest)}
    /\ list' = Append(SelectSeq(list, LAMBDA t : t # Head(rest)), Head(rest))
    /\ rest' = Tail(rest)
    /\ UNCHANGED <<kind, given, table>>

Insert ==
    /\ kind = "building" /\ rest # <<>>
    /\ set' = set \union {Head(rest)}
    /\ list' = IF Head(rest) \in set THEN list ELSE Append(list, Head(rest))
    /\ rest' = Tail(rest)
    /\ UNCHANGED <<kind, given, table>>

(* Mutant of Built: the loop stops one short. *)
BuiltEarly ==
    /\ kind = "building" /\ Len(rest) <= 1
    /\ kind' = "allow_list"
    /\ UNCHANGED <<given, rest, set, list, table>>

Built ==
    /\ kind = "building" /\ rest = <<>>
    /\ kind' = "allow_list"
    /\ UNCHANGED <<given, rest, set, list, table>>

Next ==
    \/ NewAllowAll
    \/ \E tools \in SUBSET Tools : NewDenyList(tools)
    \/ \E tools \in SUBSET Tools, order \in Lists : NewFromSet(tools, order)
    \/ \E t \in [States -> Lists] : NewTable(t)
    \/ \E iter \in Lists : Begin(iter)
    \/ Insert \/ Built

Spec == Init /\ [][Next]_vars

-----------------------------------------------------------------------------
(* For the policies whose allowed is a list, it and check say the same of   *)
(* every tool: a caller that looks into its ToolPlan and one that asks the *)
(* policy agree (AllowListPolicy, whose list and set are two copies of one *)
(* thing, and Policy::check, the default that SupportPolicy has).          *)
PlanAgreesWithCheck ==
    kind \in {"allow_list", "table"} =>
        \A s \in States, t \in Tools : t \in Listed(Allowed(s)) <=> Check(s, t)

(* "Preserves first-seen order, deduped by set": what remains of the input *)
(* is each tool where it was first seen (AllowListPolicy::new).            *)
FirstSeen ==
    kind = "allow_list" /\ given # <<>> =>
        LET first == {i \in DOMAIN given : \A j \in 1..i-1 : given[j] # given[i]}
        IN  /\ Len(list) = Cardinality(first)
            /\ \A i \in first :
                  list[Cardinality({j \in first : j <= i})] = given[i]
====
