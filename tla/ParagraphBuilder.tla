---- MODULE ParagraphBuilder ----
(***************************************************************************)
(* ParagraphBuilder: the context of an event is the last n paragraphs of   *)
(* the history and the event itself.  An event is a sequence of lines; the *)
(* history is the window of events that the caller keeps.                  *)
(***************************************************************************)
EXTENDS Naturals, SequencesExt

CONSTANTS
    N,              \* paragraphs kept, 3 by default
    Blank,          \* a line of white space
    Events,         \* events, as sequences of lines
    MaxHistory      \* bound on the caller's window

ASSUME ParagraphAssumption ==
    /\ N \in Nat
    /\ MaxHistory \in Nat
    /\ \A event \in Events : event \in Seq(ToSet(event))

VARIABLES
    history,    \* events handled so far
    context     \* what the latest build returned, as paragraphs and the event

vars == <<history, context>>

-----------------------------------------------------------------------------
(* split_into_paragraphs: a fold over the lines that ends the current       *)
(* paragraph at a blank line and at the end.                               *)
EndParagraph(acc) ==
    IF acc.cur = <<>>
    THEN acc
    ELSE [paras |-> Append(acc.paras, acc.cur), cur |-> <<>>]

TakeLine(acc, line) ==
    IF line = Blank
    THEN EndParagraph(acc)
    ELSE [acc EXCEPT !.cur = Append(@, line)]

Split(event) ==
    EndParagraph(FoldLeft(TakeLine, [paras |-> <<>>, cur |-> <<>>], event)).paras

(* The paragraphs of the history, each event split by itself. *)
AllParagraphs(h) == FlattenSeq([i \in DOMAIN h |-> Split(h[i])])

(* Mutant of Selected: take(n) without rev. *)
SelectedOldest(h) ==
    LET paras == AllParagraphs(h)
    IN  IF Len(paras) <= N THEN paras ELSE SubSeq(paras, 1, N)

(* All of them, or the last N: rev().take(n).rev(). *)
Selected(h) ==
    LET paras == AllParagraphs(h)
    IN  IF Len(paras) <= N THEN paras
        ELSE Reverse(SubSeq(Reverse(paras), 1, N))

Init ==
    /\ history = <<>>
    /\ context = [selected |-> <<>>, event |-> <<>>]

(* build(event, history), after which the caller pushes the event. *)
Build(event) ==
    /\ Len(history) < MaxHistory
    /\ context' = [selected |-> Selected(history), event |-> event]
    /\ history' = Append(history, event)

(* The caller starts over with an empty window. *)
Reset ==
    /\ history' = <<>>
    /\ UNCHANGED context

Next == (\E event \in Events : Build(event)) \/ Reset

Spec == Init /\ [][Next]_vars

-----------------------------------------------------------------------------
(* The paragraphs of an event, defined without a fold: its maximal runs of  *)
(* lines that are not blank.                                               *)
IsRun(event, i, j) ==
    /\ \A k \in i..j : event[k] # Blank
    /\ i = 1 \/ event[i - 1] = Blank
    /\ j = Len(event) \/ event[j + 1] = Blank

Runs(event) ==
    {r \in (DOMAIN event) \X (DOMAIN event) : r[1] <= r[2] /\ IsRun(event, r[1], r[2])}

(* Their order: how many begin no later. *)
Rank(event, run) == Cardinality({r \in Runs(event) : r[1] <= run[1]})

RunAt(event, n) == CHOOSE r \in Runs(event) : Rank(event, r) = n

RunsOf(event) ==
    [n \in 1..Cardinality(Runs(event)) |->
        SubSeq(event, RunAt(event, n)[1], RunAt(event, n)[2])]

(* The context is a suffix of the runs of the history, in order, that no    *)
(* paragraph of another event has merged with, and it is as long as N and   *)
(* the history allow: the newest paragraphs, never the oldest (context     *)
(* builder split_into_paragraphs and build).                               *)
KeepsNewest ==
    history # <<>> =>
        LET runs == FlattenSeq([i \in 1..Len(history) - 1 |-> RunsOf(history[i])])
        IN  /\ context.event = history[Len(history)]
            /\ IsSuffix(context.selected, runs)
            /\ Len(context.selected) = IF Len(runs) < N THEN Len(runs) ELSE N
====
