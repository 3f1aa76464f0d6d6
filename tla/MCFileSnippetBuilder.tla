---- MODULE MCFileSnippetBuilder ----
(***************************************************************************)
(* Instance of FileSnippetBuilder for TLC: the code's window of 50, files  *)
(* and lines on both sides of every boundary of the window, and events     *)
(* whose references are missing, overflow, are split by a tab, or compete. *)
(***************************************************************************)
EXTENDS FileSnippetBuilder

CONSTANTS a, b

Sizes == {0, 1, 25, 26, 49, 50, 51, 75, 76, 120}
Lines == {0, 1, 25, 26, 27, 49, 50, 51, 75, 94, 95, 96, 120, 121}

Ref(n, l) == [path |-> TRUE, name |-> n, line |-> l]
Word == [path |-> FALSE, name |-> a, line |-> MaxLine + 1]

Single(n, l) == [tokens |-> <<Ref(n, l)>>, spaced |-> FALSE, whole |-> Ref(n, l)]

SampleEvents ==
    {Single(n, l) : n \in {a, b}, l \in Lines \union {MaxLine + 1}}
    \union {
        [tokens |-> <<Word, Word>>, spaced |-> TRUE, whole |-> Word],
        [tokens |-> <<Ref(b, 60), Word>>, spaced |-> TRUE, whole |-> Word],
        [tokens |-> <<Ref(a, 30), Ref(b, 40)>>, spaced |-> TRUE, whole |-> Ref(b, 40)],
        [tokens |-> <<Ref(a, 30), Ref(b, MaxLine + 1)>>, spaced |-> TRUE, whole |-> Word],
        [tokens |-> <<Word, Word>>, spaced |-> FALSE, whole |-> Ref(a, 33)]}
====
