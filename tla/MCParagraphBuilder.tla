---- MODULE MCParagraphBuilder ----
(***************************************************************************)
(* Instance of ParagraphBuilder for TLC: events of up to three lines.      *)
(***************************************************************************)
EXTENDS ParagraphBuilder

CONSTANTS p, q

SmallEvents == SeqOf({Blank, p, q}, 3)
====
