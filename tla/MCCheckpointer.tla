---- MODULE MCCheckpointer ----
(***************************************************************************)
(* Instance of Checkpointer for TLC; threads are interchangeable, and so   *)
(* are states.                                                             *)
(***************************************************************************)
EXTENDS Checkpointer, TLC

Symmetry == Permutations(Threads) \union Permutations(States)
====
