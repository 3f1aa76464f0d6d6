---- MODULE MCPolicy ----
(***************************************************************************)
(* Instances of Policy for TLC.  The order of an iterator is what FirstSeen*)
(* is about, and no constant is told from another: tools may be permuted.  *)
(***************************************************************************)
EXTENDS Policy, TLC

Symmetry == Permutations(Tools) \union Permutations(States)
====
