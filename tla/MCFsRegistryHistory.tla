---- MODULE MCFsRegistryHistory ----
(***************************************************************************)
(* Instances of FsRegistryHistory for TLC: one key and its file.  Threads  *)
(* differ in nothing.                                                      *)
(***************************************************************************)
EXTENDS FsRegistryHistory, TLC

CONSTANTS k1, f1

OneKey == (k1 :> f1)

Symmetry == Permutations(Threads)
====
