---- MODULE MCFsRegistry ----
(***************************************************************************)
(* Instance of FsRegistry for TLC: two keys that path_for_key takes to one *)
(* file, and so race for it without sharing a cache entry.  Threads differ *)
(* in nothing.                                                             *)
(***************************************************************************)
EXTENDS FsRegistry, TLC

CONSTANTS k1, k2, f1

AliasedKeys == (k1 :> f1) @@ (k2 :> f1)

Symmetry == Permutations(Threads)
====
