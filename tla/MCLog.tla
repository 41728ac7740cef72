------------------------------- MODULE MCLog -------------------------------
(* Log on small sets. *)
EXTENDS Log, TLC

Symmetry == Permutations(Procs) \cup Permutations(Blocks)
=============================================================================
