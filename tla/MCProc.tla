------------------------------- MODULE MCProc -------------------------------
(* Proc on small sets. *)
EXTENDS Proc, TLC

Symmetry == Permutations(Procs \ {InitProc})
=============================================================================
