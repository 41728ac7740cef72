------------------------------ MODULE MCSdhci ------------------------------
(* Sdhci on small sets. *)
EXTENDS Sdhci, TLC

Symmetry == Permutations(Procs)
=============================================================================
