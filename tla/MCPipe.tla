------------------------------- MODULE MCPipe -------------------------------
(* Pipe on small sets. *)
EXTENDS Pipe, TLC

Symmetry == Permutations(Readers) \cup Permutations(Writers) \cup Permutations(Bytes)
=============================================================================
