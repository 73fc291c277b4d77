------------------------------ MODULE MCParts ------------------------------
(* TLC's instance of Parts.                                                  *)
EXTENDS Parts, TLC

Symmetry == Permutations(Requests) \cup Permutations(Syncs)
=============================================================================
