------------------------------ MODULE MCSession ------------------------------
(* TLC's instance of Session: one or two calls of start(), a connection that *)
(* may be lost and come back.                                                *)
EXTENDS Session, TLC

Symmetry == Permutations(Starts)
=============================================================================
