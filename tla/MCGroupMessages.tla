--------------------------- MODULE MCGroupMessages ---------------------------
(* TLC's instance of GroupMessages.                                          *)
EXTENDS GroupMessages, TLC

Symmetry == Permutations(Tasks) \cup Permutations(Jobs) \cup Permutations(Messages)
=============================================================================
