-------------------------- MODULE MCDirectMessages --------------------------
(* TLC's instance of DirectMessages: two messages race for the slots of two  *)
(* peers.                                                                    *)
EXTENDS DirectMessages, TLC

Symmetry == Permutations(Tasks) \cup Permutations(Messages) \cup Permutations(Peers)
=============================================================================
