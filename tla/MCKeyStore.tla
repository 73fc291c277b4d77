----------------------------- MODULE MCKeyStore -----------------------------
(* TLC's instance of KeyStore: two calls of start() and so two collectors, a  *)
(* preparation of two keys.                                                   *)
EXTENDS KeyStore, TLC

Symmetry == Permutations(Jobs) \cup Permutations(Starts)
=============================================================================
