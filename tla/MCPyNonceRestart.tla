-------------------------- MODULE MCPyNonceRestart --------------------------
(* PyNonceRestart on a small instance: interchangeable threads. *)
EXTENDS PyNonceRestart, TLC

Symmetry == Permutations(Threads)
=============================================================================
