------------------------------ MODULE MCStream ------------------------------
(***************************************************************************)
(* Two goroutines on one connection, for TLC.                              *)
(***************************************************************************)
EXTENDS Stream, TLC

CONSTANTS c1, c2

TwoClients == {c1, c2}

OneClient == {c1}

\* The clients run the same code.
ClientSymmetry == Permutations(TwoClients)

=============================================================================
