------------------------------ MODULE MCSetup ------------------------------
(* Small instances of Setup for TLC. *)
EXTENDS Setup, TLC

CONSTANTS b1, b2, t1

Symmetry == Permutations(Books)
=============================================================================
