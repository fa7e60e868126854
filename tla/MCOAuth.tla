------------------------------ MODULE MCOAuth ------------------------------
(* A small instance of OAuth for TLC. *)
EXTENDS OAuth, TLC

CONSTANTS u1, u2, b1, h1, h2, c1, c2

Symmetric == Permutations(Users) \cup Permutations(Handlers)
             \cup Permutations(Callbacks)
=============================================================================
