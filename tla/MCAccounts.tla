---------------------------- MODULE MCAccounts ----------------------------
(* A small instance of Accounts for TLC. *)
EXTENDS Accounts, TLC

CONSTANTS r1, r2, i1, i2
=============================================================================
