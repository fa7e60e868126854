---------------------------- MODULE MCOrderFetch ----------------------------
(* A small instance of OrderFetch for TLC. *)
EXTENDS OrderFetch

CONSTANTS imp, test, o1, o2, o3, o4

MCLists == {<<>>, <<o1, o4>>, <<o2, o3, o1>>}
MCBase == [n \in 1 .. MaxAttempts |-> n]
=============================================================================
