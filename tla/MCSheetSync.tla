---------------------------- MODULE MCSheetSync ----------------------------
(* Small instances of SheetSync for TLC. *)
EXTENDS SheetSyncInv, TLC

Symmetry == Permutations(Orders)
=============================================================================
