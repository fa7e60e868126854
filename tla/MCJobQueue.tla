----------------------------- MODULE MCJobQueue -----------------------------
(* Small instances of JobQueue for TLC. *)
EXTENDS JobQueueInv, TLC

\* Job ids, and workers, are interchangeable (safety runs only).
Symmetry    == Permutations(Jobs) \cup Permutations(Workers)
JobSymmetry == Permutations(Jobs)
=============================================================================
