--------------------------- MODULE MCCleanupFiles ---------------------------
(***************************************************************************)
(* Small instances of CleanupFiles for TLC.                                *)
(***************************************************************************)
EXTENDS CleanupFiles, TLC

\* Executions of one kind are interchangeable.
JobSymmetry == Permutations(Cleanups) \cup Permutations(Rollbacks)

=============================================================================
