-------------------------- MODULE MCConfigChanges --------------------------
(***************************************************************************)
(* Small instances of ConfigChanges for TLC.                               *)
(***************************************************************************)
EXTENDS ConfigChanges, TLC

\* Executions of one kind are interchangeable, and so are edits.
JobSymmetry == Permutations(Updates) \cup Permutations(Rollbacks) \cup Permutations(Edits)

=============================================================================
