----------------------------- MODULE MCRecords -----------------------------
(***************************************************************************)
(* Small instances of Records for TLC.                                     *)
(***************************************************************************)
EXTENDS Records, TLC

\* Requests of one kind are interchangeable.
RequestSymmetry ==
    Permutations(SettingsUpdates) \cup Permutations(BaselineCreates)
        \cup Permutations(Adds) \cup Permutations(Reviews)

=============================================================================
