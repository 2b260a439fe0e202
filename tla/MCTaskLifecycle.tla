-------------------------- MODULE MCTaskLifecycle --------------------------
(***************************************************************************)
(* Small instances of TaskLifecycle for TLC.                               *)
(***************************************************************************)
EXTENDS TaskLifecycle, TLC

\* Requests of one kind are interchangeable.
RequestSymmetry ==
    Permutations(Cancels) \cup Permutations(Transitions) \cup Permutations(Runs)

=============================================================================
