-------------------------- MODULE MCServiceProcess --------------------------
(***************************************************************************)
(* Small instances of ServiceProcess for TLC.                              *)
(***************************************************************************)
EXTENDS ServiceProcess, TLC

\* Executions of one kind are interchangeable, and so are pids.
JobSymmetry ==
    Permutations(Restarts) \cup Permutations(Terminations) \cup Permutations(Rollbacks)
        \cup Permutations(Pids)

=============================================================================
