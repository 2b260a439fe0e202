--------------------------- MODULE MCDemoSandbox ---------------------------
(***************************************************************************)
(* Small instances of DemoSandbox for TLC.                                 *)
(***************************************************************************)
EXTENDS DemoSandbox, TLC

\* Runs are interchangeable, and so are tokens.
RequestSymmetry == Permutations(Runs) \cup Permutations(Tokens)

=============================================================================
