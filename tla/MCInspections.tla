--------------------------- MODULE MCInspections ---------------------------
(***************************************************************************)
(* Small instances of Inspections for TLC.                                 *)
(***************************************************************************)
EXTENDS Inspections

\* Below the thresholds, and at the critical one.
TwoLevels == {7, 9}

=============================================================================
