---------------------------- MODULE MCAuditChain ----------------------------
(***************************************************************************)
(* Small instances of AuditChain for TLC.                                  *)
(***************************************************************************)
EXTENDS AuditChain, TLC

\* Transactions are interchangeable; ids are not, since they are compared.
WriterSymmetry == Permutations(Writers)

=============================================================================
