------------------------- MODULE MCApprovalExecution -------------------------
(***************************************************************************)
(* Small instances of ApprovalExecution for TLC.                           *)
(***************************************************************************)
EXTENDS ApprovalProperties, FiniteSets, TLC

CONSTANTS a1, a2, target1, oper, admin1, admin2

MCTargets == {target1}
MCTargetOf == [a \in Approvals |-> target1]

\* An operator may request, an admin may request and decide: admin1 meets both roles.
MCOperators == {oper, admin1}
MCApprovers == {admin1, admin2}

\* The tool whose broker run may fall back to the local path, one that only the
\* broker runs, and one the broker never sees.
MixedTools == [a \in Approvals |->
    CASE a = a1 -> "safe_log_cleanup"
      [] a = a2 -> "service_restart"
      [] OTHER -> "terminate_process"]

\* The bound of the safety run: one approval of any tool, or two terminations of one
\* process.
OneTarget ==
    LET requested == {a \in Approvals : status[a] # "ABSENT"}
    IN  Cardinality(requested) <= 1 \/ requested \cap {a1, a2} = {}

ConfigTool == [a \in Approvals |-> "config_safe_update"]

\* Requests of one kind are interchangeable; used by the safety run only.
RequestSymmetry ==
    Permutations(DecisionReqs) \cup Permutations(ClaimReqs) \cup Permutations(RunReqs)

=============================================================================
