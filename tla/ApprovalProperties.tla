-------------------------- MODULE ApprovalProperties --------------------------
(***************************************************************************)
(* What the approval and execution protocol promises, stated over          *)
(* ApprovalExecution.  The last section holds statements of the            *)
(* repository's documents that the code does not keep.                     *)
(***************************************************************************)
EXTENDS ApprovalExecution

(***************************************************************************)
(* Safety                                                                  *)
(***************************************************************************)
\* Every consumption by the broker is paid for by an approve decision of its own: the row
\* can be APPROVED again after CONSUMED only because a human decided again.  This is what
\* the conditional UPDATE of _authorize_and_consume is for.
GrantsCoverHelperRuns ==
    \A a \in Approvals :
        helperRuns[a] + (IF status[a] = "APPROVED" THEN 1 ELSE 0) <= grants[a]

\* A service is restarted at most as often as its approval was granted, whatever requests
\* race, time out, are abandoned in the backlog or die with a process: the restart has no
\* path around the broker.
RestartsGranted ==
    \A a \in Approvals : ToolOf[a] = "service_restart" => mutated[a] <= grants[a]

ApprovedBy(a, u) ==
    \E d \in DecisionReqs :
        decision[d] = [pc |-> "done", approval |-> a, actor |-> u, verdict |-> "APPROVED"]

\* The host is changed for an approval only if somebody other than its requester approved it
\* ("self approval is forbidden"), on the broker's path and on the local one.
DualControl ==
    \A a \in Approvals :
        mutated[a] > 0 => \E u \in Approvers \ {requester[a]} : ApprovedBy(a, u)

\* However many requests present tokens of one approval, at most one of them is answered
\* with a recorded outcome (200 or 422).
AnsweredOnce ==
    \A r, s \in RunReqs :
        /\ run[r].pc \in {"ok", "rejected"}
        /\ run[s].pc \in {"ok", "rejected"}
        /\ ApprovalOf(r) = ApprovalOf(s)
        => r = s

\* A 200 is never an empty promise: the execution row says SUCCEEDED, the host was changed,
\* and no other request can have turned the row into a failure since.
SuccessIsReal ==
    \A r \in RunReqs :
        run[r].pc = "ok" =>
            executions[ApprovalOf(r)] = "SUCCEEDED" /\ mutated[ApprovalOf(r)] > 0

\* A candidate is used up only together with a recorded success of an approval that names it:
\* a failed, conflicting or lost attempt leaves it eligible.
CandidateSpentBySuccess ==
    \A c \in Targets :
        candidates[c] = "CONSUMED" =>
            \E a \in Approvals : TargetOf[a] = c /\ executions[a] = "SUCCEEDED"

\* After a recorded success the approval cannot authorise anything again, unless it was
\* decided more than once.  A cleanup is left out: when its broker disappears between the two
\* looks at the socket it runs locally, and nobody marks the approval (router.py:1385-1411).
SuccessSpendsApproval ==
    \A a \in Approvals :
        executions[a] = "SUCCEEDED" /\ grants[a] <= 1 /\ ToolOf[a] # "safe_log_cleanup"
            => status[a] # "APPROVED"

(***************************************************************************)
(* Liveness                                                                *)
(***************************************************************************)
\* Every request that got past the approval check is answered or dies with the process; in
\* particular a request that waits for the broker while it holds the write lock the broker
\* waits for does not wait for ever.
EveryRunEnds == \A r \in RunReqs : run[r].pc = "selected" ~> run[r].pc \in RunFinal

\* No connection stays in the backlog of the single-threaded daemon for ever.
BacklogDrains == inbox # <<>> ~> inbox = <<>>

(***************************************************************************)
(* Refinement: the broker spends grants, one at a time                     *)
(***************************************************************************)
Ledger == INSTANCE GrantLedger WITH Accounts <- Approvals, earned <- grants, spent <- helperRuns

LedgerSpec == Ledger!Spec

(***************************************************************************)
(* Statements of documents that the code does not keep                     *)
(***************************************************************************)
\* docs/08: the token is consumed atomically, which prevents replay.
AtMostOneMutation == \A a \in Approvals : mutated[a] <= 1

=============================================================================
