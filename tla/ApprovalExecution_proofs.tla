---------------------- MODULE ApprovalExecution_proofs ----------------------
(***************************************************************************)
(* Proofs of the safety properties of ApprovalExecution, for every set of  *)
(* approvals, users and requests and every assignment of tools.            *)
(***************************************************************************)
EXTENDS ApprovalProperties, TLAPS

(***************************************************************************)
(* Type correctness.  TypeOK alone is not inductive: a handler that has    *)
(* started must refer to a row, and a connection to a request, that exist. *)
(***************************************************************************)
DecisionsRefer ==
    \A d \in DecisionReqs :
        decision[d].pc # "new" =>
            /\ decision[d].approval \in Approvals
            /\ decision[d].actor \in Approvers
            /\ decision[d].verdict \in {"APPROVED", "REJECTED"}

ClaimsRefer == \A c \in ClaimReqs : claim[c].pc # "new" => claim[c].approval \in Approvals

Presented(k) == k \in ClaimReqs /\ claim[k].pc = "issued"

RunsRefer == \A r \in RunReqs : run[r].pc # "new" => Presented(run[r].token)

Started(r) == r \in RunReqs /\ run[r].pc # "new"

BrokerRefers ==
    /\ broker.pc \notin {"down", "accepting"} => Started(broker.request)
    /\ \A i \in 1..Len(inbox) : Started(inbox[i])

References == DecisionsRefer /\ ClaimsRefer /\ RunsRefer /\ BrokerRefers

TypeInv == TypeOK /\ References

LEMMA TypeInit == Init => TypeInv
BY NoneAssumption DEF Init, TypeInv, TypeOK, DatabaseOK, RequestsOK, DaemonOK, HostOK, References,
   DecisionsRefer, ClaimsRefer, RunsRefer, BrokerRefers,
   Status, DecisionRecord, ClaimRecord, RunRecord, BrokerRecord

\* A request that is past its token check names an approval row.
LEMMA ApprovalOfRun ==
    ASSUME TypeInv, NEW r \in RunReqs, run[r].pc # "new"
    PROVE  ApprovalOf(r) \in Approvals
BY DEF TypeInv, References, ClaimsRefer, RunsRefer, Presented, ApprovalOf

LEMMA ApprovalOfServed ==
    ASSUME TypeInv, broker.pc \notin {"down", "accepting"}
    PROVE  Started(Served) /\ ServedApproval \in Approvals
BY ApprovalOfRun DEF TypeInv, References, BrokerRefers, Started, Served, ServedApproval

(***************************************************************************)
(* How the requests move.  Whatever a run request does after its token     *)
(* check, it keeps its token and stays past the check; the same holds of   *)
(* the requests the daemon answers and of those a crash loses.             *)
(***************************************************************************)
RunsAdvance ==
    \A r \in RunReqs : run'[r].token = run[r].token /\ (run'[r].pc = "new" <=> run[r].pc = "new")

\* Claims that were issued stay issued, and no claim changes its approval.
ClaimsAdvance ==
    \A c \in ClaimReqs :
        claim[c].pc # "new" =>
            /\ claim'[c].approval = claim[c].approval
            /\ claim'[c].pc # "new"
            /\ claim[c].pc = "issued" => claim'[c].pc = "issued"

LEMMA RunsKeepReferring ==
    ASSUME TypeInv, RunsAdvance, ClaimsAdvance
    PROVE  RunsRefer'
BY DEF TypeInv, References, RunsRefer, RunsAdvance, ClaimsAdvance, Presented

LEMMA BrokerKeepsReferring ==
    ASSUME TypeInv, RunsAdvance, UNCHANGED <<broker, inbox>>
    PROVE  BrokerRefers'
BY DEF TypeInv, References, TypeOK, DaemonOK, BrokerRefers, RunsAdvance, Started

LEMMA RunStepAdvances ==
    ASSUME RequestsOK, NEW r \in RunReqs, RunStep(r)
    PROVE  RequestsOK' /\ RunsAdvance /\ UNCHANGED <<decision, claim, broker>>
<1> USE DEF RequestsOK, RunRecord, RunActive, RunFinal, RunsAdvance, brokerVars
<1>1. CASE Route(r)
    BY <1>1 DEF Route, BrokerManaged
<1>2. CASE LocateCandidate(r)
    BY <1>2 DEF LocateCandidate
<1>3. CASE CallBroker(r)
    BY <1>3 DEF CallBroker
<1>4. CASE BrokerCallFails(r)
    BY <1>4 DEF BrokerCallFails
<1>5. CASE AuthoriseLocally(r)
    BY <1>5 DEF AuthoriseLocally
<1>6. CASE ActLocally(r)
    BY <1>6 DEF ActLocally
<1>7. CASE Refuse(r)
    BY <1>7 DEF Refuse
<1>8. CASE Fault(r)
    BY <1>8 DEF Fault
<1>9. CASE RecordFailure(r)
    BY <1>9 DEF RecordFailure
<1>10. CASE RecordSuccess(r)
    BY <1>10 DEF RecordSuccess
<1>11. CASE RecordConflict(r)
    BY <1>11 DEF RecordConflict
<1>12. CASE RunBusy(r)
    BY <1>12 DEF RunBusy
<1>13. QED
    BY <1>1, <1>2, <1>3, <1>4, <1>5, <1>6, <1>7, <1>8, <1>9, <1>10, <1>11, <1>12 DEF RunStep

(***************************************************************************)
(* Type correctness, one action after another                              *)
(***************************************************************************)
LEMMA TypeRequestStep == TypeInv /\ RequestStep => TypeInv'
<1> SUFFICES ASSUME TypeInv, RequestStep PROVE TypeInv'
    OBVIOUS
<1> USE DEF TypeInv, TypeOK, apiVars, brokerVars, historyVars
<1>1. ASSUME NEW a \in Approvals, StoreCandidate(a) \/ \E u \in Operators : CreateApproval(a, u)
      PROVE  TypeInv'
  <2>1. DatabaseOK'
    BY <1>1, TargetAssumption DEF StoreCandidate, CreateApproval, DatabaseOK, Status, rowVars
  <2>2. UNCHANGED <<decision, claim, run, broker, inbox, socketFile, current, historyVars>>
    BY <1>1 DEF StoreCandidate, CreateApproval
  <2>3. QED
    BY <2>1, <2>2 DEF RequestsOK, DaemonOK, HostOK, References, DecisionsRefer, ClaimsRefer,
       RunsRefer, BrokerRefers, Presented, Started
<1>2. ASSUME NEW d \in DecisionReqs,
             \/ \E a \in Approvals, u \in Approvers, v \in {"APPROVED", "REJECTED"} :
                   BeginDecision(d, a, u, v)
             \/ CommitDecision(d)
             \/ DecisionBusy(d)
      PROVE  TypeInv'
  <2>1. /\ decision' \in [DecisionReqs -> DecisionRecord]
        /\ DecisionsRefer'
    BY <1>2 DEF BeginDecision, CommitDecision, DecisionBusy, References, RequestsOK,
       DecisionRecord, DecisionsRefer
  <2>2. UNCHANGED <<claim, run, broker, inbox, socketFile, current, helperRuns, mutated>>
    BY <1>2 DEF BeginDecision, CommitDecision, DecisionBusy
  <2>3. DatabaseOK' /\ grants' \in [Approvals -> Nat]
    BY <1>2 DEF BeginDecision, CommitDecision, DecisionBusy, References, DecisionsRefer,
       DatabaseOK, HostOK, Status, rowVars
  <2>4. QED
    BY <2>1, <2>2, <2>3 DEF RequestsOK, DaemonOK, HostOK, References, ClaimsRefer, RunsRefer,
       BrokerRefers, Presented, Started
<1>3. ASSUME NEW c \in ClaimReqs,
             \/ \E a \in Approvals : BeginClaim(c, a)
             \/ CommitClaim(c)
             \/ CommitExpiry(c)
             \/ ClaimBusy(c)
      PROVE  TypeInv'
  <2>1. /\ claim' \in [ClaimReqs -> ClaimRecord]
        /\ ClaimsRefer'
        /\ ClaimsAdvance
    BY <1>3 DEF BeginClaim, CommitClaim, CommitExpiry, ClaimBusy, References, RequestsOK,
       ClaimRecord, ClaimsRefer, ClaimsAdvance
  <2>2. UNCHANGED <<decision, run, broker, inbox, socketFile, current, historyVars>>
    BY <1>3 DEF BeginClaim, CommitClaim, CommitExpiry, ClaimBusy
  <2>3. DatabaseOK'
    BY <1>3 DEF BeginClaim, CommitClaim, CommitExpiry, ClaimBusy, References, ClaimsRefer,
       DatabaseOK, Status, rowVars
  <2>4. RunsRefer'
    BY <2>1, <2>2, RunsKeepReferring DEF RunsAdvance
  <2>5. QED
    BY <2>1, <2>2, <2>3, <2>4 DEF RequestsOK, DaemonOK, HostOK, References, DecisionsRefer,
       BrokerRefers, Started
<1>4. QED
    BY <1>1, <1>2, <1>3 DEF RequestStep

LEMMA TypeSelect ==
    ASSUME TypeInv, NEW r \in RunReqs, NEW k \in ClaimReqs, Select(r, k)
    PROVE  TypeInv'
<1> USE DEF TypeInv, TypeOK, References, Select, rowVars, brokerVars, historyVars
<1>1. run' \in [RunReqs -> RunRecord] /\ RunsRefer'
    BY DEF RequestsOK, RunRecord, RunActive, RunsRefer, Presented
<1>2. BrokerRefers'
    BY DEF RequestsOK, DaemonOK, BrokerRefers, Started
<1>3. QED
    BY <1>1, <1>2 DEF DatabaseOK, RequestsOK, DaemonOK, HostOK, DecisionsRefer, ClaimsRefer

LEMMA TypeRunStep ==
    ASSUME TypeInv, NEW r \in RunReqs, RunStep(r)
    PROVE  TypeInv'
<1> USE DEF TypeInv, TypeOK, References
<1>1. RequestsOK' /\ RunsAdvance /\ UNCHANGED <<decision, claim, broker>>
    BY RunStepAdvances
<1>2. DecisionsRefer' /\ ClaimsRefer' /\ RunsRefer'
    BY <1>1, RunsKeepReferring DEF DecisionsRefer, ClaimsRefer, ClaimsAdvance
<1>3. ASSUME UNCHANGED <<inbox, socketFile>> PROVE DaemonOK' /\ BrokerRefers'
    BY <1>1, <1>3, BrokerKeepsReferring DEF DaemonOK
<1>4. CASE CallBroker(r)
  <2>1. DaemonOK' /\ BrokerRefers'
    BY <1>1, <1>4 DEF CallBroker, DaemonOK, BrokerRefers, RunsAdvance, Started
  <2>2. QED
    BY <1>1, <1>2, <1>4, <2>1 DEF CallBroker, DatabaseOK, HostOK, rowVars, historyVars
<1>5. CASE ActLocally(r)
  <2>1. HostOK'
    BY <1>5, ApprovalOfRun DEF ActLocally, Act, HostOK
  <2>2. QED
    BY <1>1, <1>2, <1>3, <1>5, <2>1 DEF ActLocally, DatabaseOK, rowVars, brokerVars
<1>6. ASSUME RecordFailure(r) \/ RecordSuccess(r) PROVE TypeInv'
  <2>1. DatabaseOK'
    BY <1>6, ApprovalOfRun, TargetAssumption
       DEF RecordFailure, RecordSuccess, Settle, TargetFor, DatabaseOK, Status
  <2>2. QED
    BY <1>1, <1>2, <1>3, <1>6, <2>1
       DEF RecordFailure, RecordSuccess, HostOK, brokerVars, historyVars
<1>7. ASSUME \/ Route(r) \/ LocateCandidate(r) \/ BrokerCallFails(r) \/ AuthoriseLocally(r)
             \/ Refuse(r) \/ Fault(r) \/ RecordConflict(r) \/ RunBusy(r)
      PROVE  TypeInv'
  <2>1. /\ UNCHANGED <<rowVars, expired, executions, candidates, brokerVars, current, historyVars>>
        /\ locker' \in RunReqs \cup {None}
    BY <1>7 DEF Route, LocateCandidate, BrokerCallFails, AuthoriseLocally, Refuse, Fault,
       RecordConflict, RunBusy, DatabaseOK
  <2>2. QED
    BY <1>1, <1>2, <1>3, <2>1 DEF DatabaseOK, HostOK, rowVars, brokerVars, historyVars
<1>8. QED
    BY <1>4, <1>5, <1>6, <1>7 DEF RunStep

LEMMA TypeBrokerStep == TypeInv /\ (BrokerStep \/ BrokerStarts \/ BrokerDies) => TypeInv'
<1> SUFFICES ASSUME TypeInv, BrokerStep \/ BrokerStarts \/ BrokerDies PROVE TypeInv'
    OBVIOUS
<1> USE DEF TypeInv, TypeOK, References
<1>1. ASSUME UNCHANGED <<apiVars, inbox, socketFile>>, broker' \in BrokerRecord,
             broker'.request = broker.request, broker.pc \notin {"down", "accepting"}
      PROVE  RequestsOK' /\ DaemonOK' /\ References'
    BY <1>1 DEF RequestsOK, DaemonOK, DecisionsRefer, ClaimsRefer, RunsRefer, Presented,
       BrokerRefers, Started, apiVars
<1>2. CASE BrokerAccept
  <2>1. broker' \in BrokerRecord /\ inbox' \in Seq(RunReqs) /\ BrokerRefers'
    BY <1>2 DEF BrokerAccept, DaemonOK, BrokerRecord, BrokerRefers, Started, apiVars
  <2>2. QED
    BY <1>2, <2>1 DEF BrokerAccept, DatabaseOK, RequestsOK, DaemonOK, HostOK, DecisionsRefer,
       ClaimsRefer, RunsRefer, Presented, rowVars, apiVars, historyVars
<1>3. CASE BrokerSelect
  <2>1. broker' \in BrokerRecord /\ broker'.request = broker.request
    BY <1>3 DEF BrokerSelect, DaemonOK, BrokerRecord
  <2>2. QED
    BY <1>1, <1>3, <2>1 DEF BrokerSelect, DatabaseOK, HostOK, rowVars, historyVars
<1>4. CASE BrokerConsume
  <2>1. broker' \in BrokerRecord /\ broker'.request = broker.request
    BY <1>4 DEF BrokerConsume, DaemonOK, BrokerRecord
  <2>2. DatabaseOK' /\ HostOK'
    BY <1>4, ApprovalOfServed DEF BrokerConsume, DatabaseOK, HostOK, Status
  <2>3. QED
    BY <1>1, <1>4, <2>1, <2>2 DEF BrokerConsume
<1>5. CASE BrokerDeny
  <2>1. broker' \in BrokerRecord /\ broker'.request = broker.request
    BY <1>5 DEF BrokerDeny, DaemonOK, BrokerRecord
  <2>2. QED
    BY <1>1, <1>5, <2>1 DEF BrokerDeny, DatabaseOK, HostOK, rowVars, historyVars
<1>6. CASE HelperActs
  <2>1. broker' \in BrokerRecord /\ broker'.request = broker.request
    BY <1>6 DEF HelperActs, DaemonOK, BrokerRecord
  <2>2. HostOK'
    BY <1>6, ApprovalOfServed DEF HelperActs, Act, HostOK
  <2>3. QED
    BY <1>1, <1>6, <2>1, <2>2 DEF HelperActs, DatabaseOK, rowVars
<1>7. CASE BrokerReply
  <2>1. Started(Served)
    BY <1>7, ApprovalOfServed DEF BrokerReply
  <2>2. run' \in [RunReqs -> RunRecord] /\ RunsAdvance
    BY <1>7, <2>1 DEF BrokerReply, RequestsOK, RunRecord, RunActive, RunsAdvance, Started
  <2>3. broker' \in BrokerRecord /\ BrokerRefers'
    BY <1>7, <2>2 DEF BrokerReply, DaemonOK, BrokerRecord, BrokerRefers, RunsAdvance, Started
  <2>4. DecisionsRefer' /\ ClaimsRefer' /\ RunsRefer'
    BY <1>7, <2>2, RunsKeepReferring DEF BrokerReply, DecisionsRefer, ClaimsRefer, ClaimsAdvance
  <2>5. QED
    BY <1>7, <2>2, <2>3, <2>4 DEF BrokerReply, DatabaseOK, RequestsOK, DaemonOK, HostOK, rowVars,
       historyVars
<1>8. CASE BrokerReplyFails \/ BrokerDies \/ BrokerStarts
  <2>1. ASSUME BrokerReplyFails \/ BrokerDies PROVE DaemonOK' /\ BrokerRefers'
    <3>1. /\ broker' = [pc |-> "down", request |-> None]
          /\ inbox' = <<>>
          /\ socketFile' \in BOOLEAN
      BY <2>1 DEF BrokerReplyFails, BrokerDies, BrokerEnds
    <3>2. QED
      BY <3>1 DEF DaemonOK, BrokerRecord, BrokerRefers
  <2>2. ASSUME BrokerStarts PROVE DaemonOK' /\ BrokerRefers'
    BY <2>2 DEF BrokerStarts, DaemonOK, BrokerRecord, BrokerRefers, Started, apiVars
  <2>3. DaemonOK' /\ BrokerRefers'
    BY <1>8, <2>1, <2>2
  <2>4. UNCHANGED <<rowVars, expired, executions, candidates, locker, apiVars, current, historyVars>>
    BY <1>8 DEF BrokerReplyFails, BrokerDies, BrokerStarts, BrokerEnds
  <2>5. QED
    BY <2>3, <2>4 DEF DatabaseOK, RequestsOK, HostOK, DecisionsRefer, ClaimsRefer, RunsRefer,
       Presented, rowVars, apiVars, historyVars
<1>9. QED
    BY <1>2, <1>3, <1>4, <1>5, <1>6, <1>7, <1>8 DEF BrokerStep

LEMMA CrashAdvances ==
    ASSUME TypeInv, Crash
    PROVE  /\ RequestsOK' /\ RunsAdvance /\ ClaimsAdvance
           /\ DecisionsRefer' /\ ClaimsRefer'
<1> USE DEF Crash, Lost, TypeInv, TypeOK, RequestsOK, References
<1>1. decision' \in [DecisionReqs -> DecisionRecord] /\ DecisionsRefer'
    BY DEF DecisionRecord, DecisionsRefer
<1>2. claim' \in [ClaimReqs -> ClaimRecord] /\ ClaimsRefer' /\ ClaimsAdvance
    BY DEF ClaimRecord, ClaimsRefer, ClaimsAdvance
<1>3. run' \in [RunReqs -> RunRecord] /\ RunsAdvance
    BY DEF RunRecord, RunActive, RunFinal, RunsAdvance
<1>4. QED
    BY <1>1, <1>2, <1>3

LEMMA TypeEnvironment == TypeInv /\ Environment => TypeInv'
<1> SUFFICES ASSUME TypeInv, Environment PROVE TypeInv'
    OBVIOUS
<1> USE DEF TypeInv, TypeOK, References, rowVars, apiVars, brokerVars, historyVars
<1>1. ASSUME NEW a \in Approvals, Expire(a) \/ HostDrifts(a) PROVE TypeInv'
  <2>1. DatabaseOK' /\ HostOK'
    BY <1>1 DEF Expire, HostDrifts, DatabaseOK, HostOK
  <2>2. UNCHANGED <<apiVars, brokerVars>>
    BY <1>1 DEF Expire, HostDrifts
  <2>3. QED
    BY <2>1, <2>2 DEF RequestsOK, DaemonOK, DecisionsRefer, ClaimsRefer, RunsRefer, Presented,
       BrokerRefers, Started
<1>2. CASE Crash
  <2>1. BrokerRefers' /\ RunsRefer'
    BY <1>2, CrashAdvances, RunsKeepReferring, BrokerKeepsReferring DEF Crash
  <2>2. QED
    BY <1>2, <2>1, CrashAdvances, NoneAssumption DEF Crash, DatabaseOK, DaemonOK, HostOK
<1>3. QED
    BY <1>1, <1>2, TypeBrokerStep DEF Environment

LEMMA TypeStep == TypeInv /\ [Next]_vars => TypeInv'
<1> SUFFICES ASSUME TypeInv, [Next]_vars PROVE TypeInv'
    OBVIOUS
<1>1. CASE UNCHANGED vars
    BY <1>1 DEF vars, rowVars, apiVars, brokerVars, historyVars, TypeInv, TypeOK, DatabaseOK,
       RequestsOK, DaemonOK, HostOK, References, DecisionsRefer, ClaimsRefer, RunsRefer,
       BrokerRefers, Presented, Started
<1>2. CASE Next
    BY <1>2, TypeRequestStep, TypeSelect, TypeRunStep, TypeBrokerStep, TypeEnvironment DEF Next
<1>3. QED
    BY <1>1, <1>2

LEMMA TypeInvariance == Spec => []TypeInv
BY TypeInit, TypeStep, PTL DEF Spec

\* Every variable keeps its type: the rows, the records of the requests, the daemon's backlog
\* and the counters of the history.
THEOREM TypeCorrect == Spec => []TypeOK
BY TypeInvariance, PTL DEF TypeInv

(***************************************************************************)
(* Grants.  Every step is one of three kinds: a decision approves a row    *)
(* and is counted, the daemon consumes an APPROVED row and is counted, or  *)
(* neither counter moves and no row becomes APPROVED.  The invariant and   *)
(* the refinement both follow from this alone.                             *)
(***************************************************************************)
Earns(a) ==
    /\ grants' = [grants EXCEPT ![a] = @ + 1]
    /\ status' = [status EXCEPT ![a] = "APPROVED"]
    /\ UNCHANGED helperRuns

Spends(a) ==
    /\ status[a] = "APPROVED"
    /\ status' = [status EXCEPT ![a] = "CONSUMED"]
    /\ helperRuns' = [helperRuns EXCEPT ![a] = @ + 1]
    /\ UNCHANGED grants

GrantsNothing ==
    /\ UNCHANGED <<grants, helperRuns>>
    /\ \A a \in Approvals : status'[a] = "APPROVED" => status[a] = "APPROVED"

GrantStep == (\E a \in Approvals : Earns(a) \/ Spends(a)) \/ GrantsNothing

LEMMA StepsGrant == TypeInv /\ [Next]_vars => GrantStep
<1> SUFFICES ASSUME TypeInv, [Next]_vars PROVE GrantStep
    OBVIOUS
<1> USE DEF GrantStep, GrantsNothing, rowVars, historyVars
<1>1. CASE RequestStep
  <2>1. ASSUME NEW d \in DecisionReqs, CommitDecision(d) PROVE GrantStep
    <3> DEFINE a == decision[d].approval
    <3>1. a \in Approvals /\ decision[d].verdict \in {"APPROVED", "REJECTED"}
      BY <2>1 DEF CommitDecision, TypeInv, References, DecisionsRefer
    <3>2. CASE decision[d].verdict = "APPROVED"
      BY <2>1, <3>1, <3>2 DEF CommitDecision, Earns, TypeInv, TypeOK, HostOK
    <3>3. CASE decision[d].verdict = "REJECTED"
      <4>1. UNCHANGED <<grants, helperRuns>>
        BY <2>1, <3>1, <3>3 DEF CommitDecision, TypeInv, TypeOK, HostOK
      <4>2. QED
        BY <2>1, <3>1, <3>3, <4>1 DEF CommitDecision, TypeInv, TypeOK, DatabaseOK
    <3>4. QED
      BY <3>1, <3>2, <3>3
  <2>2. ASSUME NEW c \in ClaimReqs, CommitExpiry(c) PROVE GrantStep
    BY <2>2 DEF CommitExpiry, TypeInv, TypeOK, DatabaseOK
  <2>3. ASSUME NEW a \in Approvals, NEW u \in Operators, CreateApproval(a, u) PROVE GrantStep
    BY <2>3 DEF CreateApproval, TypeInv, TypeOK, DatabaseOK
  <2>4. QED
    BY <1>1, <2>1, <2>2, <2>3 DEF RequestStep, StoreCandidate, BeginDecision, DecisionBusy,
       BeginClaim, CommitClaim, ClaimBusy
<1>2. ASSUME NEW r \in RunReqs, RunStep(r) PROVE GrantStep
  <2>1. ASSUME RecordFailure(r) \/ RecordSuccess(r) PROVE GrantStep
    BY <2>1 DEF RecordFailure, RecordSuccess, Settle, TypeInv, TypeOK, DatabaseOK
  <2>2. QED
    BY <1>2, <2>1 DEF RunStep, Route, LocateCandidate, CallBroker, BrokerCallFails,
       AuthoriseLocally, ActLocally, Refuse, Fault, RecordConflict, RunBusy
<1>3. CASE BrokerStep
  <2>1. CASE BrokerConsume
    BY <2>1, ApprovalOfServed DEF BrokerConsume, Consumable, Spends
  <2>2. QED
    BY <1>3, <2>1 DEF BrokerStep, BrokerAccept, BrokerSelect, BrokerDeny, HelperActs, BrokerReply,
       BrokerReplyFails, BrokerEnds
<1>4. CASE BrokerStarts \/ Environment
    BY <1>4 DEF BrokerStarts, Environment, Expire, HostDrifts, BrokerDies, BrokerEnds, Crash
<1>5. ASSUME NEW r \in RunReqs, NEW k \in ClaimReqs, Select(r, k) PROVE GrantStep
    BY <1>5 DEF Select
<1>6. CASE UNCHANGED vars
    BY <1>6 DEF vars
<1>7. QED
    BY <1>1, <1>2, <1>3, <1>4, <1>5, <1>6 DEF Next

LEMMA GrantsStep == TypeInv /\ GrantsCoverHelperRuns /\ [Next]_vars => GrantsCoverHelperRuns'
<1> SUFFICES ASSUME TypeInv, GrantsCoverHelperRuns, [Next]_vars, NEW b \in Approvals
             PROVE  helperRuns'[b] + (IF status'[b] = "APPROVED" THEN 1 ELSE 0) <= grants'[b]
    BY DEF GrantsCoverHelperRuns
<1> USE DEF GrantsCoverHelperRuns, TypeInv, TypeOK, DatabaseOK, HostOK
<1>1. ASSUME NEW a \in Approvals, Earns(a)
      PROVE  helperRuns'[b] + (IF status'[b] = "APPROVED" THEN 1 ELSE 0) <= grants'[b]
    BY <1>1 DEF Earns
<1>2. ASSUME NEW a \in Approvals, Spends(a)
      PROVE  helperRuns'[b] + (IF status'[b] = "APPROVED" THEN 1 ELSE 0) <= grants'[b]
    BY <1>2 DEF Spends
<1>3. CASE GrantsNothing
    BY <1>3 DEF GrantsNothing
<1>4. QED
    BY <1>1, <1>2, <1>3, StepsGrant DEF GrantStep

LEMMA GrantsInit == Init => GrantsCoverHelperRuns
<1> SUFFICES ASSUME Init, NEW a \in Approvals
             PROVE  helperRuns[a] + (IF status[a] = "APPROVED" THEN 1 ELSE 0) <= grants[a]
    BY DEF GrantsCoverHelperRuns
<1>1. status[a] # "APPROVED" /\ helperRuns[a] = 0 /\ grants[a] = 0
    BY DEF Init
<1>2. QED
    BY <1>1

\* Each start of the privileged helper by the broker is paid for by an approve decision of
\* its own, whatever decisions, claims, retries and crashes race with the consumption.
THEOREM GrantsCovered == Spec => []GrantsCoverHelperRuns
    BY GrantsInit, TypeInvariance, GrantsStep, PTL DEF Spec

\* The protocol implements the ledger: a step earns a grant, spends one that was earned and
\* not spent, or leaves the account alone.
THEOREM LedgerImplemented == Spec => LedgerSpec
<1>1. Init => Ledger!Init
    BY DEF Init, Ledger!Init
<1>2. TypeInv /\ GrantsCoverHelperRuns /\ [Next]_vars => [Ledger!Next]_<<grants, helperRuns>>
  <2> SUFFICES ASSUME TypeInv, GrantsCoverHelperRuns, [Next]_vars
               PROVE  [Ledger!Next]_<<grants, helperRuns>>
      OBVIOUS
  <2>1. ASSUME NEW a \in Approvals, Earns(a) PROVE Ledger!Next
    BY <2>1 DEF Earns, Ledger!Next, Ledger!Earn
  <2>2. ASSUME NEW a \in Approvals, Spends(a) PROVE Ledger!Next
    <3>1. helperRuns[a] < grants[a]
      BY <2>2 DEF Spends, GrantsCoverHelperRuns, TypeInv, TypeOK, HostOK
    <3>2. QED
      BY <2>2, <3>1 DEF Spends, Ledger!Next, Ledger!Spend
  <2>3. QED
    BY <2>1, <2>2, StepsGrant DEF GrantStep, GrantsNothing
<1>3. QED
    BY <1>1, <1>2, TypeInvariance, GrantsCovered, PTL DEF Spec, LedgerSpec, Ledger!Spec

(***************************************************************************)
(* A request that is past its token check keeps its approval.              *)
(***************************************************************************)
RunsStay ==
    \A r \in RunReqs :
        run[r].pc # "new" => run'[r].token = run[r].token /\ run'[r].pc # "new"

LEMMA StepsStay == TypeInv /\ [Next]_vars => ClaimsAdvance /\ RunsStay
<1> SUFFICES ASSUME TypeInv, [Next]_vars PROVE ClaimsAdvance /\ RunsStay
    OBVIOUS
<1> USE DEF ClaimsAdvance, RunsStay, apiVars
<1>1. CASE RequestStep
  <2>1. UNCHANGED run
    BY <1>1 DEF RequestStep, StoreCandidate, CreateApproval, BeginDecision, CommitDecision,
       DecisionBusy, BeginClaim, CommitClaim, CommitExpiry, ClaimBusy
  <2>2. ClaimsAdvance
    BY <1>1 DEF RequestStep, StoreCandidate, CreateApproval, BeginDecision, CommitDecision,
       DecisionBusy, BeginClaim, CommitClaim, CommitExpiry, ClaimBusy, TypeInv, TypeOK, RequestsOK,
       ClaimRecord
  <2>3. QED
    BY <2>1, <2>2
<1>2. ASSUME NEW r \in RunReqs, RunStep(r) PROVE ClaimsAdvance /\ RunsStay
    BY <1>2, RunStepAdvances DEF TypeInv, TypeOK, RunsAdvance
<1>3. ASSUME NEW r \in RunReqs, NEW k \in ClaimReqs, Select(r, k) PROVE ClaimsAdvance /\ RunsStay
    BY <1>3 DEF Select, TypeInv, TypeOK, RequestsOK
<1>4. CASE BrokerReply
    BY <1>4 DEF BrokerReply, TypeInv, TypeOK, RequestsOK, RunRecord
<1>5. CASE Crash
    BY <1>5, CrashAdvances DEF RunsAdvance
<1>6. ASSUME UNCHANGED <<claim, run>> PROVE ClaimsAdvance /\ RunsStay
    BY <1>6
<1>7. QED
    BY <1>1, <1>2, <1>3, <1>4, <1>5, <1>6 DEF Next, vars, BrokerStep, BrokerAccept, BrokerSelect,
       BrokerConsume, BrokerDeny, HelperActs, BrokerReplyFails, BrokerEnds, BrokerStarts,
       Environment, Expire, HostDrifts, BrokerDies

LEMMA ApprovalStays ==
    ASSUME TypeInv, [Next]_vars, NEW r \in RunReqs, run[r].pc # "new"
    PROVE  ApprovalOf(r)' = ApprovalOf(r) /\ run'[r].pc # "new"
BY StepsStay DEF RunsStay, ClaimsAdvance, TypeInv, References, RunsRefer, Presented, ApprovalOf

(***************************************************************************)
(* Changes of the host.  A step that changes it is the local path's, after *)
(* its own authorisation, or the helper's, which the daemon has started.   *)
(***************************************************************************)
ActsLocally(r) ==
    /\ run[r].pc = "authorised"
    /\ mutated' = [mutated EXCEPT ![ApprovalOf(r)] = @ + 1]
    /\ UNCHANGED <<helperRuns, broker>>

HelperStarts ==
    /\ broker.pc = "consuming"
    /\ helperRuns' = [helperRuns EXCEPT ![ServedApproval] = @ + 1]
    /\ broker' = [broker EXCEPT !.pc = "helping"]
    /\ UNCHANGED mutated

HelperMutates ==
    /\ broker.pc = "helping"
    /\ mutated' = [mutated EXCEPT ![ServedApproval] = @ + 1]
    /\ broker' = [broker EXCEPT !.pc = "acted"]
    /\ UNCHANGED helperRuns

HostRests ==
    /\ UNCHANGED <<mutated, helperRuns>>
    /\ broker'.pc = "helping" => UNCHANGED broker

HostStep ==
    \/ \E r \in RunReqs : ActsLocally(r)
    \/ HelperStarts
    \/ HelperMutates
    \/ HostRests

LEMMA StepsHost == TypeInv /\ [Next]_vars => HostStep
<1> SUFFICES ASSUME TypeInv, [Next]_vars PROVE HostStep
    OBVIOUS
<1> USE DEF HostStep, HostRests, brokerVars, historyVars
<1>1. CASE RequestStep
    BY <1>1 DEF RequestStep, StoreCandidate, CreateApproval, BeginDecision, CommitDecision,
       DecisionBusy, BeginClaim, CommitClaim, CommitExpiry, ClaimBusy
<1>2. ASSUME NEW r \in RunReqs, RunStep(r) PROVE HostStep
  <2>1. CASE ActLocally(r)
    BY <2>1 DEF ActLocally, Act, ActsLocally
  <2>2. QED
    BY <1>2, <2>1 DEF RunStep, Route, LocateCandidate, CallBroker, BrokerCallFails,
       AuthoriseLocally, Refuse, Fault, RecordFailure, RecordSuccess, RecordConflict, RunBusy
<1>3. ASSUME NEW r \in RunReqs, NEW k \in ClaimReqs, Select(r, k) PROVE HostStep
    BY <1>3 DEF Select
<1>4. CASE BrokerStep
  <2>1. CASE BrokerConsume
    BY <2>1 DEF BrokerConsume, HelperStarts
  <2>2. CASE HelperActs
    BY <2>2 DEF HelperActs, Act, HelperMutates
  <2>3. ASSUME BrokerAccept \/ BrokerSelect \/ BrokerDeny \/ BrokerReply \/ BrokerReplyFails
        PROVE  HostStep
    <3>1. broker'.pc # "helping"
      BY <2>3 DEF BrokerAccept, BrokerSelect, BrokerDeny, BrokerReply, BrokerReplyFails, BrokerEnds,
         TypeInv, TypeOK, DaemonOK, BrokerRecord
    <3>2. UNCHANGED <<mutated, helperRuns>>
      BY <2>3 DEF BrokerAccept, BrokerSelect, BrokerDeny, BrokerReply, BrokerReplyFails, BrokerEnds
    <3>3. QED
      BY <3>1, <3>2
  <2>4. QED
    BY <1>4, <2>1, <2>2, <2>3 DEF BrokerStep
<1>5. CASE BrokerStarts \/ Environment
    BY <1>5 DEF BrokerStarts, Environment, Expire, HostDrifts, BrokerDies, BrokerEnds, Crash
<1>6. CASE UNCHANGED vars
    BY <1>6 DEF vars
<1>7. QED
    BY <1>1, <1>2, <1>3, <1>4, <1>5, <1>6 DEF Next

(***************************************************************************)
(* Restarts.  Every restart was done by the helper, which acts at most     *)
(* once for each time the daemon started it.                               *)
(***************************************************************************)
LocalIsNoRestart ==
    \A r \in RunReqs : run[r].pc = "authorised" => ToolFor(r) # "service_restart"

HelperBounded ==
    \A a \in Approvals :
        ToolOf[a] = "service_restart" =>
            mutated[a] + (IF broker.pc = "helping" /\ ServedApproval = a THEN 1 ELSE 0)
                <= helperRuns[a]

LEMMA Authorised ==
    ASSUME TypeInv, [Next]_vars, NEW r \in RunReqs, run'[r].pc = "authorised"
    PROVE  run[r].pc = "authorised" \/ AuthoriseLocally(r)
<1> USE DEF TypeInv, TypeOK, RequestsOK, RunRecord, apiVars
<1>1. CASE RequestStep
    BY <1>1 DEF RequestStep, StoreCandidate, CreateApproval, BeginDecision, CommitDecision,
       DecisionBusy, BeginClaim, CommitClaim, CommitExpiry, ClaimBusy
<1>2. ASSUME NEW s \in RunReqs, RunStep(s), ~AuthoriseLocally(s) PROVE run[r].pc = "authorised"
  <2>1. CASE Route(s)
    BY <2>1 DEF Route
  <2>2. CASE LocateCandidate(s)
    BY <2>2 DEF LocateCandidate
  <2>3. CASE CallBroker(s)
    BY <2>3 DEF CallBroker
  <2>4. CASE BrokerCallFails(s) \/ ActLocally(s) \/ Refuse(s) \/ Fault(s)
    BY <2>4 DEF BrokerCallFails, ActLocally, Refuse, Fault
  <2>5. CASE RecordFailure(s) \/ RecordSuccess(s) \/ RecordConflict(s) \/ RunBusy(s)
    BY <2>5 DEF RecordFailure, RecordSuccess, RecordConflict, RunBusy
  <2>6. QED
    BY <1>2, <2>1, <2>2, <2>3, <2>4, <2>5 DEF RunStep
<1>3. ASSUME NEW s \in RunReqs, AuthoriseLocally(s), s # r PROVE run[r].pc = "authorised"
    BY <1>3 DEF AuthoriseLocally
<1>4. ASSUME NEW s \in RunReqs, NEW k \in ClaimReqs, Select(s, k) PROVE run[r].pc = "authorised"
    BY <1>4 DEF Select
<1>5. CASE BrokerReply
    BY <1>5 DEF BrokerReply
<1>6. CASE Crash
    BY <1>6 DEF Crash, Lost
<1>7. ASSUME UNCHANGED run PROVE run[r].pc = "authorised"
    BY <1>7
<1>8. QED
    BY <1>1, <1>2, <1>3, <1>4, <1>5, <1>6, <1>7 DEF Next, vars, BrokerStep, BrokerAccept,
       BrokerSelect, BrokerConsume, BrokerDeny, HelperActs, BrokerReplyFails, BrokerEnds,
       BrokerStarts, Environment, Expire, HostDrifts, BrokerDies

LEMMA LocalIsNoRestartStep ==
    TypeInv /\ LocalIsNoRestart /\ [Next]_vars => LocalIsNoRestart'
<1> SUFFICES ASSUME TypeInv, LocalIsNoRestart, [Next]_vars,
                    NEW r \in RunReqs, run'[r].pc = "authorised"
             PROVE  ToolFor(r)' # "service_restart"
    BY DEF LocalIsNoRestart
<1>1. run[r].pc # "new" /\ ToolFor(r) # "service_restart"
    BY Authorised DEF AuthoriseLocally, LocalIsNoRestart
<1>2. QED
    BY <1>1, ApprovalStays DEF ToolFor

LEMMA HelperBoundedStep ==
    TypeInv /\ LocalIsNoRestart /\ HelperBounded /\ [Next]_vars => HelperBounded'
<1> SUFFICES ASSUME TypeInv, LocalIsNoRestart, HelperBounded, [Next]_vars,
                    NEW a \in Approvals, ToolOf[a] = "service_restart"
             PROVE  mutated'[a] + (IF broker'.pc = "helping" /\ ServedApproval' = a THEN 1 ELSE 0)
                        <= helperRuns'[a]
    BY DEF HelperBounded
<1>1. /\ mutated[a] \in Nat /\ helperRuns[a] \in Nat
      /\ mutated[a] + (IF broker.pc = "helping" /\ ServedApproval = a THEN 1 ELSE 0)
             <= helperRuns[a]
      /\ mutated \in [Approvals -> Nat] /\ helperRuns \in [Approvals -> Nat]
      /\ broker \in BrokerRecord
    BY DEF HelperBounded, TypeInv, TypeOK, HostOK, DaemonOK
<1>2. ASSUME UNCHANGED broker.request, broker.pc \notin {"down", "accepting"}
      PROVE  ServedApproval' = ServedApproval
    BY <1>2, ApprovalOfServed, ApprovalStays DEF Started, Served, ServedApproval
<1>3. ASSUME NEW r \in RunReqs, ActsLocally(r)
      PROVE  mutated'[a] = mutated[a] /\ UNCHANGED <<helperRuns, broker>>
    BY <1>1, <1>3 DEF ActsLocally, LocalIsNoRestart, ToolFor
<1>4. CASE HelperStarts
    BY <1>1, <1>2, <1>4 DEF HelperStarts, BrokerRecord
<1>5. CASE HelperMutates
    BY <1>1, <1>5 DEF HelperMutates, BrokerRecord
<1>6. ASSUME UNCHANGED helperRuns, mutated'[a] = mutated[a],
             broker'.pc = "helping" => UNCHANGED broker
      PROVE  mutated'[a] + (IF broker'.pc = "helping" /\ ServedApproval' = a THEN 1 ELSE 0)
                        <= helperRuns'[a]
    BY <1>1, <1>2, <1>6
<1>7. QED
    BY <1>3, <1>4, <1>5, <1>6, StepsHost DEF HostStep, HostRests

LEMMA RestartInit == Init => LocalIsNoRestart /\ HelperBounded
<1> SUFFICES ASSUME Init PROVE LocalIsNoRestart /\ HelperBounded
    OBVIOUS
<1>1. LocalIsNoRestart
    BY DEF Init, LocalIsNoRestart
<1>2. \A a \in Approvals : mutated[a] = 0 /\ helperRuns[a] = 0
    BY DEF Init
<1>3. broker.pc # "helping"
    BY DEF Init
<1>4. QED
    BY <1>1, <1>2, <1>3 DEF HelperBounded

\* A service is restarted at most as often as its approval was granted: the restart has no
\* path around the broker, and the broker's accounts balance.
THEOREM RestartsAreGranted == Spec => []RestartsGranted
<1>1. TypeInv /\ GrantsCoverHelperRuns /\ HelperBounded => RestartsGranted
  <2> SUFFICES ASSUME TypeInv, GrantsCoverHelperRuns, HelperBounded,
                      NEW a \in Approvals, ToolOf[a] = "service_restart"
               PROVE  mutated[a] <= grants[a]
      BY DEF RestartsGranted
  <2>1. mutated[a] \in Nat /\ helperRuns[a] \in Nat /\ grants[a] \in Nat
    BY DEF TypeInv, TypeOK, HostOK
  <2>2. mutated[a] <= helperRuns[a]
    BY <2>1 DEF HelperBounded
  <2>3. helperRuns[a] <= grants[a]
    BY <2>1 DEF GrantsCoverHelperRuns
  <2>4. QED
    BY <2>1, <2>2, <2>3
<1>2. QED
    BY <1>1, TypeInvariance, GrantsCovered, RestartInit, LocalIsNoRestartStep, HelperBoundedStep,
       PTL DEF Spec

(***************************************************************************)
(* Dual control.  The approval that a separate person gave is passed on    *)
(* from the decision to the row, to the claim, to the run that presents    *)
(* the token and to the change of the host; each keeps it because a        *)
(* decision that was taken and the requester of a row never change.        *)
(***************************************************************************)
Approved(a) == \E u \in Approvers \ {requester[a]} : ApprovedBy(a, u)

DecisionsSeparate ==
    \A d \in DecisionReqs :
        decision[d].pc # "new" =>
            /\ status[decision[d].approval] # "ABSENT"
            /\ decision[d].verdict = "APPROVED" =>
                  decision[d].actor # requester[decision[d].approval]

RowsApproved == \A a \in Approvals : status[a] = "APPROVED" => Approved(a)

ClaimsApproved == \A c \in ClaimReqs : claim[c].pc # "new" => Approved(claim[c].approval)

DualInv == DecisionsSeparate /\ RowsApproved /\ ClaimsApproved /\ DualControl

RowsStay ==
    \A a \in Approvals :
        status[a] # "ABSENT" => status'[a] # "ABSENT" /\ requester'[a] = requester[a]

LEMMA StepsKeepRows == TypeInv /\ [Next]_vars => RowsStay
<1> SUFFICES ASSUME TypeInv, [Next]_vars PROVE RowsStay
    OBVIOUS
<1> USE DEF RowsStay, rowVars
<1>1. CASE RequestStep
  <2>1. ASSUME NEW a \in Approvals, NEW u \in Operators, CreateApproval(a, u) PROVE RowsStay
    BY <2>1 DEF CreateApproval, TypeInv, TypeOK, DatabaseOK
  <2>2. ASSUME NEW d \in DecisionReqs, CommitDecision(d) PROVE RowsStay
    BY <2>2 DEF CommitDecision, TypeInv, TypeOK, DatabaseOK, References, DecisionsRefer
  <2>3. ASSUME NEW c \in ClaimReqs, CommitExpiry(c) PROVE RowsStay
    BY <2>3 DEF CommitExpiry, TypeInv, TypeOK, DatabaseOK
  <2>4. QED
    BY <1>1, <2>1, <2>2, <2>3 DEF RequestStep, StoreCandidate, BeginDecision, DecisionBusy,
       BeginClaim, CommitClaim, ClaimBusy
<1>2. ASSUME NEW r \in RunReqs, RunStep(r) PROVE RowsStay
  <2>1. ASSUME RecordFailure(r) \/ RecordSuccess(r) PROVE RowsStay
    BY <2>1 DEF RecordFailure, RecordSuccess, Settle, TypeInv, TypeOK, DatabaseOK
  <2>2. QED
    BY <1>2, <2>1 DEF RunStep, Route, LocateCandidate, CallBroker, BrokerCallFails,
       AuthoriseLocally, ActLocally, Refuse, Fault, RecordConflict, RunBusy
<1>3. CASE BrokerConsume
    BY <1>3 DEF BrokerConsume, TypeInv, TypeOK, DatabaseOK
<1>4. ASSUME UNCHANGED <<status, requester>> PROVE RowsStay
    BY <1>4
<1>5. QED
    BY <1>1, <1>2, <1>3, <1>4 DEF Next, vars, Select, BrokerStep, BrokerAccept, BrokerSelect,
       BrokerDeny, HelperActs, BrokerReply, BrokerReplyFails, BrokerEnds, BrokerStarts,
       Environment, Expire, HostDrifts, BrokerDies, Crash

\* A decision is made once: who decided, about what and how never changes after it began.
DecisionsStay ==
    \A d \in DecisionReqs :
        decision[d].pc # "new" =>
            /\ decision'[d].pc # "new"
            /\ decision'[d].approval = decision[d].approval
            /\ decision'[d].actor = decision[d].actor
            /\ decision'[d].verdict = decision[d].verdict
            /\ decision[d].pc = "done" => decision'[d] = decision[d]

LEMMA StepsDecide ==
    ASSUME TypeInv, [Next]_vars
    PROVE  /\ DecisionsStay
           /\ \A d \in DecisionReqs :
                 decision[d].pc = "new" /\ decision'[d].pc # "new" =>
                     \E a \in Approvals, u \in Approvers, v \in {"APPROVED", "REJECTED"} :
                         BeginDecision(d, a, u, v)
<1> DEFINE Goal ==
        /\ DecisionsStay
        /\ \A d \in DecisionReqs :
              decision[d].pc = "new" /\ decision'[d].pc # "new" =>
                  \E a \in Approvals, u \in Approvers, v \in {"APPROVED", "REJECTED"} :
                      BeginDecision(d, a, u, v)
<1>1. ASSUME NEW d \in DecisionReqs, NEW a \in Approvals, NEW u \in Approvers,
             NEW v \in {"APPROVED", "REJECTED"}, BeginDecision(d, a, u, v)
      PROVE  Goal
  <2>1. DecisionsStay
    BY <1>1 DEF BeginDecision, DecisionsStay, TypeInv, TypeOK, RequestsOK, DecisionRecord
  <2>2. \A e \in DecisionReqs : decision[e].pc = "new" /\ decision'[e].pc # "new" => e = d
    BY <1>1 DEF BeginDecision, TypeInv, TypeOK, RequestsOK
  <2>3. QED
    BY <1>1, <2>1, <2>2
<1>2. ASSUME NEW d \in DecisionReqs, CommitDecision(d) \/ DecisionBusy(d) PROVE Goal
    BY <1>2 DEF CommitDecision, DecisionBusy, DecisionsStay, TypeInv, TypeOK, RequestsOK,
       DecisionRecord
<1>3. CASE Crash
    BY <1>3 DEF Crash, Lost, DecisionsStay, TypeInv, TypeOK, RequestsOK, DecisionRecord
<1>4. ASSUME UNCHANGED decision PROVE Goal
    BY <1>4 DEF DecisionsStay
<1>5. ASSUME NEW r \in RunReqs, RunStep(r) PROVE UNCHANGED decision
    BY <1>5, RunStepAdvances DEF TypeInv, TypeOK
<1>6. QED
    BY <1>1, <1>2, <1>3, <1>4, <1>5 DEF Next, vars, apiVars, RequestStep, StoreCandidate,
       CreateApproval, BeginClaim, CommitClaim, CommitExpiry, ClaimBusy, Select, BrokerStep,
       BrokerAccept, BrokerSelect, BrokerConsume, BrokerDeny, HelperActs, BrokerReply,
       BrokerReplyFails, BrokerEnds, BrokerStarts, Environment, Expire, HostDrifts, BrokerDies

LEMMA ApprovedStays ==
    ASSUME TypeInv, DecisionsSeparate, [Next]_vars, NEW a \in Approvals, Approved(a)
    PROVE  Approved(a)'
<1>1. PICK u \in Approvers \ {requester[a]}, d \in DecisionReqs :
          decision[d] = [pc |-> "done", approval |-> a, actor |-> u, verdict |-> "APPROVED"]
    BY DEF Approved, ApprovedBy
<1>2. decision'[d] = decision[d]
    BY <1>1, StepsDecide DEF DecisionsStay
<1>3. requester'[a] = requester[a]
    BY <1>1, StepsKeepRows DEF RowsStay, DecisionsSeparate
<1>4. QED
    BY <1>1, <1>2, <1>3 DEF Approved, ApprovedBy

LEMMA DecisionsSeparateStep == TypeInv /\ DecisionsSeparate /\ [Next]_vars => DecisionsSeparate'
<1> SUFFICES ASSUME TypeInv, DecisionsSeparate, [Next]_vars,
                    NEW d \in DecisionReqs, decision'[d].pc # "new"
             PROVE  /\ status'[decision'[d].approval] # "ABSENT"
                    /\ decision'[d].verdict = "APPROVED" =>
                          decision'[d].actor # requester'[decision'[d].approval]
    BY DEF DecisionsSeparate
<1>1. CASE decision[d].pc # "new"
  <2>1. decision[d].approval \in Approvals
    BY <1>1 DEF TypeInv, References, DecisionsRefer
  <2>2. QED
    BY <1>1, <2>1, StepsDecide, StepsKeepRows DEF DecisionsStay, RowsStay, DecisionsSeparate
<1>2. ASSUME NEW a \in Approvals, NEW u \in Approvers, NEW v \in {"APPROVED", "REJECTED"},
             BeginDecision(d, a, u, v)
      PROVE  /\ status'[decision'[d].approval] # "ABSENT"
             /\ decision'[d].verdict = "APPROVED" =>
                   decision'[d].actor # requester'[decision'[d].approval]
  <2>1. decision'[d] = [pc |-> "deciding", approval |-> a, actor |-> u, verdict |-> v]
    BY <1>2 DEF BeginDecision, TypeInv, TypeOK, RequestsOK
  <2>2. UNCHANGED <<status, requester>>
    BY <1>2 DEF BeginDecision, rowVars
  <2>3. QED
    BY <1>2, <2>1, <2>2 DEF BeginDecision, Pending, Separated
<1>3. QED
    BY <1>1, <1>2, StepsDecide

\* A row becomes APPROVED by the commit of a decision that approves it.
LEMMA ApprovedByCommit ==
    ASSUME TypeInv, [Next]_vars, NEW a \in Approvals, status'[a] = "APPROVED"
    PROVE  \/ status[a] = "APPROVED"
           \/ \E d \in DecisionReqs :
                 /\ CommitDecision(d)
                 /\ decision[d].approval = a
                 /\ decision[d].verdict = "APPROVED"
<1> DEFINE Commits == \E d \in DecisionReqs :
                         /\ CommitDecision(d)
                         /\ decision[d].approval = a
                         /\ decision[d].verdict = "APPROVED"
<1>1. ASSUME NEW d \in DecisionReqs, CommitDecision(d) PROVE status[a] = "APPROVED" \/ Commits
    BY <1>1 DEF CommitDecision, TypeInv, TypeOK, DatabaseOK
<1>2. CASE RequestStep
  <2>1. ASSUME NEW c \in ClaimReqs, CommitExpiry(c) PROVE status[a] = "APPROVED"
    BY <2>1 DEF CommitExpiry, TypeInv, TypeOK, DatabaseOK
  <2>2. ASSUME NEW b \in Approvals, NEW u \in Operators, CreateApproval(b, u)
        PROVE  status[a] = "APPROVED"
    BY <2>2 DEF CreateApproval, TypeInv, TypeOK, DatabaseOK
  <2>3. QED
    BY <1>1, <1>2, <2>1, <2>2 DEF RequestStep, StoreCandidate, BeginDecision, DecisionBusy,
       BeginClaim, CommitClaim, ClaimBusy, rowVars
<1>3. ASSUME NEW r \in RunReqs, RunStep(r) PROVE status[a] = "APPROVED"
  <2>1. ASSUME RecordFailure(r) \/ RecordSuccess(r) PROVE status[a] = "APPROVED"
    BY <2>1 DEF RecordFailure, RecordSuccess, Settle, TypeInv, TypeOK, DatabaseOK
  <2>2. QED
    BY <1>3, <2>1 DEF RunStep, Route, LocateCandidate, CallBroker, BrokerCallFails,
       AuthoriseLocally, ActLocally, Refuse, Fault, RecordConflict, RunBusy, rowVars
<1>4. CASE BrokerConsume
    BY <1>4 DEF BrokerConsume, TypeInv, TypeOK, DatabaseOK
<1>5. ASSUME UNCHANGED status PROVE status[a] = "APPROVED"
    BY <1>5
<1>6. QED
    BY <1>2, <1>3, <1>4, <1>5 DEF Next, vars, rowVars, Select, BrokerStep, BrokerAccept,
       BrokerSelect, BrokerDeny, HelperActs, BrokerReply, BrokerReplyFails, BrokerEnds,
       BrokerStarts, Environment, Expire, HostDrifts, BrokerDies, Crash

LEMMA RowsApprovedStep ==
    TypeInv /\ DecisionsSeparate /\ RowsApproved /\ [Next]_vars => RowsApproved'
<1> SUFFICES ASSUME TypeInv, DecisionsSeparate, RowsApproved, [Next]_vars,
                    NEW a \in Approvals, status'[a] = "APPROVED"
             PROVE  Approved(a)'
    BY DEF RowsApproved
<1>1. CASE status[a] = "APPROVED"
    BY <1>1, ApprovedStays DEF RowsApproved
<1>2. ASSUME NEW d \in DecisionReqs, CommitDecision(d), decision[d].approval = a,
             decision[d].verdict = "APPROVED"
      PROVE  Approved(a)'
  <2> DEFINE u == decision[d].actor
  <2>1. u \in Approvers \ {requester[a]}
    BY <1>2 DEF CommitDecision, TypeInv, References, DecisionsRefer, DecisionsSeparate
  <2>2. decision'[d] = [pc |-> "done", approval |-> a, actor |-> u, verdict |-> "APPROVED"]
    BY <1>2 DEF CommitDecision, TypeInv, TypeOK, RequestsOK, DecisionRecord
  <2>3. UNCHANGED requester
    BY <1>2 DEF CommitDecision
  <2>4. QED
    BY <2>1, <2>2, <2>3 DEF Approved, ApprovedBy
<1>3. QED
    BY <1>1, <1>2, ApprovedByCommit

\* A claim is started by BeginClaim alone.
LEMMA ClaimBegins ==
    ASSUME TypeInv, [Next]_vars, NEW c \in ClaimReqs, claim[c].pc = "new", claim'[c].pc # "new"
    PROVE  \E a \in Approvals : BeginClaim(c, a)
<1>1. ASSUME NEW e \in ClaimReqs, CommitClaim(e) \/ CommitExpiry(e) \/ ClaimBusy(e) PROVE FALSE
    BY <1>1 DEF CommitClaim, CommitExpiry, ClaimBusy, TypeInv, TypeOK, RequestsOK
<1>2. ASSUME NEW e \in ClaimReqs, NEW a \in Approvals, BeginClaim(e, a) PROVE e = c
    BY <1>2 DEF BeginClaim, TypeInv, TypeOK, RequestsOK
<1>3. ~Crash
    BY DEF Crash, Lost
<1>4. ASSUME NEW r \in RunReqs, RunStep(r) PROVE FALSE
    BY <1>4, RunStepAdvances DEF TypeInv, TypeOK
<1>5. claim' # claim
    OBVIOUS
<1>6. QED
    BY <1>1, <1>2, <1>3, <1>4, <1>5 DEF Next, vars, apiVars, RequestStep, StoreCandidate,
       CreateApproval, BeginDecision, CommitDecision, DecisionBusy, Select, BrokerStep, BrokerAccept,
       BrokerSelect, BrokerConsume, BrokerDeny, HelperActs, BrokerReply, BrokerReplyFails,
       BrokerEnds, BrokerStarts, Environment, Expire, HostDrifts, BrokerDies

LEMMA ClaimsApprovedStep ==
    TypeInv /\ DecisionsSeparate /\ RowsApproved /\ ClaimsApproved /\ [Next]_vars => ClaimsApproved'
<1> SUFFICES ASSUME TypeInv, DecisionsSeparate, RowsApproved, ClaimsApproved, [Next]_vars,
                    NEW c \in ClaimReqs, claim'[c].pc # "new"
             PROVE  \E a \in Approvals : claim'[c].approval = a /\ Approved(a)'
    BY DEF ClaimsApproved
<1>1. CASE claim[c].pc # "new"
  <2>1. claim[c].approval \in Approvals /\ Approved(claim[c].approval)
    BY <1>1 DEF TypeInv, References, ClaimsRefer, ClaimsApproved
  <2>2. claim'[c].approval = claim[c].approval
    BY <1>1, StepsStay DEF ClaimsAdvance
  <2>3. QED
    BY <2>1, <2>2, ApprovedStays
<1>2. CASE claim[c].pc = "new"
  <2>1. PICK a \in Approvals : BeginClaim(c, a)
    BY <1>2, ClaimBegins
  <2>2. claim'[c].approval = a
    BY <2>1 DEF BeginClaim, TypeInv, TypeOK, RequestsOK
  <2>3. Approved(a)
    BY <2>1 DEF BeginClaim, RowsApproved
  <2>4. QED
    BY <2>2, <2>3, ApprovedStays
<1>3. QED
    BY <1>1, <1>2

LEMMA DualControlStep ==
    TypeInv /\ DualInv /\ [Next]_vars => DualControl'
<1> SUFFICES ASSUME TypeInv, DualInv, [Next]_vars, NEW a \in Approvals, mutated'[a] > 0
             PROVE  Approved(a)'
    BY DEF DualControl, Approved
<1>1. CASE mutated[a] > 0
    BY <1>1, ApprovedStays DEF DualInv, DualControl, Approved
<1>2. CASE ~(mutated[a] > 0)
  <2>1. mutated'[a] # mutated[a] /\ mutated \in [Approvals -> Nat]
    BY <1>2 DEF TypeInv, TypeOK, HostOK
  <2>2. ASSUME NEW r \in RunReqs, run[r].pc # "new" PROVE Approved(ApprovalOf(r))
    BY <2>2 DEF TypeInv, References, RunsRefer, Presented, DualInv, ClaimsApproved, ApprovalOf
  <2>3. \/ \E r \in RunReqs : run[r].pc # "new" /\ a = ApprovalOf(r)
        \/ broker.pc = "helping" /\ a = ServedApproval
    BY <2>1, StepsHost DEF HostStep, ActsLocally, HelperStarts, HelperMutates, HostRests
  <2>4. Approved(a)
    BY <2>2, <2>3, ApprovalOfServed DEF Started, Served, ServedApproval
  <2>5. QED
    BY <2>4, ApprovedStays DEF DualInv
<1>3. QED
    BY <1>1, <1>2

\* Nothing is changed on the host for an approval unless somebody other than its requester
\* decided APPROVED, whichever of the two paths the change takes.
THEOREM DualControlHolds == Spec => []DualControl
<1>1. Init => DualInv
    BY DEF Init, DualInv, DecisionsSeparate, RowsApproved, ClaimsApproved, DualControl
<1>2. TypeInv /\ DualInv /\ [Next]_vars => DualInv'
    BY DecisionsSeparateStep, RowsApprovedStep, ClaimsApprovedStep, DualControlStep DEF DualInv
<1>3. DualInv => DualControl
    BY DEF DualInv
<1>4. QED
    BY <1>1, <1>2, <1>3, TypeInvariance, PTL DEF Spec

(***************************************************************************)
(* Outcomes.  An answer is given, and a candidate used up, in the step     *)
(* that inserts the execution row.                                         *)
(***************************************************************************)
Answered(r) == run[r].pc \in {"ok", "rejected"}

Outcome(pc) == IF pc = "ok" THEN "SUCCEEDED" ELSE "FAILED"

\* Request r is answered, and the execution row of its approval is new.
Answers(r) ==
    LET a == ApprovalOf(r)
    IN  /\ run[r].pc \in {"mutated", "failing"}
        /\ run[r].pc = "failing" => run'[r].pc = "rejected"
        /\ run'[r].pc \in {"ok", "rejected"}
        /\ executions[a] = "NONE"
        /\ executions' = [executions EXCEPT ![a] = Outcome(run'[r].pc)]
        /\ \A s \in RunReqs \ {r} : run'[s] = run[s]
        /\ \A c \in Targets :
              candidates'[c] = "CONSUMED" =>
                  \/ candidates[c] = "CONSUMED"
                  \/ run'[r].pc = "ok" /\ c = TargetOf[a]

NobodyAnswered ==
    /\ UNCHANGED executions
    /\ \A r \in RunReqs : run'[r].pc \in {"ok", "rejected"} => run'[r].pc = run[r].pc
    /\ \A c \in Targets : candidates'[c] = "CONSUMED" => candidates[c] = "CONSUMED"

LEMMA RunStepsAnswer ==
    ASSUME TypeInv, NEW r \in RunReqs, RunStep(r)
    PROVE  Answers(r) \/ NobodyAnswered
<1> USE DEF TypeInv, TypeOK, RequestsOK, RunRecord
<1>1. CASE RecordFailure(r)
    BY <1>1 DEF RecordFailure, Settle, Answers, Outcome
<1>2. CASE RecordSuccess(r)
  <2>1. \A c \in Targets : candidates'[c] = "CONSUMED" =>
            candidates[c] = "CONSUMED" \/ c = TargetOf[ApprovalOf(r)]
    BY <1>2 DEF RecordSuccess, DatabaseOK, TargetFor
  <2>2. QED
    BY <1>2, <2>1 DEF RecordSuccess, Settle, Answers, Outcome
<1>3. ASSUME ~RecordFailure(r), ~RecordSuccess(r) PROVE NobodyAnswered
  <2>1. UNCHANGED <<executions, candidates>>
    BY <1>3 DEF RunStep, Route, LocateCandidate, CallBroker, BrokerCallFails, AuthoriseLocally,
       ActLocally, Refuse, Fault, RecordConflict, RunBusy
  <2>2. \E pc \in RunActive \cup {"error"} :
            \A s \in RunReqs : run'[s].pc = IF s = r THEN pc ELSE run[s].pc
    <3>1. CASE Route(r)
      BY <3>1 DEF Route, RunActive
    <3>2. CASE LocateCandidate(r)
      BY <3>2 DEF LocateCandidate, RunActive
    <3>3. CASE CallBroker(r)
      BY <3>3 DEF CallBroker, RunActive
    <3>4. CASE AuthoriseLocally(r)
      BY <3>4 DEF AuthoriseLocally, RunActive
    <3>5. CASE BrokerCallFails(r) \/ ActLocally(r) \/ Refuse(r)
      BY <3>5 DEF BrokerCallFails, ActLocally, Refuse, RunActive
    <3>6. CASE Fault(r) \/ RecordConflict(r) \/ RunBusy(r)
      BY <3>6 DEF Fault, RecordConflict, RunBusy, RunActive
    <3>7. QED
      BY <1>3, <3>1, <3>2, <3>3, <3>4, <3>5, <3>6 DEF RunStep
  <2>3. QED
    BY <2>1, <2>2 DEF NobodyAnswered, RunActive
<1>4. QED
    BY <1>1, <1>2, <1>3

LEMMA StepsAnswer ==
    TypeInv /\ [Next]_vars => (\E r \in RunReqs : RunStep(r) /\ Answers(r)) \/ NobodyAnswered
<1> SUFFICES ASSUME TypeInv, [Next]_vars
             PROVE  (\E r \in RunReqs : RunStep(r) /\ Answers(r)) \/ NobodyAnswered
    OBVIOUS
<1> USE DEF NobodyAnswered, apiVars
<1>1. CASE RequestStep
  <2>1. ASSUME NEW a \in Approvals, StoreCandidate(a) PROVE NobodyAnswered
    BY <2>1 DEF StoreCandidate, TypeInv, TypeOK, DatabaseOK
  <2>2. QED
    BY <1>1, <2>1 DEF RequestStep, CreateApproval, BeginDecision, CommitDecision, DecisionBusy,
       BeginClaim, CommitClaim, CommitExpiry, ClaimBusy
<1>2. ASSUME NEW r \in RunReqs, NEW k \in ClaimReqs, Select(r, k) PROVE NobodyAnswered
    BY <1>2 DEF Select, TypeInv, TypeOK, RequestsOK
<1>3. CASE BrokerReply
    BY <1>3 DEF BrokerReply, TypeInv, TypeOK, RequestsOK, RunRecord
<1>4. CASE Crash
    BY <1>4 DEF Crash, Lost
<1>5. ASSUME UNCHANGED <<executions, run, candidates>> PROVE NobodyAnswered
    BY <1>5
<1>6. QED
    BY <1>1, <1>2, <1>3, <1>4, <1>5, RunStepsAnswer DEF Next, vars, BrokerStep, BrokerAccept,
       BrokerSelect, BrokerConsume, BrokerDeny, HelperActs, BrokerReplyFails, BrokerEnds,
       BrokerStarts, Environment, Expire, HostDrifts, BrokerDies

(***************************************************************************)
(* One answer per approval                                                 *)
(***************************************************************************)
\* Whoever was answered was told what the execution row says.
AnswersRecorded ==
    \A r \in RunReqs : Answered(r) => executions[ApprovalOf(r)] = Outcome(run[r].pc)

LEMMA AnswersRecordedStep ==
    TypeInv /\ AnswersRecorded /\ AnsweredOnce /\ [Next]_vars => (AnswersRecorded /\ AnsweredOnce)'
<1> SUFFICES ASSUME TypeInv, AnswersRecorded, AnsweredOnce, [Next]_vars
             PROVE  (AnswersRecorded /\ AnsweredOnce)'
    OBVIOUS
<1>1. \A s \in RunReqs : run[s].pc # "new" => ApprovalOf(s)' = ApprovalOf(s)
    BY ApprovalStays
<1>2. CASE NobodyAnswered
  <2>1. \A s \in RunReqs : Answered(s)' => Answered(s) /\ run'[s].pc = run[s].pc
    BY <1>2 DEF NobodyAnswered, Answered
  <2>2. QED
    BY <1>1, <1>2, <2>1 DEF NobodyAnswered, AnswersRecorded, AnsweredOnce, Answered
<1>3. ASSUME NEW r \in RunReqs, Answers(r) PROVE (AnswersRecorded /\ AnsweredOnce)'
  <2>1. run[r].pc # "new" /\ ApprovalOf(r) \in Approvals
    BY <1>3, ApprovalOfRun DEF Answers
  <2>2. \A s \in RunReqs : s # r /\ Answered(s)' =>
            /\ Answered(s)
            /\ run'[s].pc = run[s].pc
            /\ ApprovalOf(s)' = ApprovalOf(s)
    BY <1>1, <1>3 DEF Answers, Answered
  <2>3. \A s \in RunReqs : Answered(s) => ApprovalOf(s) # ApprovalOf(r)
    BY <1>3 DEF Answers, AnswersRecorded, Answered, Outcome
  <2>4. AnswersRecorded'
    BY <1>1, <1>3, <2>1, <2>2, <2>3 DEF Answers, AnswersRecorded, Answered, TypeInv, TypeOK, DatabaseOK
  <2>5. AnsweredOnce'
    BY <1>1, <2>1, <2>2, <2>3 DEF AnsweredOnce, Answered
  <2>6. QED
    BY <2>4, <2>5
<1>4. QED
    BY <1>2, <1>3, StepsAnswer

\* However many requests present tokens of one approval, at most one is answered 200 or 422,
\* since the answer is given only with the insertion of the one execution row.
THEOREM AnsweredOnceHolds == Spec => []AnsweredOnce
<1>1. Init => AnswersRecorded /\ AnsweredOnce
    BY DEF Init, AnswersRecorded, AnsweredOnce, Answered
<1>2. QED
    BY <1>1, AnswersRecordedStep, TypeInvariance, PTL DEF Spec

(***************************************************************************)
(* Used candidates.  The row that used a candidate up stays SUCCEEDED,     *)
(* since an execution row is inserted once and never written again.        *)
(***************************************************************************)
LEMMA CandidateSpentStep ==
    TypeInv /\ CandidateSpentBySuccess /\ [Next]_vars => CandidateSpentBySuccess'
<1> SUFFICES ASSUME TypeInv, CandidateSpentBySuccess, [Next]_vars,
                    NEW c \in Targets, candidates'[c] = "CONSUMED"
             PROVE  \E a \in Approvals : TargetOf[a] = c /\ executions'[a] = "SUCCEEDED"
    BY DEF CandidateSpentBySuccess
<1>1. CASE NobodyAnswered
    BY <1>1 DEF NobodyAnswered, CandidateSpentBySuccess
<1>2. ASSUME NEW r \in RunReqs, Answers(r)
      PROVE  \E a \in Approvals : TargetOf[a] = c /\ executions'[a] = "SUCCEEDED"
  <2>1. ApprovalOf(r) \in Approvals
    BY <1>2, ApprovalOfRun DEF Answers
  <2>2. executions \in [Approvals -> {"NONE", "SUCCEEDED", "FAILED"}]
    BY DEF TypeInv, TypeOK, DatabaseOK
  <2>3. CASE candidates[c] = "CONSUMED"
    <3>1. PICK a \in Approvals : TargetOf[a] = c /\ executions[a] = "SUCCEEDED"
      BY <2>3 DEF CandidateSpentBySuccess
    <3>2. executions'[a] = "SUCCEEDED"
      BY <1>2, <2>1, <2>2, <3>1 DEF Answers
    <3>3. QED
      BY <3>1, <3>2
  <2>4. CASE run'[r].pc = "ok" /\ c = TargetOf[ApprovalOf(r)]
    <3>1. executions'[ApprovalOf(r)] = "SUCCEEDED"
      BY <1>2, <2>1, <2>2, <2>4 DEF Answers, Outcome
    <3>2. QED
      BY <2>1, <2>4, <3>1
  <2>5. QED
    BY <1>2, <2>3, <2>4 DEF Answers
<1>3. QED
    BY <1>1, <1>2, StepsAnswer

\* A candidate is used up only together with a recorded success of an approval that names it.
THEOREM CandidatesSpentBySuccess == Spec => []CandidateSpentBySuccess
<1>1. Init => CandidateSpentBySuccess
    BY DEF Init, CandidateSpentBySuccess
<1>2. QED
    BY <1>1, CandidateSpentStep, TypeInvariance, PTL DEF Spec

(***************************************************************************)
(* Success is real.  Whoever says that the work is done, the daemon or the *)
(* handler itself, says it after a change of the host.                     *)
(***************************************************************************)
Changed(a) == mutated[a] > 0

RunsChanged == \A r \in RunReqs : run[r].pc \in {"mutated", "ok"} => Changed(ApprovalOf(r))

HelperChanged == broker.pc = "acted" => Changed(ServedApproval)

LEMMA ChangedStays ==
    ASSUME TypeInv, [Next]_vars, NEW a \in Approvals, Changed(a)
    PROVE  Changed(a)'
<1>1. mutated \in [Approvals -> Nat]
    BY DEF TypeInv, TypeOK, HostOK
<1>2. ASSUME NEW b, mutated' = [mutated EXCEPT ![b] = @ + 1] PROVE Changed(a)'
    BY <1>1, <1>2 DEF Changed
<1>3. QED
    BY <1>2, StepsHost DEF HostStep, ActsLocally, HelperStarts, HelperMutates, HostRests, Changed

\* A request is done when it acted itself or was told so by a daemon whose helper acted.
LEMMA RunDone ==
    ASSUME TypeInv, [Next]_vars, NEW r \in RunReqs, run'[r].pc \in {"mutated", "ok"}
    PROVE  \/ run[r].pc \in {"mutated", "ok"}
           \/ ActLocally(r)
           \/ broker.pc = "acted" /\ r = Served
<1> DEFINE Goal == \/ run[r].pc \in {"mutated", "ok"}
                   \/ ActLocally(r)
                   \/ broker.pc = "acted" /\ r = Served
<1> USE DEF TypeInv, TypeOK, RequestsOK, RunRecord, apiVars
<1>1. ASSUME NEW s \in RunReqs, RunStep(s) PROVE Goal
  <2>1. CASE Route(s)
    BY <2>1 DEF Route
  <2>2. CASE LocateCandidate(s)
    BY <2>2 DEF LocateCandidate
  <2>3. CASE CallBroker(s)
    BY <2>3 DEF CallBroker
  <2>4. CASE AuthoriseLocally(s)
    BY <2>4 DEF AuthoriseLocally
  <2>5. CASE ActLocally(s)
    BY <2>5 DEF ActLocally
  <2>6. CASE BrokerCallFails(s) \/ Refuse(s) \/ Fault(s)
    BY <2>6 DEF BrokerCallFails, Refuse, Fault
  <2>7. CASE RecordFailure(s) \/ RecordSuccess(s) \/ RecordConflict(s) \/ RunBusy(s)
    BY <2>7 DEF RecordFailure, RecordSuccess, RecordConflict, RunBusy
  <2>8. QED
    BY <1>1, <2>1, <2>2, <2>3, <2>4, <2>5, <2>6, <2>7 DEF RunStep
<1>2. ASSUME NEW s \in RunReqs, NEW k \in ClaimReqs, Select(s, k) PROVE Goal
    BY <1>2 DEF Select
<1>3. CASE BrokerReply
    BY <1>3 DEF BrokerReply
<1>4. CASE Crash
    BY <1>4 DEF Crash, Lost
<1>5. ASSUME UNCHANGED run PROVE Goal
    BY <1>5
<1>6. QED
    BY <1>1, <1>2, <1>3, <1>4, <1>5 DEF Next, vars, RequestStep, StoreCandidate, CreateApproval,
       BeginDecision, CommitDecision, DecisionBusy, BeginClaim, CommitClaim, CommitExpiry, ClaimBusy,
       BrokerStep, BrokerAccept, BrokerSelect, BrokerConsume, BrokerDeny, HelperActs,
       BrokerReplyFails, BrokerEnds, BrokerStarts, Environment, Expire, HostDrifts, BrokerDies

LEMMA HelperDone ==
    ASSUME TypeInv, [Next]_vars, broker'.pc = "acted"
    PROVE  (broker.pc = "acted" /\ UNCHANGED broker) \/ HelperActs
<1> DEFINE Goal == (broker.pc = "acted" /\ UNCHANGED broker) \/ HelperActs
<1>1. ASSUME UNCHANGED broker PROVE Goal
    BY <1>1
<1>2. CASE BrokerStep
    BY <1>2 DEF BrokerStep, BrokerAccept, BrokerSelect, BrokerConsume, BrokerDeny, BrokerReply,
       BrokerReplyFails, BrokerEnds, TypeInv, TypeOK, DaemonOK, BrokerRecord
<1>3. ASSUME NEW r \in RunReqs, RunStep(r) PROVE Goal
    BY <1>1, <1>3, RunStepAdvances DEF TypeInv, TypeOK
<1>4. QED
    BY <1>1, <1>2, <1>3 DEF Next, vars, brokerVars, RequestStep, StoreCandidate, CreateApproval,
       BeginDecision, CommitDecision, DecisionBusy, BeginClaim, CommitClaim, CommitExpiry, ClaimBusy,
       Select, BrokerStarts, Environment, Expire, HostDrifts, BrokerDies, BrokerEnds, Crash

LEMMA ChangedStep ==
    TypeInv /\ RunsChanged /\ HelperChanged /\ [Next]_vars => (RunsChanged /\ HelperChanged)'
<1> SUFFICES ASSUME TypeInv, RunsChanged, HelperChanged, [Next]_vars
             PROVE  RunsChanged' /\ HelperChanged'
    OBVIOUS
<1> USE DEF TypeInv, TypeOK, HostOK, DaemonOK, BrokerRecord
<1>1. ASSUME NEW r \in RunReqs, run'[r].pc \in {"mutated", "ok"} PROVE Changed(ApprovalOf(r))'
  <2>1. CASE run[r].pc \in {"mutated", "ok"}
    <3>1. ApprovalOf(r) \in Approvals /\ Changed(ApprovalOf(r)) /\ ApprovalOf(r)' = ApprovalOf(r)
      BY <2>1, ApprovalOfRun, ApprovalStays DEF RunsChanged
    <3>2. QED
      BY <3>1, ChangedStays DEF Changed
  <2>2. CASE ActLocally(r)
    <3>1. ApprovalOf(r) \in Approvals /\ ApprovalOf(r)' = ApprovalOf(r)
      BY <2>2, ApprovalOfRun, ApprovalStays DEF ActLocally
    <3>2. QED
      BY <2>2, <3>1 DEF ActLocally, Act, Changed
  <2>3. CASE broker.pc = "acted" /\ r = Served
    <3>1. /\ ServedApproval \in Approvals
          /\ Changed(ServedApproval)
          /\ ApprovalOf(r)' = ServedApproval
      BY <2>3, ApprovalOfServed, ApprovalStays DEF HelperChanged, Started, ServedApproval
    <3>2. QED
      BY <3>1, ChangedStays DEF Changed
  <2>4. QED
    BY <1>1, <2>1, <2>2, <2>3, RunDone
<1>2. ASSUME broker'.pc = "acted" PROVE Changed(ServedApproval)'
  <2>1. /\ broker.pc \in {"helping", "acted"}
        /\ UNCHANGED Served
        /\ broker.pc = "acted" \/ Act(ServedApproval)
    BY <1>2, HelperDone DEF HelperActs, Served
  <2>2. ServedApproval \in Approvals /\ ServedApproval' = ServedApproval
    BY <2>1, ApprovalOfServed, ApprovalStays DEF Started, ServedApproval
  <2>3. CASE broker.pc = "acted"
    BY <2>2, <2>3, ChangedStays DEF HelperChanged, Changed
  <2>4. CASE Act(ServedApproval)
    BY <2>2, <2>4 DEF Act, Changed
  <2>5. QED
    BY <2>1, <2>3, <2>4
<1>3. QED
    BY <1>1, <1>2 DEF RunsChanged, HelperChanged

\* A request that is answered 200 finds the execution row SUCCEEDED and the host changed,
\* however its answer raced with others, with timeouts and with deaths of the daemon.
THEOREM SuccessesAreReal == Spec => []SuccessIsReal
<1>1. Init => AnswersRecorded /\ AnsweredOnce /\ RunsChanged /\ HelperChanged
    BY DEF Init, AnswersRecorded, AnsweredOnce, Answered, RunsChanged, HelperChanged
<1>2. AnswersRecorded /\ RunsChanged => SuccessIsReal
    BY DEF AnswersRecorded, Answered, Outcome, RunsChanged, Changed, SuccessIsReal
<1>3. QED
    BY <1>1, <1>2, AnswersRecordedStep, ChangedStep, TypeInvariance, PTL DEF Spec


(***************************************************************************)
(* Success spends its approval.  A row is APPROVED again only by another   *)
(* decision.  The handler that inserts the execution row marks the         *)
(* approval in the same commit, unless the broker was to do so; of the     *)
(* tools left here that is the restart alone, which succeeds only after    *)
(* the helper ran, and the helper's runs are paid for by grants.           *)
(***************************************************************************)
Granted(a) == grants[a] > 0

ClaimsGranted == \A c \in ClaimReqs : claim[c].pc # "new" => Granted(claim[c].approval)

ManagedByBroker ==
    \A r \in RunReqs :
        run[r].managed =>
            run[r].pc # "new" /\ ToolFor(r) \in {"service_restart", "safe_log_cleanup"}

ExecutedGranted == \A a \in Approvals : executions[a] # "NONE" => Granted(a)

SuccessChanged == \A a \in Approvals : executions[a] = "SUCCEEDED" => Changed(a)

\* The tools whose success the handler marks itself.
MarkedLocally(a) == ToolOf[a] \notin {"service_restart", "safe_log_cleanup"}

ApprovedAgain ==
    \A a \in Approvals :
        executions[a] = "SUCCEEDED" /\ MarkedLocally(a) /\ status[a] = "APPROVED" => grants[a] > 1

LEMMA GrantedStays ==
    ASSUME TypeInv, [Next]_vars, NEW a \in Approvals
    PROVE  grants[a] \in Nat /\ grants'[a] \in Nat /\ grants[a] <= grants'[a]
<1>1. grants \in [Approvals -> Nat]
    BY DEF TypeInv, TypeOK, HostOK
<1>2. QED
    BY <1>1, StepsGrant DEF GrantStep, Earns, Spends, GrantsNothing

LEMMA ClaimsGrantedStep ==
    TypeInv /\ GrantsCoverHelperRuns /\ ClaimsGranted /\ [Next]_vars => ClaimsGranted'
<1> SUFFICES ASSUME TypeInv, GrantsCoverHelperRuns, ClaimsGranted, [Next]_vars,
                    NEW c \in ClaimReqs, claim'[c].pc # "new"
             PROVE  \E a \in Approvals : claim'[c].approval = a /\ Granted(a)'
    BY DEF ClaimsGranted
<1>1. CASE claim[c].pc # "new"
  <2>1. claim[c].approval \in Approvals /\ Granted(claim[c].approval)
    BY <1>1 DEF TypeInv, References, ClaimsRefer, ClaimsGranted
  <2>2. claim'[c].approval = claim[c].approval
    BY <1>1, StepsStay DEF ClaimsAdvance
  <2>3. QED
    BY <2>1, <2>2, GrantedStays DEF Granted
<1>2. CASE claim[c].pc = "new"
  <2>1. PICK a \in Approvals : BeginClaim(c, a)
    BY <1>2, ClaimBegins
  <2>2. claim'[c].approval = a
    BY <2>1 DEF BeginClaim, TypeInv, TypeOK, RequestsOK
  <2>3. Granted(a)
    BY <2>1 DEF BeginClaim, GrantsCoverHelperRuns, Granted, TypeInv, TypeOK, HostOK
  <2>4. QED
    BY <2>2, <2>3, GrantedStays DEF Granted
<1>3. QED
    BY <1>1, <1>2

\* Only Route sets "managed", and only the tools that the broker takes.
LEMMA ManagedStep == TypeInv /\ ManagedByBroker /\ [Next]_vars => ManagedByBroker'
<1> SUFFICES ASSUME TypeInv, ManagedByBroker, [Next]_vars, NEW r \in RunReqs, run'[r].managed
             PROVE  run'[r].pc # "new" /\ ToolFor(r)' \in {"service_restart", "safe_log_cleanup"}
    BY DEF ManagedByBroker
<1> DEFINE Routed == run[r].pc = "selected" /\ BrokerManaged(ToolFor(r))
<1>1. run[r].managed \/ Routed
  <2> USE DEF TypeInv, TypeOK, RequestsOK, RunRecord, apiVars
  <2>1. ASSUME NEW s \in RunReqs, RunStep(s) PROVE run[r].managed \/ Routed
    <3>1. CASE Route(s)
      BY <3>1 DEF Route
    <3>2. CASE LocateCandidate(s) \/ CallBroker(s) \/ AuthoriseLocally(s) \/ ActLocally(s)
      BY <3>2 DEF LocateCandidate, CallBroker, AuthoriseLocally, ActLocally
    <3>3. CASE BrokerCallFails(s) \/ Refuse(s) \/ Fault(s)
      BY <3>3 DEF BrokerCallFails, Refuse, Fault
    <3>4. CASE RecordFailure(s) \/ RecordSuccess(s) \/ RecordConflict(s) \/ RunBusy(s)
      BY <3>4 DEF RecordFailure, RecordSuccess, RecordConflict, RunBusy
    <3>5. QED
      BY <2>1, <3>1, <3>2, <3>3, <3>4 DEF RunStep
  <2>2. ASSUME NEW s \in RunReqs, NEW k \in ClaimReqs, Select(s, k) PROVE run[r].managed
    BY <2>2 DEF Select
  <2>3. CASE BrokerReply
    BY <2>3 DEF BrokerReply
  <2>4. CASE Crash
    BY <2>4 DEF Crash, Lost
  <2>5. ASSUME UNCHANGED run PROVE run[r].managed
    BY <2>5
  <2>6. QED
    BY <2>1, <2>2, <2>3, <2>4, <2>5 DEF Next, vars, RequestStep, StoreCandidate, CreateApproval,
       BeginDecision, CommitDecision, DecisionBusy, BeginClaim, CommitClaim, CommitExpiry, ClaimBusy,
       BrokerStep, BrokerAccept, BrokerSelect, BrokerConsume, BrokerDeny, HelperActs,
       BrokerReplyFails, BrokerEnds, BrokerStarts, Environment, Expire, HostDrifts, BrokerDies
<1>2. run[r].pc # "new" /\ ToolFor(r) \in {"service_restart", "safe_log_cleanup"}
    BY <1>1 DEF ManagedByBroker, BrokerManaged
<1>3. QED
    BY <1>2, ApprovalStays DEF ToolFor

\* What an execution row says was earned: the approval was granted and, for a success, the
\* host was changed.
LEMMA ExecutedStep ==
    TypeInv /\ RunsChanged /\ ClaimsGranted /\ ExecutedGranted /\ SuccessChanged /\ [Next]_vars
        => (ExecutedGranted /\ SuccessChanged)'
<1> SUFFICES ASSUME TypeInv, RunsChanged, ClaimsGranted, ExecutedGranted, SuccessChanged,
                    [Next]_vars, NEW a \in Approvals
             PROVE  /\ executions'[a] # "NONE" => Granted(a)'
                    /\ executions'[a] = "SUCCEEDED" => Changed(a)'
    BY DEF ExecutedGranted, SuccessChanged
<1>1. CASE executions'[a] = executions[a]
    BY <1>1, GrantedStays, ChangedStays DEF ExecutedGranted, SuccessChanged, Granted
<1>2. ASSUME NEW r \in RunReqs, Answers(r), a = ApprovalOf(r)
      PROVE  /\ executions'[a] # "NONE" => Granted(a)'
             /\ executions'[a] = "SUCCEEDED" => Changed(a)'
  <2>1. Granted(a)
    BY <1>2 DEF Answers, ClaimsGranted, TypeInv, References, RunsRefer, Presented, ApprovalOf
  <2>2. executions'[a] = Outcome(run'[r].pc)
    BY <1>2 DEF Answers, TypeInv, TypeOK, DatabaseOK
  <2>3. executions'[a] = "SUCCEEDED" => Changed(a)
    BY <1>2, <2>2 DEF Answers, Outcome, RunsChanged
  <2>4. QED
    BY <2>1, <2>3, GrantedStays, ChangedStays DEF Granted
<1>3. QED
    BY <1>1, <1>2, StepsAnswer DEF NobodyAnswered, Answers, TypeInv, TypeOK, DatabaseOK

\* The commit of a success that the broker does not mark marks the approval.
LEMMA SuccessMarks ==
    ASSUME TypeInv, ManagedByBroker, NEW r \in RunReqs, Answers(r), RunStep(r),
           MarkedLocally(ApprovalOf(r))
    PROVE  status'[ApprovalOf(r)] = "CONSUMED"
<1>1. ~run[r].managed /\ ApprovalOf(r) \in Approvals
    BY ApprovalOfRun DEF ManagedByBroker, MarkedLocally, ToolFor, Answers
<1>2. executions' # executions
    BY <1>1 DEF Answers, Outcome, TypeInv, TypeOK, DatabaseOK
<1>3. RecordFailure(r) \/ RecordSuccess(r)
    BY <1>2 DEF RunStep, Route, LocateCandidate, CallBroker, BrokerCallFails, AuthoriseLocally,
       ActLocally, Refuse, Fault, RecordConflict, RunBusy
<1>4. QED
    BY <1>1, <1>3 DEF RecordFailure, RecordSuccess, Settle, TypeInv, TypeOK, DatabaseOK

LEMMA ApprovedAgainStep ==
    TypeInv /\ ManagedByBroker /\ ExecutedGranted /\ ApprovedAgain /\ [Next]_vars => ApprovedAgain'
<1> SUFFICES ASSUME TypeInv, ManagedByBroker, ExecutedGranted, ApprovedAgain, [Next]_vars,
                    NEW a \in Approvals, executions'[a] = "SUCCEEDED", MarkedLocally(a),
                    status'[a] = "APPROVED"
             PROVE  grants'[a] > 1
    BY DEF ApprovedAgain, MarkedLocally
<1>1. executions[a] = "SUCCEEDED"
  <2>1. SUFFICES ASSUME executions[a] # "SUCCEEDED" PROVE FALSE
    OBVIOUS
  <2>2. PICK r \in RunReqs : Answers(r) /\ RunStep(r) /\ a = ApprovalOf(r)
    BY <2>1, StepsAnswer DEF NobodyAnswered, Answers, TypeInv, TypeOK, DatabaseOK
  <2>3. QED
    BY <2>2, SuccessMarks
<1>2. CASE status[a] = "APPROVED"
    BY <1>1, <1>2, GrantedStays DEF ApprovedAgain
<1>3. CASE status[a] # "APPROVED"
  <2>1. Earns(a)
    BY <1>3, StepsGrant DEF GrantStep, Earns, Spends, GrantsNothing, TypeInv, TypeOK, DatabaseOK
  <2>2. grants[a] > 0 /\ grants'[a] = grants[a] + 1
    BY <1>1, <2>1 DEF Earns, ExecutedGranted, Granted, TypeInv, TypeOK, HostOK
  <2>3. QED
    BY <2>2, GrantedStays
<1>4. QED
    BY <1>2, <1>3

\* After a recorded success the approval authorises nothing more, unless it was decided more
\* than once or is a cleanup's: for a restart because the helper's run was paid for, for the
\* other tools because one commit inserts the row and marks the approval.
THEOREM SuccessesSpendApprovals == Spec => []SuccessSpendsApproval
<1> DEFINE Inv == /\ GrantsCoverHelperRuns /\ LocalIsNoRestart /\ HelperBounded
                  /\ RunsChanged /\ HelperChanged
                  /\ ClaimsGranted /\ ManagedByBroker /\ ExecutedGranted /\ SuccessChanged
                  /\ ApprovedAgain
<1>1. Init => Inv
  <2>1. Init => GrantsCoverHelperRuns
    BY GrantsInit
  <2>2. Init => RunsChanged /\ HelperChanged /\ ClaimsGranted /\ ManagedByBroker
    BY DEF Init, RunsChanged, HelperChanged, ClaimsGranted, ManagedByBroker
  <2>3. Init => ExecutedGranted /\ SuccessChanged /\ ApprovedAgain
    BY DEF Init, ExecutedGranted, SuccessChanged, ApprovedAgain
  <2>4. QED
    BY <2>1, <2>2, <2>3, RestartInit
<1>2. TypeInv /\ Inv /\ [Next]_vars => Inv'
    BY GrantsStep, LocalIsNoRestartStep, HelperBoundedStep, ChangedStep, ClaimsGrantedStep,
       ManagedStep, ExecutedStep, ApprovedAgainStep
<1>3. TypeInv /\ Inv => SuccessSpendsApproval
  <2> SUFFICES ASSUME TypeInv, Inv, NEW a \in Approvals,
                      executions[a] = "SUCCEEDED", grants[a] <= 1, status[a] = "APPROVED"
               PROVE  ToolOf[a] = "safe_log_cleanup"
      BY DEF SuccessSpendsApproval
  <2>1. mutated[a] \in Nat /\ helperRuns[a] \in Nat /\ grants[a] \in Nat
    BY DEF TypeInv, TypeOK, HostOK
  <2>2. ~MarkedLocally(a)
    BY <2>1 DEF ApprovedAgain
  <2>3. helperRuns[a] + 1 <= grants[a] /\ mutated[a] > 0
    BY DEF GrantsCoverHelperRuns, SuccessChanged, Changed
  <2>4. ToolOf[a] # "service_restart"
    BY <2>1, <2>3 DEF HelperBounded
  <2>5. QED
    BY <2>2, <2>4 DEF MarkedLocally
<1>4. QED
    BY <1>1, <1>2, <1>3, TypeInvariance, PTL DEF Spec

=============================================================================
