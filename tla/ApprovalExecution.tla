-------------------------- MODULE ApprovalExecution --------------------------
(***************************************************************************)
(* The life of an approval and of the privileged execution it authorises,  *)
(* in CONTROLLED_EXECUTION mode.                                           *)
(*                                                                         *)
(* The handlers of backend/app/api/router.py run in the API process, each  *)
(* HTTP request in a thread and a database session of its own.  They share *)
(* the SQLite database with the execution broker (executor/broker.py), a   *)
(* single-threaded daemon that consumes an approval and then starts the    *)
(* root helper.  A handler is cut into the steps between which another     *)
(* thread, the broker or a crash can intervene: its SELECT, each look at   *)
(* the broker socket, the work on the host, and the commit.                *)
(*                                                                         *)
(* SQLite has one writer.  A handler that flushes and commits with nothing *)
(* in between is one atomic step guarded by locker = None; "locker" is the *)
(* request that keeps the write lock while it works on the host, because   *)
(* a SELECT autoflushed its pending UPDATE.  Whoever meets a taken lock    *)
(* may give up after the busy timeout.                                     *)
(*                                                                         *)
(* A request is used once, so the sets of requests bound the model.  The   *)
(* token minted by a claim is identified with the claim request.  Tool,    *)
(* target and arguments of an approval never change and are constants.     *)
(***************************************************************************)
EXTENDS Naturals, Sequences

CONSTANTS
    Approvals,      \* ids of approval rows
    Targets,        \* host objects: a file, a process, a unit, a config file
    ToolOf,         \* tool_name of each approval
    TargetOf,       \* the object its arguments name
    Operators,      \* users with the role operator or admin
    Approvers,      \* users with the role approver or admin
    DecisionReqs,   \* requests to /approvals/{id}/approve and /reject
    ClaimReqs,      \* requests to /approvals/{id}/claim
    RunReqs,        \* requests to /executions/run
    None            \* SQL NULL, and "nobody"

Tools == {"service_restart", "safe_log_cleanup", "config_safe_update", "terminate_process"}

\* Tools whose arguments name a candidate row that pins the state of the target.
CandidateTools == {"safe_log_cleanup", "terminate_process"}

ASSUME ToolAssumption == ToolOf \in [Approvals -> Tools]
ASSUME TargetAssumption == TargetOf \in [Approvals -> Targets]
ASSUME NoneAssumption ==
    None \notin Approvals \cup Operators \cup Approvers \cup ClaimReqs \cup RunReqs

VARIABLES
    \* The database.
    status,         \* approvals.status, "ABSENT" before the row is inserted
    requester,      \* approvals.requester_id
    token,          \* approvals.token_hash, as the claim that minted the token
    expired,        \* approvals whose expires_at has passed
    executions,     \* status of the executions row of an approval (approval_id is UNIQUE)
    candidates,     \* status of the candidate row of a target
    locker,         \* the run request that holds SQLite's write lock while it works
    \* The API process.
    decision, claim, run,
    \* The broker daemon.
    broker, inbox, socketFile,
    \* The host.
    current,        \* targets still as their candidate row describes them
    \* History, read by no action.
    grants,         \* committed approve decisions of each approval
    helperRuns,     \* times the broker consumed an approval and started the helper
    mutated         \* times the host was changed on behalf of an approval

rowVars == <<status, requester, token>>
apiVars == <<decision, claim, run>>
brokerVars == <<broker, inbox, socketFile>>
historyVars == <<grants, helperRuns, mutated>>
vars == <<rowVars, expired, executions, candidates, locker, apiVars, brokerVars, current,
          historyVars>>

(***************************************************************************)
(* Types                                                                   *)
(***************************************************************************)
Status == {"ABSENT", "PENDING", "APPROVED", "REJECTED", "EXPIRED", "CONSUMED"}

DecisionRecord ==
    [pc : {"new", "deciding", "done", "error", "lost"},
     approval : Approvals \cup {None},
     actor : Approvers \cup {None},
     verdict : {"APPROVED", "REJECTED", None}]

ClaimRecord ==
    [pc : {"new", "claiming", "expiring", "issued", "expired", "error", "lost"},
     approval : Approvals \cup {None}]

\* "ok", "rejected" and "error" are the answers 200, 422 and 500.
RunActive == {"selected", "locating", "ready", "awaiting", "authorised", "mutated", "failing"}
RunFinal == {"ok", "rejected", "error", "lost"}

RunRecord ==
    [pc : {"new"} \cup RunActive \cup RunFinal,
     token : ClaimReqs \cup {None},
     managed : BOOLEAN]

BrokerRecord ==
    [pc : {"down", "accepting", "authorising", "consuming", "helping", "acted", "denying"},
     request : RunReqs \cup {None}]

DatabaseOK ==
    /\ status \in [Approvals -> Status]
    /\ requester \in [Approvals -> Operators \cup {None}]
    /\ token \in [Approvals -> ClaimReqs \cup {None}]
    /\ expired \subseteq Approvals
    /\ executions \in [Approvals -> {"NONE", "SUCCEEDED", "FAILED"}]
    /\ candidates \in [Targets -> {"ABSENT", "ELIGIBLE", "CONSUMED"}]
    /\ locker \in RunReqs \cup {None}

RequestsOK ==
    /\ decision \in [DecisionReqs -> DecisionRecord]
    /\ claim \in [ClaimReqs -> ClaimRecord]
    /\ run \in [RunReqs -> RunRecord]

DaemonOK ==
    /\ broker \in BrokerRecord
    /\ inbox \in Seq(RunReqs)
    /\ socketFile \in BOOLEAN

HostOK ==
    /\ current \subseteq Targets
    /\ grants \in [Approvals -> Nat]
    /\ helperRuns \in [Approvals -> Nat]
    /\ mutated \in [Approvals -> Nat]

TypeOK == DatabaseOK /\ RequestsOK /\ DaemonOK /\ HostOK

Init ==
    /\ status = [a \in Approvals |-> "ABSENT"]
    /\ requester = [a \in Approvals |-> None]
    /\ token = [a \in Approvals |-> None]
    /\ expired = {}
    /\ executions = [a \in Approvals |-> "NONE"]
    /\ candidates = [c \in Targets |-> "ABSENT"]
    /\ locker = None
    /\ decision = [d \in DecisionReqs |->
                      [pc |-> "new", approval |-> None, actor |-> None, verdict |-> None]]
    /\ claim = [c \in ClaimReqs |-> [pc |-> "new", approval |-> None]]
    /\ run = [r \in RunReqs |-> [pc |-> "new", token |-> None, managed |-> FALSE]]
    /\ broker = [pc |-> "accepting", request |-> None]
    /\ inbox = <<>>
    /\ socketFile = TRUE
    /\ current = Targets
    /\ grants = [a \in Approvals |-> 0]
    /\ helperRuns = [a \in Approvals |-> 0]
    /\ mutated = [a \in Approvals |-> 0]

-----------------------------------------------------------------------------
(***************************************************************************)
(* Candidates and approval requests                                        *)
(***************************************************************************)
\* run_task stores what a scan of the host found, possibly long ago: a cleanup
\* candidate comes back ELIGIBLE even when its file is gone by now.  A process
\* candidate is only inserted.
StoreCandidate(a) ==
    /\ ToolOf[a] \in CandidateTools
    /\ ToolOf[a] = "terminate_process" => candidates[TargetOf[a]] = "ABSENT"
    /\ locker = None
    /\ candidates' = [candidates EXCEPT ![TargetOf[a]] = "ELIGIBLE"]
    /\ UNCHANGED <<rowVars, expired, executions, locker, apiVars, brokerVars, current,
                   historyVars>>

CreateApproval(a, u) ==
    /\ status[a] = "ABSENT"
    /\ ToolOf[a] \in CandidateTools => candidates[TargetOf[a]] = "ELIGIBLE"
    /\ locker = None
    /\ status' = [status EXCEPT ![a] = "PENDING"]
    /\ requester' = [requester EXCEPT ![a] = u]
    /\ UNCHANGED <<token, expired, executions, candidates, locker, apiVars, brokerVars, current,
                   historyVars>>

-----------------------------------------------------------------------------
(***************************************************************************)
(* Decisions: a read, the checks, and an UPDATE that does not look again   *)
(***************************************************************************)
Pending(a) == status[a] = "PENDING" /\ a \notin expired

\* Mutant: the requester is not looked at.
Separated_Anyone(a, u, v) == v \in {"APPROVED", "REJECTED"}

\* Nobody approves a request of their own; rejecting one is allowed.
Separated(a, u, v) == v = "APPROVED" => u # requester[a]

BeginDecision(d, a, u, v) ==
    /\ decision[d].pc = "new"
    /\ Pending(a)
    /\ Separated(a, u, v)
    /\ decision' = [decision EXCEPT ![d] =
                       [pc |-> "deciding", approval |-> a, actor |-> u, verdict |-> v]]
    /\ UNCHANGED <<rowVars, expired, executions, candidates, locker, claim, run, brokerVars,
                   current, historyVars>>

CommitDecision(d) ==
    LET a == decision[d].approval
        v == decision[d].verdict
    IN  /\ decision[d].pc = "deciding"
        /\ locker = None
        /\ status' = [status EXCEPT ![a] = v]
        /\ grants' = [grants EXCEPT ![a] = IF v = "APPROVED" THEN @ + 1 ELSE @]
        /\ decision' = [decision EXCEPT ![d].pc = "done"]
        /\ UNCHANGED <<requester, token, expired, executions, candidates, locker, claim, run,
                       brokerVars, current, helperRuns, mutated>>

DecisionBusy(d) ==
    /\ decision[d].pc = "deciding"
    /\ locker # None
    /\ decision' = [decision EXCEPT ![d].pc = "error"]
    /\ UNCHANGED <<rowVars, expired, executions, candidates, locker, claim, run, brokerVars,
                   current, historyVars>>

-----------------------------------------------------------------------------
(***************************************************************************)
(* Claiming the token: each claim mints a token and replaces the hash of   *)
(* the one before.                                                         *)
(***************************************************************************)
BeginClaim(c, a) ==
    /\ claim[c].pc = "new"
    /\ status[a] = "APPROVED"
    /\ claim' = [claim EXCEPT ![c] =
                    [pc |-> IF a \in expired THEN "expiring" ELSE "claiming", approval |-> a]]
    /\ UNCHANGED <<rowVars, expired, executions, candidates, locker, decision, run, brokerVars,
                   current, historyVars>>

CommitClaim(c) ==
    /\ claim[c].pc = "claiming"
    /\ locker = None
    /\ token' = [token EXCEPT ![claim[c].approval] = c]
    /\ claim' = [claim EXCEPT ![c].pc = "issued"]
    /\ UNCHANGED <<status, requester, expired, executions, candidates, locker, decision, run,
                   brokerVars, current, historyVars>>

CommitExpiry(c) ==
    /\ claim[c].pc = "expiring"
    /\ locker = None
    /\ status' = [status EXCEPT ![claim[c].approval] = "EXPIRED"]
    /\ claim' = [claim EXCEPT ![c].pc = "expired"]
    /\ UNCHANGED <<requester, token, expired, executions, candidates, locker, decision, run,
                   brokerVars, current, historyVars>>

ClaimBusy(c) ==
    /\ claim[c].pc \in {"claiming", "expiring"}
    /\ locker # None
    /\ claim' = [claim EXCEPT ![c].pc = "error"]
    /\ UNCHANGED <<rowVars, expired, executions, candidates, locker, decision, run, brokerVars,
                   current, historyVars>>

-----------------------------------------------------------------------------
(***************************************************************************)
(* execution_run                                                           *)
(***************************************************************************)
ApprovalOf(r) == claim[run[r].token].approval
ToolFor(r) == ToolOf[ApprovalOf(r)]
TargetFor(r) == TargetOf[ApprovalOf(r)]
InFlight(r) == run[r].pc \in RunActive

\* The SELECT by token hash.  expires_at is not looked at here.
Select(r, k) ==
    LET a == claim[k].approval
    IN  /\ run[r].pc = "new"
        /\ claim[k].pc = "issued"
        /\ token[a] = k
        /\ status[a] = "APPROVED"
        /\ run' = [run EXCEPT ![r] = [pc |-> "selected", token |-> k, managed |-> FALSE]]
        /\ UNCHANGED <<rowVars, expired, executions, candidates, locker, decision, claim,
                       brokerVars, current, historyVars>>

\* broker_managed: whether the broker, and not this handler, marks the approval.
BrokerManaged(tool) ==
    \/ tool = "service_restart"
    \/ tool = "safe_log_cleanup" /\ socketFile

Route(r) ==
    /\ run[r].pc = "selected"
    /\ run' = [run EXCEPT ![r].managed = BrokerManaged(ToolFor(r)),
                          ![r].pc = IF ToolFor(r) \in CandidateTools THEN "locating" ELSE "ready"]
    /\ UNCHANGED <<rowVars, expired, executions, candidates, locker, decision, claim, brokerVars,
                   current, historyVars>>

\* The SELECT of the candidate row.  On the local path it autoflushes the pending
\* "CONSUMED", and the session keeps the write lock until it commits or rolls back.
LocateCandidate(r) ==
    /\ run[r].pc = "locating"
    /\ IF run[r].managed
       THEN UNCHANGED locker
       ELSE locker = None /\ locker' = r
    /\ run' = [run EXCEPT ![r].pc =
                  IF candidates[TargetFor(r)] = "ELIGIBLE" THEN "ready" ELSE "failing"]
    /\ UNCHANGED <<rowVars, expired, executions, candidates, decision, claim, brokerVars, current,
                   historyVars>>

\* The busy timeout: an OperationalError, which rolls the session back (500).
RunBusy(r) ==
    /\ \/ run[r].pc = "locating" /\ ~run[r].managed
       \/ run[r].pc \in {"mutated", "failing"}
    /\ locker \notin {None, r}
    /\ run' = [run EXCEPT ![r].pc = "error"]
    /\ UNCHANGED <<rowVars, expired, executions, candidates, locker, decision, claim, brokerVars,
                   current, historyVars>>

\* The request goes to the broker.  Cleanup looks at the socket a second time, restart
\* for the first; a file without a listener refuses the connection.
CallBroker(r) ==
    /\ run[r].pc = "ready"
    /\ ToolFor(r) \in {"service_restart", "safe_log_cleanup"}
    /\ socketFile
    /\ ToolFor(r) = "safe_log_cleanup" => TargetFor(r) \in current
    /\ IF broker.pc = "down"
       THEN /\ run' = [run EXCEPT ![r].pc = "failing"]
            /\ UNCHANGED inbox
       ELSE /\ run' = [run EXCEPT ![r].pc = "awaiting"]
            /\ inbox' = Append(inbox, r)
    /\ UNCHANGED <<rowVars, expired, executions, candidates, locker, decision, claim, broker,
                   socketFile, current, historyVars>>

\* Mutant: the client's socket has no timeout.
BrokerCallFails_Patient(r) ==
    /\ run[r].pc = "awaiting"
    /\ broker.pc = "down"
    /\ run' = [run EXCEPT ![r].pc = "failing"]
    /\ UNCHANGED <<rowVars, expired, executions, candidates, locker, decision, claim, brokerVars,
                   current, historyVars>>

\* The 35 s timeout, or end of file because the daemon died.  The request stays in the
\* daemon's backlog.
BrokerCallFails(r) ==
    /\ run[r].pc = "awaiting"
    /\ run' = [run EXCEPT ![r].pc = "failing"]
    /\ UNCHANGED <<rowVars, expired, executions, candidates, locker, decision, claim, brokerVars,
                   current, historyVars>>

\* Mutant: a restart falls back to the local path when the socket is missing.
AuthoriseLocally_Restart(r) ==
    /\ run[r].pc = "ready"
    /\ ToolFor(r) \in {"service_restart", "safe_log_cleanup"} => ~socketFile
    /\ run' = [run EXCEPT ![r].pc = IF ApprovalOf(r) \in expired THEN "failing" ELSE "authorised"]
    /\ UNCHANGED <<rowVars, expired, executions, candidates, locker, decision, claim, brokerVars,
                   current, historyVars>>

\* ApprovalTokenManager.consume in the API process.  The manager is built for this request,
\* so the nonces it remembers are none; expiry is all that can have changed.
AuthoriseLocally(r) ==
    /\ run[r].pc = "ready"
    /\ ToolFor(r) # "service_restart"
    /\ ToolFor(r) = "safe_log_cleanup" => ~socketFile
    /\ run' = [run EXCEPT ![r].pc = IF ApprovalOf(r) \in expired THEN "failing" ELSE "authorised"]
    /\ UNCHANGED <<rowVars, expired, executions, candidates, locker, decision, claim, brokerVars,
                   current, historyVars>>

\* The work on the host: a candidate is revalidated first, and is no longer current after.
Act(a) ==
    /\ ToolOf[a] \in CandidateTools => TargetOf[a] \in current
    /\ current' = IF ToolOf[a] \in CandidateTools THEN current \ {TargetOf[a]} ELSE current
    /\ mutated' = [mutated EXCEPT ![a] = @ + 1]

ActLocally(r) ==
    /\ run[r].pc = "authorised"
    /\ Act(ApprovalOf(r))
    /\ run' = [run EXCEPT ![r].pc = "mutated"]
    /\ UNCHANGED <<rowVars, expired, executions, candidates, locker, decision, claim, brokerVars,
                   grants, helperRuns>>

\* Any ValueError: wrong arguments, an inactive service, a stale candidate, a backup or a
\* validation that failed, a postcondition that does not hold after the work.
Refuse(r) ==
    /\ run[r].pc \in {"ready", "authorised", "mutated"}
    /\ run' = [run EXCEPT ![r].pc = "failing"]
    /\ UNCHANGED <<rowVars, expired, executions, candidates, locker, decision, claim, brokerVars,
                   current, historyVars>>

\* Any other exception (OSError, TimeoutExpired): the session is rolled back (500).
Fault(r) ==
    /\ run[r].pc \in {"ready", "authorised", "mutated"}
    /\ run' = [run EXCEPT ![r].pc = "error"]
    /\ locker' = IF locker = r THEN None ELSE locker
    /\ UNCHANGED <<rowVars, expired, executions, candidates, decision, claim, brokerVars, current,
                   historyVars>>

\* Mutant: executions.approval_id is not UNIQUE.
Settle_Duplicate(r, outcome) ==
    LET a == ApprovalOf(r)
    IN  /\ locker \in {None, r}
        /\ executions' = [executions EXCEPT ![a] = outcome]
        /\ status' = IF run[r].managed THEN status ELSE [status EXCEPT ![a] = "CONSUMED"]
        /\ locker' = None

\* Mutant: the outcome is also written to approvals.status.
Settle_StatusToo(r, outcome) ==
    LET a == ApprovalOf(r)
    IN  /\ locker \in {None, r}
        /\ executions[a] = "NONE"
        /\ executions' = [executions EXCEPT ![a] = outcome]
        /\ status' = [status EXCEPT ![a] = outcome]
        /\ locker' = None

\* The commit: the execution row, and with it "CONSUMED" if this handler marks the approval.
Settle(r, outcome) ==
    LET a == ApprovalOf(r)
    IN  /\ locker \in {None, r}
        /\ executions[a] = "NONE"
        /\ executions' = [executions EXCEPT ![a] = outcome]
        /\ status' = IF run[r].managed THEN status ELSE [status EXCEPT ![a] = "CONSUMED"]
        /\ locker' = None

\* Mutant: the candidate is used up whatever the outcome.
RecordFailure_SpendsCandidate(r) ==
    /\ run[r].pc = "failing"
    /\ Settle(r, "FAILED")
    /\ candidates' = IF ToolFor(r) \in CandidateTools
                     THEN [candidates EXCEPT ![TargetFor(r)] = "CONSUMED"]
                     ELSE candidates
    /\ run' = [run EXCEPT ![r].pc = "rejected"]
    /\ UNCHANGED <<requester, token, expired, decision, claim, brokerVars, current, historyVars>>

RecordFailure(r) ==
    /\ run[r].pc = "failing"
    /\ Settle(r, "FAILED")
    /\ run' = [run EXCEPT ![r].pc = "rejected"]
    /\ UNCHANGED <<requester, token, expired, candidates, decision, claim, brokerVars, current,
                   historyVars>>

RecordSuccess(r) ==
    /\ run[r].pc = "mutated"
    /\ Settle(r, "SUCCEEDED")
    /\ candidates' = IF ToolFor(r) \in CandidateTools
                     THEN [candidates EXCEPT ![TargetFor(r)] = "CONSUMED"]
                     ELSE candidates
    /\ run' = [run EXCEPT ![r].pc = "ok"]
    /\ UNCHANGED <<requester, token, expired, decision, claim, brokerVars, current, historyVars>>

\* approval_id is UNIQUE: a second row is an IntegrityError, and everything is rolled back (500).
RecordConflict(r) ==
    /\ run[r].pc \in {"mutated", "failing"}
    /\ locker \in {None, r}
    /\ executions[ApprovalOf(r)] # "NONE"
    /\ run' = [run EXCEPT ![r].pc = "error"]
    /\ locker' = None
    /\ UNCHANGED <<rowVars, expired, executions, candidates, decision, claim, brokerVars, current,
                   historyVars>>

-----------------------------------------------------------------------------
(***************************************************************************)
(* The broker daemon: one connection at a time                             *)
(***************************************************************************)
Served == broker.request
ServedApproval == ApprovalOf(Served)

BrokerAccept ==
    /\ broker.pc = "accepting"
    /\ inbox # <<>>
    /\ broker' = [pc |-> "authorising", request |-> Head(inbox)]
    /\ inbox' = Tail(inbox)
    /\ UNCHANGED <<rowVars, expired, executions, candidates, locker, apiVars, socketFile, current,
                   historyVars>>

\* Mutant: the WHERE clause names the token but not status = 'APPROVED'.
Consumable_HashOnly(a, k) == status[a] # "ABSENT" /\ token[a] = k

\* What the UPDATE's WHERE clause asks of the row.
Consumable(a, k) == status[a] = "APPROVED" /\ token[a] = k

\* The SELECTs: the candidate row for a cleanup, then the approval, expiry included.
BrokerSelect ==
    /\ broker.pc = "authorising"
    /\ broker' = [broker EXCEPT !.pc =
           IF /\ ToolOf[ServedApproval] = "safe_log_cleanup" =>
                     candidates[TargetOf[ServedApproval]] = "ELIGIBLE"
              /\ Consumable(ServedApproval, run[Served].token)
              /\ ServedApproval \notin expired
           THEN "consuming"
           ELSE "denying"]
    /\ UNCHANGED <<rowVars, expired, executions, candidates, locker, apiVars, inbox, socketFile,
                   current, historyVars>>

\* BEGIN IMMEDIATE and the conditional UPDATE; the helper is started after the commit.
BrokerConsume ==
    /\ broker.pc = "consuming"
    /\ locker = None
    /\ Consumable(ServedApproval, run[Served].token)
    /\ status' = [status EXCEPT ![ServedApproval] = "CONSUMED"]
    /\ helperRuns' = [helperRuns EXCEPT ![ServedApproval] = @ + 1]
    /\ broker' = [broker EXCEPT !.pc = "helping"]
    /\ UNCHANGED <<requester, token, expired, executions, candidates, locker, apiVars, inbox,
                   socketFile, current, grants, mutated>>

\* rowcount is 0, or the lock was not free within 5 s, or the helper's exit status is not 0:
\* before it did anything, or after (its own postcondition, or the 35 s limit of the daemon).
BrokerDeny ==
    /\ \/ /\ broker.pc = "consuming"
          /\ locker # None \/ ~Consumable(ServedApproval, run[Served].token)
       \/ broker.pc \in {"helping", "acted"}
    /\ broker' = [broker EXCEPT !.pc = "denying"]
    /\ UNCHANGED <<rowVars, expired, executions, candidates, locker, apiVars, inbox, socketFile,
                   current, historyVars>>

HelperActs ==
    /\ broker.pc = "helping"
    /\ Act(ServedApproval)
    /\ broker' = [broker EXCEPT !.pc = "acted"]
    /\ UNCHANGED <<rowVars, expired, executions, candidates, locker, apiVars, inbox, socketFile,
                   grants, helperRuns>>

\* Mutant: the client does not look at the return code of the answer.
BrokerReply_AnyStatus ==
    /\ broker.pc \in {"acted", "denying"}
    /\ run[Served].pc = "awaiting"
    /\ run' = [run EXCEPT ![Served].pc = "mutated"]
    /\ broker' = [pc |-> "accepting", request |-> None]
    /\ UNCHANGED <<rowVars, expired, executions, candidates, locker, decision, claim, inbox,
                   socketFile, current, historyVars>>

BrokerReply ==
    /\ broker.pc \in {"acted", "denying"}
    /\ run[Served].pc = "awaiting"
    /\ run' = [run EXCEPT ![Served].pc = IF broker.pc = "acted" THEN "mutated" ELSE "failing"]
    /\ broker' = [pc |-> "accepting", request |-> None]
    /\ UNCHANGED <<rowVars, expired, executions, candidates, locker, decision, claim, inbox,
                   socketFile, current, historyVars>>

\* The daemon ends: "gone" removes the socket file (the finally clause of serve), a kill may not.
BrokerEnds(gone) ==
    /\ broker' = [pc |-> "down", request |-> None]
    /\ inbox' = <<>>
    /\ socketFile' = ~gone
    /\ UNCHANGED <<rowVars, expired, executions, candidates, locker, apiVars, current, historyVars>>

\* Mutant: an answer that cannot be delivered is tried again and again.
BrokerReplyFails_Retries ==
    /\ broker.pc \in {"acted", "denying"}
    /\ run[Served].pc # "awaiting"
    /\ UNCHANGED vars

\* The client has hung up: sendall raises BrokenPipeError, which serve does not catch.
BrokerReplyFails ==
    /\ broker.pc \in {"acted", "denying"}
    /\ run[Served].pc # "awaiting"
    /\ BrokerEnds(TRUE)

\* A crash, a kill, or a TimeoutExpired of the helper, which _handle_connection does not catch.
BrokerDies ==
    /\ broker.pc # "down"
    /\ \E gone \in BOOLEAN : BrokerEnds(gone)

\* systemd starts the daemon again; it unlinks a stale socket file and binds a new one.
BrokerStarts ==
    /\ broker.pc = "down"
    /\ broker' = [pc |-> "accepting", request |-> None]
    /\ socketFile' = TRUE
    /\ UNCHANGED <<rowVars, expired, executions, candidates, locker, apiVars, inbox, current,
                   historyVars>>

-----------------------------------------------------------------------------
(***************************************************************************)
(* The environment                                                         *)
(***************************************************************************)
Expire(a) ==
    /\ status[a] # "ABSENT"
    /\ expired' = expired \cup {a}
    /\ UNCHANGED <<rowVars, executions, candidates, locker, apiVars, brokerVars, current,
                   historyVars>>

\* The file is rotated or written, the process exits: the target no longer fits its candidate.
HostDrifts(a) ==
    /\ ToolOf[a] \in CandidateTools
    /\ TargetOf[a] \in current
    /\ current' = current \ {TargetOf[a]}
    /\ UNCHANGED <<rowVars, expired, executions, candidates, locker, apiVars, brokerVars,
                   historyVars>>

Lost(record, active) == IF record.pc \in active THEN [record EXCEPT !.pc = "lost"] ELSE record

\* The API process dies: every request in flight is lost, and SQLite rolls its writer back.
Crash ==
    /\ \/ \E d \in DecisionReqs : decision[d].pc = "deciding"
       \/ \E c \in ClaimReqs : claim[c].pc \in {"claiming", "expiring"}
       \/ \E r \in RunReqs : InFlight(r)
    /\ decision' = [d \in DecisionReqs |-> Lost(decision[d], {"deciding"})]
    /\ claim' = [c \in ClaimReqs |-> Lost(claim[c], {"claiming", "expiring"})]
    /\ run' = [r \in RunReqs |-> Lost(run[r], RunActive)]
    /\ locker' = None
    /\ UNCHANGED <<rowVars, expired, executions, candidates, brokerVars, current, historyVars>>

-----------------------------------------------------------------------------
(***************************************************************************)
(* The specification                                                       *)
(***************************************************************************)
RequestStep ==
    \/ \E a \in Approvals : StoreCandidate(a) \/ \E u \in Operators : CreateApproval(a, u)
    \/ \E d \in DecisionReqs :
          \/ \E a \in Approvals, u \in Approvers, v \in {"APPROVED", "REJECTED"} :
                BeginDecision(d, a, u, v)
          \/ CommitDecision(d)
          \/ DecisionBusy(d)
    \/ \E c \in ClaimReqs :
          \/ \E a \in Approvals : BeginClaim(c, a)
          \/ CommitClaim(c)
          \/ CommitExpiry(c)
          \/ ClaimBusy(c)

\* What the thread of a run request does once the approval is selected.
RunStep(r) ==
    \/ Route(r)
    \/ LocateCandidate(r)
    \/ CallBroker(r)
    \/ BrokerCallFails(r)
    \/ AuthoriseLocally(r)
    \/ ActLocally(r)
    \/ Refuse(r)
    \/ Fault(r)
    \/ RecordFailure(r)
    \/ RecordSuccess(r)
    \/ RecordConflict(r)
    \/ RunBusy(r)

BrokerStep ==
    \/ BrokerAccept
    \/ BrokerSelect
    \/ BrokerConsume
    \/ BrokerDeny
    \/ HelperActs
    \/ BrokerReply
    \/ BrokerReplyFails

Environment ==
    \/ \E a \in Approvals : Expire(a) \/ HostDrifts(a)
    \/ BrokerDies
    \/ Crash

Next ==
    \/ RequestStep
    \/ \E r \in RunReqs : RunStep(r) \/ \E k \in ClaimReqs : Select(r, k)
    \/ BrokerStep
    \/ BrokerStarts
    \/ Environment

Spec == Init /\ [][Next]_vars

(***************************************************************************)
(* Threads are scheduled and every wait of a handler is bounded by a       *)
(* timeout (busy_timeout, the client's 35 s), so a run request in flight   *)
(* keeps stepping.  The daemon does too: its database wait and its helper  *)
(* are bounded (5 s, 35 s).  The unit has Restart=on-failure.  Nothing is  *)
(* assumed of users, of the environment, or that a request is ever made.   *)
(***************************************************************************)
Fairness ==
    /\ \A r \in RunReqs : WF_vars(RunStep(r))
    /\ WF_vars(BrokerStep)
    /\ WF_vars(BrokerStarts)

FairSpec == Spec /\ Fairness

=============================================================================
