# Formal models of KylinGuard Agent

TLA+ modules, TLC configurations and machine-checked proofs kept beside the KylinGuard source
tree (`src/`). Paths below are relative to `src/`.

## 1. Inventory

KylinGuard is an operations agent for a Linux host. A FastAPI process (`backend/app`) plans
read-only investigations with an LLM and MCP tools, and, in `CONTROLLED_EXECUTION` mode, changes
the host on behalf of an operator after a second person has approved. Root is only ever reached
through a separate daemon, the execution broker, and a fixed helper started with sudo.

| Component | State | Operations | What is hard | Models |
|---|---|---|---|---|
| Approvals and execution, `api/router.py` | `approvals`, `executions`, candidate rows | create, approve, reject, claim, run, roll back | every request is a thread with its own session; read, work on the host and commit are far apart; SQLite has one writer | `ApprovalExecution`; rollbacks in the module of each executor |
| Execution broker, `executor/broker.py`, `kylin-guard-exec.service` | backlog, the request being served, the socket file | accept, authorise and consume, start the helper, answer, die, restart | serial service, client timeouts, abandoned requests, uncaught exceptions end the daemon | `ApprovalExecution`, `ServiceProcess`, `CleanupFiles`, abstractly `GrantLedger` |
| Approval tokens, `guardrails/approval.py` | nonces seen by one manager | issue, consume | outside DEMO mode the manager is built per request, so its memory is empty | `ApprovalExecution`, `DemoSandbox` |
| Cleanup executor and helper, `executor/production.py`, `deploy/kylin_guard_privileged.py` | files, gzip archives | archive, verify, unlink, restore, roll back | check-then-act on files, two code paths, an owner who writes | `CleanupFiles`, `CleanupRules` |
| Configuration executor, `executor/config_update.py` | config file, backups | backup, validate, replace, restore, roll back | concurrent replace and restore of one file, no lock | `ConfigChanges` |
| Service and process executors, `executor/systemd.py`, `process.py` | unit state, process table | restart, terminate, wait, restore, roll back | late requests, reuse of pids | `ServiceProcess` |
| Demo executor, `executor/controlled.py`, `demo_service.py` | process-wide sandbox | reset, execute, roll back | handlers share a sandbox without a lock; a reset during an execution | `DemoSandbox` |
| Task lifecycle, `api/router.py`, `agent/state_machine.py` | `agent_tasks`, `task_steps` | create, transition, cancel, run, trace | version read before commit, long runs | `TaskLifecycle` |
| Audit chain, `audit/service.py` | `audit_events`, `audit_chain_head` | append, verify, export | concurrent writers, order by timestamp | `AuditChain` |
| Orchestration and planning, `agent/orchestrator.py`, `planning.py`, `runners.py`; LLM provider, `llm/provider.py` | plan, evidence | plan, retry, validate, act, observe, answer | failures of each stage, a model that answers anything | `AgentRun`, `Planning` |
| Normalisation and root cause analysis, `agent/normalization.py`, `rca.py` | none | pure functions | thresholds and weights of their own | `AgentRun` |
| Cleanup classification, `agent/cleanup.py`, path policy | none | classify, revalidate | the same question is answered by two programs | `CleanupRules` |
| Inspections and incidents, `core/inspection_service.py`, `snapshot_scheduler.py` | snapshots, incidents, the periodic task | inspect, capture, update | duplicate suppression, exceptions in the loop | `Inspections` |
| Settings, configuration drift, `core/config_drift.py`; knowledge base, `knowledge/service.py` | settings, baselines, a database of documents | update, create, check, add, review | lost updates, two databases without a common commit | `Records` |
| Authentication, migrations, frontend, installer, scripts | sessions | - | - | not modelled, section 11 |

How they interact: `execution_run` (ApprovalExecution) authorises one call of an executor; each executor
module starts where that authorisation ends and adds the rollback, which has no execution row of its own.
The cleanup candidates that `AgentRun` offers by `CleanupRules` are what an approval for a cleanup names. Every
handler writes its audit event in the transaction of its commit (`AuditChain`). The composition across
modules is by these interfaces: the executor modules let any number of authorised executions overlap, which
is more than the approval protocol allows and therefore covers it.

Definitions whose comment begins with "Mutant:" are deliberately wrong variants of the definition they
precede; no specification uses them. They show that a property notices the mistake they make.

## 2. The approval and execution protocol

`ApprovalExecution.tla` models one approval's life and the execution it authorises.

| Code | Model |
|---|---|
| row of `approvals`: `status`, `requester_id`, `token_hash`, `expires_at` | `status`, `requester`, `token`, `expired` |
| row of `executions` (`approval_id` UNIQUE) | `executions` |
| row of `cleanup_candidates` / `process_candidates` | `candidates` |
| SQLite's write lock held across work on the host | `locker` |
| the local variables of a handler's thread | `decision`, `claim`, `run` |
| the daemon and the request it serves, its listen backlog, its socket file | `broker`, `inbox`, `socketFile` |
| whether a file or a process still is what its candidate row describes | `current` |
| history, read by no action | `grants`, `helperRuns`, `mutated` |

A handler is cut where another actor can intervene. `execution_run` becomes `Select` (the SELECT
by token hash and its checks), `Route` (first look at the socket: who marks the approval),
`LocateCandidate` (candidate row; on the local path this SELECT autoflushes `CONSUMED` and takes
the write lock), then either `CallBroker` (second look at the socket) or `AuthoriseLocally` and
`ActLocally`, and finally `RecordSuccess`, `RecordFailure`, `RecordConflict` (the UNIQUE constraint)
or `RunBusy` (busy timeout). `Refuse` is any `ValueError`, which is recorded and answered 422;
`Fault` any other exception, which rolls the session back and is answered 500. `approve`, `reject`
and `claim` are a read and an unconditional UPDATE. The daemon is `BrokerAccept`, `BrokerSelect`,
`BrokerConsume` (the conditional UPDATE), `HelperActs`, `BrokerReply` or `BrokerDeny`; it ends in
`BrokerReplyFails` (the client hung up) and `BrokerDies`, and systemd brings it back in
`BrokerStarts`. `Crash` kills the API process, `Expire` lets an approval expire, `HostDrifts`
changes the host behind everybody's back.

Abstractions. A token is identified with the claim that minted it, so HMAC and hashing are not
modelled; task and requester checks of the run are part of using one's own token. Audit rows,
backups and verification rows are written in the transactions shown here and are left out. A
change of the host is one step, which may be followed by `Refuse` (a postcondition that fails).
Reads never wait: the database is in WAL mode and a read outside a transaction keeps no snapshot.

`ApprovalProperties.tla` states the properties, `GrantLedger.tla` the abstract specification (an
account of grants: earn one, spend one that was earned), `MCApprovalExecution.tla` the instances,
`ApprovalExecution_proofs.tla` the proofs.

### Properties

| Property | Meaning |
|---|---|
| `TypeOK` | type invariant |
| `GrantsCoverHelperRuns` | each helper start by the daemon is paid for by an approve decision of its own |
| `RestartsGranted` | a service is restarted at most as often as its approval was granted |
| `DualControl` | the host changes only for an approval somebody other than its requester approved |
| `AnsweredOnce` | at most one request per approval is answered with a recorded outcome |
| `SuccessIsReal` | 200 means: recorded SUCCEEDED, and the host was changed |
| `CandidateSpentBySuccess` | a candidate is used up only by a recorded success |
| `SuccessSpendsApproval` | after a recorded success the approval authorises nothing more; a log cleanup is left out |
| `EveryRunEnds` | a request past the token check is answered or dies with the process |
| `BacklogDrains` | the daemon's backlog does not stay non-empty for ever |
| `LedgerSpec` | the protocol implements `GrantLedger` |

What documents promise and the code does not do:

- `AtMostOneMutation` ("atomic consumption, no replay", docs/08 line 35) fails on the local path, because check
  and mark are a transaction apart with the host in between (run `replay_config`).
- "Status updates compare a version" (docs/architecture ER model line 54): approve and reject UPDATE by id alone, so
  a late approve overwrites a reject, or turns CONSUMED back into APPROVED and the broker starts the helper
  again; `GrantsCoverHelperRuns` counts that as a second grant.
- A log cleanup may succeed and leave its approval APPROVED: the socket file is looked at twice, and when it
  disappears in between nobody marks the approval. `SuccessSpendsApproval` therefore leaves cleanups out.

Only the first of the three is a run of the project. TLC finds the other two as counterexamples in the instance
of `mixed` when it is asked for `[][\A a \in Approvals : status[a] = "REJECTED" => status'[a] = "REJECTED"]_vars`
and for `SuccessSpendsApproval` without its exception.

A further observation: a restart that fails before the daemon is reached is recorded as FAILED while the
approval stays APPROVED. A retry with the same token then acts on the host and cannot be recorded
(`approval_id` is UNIQUE): it ends in `RecordConflict`. `SuccessIsReal` and `AnsweredOnce` hold all the same,
since such a retry is answered 500.

### Runs, bounds and fairness

A request is used once, so the sets of requests are the bounds. Two decisions, two claims and two
runs are what the races need: every conflict found or excluded here is between two requests of one
kind, or between one and the daemon.

| Run | Instance | Shows |
|---|---|---|
| `mixed` | 2 decisions, 2 claims, 2 runs, symmetric; 4 approvals, of which one cleanup, one restart or the two terminations of one process are requested (`OneTarget`); 1.6 million states | the broker's accounts under racing decisions, rotated tokens, abandoned requests, deaths and crashes; both paths of a cleanup; two approvals for one candidate |
| `live` | a cleanup and a restart, of which the one decision approves one, 1 claim, 2 runs under `FairSpec`, no symmetry; a requester who is an approver too, and a second approver | liveness, with the write lock held on the local path; dual control; the refinement |
| `replay_config` | one configuration update: 1, 1, 2 | counterexample to `AtMostOneMutation` |

Approvals meet only in the candidate they name and in the daemon's queue, which is why `mixed` lets two be
requested only where they name one candidate; the proofs below cover any number of them.

`Fairness`: a thread that runs a request keeps stepping, since each wait in the handler is bounded
(`busy_timeout`, the client's 35 s); the daemon keeps stepping, since its database wait is 5 s and
its helper limit 35 s; and systemd restarts it (`Restart=on-failure`, `RestartSec=3`). Weak fairness
is per request on the whole handler and once on the whole daemon, so nothing is assumed about which
way a step goes. Nothing is assumed about users, expiry, crashes or deaths.

### Proofs

`ApprovalExecution_proofs.tla`, for any approvals, users and requests and any assignment of tools and
targets, from `ToolAssumption`, `TargetAssumption` and `NoneAssumption`:

- `TypeCorrect`: `Spec => []TypeOK`. `TypeOK` is not inductive: `CommitDecision` writes the row its
  local variable names. The strengthening `References` says that a handler that has started refers
  to a row, a run to an issued claim, and the daemon and its backlog to started runs.
- `GrantsCovered` and `LedgerImplemented`: every step is one of three kinds (`Earns`, `Spends`,
  `GrantsNothing`, lemma `StepsGrant`), from which both the invariant and the refinement follow. The
  invariant is inductive because it counts a row that is APPROVED as a grant still to be spent.
- `RestartsAreGranted`: a run that reaches the local authorisation is no restart (`LocalIsNoRestart`)
  and the helper acts at most once per start (`HelperBounded`); with `GrantsCovered`, restarts are
  bounded by grants.
- `DualControlHolds`: the approval of a second person is carried from the decision to the row, the
  claim, the run and the change (`DecisionsSeparate`, `RowsApproved`, `ClaimsApproved`); it stays
  valid since a decision and a row's requester never change once set.

Its second half is about what a request is told:

- `AnsweredOnceHolds`: an answered run owns the execution row of its approval (`AnswersRecorded`), and
  no step writes a second row for one approval (`StepsAnswer`).
- `CandidatesSpentBySuccess`: only `RecordSuccess` spends a candidate, in the transaction that writes the
  SUCCEEDED row.
- `SuccessesAreReal`: what a run, the daemon or its reply says was changed is in `mutated`, which only
  grows (`RunsChanged`, `HelperChanged`, `RunDone`, `HelperDone`, `ChangedStays`).

- `SuccessesSpendApprovals`: a row is APPROVED again only by another decision (`ApprovedAgain`). The handler that records a
  success marks the approval in the same commit, except for a restart, whose helper run was paid for by a grant (`SuccessChanged`).

Model-checked only: liveness, which the prover cannot do.

## 3. The audit chain

`AuditChain.tla` models `write_audit` in concurrent transactions and `verify_chain`.

| Code | Model |
|---|---|
| row of `audit_chain_head`, rows of `audit_events`, as committed | `head`, `rows` |
| SQLite's write lock | `locker` |
| `datetime.now` | `clock`; `setBack`, a history, says whether it was ever set back |
| a session: its copy of the head, the events it has inserted | `tx[w].head`, `tx[w].events` |

`GetHead`, `InsertHead` (no head yet), `BumpVersion` (the UPDATE, which waits for the lock, and the
refresh) and `WriteEvent` are the statements of `write_audit`; `Flush` is a handler that wrote rows of
its own first and so holds the lock already; `WriteAnother` a second event in the transaction. Handlers
write one event per transaction; a test writes two, and the model allows any number. `Rollback` covers the
UNIQUE head, a busy database, an exception and the death of the process. An event's digest is its id,
since the uuid is part of what is hashed; redaction and JSON are left out, and so is tampering:
`VerifyChain` is only asked of what `write_audit` wrote.

| Property | Meaning |
|---|---|
| `ChainLinear` | each event is chained to the one committed, or written in the transaction, just before; `SerialSpec` promises it too, so the run checks that and this one is only proved |
| `HeadMatches` | the head is the end of the chain, its version the number of events |
| `VerifiesUnlessSetBack` | `verify_chain` accepts the chain unless the clock was set back |
| `SerialSpec` | the trail implements `SerialLog`: transactions one after another, each appending all its events in one step |

| Run | Instance | Shows |
|---|---|---|
| `chain_writers` | 3 writers, 4 events, 2 per transaction | the last three, with rollbacks, a missing head and a clock that is set back at any time. Three writers are one more than a fork needs |

The documents promise that an untouched chain verifies (docs/01 line 42, the threat model line 34). It does
not after the clock was set back: `verify_chain` orders by the stamp, and reports TAMPERED. No run shows this:
`chain_writers` with `VerifyChain` for `VerifiesUnlessSetBack` gives the counterexample.

A transaction is used once, so a behaviour may stop when all are done; the same goes for the requests of
the other modules. Their configurations therefore do not check for deadlock.

`Records_proofs.tla`, in its first part, proves all four and `TypeOK` for any writers, ids and batches. The inductive invariant `ChainInv` divides the transactions:
the one with the lock (`Holding`) has events that continue the committed chain and a copy of the head that
is their end; the others (`Waiting`) have written nothing and know only that the head exists, which is why
what they read before the UPDATE does no harm. `StampInv` adds that, until the clock is set back, stamps rise
along the chain, since they are taken under the lock; then the order of `verify_chain` is the order of the chain (`RisingVerifies`).

`SerialImplemented` is the refinement: the abstract log is the committed rows, and a transaction is `done` once it has committed
rows. Every step but `Commit` stutters, `Commit` is one `AppendBatch` (`StepIsSerial`). A new id is one no row has, committed or
written in the transaction; that another transaction does not take it meanwhile is `FreshInv`: the rows, with what the holder of
the lock is about to add, have different ids.

## 4. The life of a task

`TaskLifecycle.tla` models one task from its creation: `task` is its row, `steps` its `task_steps`,
`events` its audit events, `req` the requests. Each handler is a read with its check and, later, one commit
that writes row, step and event by id. `CountSteps` is separate: `len(task.steps)` is loaded after the state
was read and checked. A run reads, lets the agent work, and commits one of the agent's three outcomes; what
the agent does is not modelled here. `Written` leaves the column alone when the new state equals the copy, as
SQLAlchemy does. The whole table `TRANSITIONS` is modelled.

| Property | Meaning |
|---|---|
| `StepsNumbered` | steps are numbered 1..n however transitions race |
| `StepsAudited` | the n-th audited transition is step n |
| `StateAudited` | the task's state is one an audit event tells of |
| `ChangesFromVisited` | each audited change is legal and starts in a state the task had had |

That is what remains in spite of the races. What the documents say and the code does not do: a cancelled task
stays cancelled (Agent状态机.md lines 26 and 55). `run_task` never looks at the state and revives it, and so does a
transition that was decided before the cancel, since the version is never compared. No run shows this: the
instance of `task_requests` has a counterexample to `[][task.state = "CANCELLED" => task'.state = "CANCELLED"]_vars`.

The run `task_requests` (1 cancel, 2 transitions, 2 runs) has every pair of kinds, and two of a kind, race; two runs
are needed for an outcome that equals the copy.

`TaskLifecycle_proofs.tla` proves all four for any number of requests. The invariant `Pending` says that a copy of the state is one the task had (`Visited`) and that a
count of steps is at most one behind the steps there are: a step whose number is still free is then the next
one. For `StepsAudited` the n-th transition is the event that has n of them up to it, a cardinality
(`Changes`), which each commit raises by one together with the number of steps.

## 5. Files: cleaning and rolling back

`CleanupFiles.tla` is the local executor and the root helper, file operation by file operation, on one log file
whose owner goes on writing, rotating and recreating it. A file is the set of writes it holds; its identity
(inode, mtime) is what `snapshot_hash` fixes. A job runs in one of three modes: `locked` (local, holding SQLite's
write lock), `unlocked` (local after the socket disappeared between the two looks), `helper`.

| Property | Meaning |
|---|---|
| `OnlyLateWritesLost` | only what the owner wrote between a job's last look and its unlink or replace can be lost |
| `RowsTellTruth` | SUCCEEDED: the archive holds what was removed; ROLLED_BACK: some rollback wrote the archive back |
| `RemovedAsApproved` | the file removed is the one that was scanned, unless it changed after the last check |
| `TypeOK` | types; the lock and the helper belong to jobs of their mode |

Run `files`: 2 cleanings, 1 rollback, 2 writes by the owner (549 000 states). Two cleanings are needed for one to
restore what the other removed, the rollback for the write in place of the helper; a second write tells a late write from
an older one.

`CleanupFiles_proofs.tla` proves all four for any jobs, any number of writes and any mode. The heart of the invariant `FilesInv` is
`PathIsSpare`: once some job has copied the file, or has found its path empty, whatever is at the path is archived or was written
late, so that the unlink or replace that follows loses nothing. `RemovedIsSpare` and `RollbacksRestore` carry that to the rows,
and `CheckedStands` says that a path that has not changed since a check still holds the candidate.

`ConfigChanges.tla` is `config_safe_update` and its rollback on one file. Nothing locks an update, so updates,
rollbacks and an administrator's edit overlap statement by statement. A content is named by who wrote it, the set of contents the
validator accepts is arbitrary, and validation may fail (time-out) even for those.

| Property | Meaning |
|---|---|
| `OnlyVettedContent` | what an update wrote stands in the file or in a backup only if the validator accepted it before |
| `UndisturbedIsAtomic` | an update beside which nobody else wrote is all or nothing, also when it fails late or is rolled back |
| `TypeOK` | types; the lock belongs to a rollback under way |

Run `config`: 2 updates, 2 rollbacks, 1 edit (76 000 states): a rollback of each, or two of one. `ConfigChanges_proofs.tla` proves
all three, for any updates, rollbacks and edits. For `OnlyVettedContent`, the invariant `SourcesVetted` says that everything a handler or a rollback may put into the file is vetted, and
that an update reaches its replace only with its own content vetted (lemmas `NothingWritten`, `VettedWritten`). For
`UndisturbedIsAtomic`, `UndisturbedStand` says for each place of an update what the file and its backup hold as long as nobody else has
written.
Without "undisturbed" `UndisturbedIsAtomic` fails: the handler of a failed update restores its backup even when it had
replaced nothing, over what another update put there meanwhile; so do two rollbacks out of order, and a second rollback of one change
that read the row before the first committed.

## 6. Service and processes

`ServiceProcess.tla`: restarts through the broker's backlog, one termination, rollbacks. A process is a pid with a start
time; the host may end any process and reuse its pid at any moment. A request the client gave up on stays in the backlog and
is served later. `SignalsHitCandidateOrNewcomer`: SIGTERM reaches the approved process, or one that took its pid after the
comparison, nobody else. `RecordedIsTrue`: a terminated process is gone, a restarted service has none of its former processes,
and ROLLED_BACK means a restart was done for that rollback. Run `service`: 2 restarts, 1 termination, 1 rollback, 2 pids, 2 starts by the
host (1.3 million states): two pids are enough for a reused one and one that stays. The process executor's restorer is
built on a runner that refuses everything but `is-active`, so a process is never restored; the model says so.

`Executors_proofs.tla` proves both for any jobs, pids and number of starts. Every step, whoever takes it, leaves a pid its process, takes it
away, or gives the pid one that starts now (`HostStep`). What the invariant says of a job is stable under such steps: a start time gone
from its pid is gone for good (`Gone`, `Identified`), and no process older than the restart comes back (`Renewed`).

## 7. The demo sandbox

`DemoSandbox.tla`: DEMO mode, where handlers of any tool share one in-process executor without a lock, and a reset replaces it. It
also models the token manager's look-up-then-add. `TokenActsOncePerSandbox`: a token changes a sandbox once, unless two
runs looked the nonce up before either added it. `ChangesStack`: while handlers do not overlap and the latest change is undone
first, the file is what the latest change in effect made of it. Run `demo`: 3 runs, 2 tokens, 1 reset (1.4 million states): two
changes and a rollback. The exceptions in both properties are real: overlapping updates share one `.tmp` file
(controlled.py:124-136), and two rollbacks of one change can lose the original (91-95).

`Executors_proofs.tla` proves `TokenActsOncePerSandbox` for any runs and tokens (`DemoInv`): whoever is past the nonce has it among the consumed
ones, so that a run that looked it up before and adds it after has raced.

It proves `ChangesStack` from `DemoInv` and `StackInv`. In a sandbox that is not astray a backup holds what the changes below its
own in the stack made of the file (`Stacked`), and one handler at a time is at work (`Handled`): only its candidate is in the
temporary file, only it has cleared the file. So what a new change backs up is what the stack says the file is, and what a
rollback of the latest change moves back is what the rest of the stack says. TLC agreed on `StackInv` in the instance of `demo`
before it was proved.

## 8. Inspections and incidents

`Inspections.tla`: captures by the scheduler's threads and on request, incidents derived and updated, start and stop of the
periodic task, tools that fail and captures that raise. `OneOpenIncident`: a symptom has one open incident however many inspections
see it at once. `SymptomIsReported`: a symptom that lasts while the periodic task goes on gets an open incident and keeps one, whatever operators
close. Fairness: a capture that began goes on (its tools and its wait for the lock have time-outs), and the loop wakes up after
its interval, since the task runs as long as the application does (`main.py`, `lifespan`). Nothing is assumed about operators, faults or the machine.
Run `inspect`: 1 disk, 1 check, 2 threads (a stopped loop leaves its thread behind), 1 request, 1 update, 1 fault,
2 starts (411 000 states).

`Inspections_proofs.tla` proves `OneOpenIncident` for any number of captures: what a capture is about to open nobody has
open (`CreatedIsNew`), because it looks while it holds the write lock (`LockHeld`), which the flush of its snapshot took. `InspectionTypeCorrect` adds
`TypeOK`; an incident is numbered by a count, so that it rests on there being finitely many (`Finite`).

## 9. Settings, baselines, knowledge

`Records.tla`: `update_settings` reads and writes key by key, baselines are unique by constraint only, and the knowledge base commits in a
database of its own before its audit event. Whether reading the second setting flushes the first is left open: both are checked.
`UndisturbedUpdateIsWhole`: an update beside which no other committed leaves its own values, one version on. `DriftAnswersStand`: what a
drift check answered it would answer again. `KnowledgeAuditIsTrue`: an audit event tells of a change that was made, a change without event
belongs to a request at work or broken off, and what the agent may quote somebody approved. Run `admin`: 2 settings updates, 2 creators of a baseline of one path, 1 drift
check, 1 add, 1 review (2.7 million states).

`Records_proofs.tla`, in its second part, proves all three for any requests: `DriftInv` (paths are unique, every answer has its baseline still), and
`SettingsInv` (an undisturbed update read what is still there, `ReadsCurrent`; a key has one row), and `KnowledgeInv`. Overlapping updates may leave a mixture of both, and a version may count an update
whose value was lost: the ER model (line 54) speaks of a version comparison, there is none.

## 10. A run of the agent

`Planning.tla` (routing, required tools, the rules' plan, normalisation, validation, policy), `CleanupRules.tla` (what the service offers for cleanup and what
the root helper accepts) and `AgentRun.tla` (the run: model with retries, fallback, tools, analysis, diagnosis, root causes).

A step's arguments fit the tool, are refused by it (a FAILED result), or are such that Python may raise TypeError: missing where
the tool has no default, unknown, or of another type. Normalisation replaces those of three tools (`FilledIn`). Percentages are whole
numbers and anomalies multiples of 1/63000 (`Whole`), which makes every score exact; a confidence is rounded to thousandths and
the best three are kept, equal ones in the order in which the evidence named them, as in `rca.py`. Where the exact value is half
a thousandth the code's floats decide and the model rounds up.

| Property | Meaning |
|---|---|
| `RaisesOnlyOverModelsArguments` | a run ends with an exception only at a step of the model's plan whose own arguments do not fit the tool; the rules' plan is valid for every goal |
| `SuccessHasItsEvidence` | a success had no failed tool, nothing above the plan's risk and, for plans of up to 5 steps, every required reading; a forbidden goal reaches no model and no tool |
| `CriticalAnswerHasItsCause` | up to three readings, at most one of large files: a critical diagnosis has the matching root cause |
| `EligibleIsAcceptedByHelper` | a file offered was not seen open, and the helper would remove it, save in the configured roots |

Run `agent` (1.8 million states): goals of each topic, of none, and of two where routing or the required tools tell the pair from one of its
topics; plans of up to 2 steps with every kind of arguments, of 3 among the six tools whose readings weigh, and of 6; `MaxSteps`
5 as in the code, one retry. Disks, loads and journals are read on both sides of the thresholds; five zombies and large files weigh in
full. `MaxFiles` 4 and `MaxItems` 8 stand for 100 and 200: in proportion, two scans of large files fill what is kept, and TLC
finds that without the limit to one the third property fails, as it does with a fourth reading. Files differ in one way from
an old log or from a young temporary file, the two that are eligible for different reasons.

`AgentRun_proofs.tla` proves all four, for every goal, every plan a model may answer, every file and all readings.
`RaisesOverModelsArguments` needs that the rules' plan passes validation (`FallbackIsValid`: the planner's own list of risky tools covers
all the rules plan with, `RuleToolsRated`) and that its arguments fit and stay so (`FallbackSteps`). `OfferedIsAccepted` compares
the two sets of rules for files. `SuccessHasItsEvidence` rests on `EvidenceOfPlan`: the evidence is, step by step, that of the
plan's first steps, none above its risk, and validation has seen to it that the required tools are among them.

`CriticalAnswersHaveCause` is the fourth. Items are traced back to the readings they were made from (`Traced`, `EvidenceIsTraced`), and with
three readings, one of large files, none is cut off (`AllAreKept`). A cause is kept when at most two of the other three rank before it
(`RankedByTwo`). Where the readings name only one of zombies and the other of service and disk, that is so by counting. Where they name
both (`OneOfThree`), each of the three readings has its own part: one item alone speaks for the critical cause, a failed service
with 0.841 or a full disk with 0.935, and zombies, who rest on one list of processes, have at most 0.840 and are behind
(`AloneScores`, `ProcessesAlone`, `LowerIsBehind`). Only sums over one item are needed (`SumAlone`). `CauseInv` says that what the run has
recorded are readings of the tools and that no answer exists before the end.

What modelling showed, and the properties leave room for:

- the runner takes the first 5 steps while the schema admits 20 and validation looks at all of them;
- a goal about a service and a disk gets a rules' plan without `service_status` but with the journal; and when both are read
  only the service is diagnosed;
- a failed disk scan is diagnosed "ok" (0 % full); with a fourth reading, an empty journal, a critical service loses its
  root cause; two scans of large files can fill the 200 items, and the item of a failed service that is read after them is dropped;
- the thresholds for disks differ: 80/95 in the diagnosis, 70/95 in the root causes, 80/90 in the inspections;
- a missing required argument, a name the tool does not know or a value of another type raises TypeError, which nothing catches: the
  request is answered 500. The planning prompt names no arguments for `service_status`, and the schema's default is `{}`;
- ActiveState `activating` or `deactivating` is a failed service for the root causes and a warning for the diagnosis;
- a model's plan of intent FORBIDDEN blocks a goal the policy allowed;
- the provider, and with it its circuit, is made for one request: the circuit never protects the next one;
- the open-file lookup is not "failing closed" (cleanup.py:235) where `/proc/*/fd` may not be listed: such a file counts as not open;
- scan roots configured outside `/home` are offered and then refused by the helper.

## 11. Not modelled, and the next steps

Not modelled, with the reason:

- authentication and sessions: each operation is a single statement on a row of its own; passwords are hashing;
- the trend forecast: least squares over floats which nothing else reads;
- the text side of guardrails: which text matches a pattern, redaction; the model has their verdicts as inputs;
- message framing and the peer check of the broker, HMAC and hashing of tokens, the text of audit material;
- the parsing of command output in `mcp_server/providers.py` and the stdio server: the models have what each probe reads as a small set;
- `executor/restricted.py`, a dry run that changes nothing; list, search and export endpoints, which only read; evidence and
  reports, inserted with the task's commit and only read afterwards;
- prompts, headlines and other wording; configuration files and the command line, static apart from the cleanup roots;
- frontend, migrations, installer and scripts: no protocol of their own.

Model-checked only: liveness (`EveryRunEnds`, `BacklogDrains`, `SymptomIsReported`), for which the prover has no rule: it
cannot reason about fairness, that is, about ENABLED. Every other property of every passing run is a theorem.

A proof module may cover two components (`Records_proofs`: `AuditChain` and `Records`; `Executors_proofs`: `ServiceProcess` and
`DemoSandbox`); the second of each names its specification for itself (`RecordsSpec`, `DemoSpec`).

Worth proving next: that every candidate, archive and row of the abstract ledger refines further down to the host.
