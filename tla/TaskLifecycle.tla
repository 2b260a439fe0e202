--------------------------- MODULE TaskLifecycle ---------------------------
(***************************************************************************)
(* The life of one task (backend/app/agent/state_machine.py and the task   *)
(* handlers of backend/app/api/router.py).                                 *)
(*                                                                         *)
(* A handler reads the row of the task, decides, and commits: the row, a   *)
(* step if it is a transition, and an audit event, in one transaction.     *)
(* The read is outside that transaction and the UPDATE is by id alone, so  *)
(* whatever was committed in between is overwritten.  transition_task      *)
(* numbers its step by a count it reads after it read the state; the pair  *)
(* (task_id, sequence) is UNIQUE.  run_task reads the row, lets the agent  *)
(* work, and writes the outcome.                                           *)
(*                                                                         *)
(* Only what differs from the copy that was read is written: a run whose   *)
(* outcome is the state it read leaves the column alone.                   *)
(***************************************************************************)
EXTENDS Integers, FiniteSets, Sequences

CONSTANTS
    Cancels,        \* requests: POST /tasks/{task_id}/cancel
    Transitions,    \* requests: POST /tasks/{task_id}/transition
    Runs            \* requests: POST /tasks/{task_id}/run

ASSUME KindAssumption ==
    /\ Cancels \cap Transitions = {}
    /\ Cancels \cap Runs = {}
    /\ Transitions \cap Runs = {}

Requests == Cancels \cup Transitions \cup Runs

States ==
    {"RECEIVED", "INPUT_GUARD", "INTENT_CLASSIFIED", "CONTEXT_COLLECTING", "PLANNED",
     "PLAN_GUARD", "TOOL_CALLING", "EVIDENCE_READY", "ROOT_CAUSE_ANALYZED",
     "ACTION_PROPOSED", "ACTION_GUARD", "DRY_RUN", "WAITING_APPROVAL", "APPROVED",
     "BACKING_UP", "EXECUTING", "VERIFYING", "ROLLING_BACK",
     "SUCCEEDED", "FAILED", "BLOCKED", "ROLLED_BACK", "CANCELLED"}

TERMINAL == {"SUCCEEDED", "FAILED", "BLOCKED", "ROLLED_BACK", "CANCELLED"}

\* TRANSITIONS, by target where many states share one.
TRANSITIONS ==
    {<<"RECEIVED", "INPUT_GUARD">>, <<"INPUT_GUARD", "INTENT_CLASSIFIED">>,
     <<"INTENT_CLASSIFIED", "CONTEXT_COLLECTING">>, <<"CONTEXT_COLLECTING", "PLANNED">>,
     <<"PLANNED", "PLAN_GUARD">>, <<"PLAN_GUARD", "TOOL_CALLING">>,
     <<"TOOL_CALLING", "EVIDENCE_READY">>, <<"EVIDENCE_READY", "ROOT_CAUSE_ANALYZED">>,
     <<"ROOT_CAUSE_ANALYZED", "ACTION_PROPOSED">>, <<"ACTION_PROPOSED", "ACTION_GUARD">>,
     <<"ACTION_GUARD", "DRY_RUN">>, <<"DRY_RUN", "WAITING_APPROVAL">>,
     <<"WAITING_APPROVAL", "APPROVED">>, <<"APPROVED", "BACKING_UP">>,
     <<"BACKING_UP", "EXECUTING">>, <<"EXECUTING", "VERIFYING">>,
     <<"VERIFYING", "ROLLING_BACK">>, <<"ROLLING_BACK", "ROLLED_BACK">>}
    \cup ({"EVIDENCE_READY", "ROOT_CAUSE_ANALYZED", "VERIFYING"} \X {"SUCCEEDED"})
    \cup ({"INPUT_GUARD", "INTENT_CLASSIFIED", "CONTEXT_COLLECTING", "PLANNED", "PLAN_GUARD",
           "TOOL_CALLING", "ACTION_GUARD", "WAITING_APPROVAL", "APPROVED"} \X {"BLOCKED"})
    \cup ({"INPUT_GUARD", "INTENT_CLASSIFIED", "CONTEXT_COLLECTING", "PLANNED", "PLAN_GUARD",
           "TOOL_CALLING", "EVIDENCE_READY", "ROOT_CAUSE_ANALYZED", "ACTION_GUARD", "DRY_RUN",
           "BACKING_UP", "EXECUTING", "ROLLING_BACK"} \X {"FAILED"})
    \cup ({"RECEIVED", "ACTION_PROPOSED", "WAITING_APPROVAL"} \X {"CANCELLED"})

can_transition(current, target) ==
    current \notin TERMINAL /\ <<current, target>> \in TRANSITIONS

\* How a run of the agent ends.
Outcomes == {"SUCCEEDED", "FAILED", "BLOCKED"}

VARIABLES
    task,           \* the row of agent_tasks
    steps,          \* the rows of task_steps
    events,         \* the task's audit events after TASK_CREATED, in the order of the chain
    req             \* the requests

vars == <<task, steps, events, req>>

TaskRecord == [state : States, version : Nat]

StepRecord == [sequence : Nat, from_state : States, to_state : States]

\* "from" is what the event says the state was; a run does not say.
EventRecord ==
    [type : {"TASK_CANCELLED", "TASK_STATE_CHANGED", "AGENT_RUN_COMPLETED"},
     from : States \cup {"unsaid"}, to : States]

\* "read" is the request's copy of the row.
RequestRecord ==
    [pc : {"idle", "checked", "counted", "done", "error"},
     read : TaskRecord, target : States, sequence : Nat]

TypeOK ==
    /\ task \in TaskRecord
    /\ steps \subseteq StepRecord
    /\ events \in Seq(EventRecord)
    /\ req \in [Requests -> RequestRecord]

Created == [state |-> "RECEIVED", version |-> 1]

Init ==
    /\ task = Created
    /\ steps = {}
    /\ events = <<>>
    /\ req = [r \in Requests |->
                [pc |-> "idle", read |-> Created, target |-> "RECEIVED", sequence |-> 0]]

-----------------------------------------------------------------------------
\* Mutant: the check is forgotten.
Read_Unchecked(r, target, allowed) ==
    /\ req[r].pc = "idle"
    /\ req' = [req EXCEPT ![r].read = task, ![r].target = target, ![r].pc = "checked"]
    /\ UNCHANGED <<task, steps, events>>

\* db.get and the check; a request that fails the check ends with 409.
Read(r, target, allowed) ==
    /\ req[r].pc = "idle"
    /\ req' = [req EXCEPT ![r].read = task,
                          ![r].target = target,
                          ![r].pc = IF allowed THEN "checked" ELSE "error"]
    /\ UNCHANGED <<task, steps, events>>

\* The UPDATE of the row, by id.
Written(read, state) ==
    [state |-> IF state = read.state THEN task.state ELSE state, version |-> read.version + 1]

\* Mutant: no audit event.
Commit_Unaudited(r, state, type, from) ==
    /\ task' = Written(req[r].read, state)
    /\ events' = events
    /\ req' = [req EXCEPT ![r].pc = "done"]

Commit(r, state, type, from) ==
    /\ task' = Written(req[r].read, state)
    /\ events' = Append(events, [type |-> type, from |-> from, to |-> state])
    /\ req' = [req EXCEPT ![r].pc = "done"]

CancelRead(c) == Read(c, "CANCELLED", can_transition(task.state, "CANCELLED"))

CancelCommit(c) ==
    /\ req[c].pc = "checked"
    /\ Commit(c, "CANCELLED", "TASK_CANCELLED", req[c].read.state)
    /\ UNCHANGED steps

TransitionRead(t, target) == Read(t, target, can_transition(task.state, target))

\* len(task.steps) loads the steps now.
CountSteps(t) ==
    /\ req[t].pc = "checked"
    /\ req' = [req EXCEPT ![t].sequence = Cardinality(steps) + 1, ![t].pc = "counted"]
    /\ UNCHANGED <<task, steps, events>>

\* Mutant: no UNIQUE constraint.
Unique_None(sequence) == TRUE

\* UNIQUE (task_id, sequence).
Unique(sequence) == \A s \in steps : s.sequence # sequence

TransitionCommit(t) ==
    LET current == req[t].read.state
        target == req[t].target
    IN  /\ req[t].pc = "counted"
        /\ Unique(req[t].sequence)
        /\ steps' = steps \cup {[sequence |-> req[t].sequence,
                                 from_state |-> current, to_state |-> target]}
        /\ Commit(t, target, "TASK_STATE_CHANGED", current)

\* run_task does not look at the state of the task.
RunRead(r) == Read(r, "RECEIVED", TRUE)

RunCommit(r, outcome) ==
    /\ req[r].pc = "checked"
    /\ Commit(r, outcome, "AGENT_RUN_COMPLETED", "unsaid")
    /\ UNCHANGED steps

\* IntegrityError, a busy database, an exception of the agent, or the end of the process.
RequestFails(r) ==
    /\ req[r].pc \in {"checked", "counted"}
    /\ req' = [req EXCEPT ![r].pc = "error"]
    /\ UNCHANGED <<task, steps, events>>

Next ==
    \/ \E c \in Cancels : CancelRead(c) \/ CancelCommit(c)
    \/ \E t \in Transitions :
         \/ \E target \in States : TransitionRead(t, target)
         \/ CountSteps(t)
         \/ TransitionCommit(t)
    \/ \E r \in Runs : RunRead(r) \/ \E outcome \in Outcomes : RunCommit(r, outcome)
    \/ \E r \in Requests : RequestFails(r)

Spec == Init /\ [][Next]_vars

-----------------------------------------------------------------------------
(***************************************************************************)
(* Properties the code has                                                 *)
(***************************************************************************)
\* However transitions race, the steps are numbered 1, 2, 3, ... without a gap or a double,
\* although each was numbered by a count taken before its commit.
StepsNumbered == {s.sequence : s \in steps} = 1..Cardinality(steps)

Changes == {i \in 1..Len(events) : events[i].type = "TASK_STATE_CHANGED"}

\* The audit chain and the steps tell one story: the n-th change of state that was audited is
\* step n.
StepsAudited ==
    /\ Cardinality(Changes) = Cardinality(steps)
    /\ \A s \in steps : \E i \in Changes :
         /\ Cardinality({j \in Changes : j <= i}) = s.sequence
         /\ events[i].from = s.from_state
         /\ events[i].to = s.to_state

\* The state the task has is one the audit chain tells of.
StateAudited ==
    IF events = <<>> THEN task.state = "RECEIVED"
    ELSE \E i \in 1..Len(events) : events[i].to = task.state

\* Every audited change is legal, and starts in a state the task had had before it.
ChangesFromVisited ==
    \A i \in 1..Len(events) : events[i].type # "AGENT_RUN_COMPLETED" =>
        /\ can_transition(events[i].from, events[i].to)
        /\ \/ events[i].from = "RECEIVED"
           \/ \E j \in 1..(i - 1) : events[j].to = events[i].from

=============================================================================
