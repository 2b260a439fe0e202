--------------------------- MODULE ServiceProcess ---------------------------
(***************************************************************************)
(* Restarting the managed service, terminating one of its processes, and   *)
(* rolling either back: ControlledServiceExecutor (executor/systemd.py),   *)
(* ControlledProcessExecutor (executor/process.py), and the restart branch *)
(* of the root helper (deploy/kylin_guard_privileged.py).                  *)
(*                                                                         *)
(* Restarts go through the broker: the request stays in its backlog when   *)
(* the client gives up, and is served later, one at a time.  A process is  *)
(* known by its pid and start time; the host may end any process and give  *)
(* its pid to another one at any time.  The restorer of the process        *)
(* executor is a service executor whose runner refuses all but is-active,  *)
(* so no process is ever restored.                                         *)
(***************************************************************************)
EXTENDS Integers, FiniteSets

CONSTANTS
    Restarts,       \* executions of service_restart, by change_id
    Terminations,   \* executions of terminate_process, by change_id
    Rollbacks,      \* executions of rollback_change
    Pids,           \* process ids
    MaxStarts       \* bound: starts of processes by the host

ASSUME JobAssumption ==
    /\ Restarts \cap Terminations = {}
    /\ (Restarts \cup Terminations) \cap Rollbacks = {}
    /\ MaxStarts \in Nat

Changes == Restarts \cup Terminations
Jobs == Changes \cup Rollbacks

Places == {"idle", "read", "candidate", "checked", "requested", "answered", "signalled",
           "succeeded", "failing", "ended", "dead"}

JobRecord == [pc : Places,
              pid : SUBSET Pids, start : Nat,       \* termination: the candidate
              change : SUBSET Changes, status : SUBSET {"SUCCEEDED", "ROLLED_BACK"},
              code : {0, 1, 70}]                    \* the helper's exit status

VARIABLES
    proc,           \* pid -> start time of the process that has it, 0 if none
    managed,        \* start times of processes of the service
    clock,          \* start time of the last process
    backlog,        \* requests the daemon has yet to serve
    row,            \* committed ExecutionRecord.status, by change
    job,
    signals,        \* history: termination -> start time of the process it signalled
    looked,         \* history: termination -> clock when it last compared the identity
    served          \* history: job -> [from, to], the clock before and after its restart

host == <<proc, managed, clock>>
vars == <<proc, managed, clock, backlog, row, job, signals, looked, served>>

Init ==
    /\ \E pid \in Pids : proc = [p \in Pids |-> IF p = pid THEN 1 ELSE 0]
    /\ managed = {1} /\ clock = 1
    /\ backlog = {}
    /\ row = [c \in Changes |-> "none"]
    /\ job = [j \in Jobs |-> [pc |-> "idle", pid |-> {}, start |-> 0, change |-> {},
                              status |-> {}, code |-> 0]]
    /\ signals = [t \in Terminations |-> 0]
    /\ looked = [t \in Terminations |-> 0]
    /\ served = [j \in Jobs |-> {}]

Move(j, from, to) == job[j].pc = from /\ job' = [job EXCEPT ![j].pc = to]

\* systemctl is-active
IsActive == \E pid \in Pids : proc[pid] \in managed

Without(pids) == [p \in Pids |-> IF p \in pids THEN 0 ELSE proc[p]]
Service == {p \in Pids : proc[p] \in managed}

\* The host starts a process of the service or another one, under a free pid.
HostStarts(pid) ==
    /\ clock < MaxStarts
    /\ proc[pid] = 0
    /\ clock' = clock + 1
    /\ proc' = [proc EXCEPT ![pid] = clock + 1]
    /\ managed' \in {managed, managed \cup {clock + 1}}
    /\ UNCHANGED <<backlog, row, job, signals, looked, served>>

HostEnds(pid) ==
    /\ proc[pid] # 0
    /\ proc' = Without({pid})
    /\ UNCHANGED <<managed, clock, backlog, row, job, signals, looked, served>>

-----------------------------------------------------------------------------
(* service_restart *)

\* execute: refused unless the service is active, then sent to the broker.
Request(s) ==
    /\ job[s].pc = "idle"
    /\ job' = [job EXCEPT ![s].pc = IF IsActive THEN "requested" ELSE "failing"]
    /\ backlog' = IF IsActive THEN backlog \cup {s} ELSE backlog
    /\ UNCHANGED <<host, row, signals, looked, served>>

\* The helper: restart; when that fails, start.  Its answer reaches a client that still waits.
Answer(j, code) ==
    /\ backlog' = backlog \ {j}
    /\ job' = IF job[j].pc = "requested"
              THEN [job EXCEPT ![j].pc = "answered", ![j].code = code] ELSE job

Serve(j) ==
    /\ j \in backlog
    /\ \/ \E pid \in {p \in Pids : Without(Service)[p] = 0} :
            /\ clock' = clock + 1
            /\ managed' = managed \cup {clock + 1}
            /\ proc' = [Without(Service) EXCEPT ![pid] = clock + 1]
            /\ \/ Answer(j, 0) /\ served' = [served EXCEPT ![j] = {[from |-> clock, to |-> clock + 1]}]
               \/ Answer(j, 1) /\ UNCHANGED served
       \/ /\ proc' = Without(Service)
          /\ Answer(j, 70)
          /\ UNCHANGED <<managed, clock, served>>
    /\ UNCHANGED <<row, signals, looked>>

\* The daemon dies with the request, or denies it: the host is as it was.
Drop(j) ==
    /\ j \in backlog
    /\ backlog' = backlog \ {j}
    /\ job' = IF job[j].pc = "requested" THEN [job EXCEPT ![j].pc = "failing"] ELSE job
    /\ UNCHANGED <<host, row, signals, looked, served>>

\* 35 seconds passed; the request stays in the backlog.
TimeOut(j) ==
    /\ j \in backlog
    /\ Move(j, "requested", "failing")
    /\ UNCHANGED <<host, backlog, row, signals, looked, served>>

\* Mutant: the service is looked at, the exit status is not.
Confirm_ActiveOnly(j) ==
    /\ Move(j, "answered", IF IsActive THEN "succeeded" ELSE "failing")
    /\ UNCHANGED <<host, backlog, row, signals, looked, served>>

\* returncode and is-active, for a restart and for a rollback of one.
Confirm(j) ==
    /\ Move(j, "answered", IF job[j].code = 0 /\ IsActive THEN "succeeded" ELSE "failing")
    /\ UNCHANGED <<host, backlog, row, signals, looked, served>>

-----------------------------------------------------------------------------
(* terminate_process *)

\* create_process_candidate: a process whose name is managed.
CreateCandidate(t) == \E pid \in Service :
    /\ job[t].pc = "idle"
    /\ job' = [job EXCEPT ![t].pc = "candidate", ![t].pid = {pid}, ![t].start = proc[pid]]
    /\ UNCHANGED <<host, backlog, row, signals, looked, served>>

\* Mutant: the pid is enough.
RequireCurrent_Pid(t) == \E pid \in job[t].pid :
    /\ Move(t, "candidate", IF proc[pid] # 0 THEN "checked" ELSE "failing")
    /\ looked' = [looked EXCEPT ![t] = clock]
    /\ UNCHANGED <<host, backlog, row, signals, served>>

RequireCurrent(t) == \E pid \in job[t].pid :
    /\ Move(t, "candidate", IF proc[pid] = job[t].start THEN "checked" ELSE "failing")
    /\ looked' = [looked EXCEPT ![t] = clock]
    /\ UNCHANGED <<host, backlog, row, signals, served>>

\* os.kill(pid, SIGTERM): whoever has the pid now; ProcessLookupError if nobody.
Terminate(t) == \E pid \in job[t].pid :
    /\ Move(t, "checked", IF proc[pid] # 0 THEN "signalled" ELSE "failing")
    /\ signals' = [signals EXCEPT ![t] = proc[pid]]
    /\ UNCHANGED <<host, backlog, row, looked, served>>

\* The loop ends when the identity is gone, or at the deadline; then _restore raises.
Await(t) == \E pid \in job[t].pid :
    /\ \/ proc[pid] # job[t].start /\ Move(t, "signalled", "succeeded")
       \/ proc[pid] = job[t].start /\ Move(t, "signalled", "failing")
    /\ UNCHANGED <<host, backlog, row, signals, looked, served>>

-----------------------------------------------------------------------------
(* rollback_change *)

\* db.get(ExecutionRecord, change_id)
ReadChange(r) == \E c \in Changes :
    /\ row[c] # "none"
    /\ job[r].pc = "idle"
    /\ job' = [job EXCEPT ![r].pc = "read", ![r].change = {c}, ![r].status = {row[c]}]
    /\ UNCHANGED <<host, backlog, row, signals, looked, served>>

\* Only a restart reaches the broker; _restore of a process raises BROKER_ACTION_CONTEXT_REQUIRED.
RequestRollback(r) ==
    LET sent == job[r].status = {"SUCCEEDED"} /\ job[r].change \subseteq Restarts
    IN  /\ Move(r, "read", IF sent THEN "requested" ELSE "failing")
        /\ backlog' = IF sent THEN backlog \cup {r} ELSE backlog
        /\ UNCHANGED <<host, row, signals, looked, served>>

-----------------------------------------------------------------------------
Record(j) ==
    /\ Move(j, "succeeded", "ended")
    /\ row' = IF j \in Changes THEN [row EXCEPT ![j] = "SUCCEEDED"]
              ELSE [c \in Changes |-> IF c \in job[j].change THEN "ROLLED_BACK" ELSE row[c]]
    /\ UNCHANGED <<host, backlog, signals, looked, served>>

Fail(j) ==
    /\ Move(j, "failing", "ended")
    /\ UNCHANGED <<host, backlog, row, signals, looked, served>>

\* The API process is killed; what it asked of the broker stays asked.
Die(j) ==
    /\ job[j].pc \notin {"idle", "ended", "dead"}
    /\ job' = [job EXCEPT ![j].pc = "dead"]
    /\ UNCHANGED <<host, backlog, row, signals, looked, served>>

Next ==
    \/ \E pid \in Pids : HostStarts(pid) \/ HostEnds(pid)
    \/ \E s \in Restarts : Request(s)
    \/ \E t \in Terminations :
        CreateCandidate(t) \/ RequireCurrent(t) \/ Terminate(t) \/ Await(t)
    \/ \E r \in Rollbacks : ReadChange(r) \/ RequestRollback(r)
    \/ \E j \in Jobs :
        \/ Serve(j) \/ Drop(j) \/ TimeOut(j) \/ Confirm(j)
        \/ Record(j) \/ Fail(j) \/ Die(j)

Spec == Init /\ [][Next]_vars

-----------------------------------------------------------------------------
\* SIGTERM reaches the process that was approved, or one that took over its pid after the
\* identity was compared: never another one that was there by then (process.py:132-133, 180-190).
SignalsHitCandidateOrNewcomer == \A t \in Terminations :
    signals[t] # 0 => signals[t] = job[t].start \/ signals[t] > looked[t]

\* What is recorded is true of the host, whatever was restarted, ended or reused at the same time:
\* a terminated process is gone for good, a restarted service has none of the processes it had
\* before, and a change is ROLLED_BACK only if a restart was done for a rollback of it
\* (process.py:134-151, systemd.py:124-131, 162-173, router.py:1527).
RecordedIsTrue == \A c \in Changes :
    /\ c \in Terminations /\ row[c] # "none" =>
            \A pid \in Pids : proc[pid] # job[c].start
    /\ c \in Restarts /\ row[c] # "none" => \E s \in served[c] :
            \A pid \in Pids : proc[pid] \in managed => proc[pid] > s.from
    /\ row[c] = "ROLLED_BACK" => \E r \in Rollbacks : job[r].change = {c} /\ served[r] # {}

=============================================================================
