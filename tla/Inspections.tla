---------------------------- MODULE Inspections ----------------------------
(***************************************************************************)
(* Inspections of the machine and the incidents derived from them:         *)
(* capture_inspection (core/inspection_service.py), the periodic capture   *)
(* (core/snapshot_scheduler.py, started by main.py), and the requests that *)
(* run an inspection or update an incident (api/router.py).                *)
(*                                                                         *)
(* The periodic capture runs in a worker thread that its loop awaits; to   *)
(* cancel the loop does not stop the thread.  Every capture is one database *)
(* session: its first INSERT takes SQLite's write lock, its commit gives   *)
(* the lock back.  A finding is named by its summary; how many file systems *)
(* and checks are read (20 and 50) is not modelled, nor is the audit event *)
(* of each commit (module AuditChain).                                     *)
(***************************************************************************)
EXTENDS Integers, FiniteSets

CONSTANTS
    Disks,          \* file systems the snapshot reports
    Levels,         \* tenths of a file system in use, in reach of the thresholds
    Checks,         \* checks of the security baseline
    ServiceChecks,  \* those whose id starts with service_
    Threads,        \* worker threads of the periodic capture
    Requests,       \* requests that run an inspection
    Updates,        \* requests that update an incident
    Nobody,         \* no lock holder
    MaxFaults,      \* probes that fail and captures that raise, in all
    MaxStarts       \* starts of the periodic capture

ASSUME InspectionAssumption ==
    /\ Levels \subseteq 0..10 /\ ServiceChecks \subseteq Checks
    /\ Threads \cap Requests = {} /\ Nobody \notin Threads \cup Requests
    /\ MaxFaults \in Nat /\ MaxStarts \in Nat

Captures == Threads \cup Requests

Summaries == ({"disk"} \X Disks \X Levels) \cup ({"check"} \X Checks)

\* IncidentUpdate.status: an incident is never opened again.
UpdateStatuses == {"ACKNOWLEDGED", "RESOLVED", "CLOSED"}

\* Incidents of one summary are numbered in the order they were opened.
IncidentRecord == [severity : {"CRITICAL", "WARNING"}, summary : Summaries,
                   number : Nat \ {0}, status : {"OPEN"} \cup UpdateStatuses]

CaptureRecord == [pc : {"idle", "snapshot", "baseline", "locked", "ended"},
                  findings : SUBSET Summaries,
                  created : SUBSET Summaries]

UpdateRecord == [pc : {"idle", "read", "ended"},
                 incident : SUBSET IncidentRecord]        \* the row as it was read

VARIABLES
    level,          \* the machine: tenths in use, by file system
    failing,        \* the machine: checks neither PASS nor SKIPPED
    incidents,      \* committed incidents
    capture,        \* [Captures -> CaptureRecord]
    update,         \* [Updates -> UpdateRecord]
    lock,           \* holder of the write lock, or Nobody
    loop,           \* PeriodicSnapshotService._task: "none", "sleeping", "raised", or awaiting a thread
    faults, starts

vars == <<level, failing, incidents, capture, update, lock, loop, faults, starts>>

NewCapture == [pc |-> "idle", findings |-> {}, created |-> {}]

Init ==
    /\ level \in [Disks -> Levels] /\ failing \in SUBSET Checks
    /\ incidents = {}
    /\ capture = [c \in Captures |-> NewCapture]
    /\ update = [u \in Updates |-> [pc |-> "idle", incident |-> {}]]
    /\ lock = Nobody
    /\ loop = "none"
    /\ faults = 0 /\ starts = 0

-----------------------------------------------------------------------------
(* The machine, read by two tools one after the other.                     *)

MachineChanges ==
    /\ level' \in [Disks -> Levels] /\ failing' \in SUBSET Checks
    /\ UNCHANGED <<incidents, capture, update, lock, loop, faults, starts>>

DiskFindings(l) == {<<"disk", d, l[d]>> : d \in {e \in Disks : l[e] >= 8}}

CheckFindings(F) == {<<"check", k>> : k \in F}

Severity(s) ==
    IF s[1] = "disk"
      THEN IF s[3] >= 9 THEN "CRITICAL" ELSE "WARNING"
      ELSE IF s[2] \in ServiceChecks THEN "CRITICAL" ELSE "WARNING"

\* A tool result is SUCCEEDED with what it read, or FAILED with data {}.
Reads(c, from, to, read) == \E ok \in BOOLEAN :
    /\ capture[c].pc = from
    /\ IF ok THEN UNCHANGED faults ELSE faults < MaxFaults /\ faults' = faults + 1
    /\ capture' = [capture EXCEPT ![c].pc = to,
                                  ![c].findings = @ \cup (IF ok THEN read ELSE {})]

ReadSnapshot(c) ==
    /\ Reads(c, "snapshot", "baseline", DiskFindings(level))
    /\ UNCHANGED <<level, failing, incidents, update, lock, loop, starts>>

\* Mutant: the snapshot is added and not flushed before the incidents are looked up.
ReadBaseline_NoFlush(c) ==
    /\ Reads(c, "baseline", "locked", CheckFindings(failing))
    /\ UNCHANGED <<level, failing, incidents, update, lock, loop, starts>>

\* The second tool, then the INSERT of the snapshot, which waits for the write lock.
ReadBaseline(c) ==
    /\ lock = Nobody
    /\ lock' = c
    /\ Reads(c, "baseline", "locked", CheckFindings(failing))
    /\ UNCHANGED <<level, failing, incidents, update, loop, starts>>

OpenSummaries == {i.summary : i \in {j \in incidents : j.status = "OPEN"}}

\* Mutant: an incident of the summary counts as a duplicate whatever its status.
Duplicate_AnyStatus(c, s) ==
    s \in {i.summary : i \in incidents} \cup capture[c].created

\* Looked up in the capture's own transaction.
Duplicate(c, s) == s \in OpenSummaries \cup capture[c].created

\* One round of the loop of _derive_incidents.
Derive(c) == \E s \in capture[c].findings :
    /\ capture[c].pc = "locked"
    /\ capture' = [capture EXCEPT ![c].findings = @ \ {s},
                                  ![c].created = IF Duplicate(c, s) THEN @ ELSE @ \cup {s}]
    /\ UNCHANGED <<level, failing, incidents, update, lock, loop, faults, starts>>

Opened(s) == [severity |-> Severity(s), summary |-> s, status |-> "OPEN",
              number |-> 1 + Cardinality({i \in incidents : i.summary = s})]

\* The request is answered; the loop goes to sleep when it still awaits the thread.
Finish(c, to) ==
    /\ capture' = [capture EXCEPT ![c] = [NewCapture EXCEPT !.pc = IF c \in Threads THEN "idle" ELSE "ended"]]
    /\ loop' = IF loop = c THEN to ELSE loop

Commit(c) ==
    /\ capture[c].pc = "locked" /\ capture[c].findings = {}
    /\ incidents' = incidents \cup {Opened(s) : s \in capture[c].created}
    /\ lock' = IF lock = c THEN Nobody ELSE lock
    /\ Finish(c, "sleeping")
    /\ UNCHANGED <<level, failing, update, faults, starts>>

\* The database stays locked, or a tool raises what its registry does not catch:
\* the session rolls back, and _run has no handler, so that the loop ends.
Raise(c) ==
    /\ capture[c].pc \in {"snapshot", "baseline", "locked"}
    /\ faults < MaxFaults
    /\ faults' = faults + 1
    /\ lock' = IF lock = c THEN Nobody ELSE lock
    /\ Finish(c, "raised")
    /\ UNCHANGED <<level, failing, incidents, update, starts>>

-----------------------------------------------------------------------------
(* Who captures.                                                           *)

Begin(c) ==
    /\ capture[c].pc = "idle"
    /\ capture' = [capture EXCEPT ![c].pc = "snapshot"]

RunInspection(r) ==
    /\ Begin(r)
    /\ UNCHANGED <<level, failing, incidents, update, lock, loop, faults, starts>>

\* asyncio.to_thread(capture)
PeriodicCapture(t) ==
    /\ loop = "sleeping"
    /\ loop' = t
    /\ Begin(t)
    /\ UNCHANGED <<level, failing, incidents, update, lock, faults, starts>>

\* start(): a loop that ended with an exception is replaced.  It captures at once.
Start ==
    /\ loop \in {"none", "raised"}
    /\ starts < MaxStarts
    /\ starts' = starts + 1
    /\ loop' = "sleeping"
    /\ UNCHANGED <<level, failing, incidents, capture, update, lock, faults>>

\* stop(): a thread at work goes on.  After an exception stop() raises it and
\* _task stays.
Stop ==
    /\ loop \notin {"none", "raised"}
    /\ loop' = "none"
    /\ UNCHANGED <<level, failing, incidents, capture, update, lock, faults, starts>>

-----------------------------------------------------------------------------
(* update_incident                                                         *)

ReadIncident(u) == \E i \in incidents :
    /\ update[u].pc = "idle"
    /\ update' = [update EXCEPT ![u] = [pc |-> "read", incident |-> {i}]]
    /\ UNCHANGED <<level, failing, incidents, capture, lock, loop, faults, starts>>

SameIncident(i, j) == i.summary = j.summary /\ i.number = j.number

\* The session writes the column only when it differs from what was read.
UpdateIncident(u) == \E i \in update[u].incident, status \in UpdateStatuses :
    /\ update[u].pc = "read" /\ lock = Nobody
    /\ update' = [update EXCEPT ![u] = [pc |-> "ended", incident |-> {}]]
    /\ incidents' = IF i.status = status THEN incidents
                    ELSE {IF SameIncident(i, j) THEN [j EXCEPT !.status = status] ELSE j : j \in incidents}
    /\ UNCHANGED <<level, failing, capture, lock, loop, faults, starts>>

-----------------------------------------------------------------------------
Step(c) == ReadSnapshot(c) \/ ReadBaseline(c) \/ Derive(c) \/ Commit(c)

Next ==
    \/ MachineChanges
    \/ \E c \in Captures : Step(c) \/ Raise(c)
    \/ \E r \in Requests : RunInspection(r)
    \/ \E t \in Threads : PeriodicCapture(t)
    \/ Start \/ Stop
    \/ \E u \in Updates : ReadIncident(u) \/ UpdateIncident(u)

Spec == Init /\ [][Next]_vars

\* A capture that began goes on (its tool calls and its wait for the lock have
\* time-outs), and the loop wakes up after its interval.
Fairness ==
    /\ \A c \in Captures : WF_vars(Step(c))
    /\ WF_vars(\E t \in Threads : PeriodicCapture(t))

FairSpec == Spec /\ Fairness

-----------------------------------------------------------------------------
(* Properties                                                              *)

\* The types of the state; the write lock belongs to the capture between its
\* first INSERT and its commit, and a loop awaits a thread that captures.
TypeOK ==
    /\ level \in [Disks -> Levels] /\ failing \in SUBSET Checks
    /\ incidents \subseteq IncidentRecord
    /\ capture \in [Captures -> CaptureRecord]
    /\ update \in [Updates -> UpdateRecord]
    /\ \A c \in Captures : capture[c].pc = "locked" <=> lock = c
    /\ loop \in {"none", "sleeping", "raised"} \cup {t \in Threads : capture[t].pc # "idle"}
    /\ faults \in 0..MaxFaults /\ starts \in 0..MaxStarts

\* A symptom has at most one open incident, however many inspections see it at
\* once: the duplicate check of _derive_incidents (inspection_service.py:97)
\* runs with the write lock taken by the flush of the snapshot.
OneOpenIncident ==
    \A i, j \in incidents :
        i.status = "OPEN" /\ j.status = "OPEN" /\ i.summary = j.summary => i = j

\* A symptom that stays while the periodic capture goes on gets an open
\* incident and keeps one, whatever operators close (snapshot_scheduler.py:33,
\* inspection_service.py:97): only an exception or a stop ends the captures.
SymptomIsReported ==
    \A s \in Summaries :
        <>[](s \in DiskFindings(level) \cup CheckFindings(failing) /\ loop \notin {"none", "raised"})
            => <>[](s \in OpenSummaries)

=============================================================================
