--------------------------- MODULE ConfigChanges ---------------------------
(***************************************************************************)
(* Safe updates of one configuration file and their rollbacks:             *)
(* ControlledConfigExecutor (executor/config_update.py) as execution_run   *)
(* (api/router.py) drives it.                                              *)
(*                                                                         *)
(* An update takes no lock: until its commit it runs beside other updates, *)
(* rollbacks and the administrator's editor.  A rollback reads the row of  *)
(* its change and then holds SQLite's write lock up to its commit.         *)
(*                                                                         *)
(* A content is named by who wrote it: the update, the edit, or nobody.    *)
(* Validation of a content can always fail (the validator has a time-out); *)
(* it passes only for what the validator accepts.                          *)
(***************************************************************************)
EXTENDS Integers, FiniteSets

CONSTANTS
    Updates,        \* executions of config_safe_update, by change_id; each its own content
    Rollbacks,      \* executions of rollback_change
    Edits,          \* edits by the administrator, each its own content
    Original,       \* the content at the start
    Absent          \* no backup, no job

ASSUME ContentAssumption ==
    /\ Updates \cap Rollbacks = {} /\ Updates \cap Edits = {} /\ Rollbacks \cap Edits = {}
    /\ Original \notin Updates \cup Rollbacks \cup Edits
    /\ Absent \notin Updates \cup Rollbacks \cup Edits \cup {Original}

Jobs == Updates \cup Rollbacks
Contents == Updates \cup Edits \cup {Original}

Places == {"idle", "hashed", "copied", "valid", "replaced", "raised",
           "read", "entered", "succeeded", "failing", "ended", "dead"}

JobRecord == [pc : Places,
              hash : Contents \cup {Absent},            \* update: original_hash
              change : SUBSET Updates,                  \* rollback: the change it names
              status : SUBSET {"SUCCEEDED", "ROLLED_BACK"}]     \* rollback: of the copy it read

VARIABLES
    accepted,       \* contents the validator accepts
    target,         \* the file
    backup,         \* the backup root, by change
    row,            \* committed ExecutionRecord.status, by change
    lock,           \* holder of SQLite's write lock, or Absent
    job,
    edited,         \* history: edits done
    vetted,         \* history: contents that passed a validation before they were put in place
    disturbed       \* history: updates since whose hash somebody else wrote the file

vars == <<accepted, target, backup, row, lock, job, edited, vetted, disturbed>>

Init ==
    /\ accepted \in {S \in SUBSET Contents : Original \in S}
    /\ target = Original
    /\ backup = [u \in Updates |-> Absent]
    /\ row = [u \in Updates |-> "none"]
    /\ lock = Absent
    /\ job = [j \in Jobs |-> [pc |-> "idle", hash |-> Absent, change |-> {}, status |-> {}]]
    /\ edited = {} /\ vetted = {} /\ disturbed = {}

Move(j, from, to) == job[j].pc = from /\ job' = [job EXCEPT ![j].pc = to]

\* FixedConfigValidator.validate
Validates(content, verdict) == verdict => content \in accepted

\* os.replace by a job on behalf of the changes "own".
Write(content, own) ==
    /\ target' = content
    /\ disturbed' = disturbed \cup {u \in Updates \ own : job[u].pc # "idle"}

Edit(e) ==
    /\ e \notin edited
    /\ edited' = edited \cup {e}
    /\ Write(e, {})
    /\ UNCHANGED <<accepted, backup, row, lock, job, vetted>>

-----------------------------------------------------------------------------
(* config_safe_update *)

Hash(u) ==
    /\ job[u].pc = "idle"
    /\ job' = [job EXCEPT ![u].pc = "hashed", ![u].hash = target]
    /\ UNCHANGED <<accepted, target, backup, row, lock, edited, vetted, disturbed>>

Copy(u) ==
    /\ Move(u, "hashed", "copied")
    /\ backup' = [backup EXCEPT ![u] = target]
    /\ UNCHANGED <<accepted, target, row, lock, edited, vetted, disturbed>>

\* Mutant: the backup is verified, the candidate is not validated before the replace.
ValidateCandidate_Later(u) ==
    /\ Move(u, "copied", IF backup[u] = job[u].hash THEN "valid" ELSE "raised")
    /\ UNCHANGED <<accepted, target, backup, row, lock, edited, vetted, disturbed>>

\* BACKUP_VERIFICATION_FAILED, CONFIG_VALIDATION_FAILED, or on.
ValidateCandidate(u) == \E verdict \in BOOLEAN :
    /\ Validates(u, verdict)
    /\ Move(u, "copied", IF backup[u] = job[u].hash /\ verdict THEN "valid" ELSE "raised")
    /\ vetted' = IF backup[u] = job[u].hash /\ verdict THEN vetted \cup {u} ELSE vetted
    /\ UNCHANGED <<accepted, target, backup, row, lock, edited, disturbed>>

Replace(u) ==
    /\ Move(u, "valid", "replaced")
    /\ Write(u, {u})
    /\ UNCHANGED <<accepted, backup, row, lock, edited, vetted>>

\* The validator runs on the file, whoever wrote it.
ValidateTarget(u) == \E verdict \in BOOLEAN :
    /\ Validates(target, verdict)
    /\ Move(u, "replaced", IF verdict THEN "succeeded" ELSE "raised")
    /\ UNCHANGED <<accepted, target, backup, row, lock, edited, vetted, disturbed>>

\* Mutant: the handler believes that nothing was replaced.
Handler_LeavesTarget(u) ==
    /\ Move(u, "raised", "failing")
    /\ UNCHANGED <<accepted, target, backup, row, lock, edited, vetted, disturbed>>

\* except Exception: the verified backup goes back, whether or not anything was replaced.
Handler(u) ==
    /\ Move(u, "raised", "failing")
    /\ IF backup[u] = job[u].hash THEN Write(backup[u], {u}) ELSE UNCHANGED <<target, disturbed>>
    /\ UNCHANGED <<accepted, backup, row, lock, edited, vetted>>

-----------------------------------------------------------------------------
(* rollback_change *)

\* db.get(ExecutionRecord, change_id), before anything locks.
ReadChange(r) == \E u \in Updates :
    /\ job[r].pc = "idle"
    /\ row[u] \in {"SUCCEEDED", "ROLLED_BACK"}
    /\ job' = [job EXCEPT ![r].pc = "read", ![r].change = {u}, ![r].status = {row[u]}]
    /\ UNCHANGED <<accepted, target, backup, row, lock, edited, vetted, disturbed>>

\* The SELECT of the backup flushes the approval: the write lock is taken.
Enter(r) ==
    /\ lock = Absent
    /\ lock' = r
    /\ Move(r, "read", IF job[r].status = {"SUCCEEDED"} THEN "entered" ELSE "failing")
    /\ UNCHANGED <<accepted, target, backup, row, edited, vetted, disturbed>>

ValidateBackup(r) == \E u \in job[r].change, verdict \in BOOLEAN :
    /\ Validates(backup[u], verdict)
    /\ Move(r, "entered", IF verdict THEN "valid" ELSE "failing")
    /\ vetted' = IF verdict THEN vetted \cup {backup[u]} ELSE vetted
    /\ UNCHANGED <<accepted, target, backup, row, lock, edited, disturbed>>

PutBack(r) == \E u \in job[r].change :
    /\ Move(r, "valid", "replaced")
    /\ Write(backup[u], {u})
    /\ UNCHANGED <<accepted, backup, row, lock, edited, vetted>>

\* ROLLBACK_POSTCONDITION_FAILED leaves the file as it is now.
ValidateRestored(r) == \E verdict \in BOOLEAN :
    /\ Validates(target, verdict)
    /\ Move(r, "replaced", IF verdict THEN "succeeded" ELSE "failing")
    /\ UNCHANGED <<accepted, target, backup, row, lock, edited, vetted, disturbed>>

-----------------------------------------------------------------------------
(* The commit and the ways to miss it. *)

Free(j) == lock \in {j, Absent}
Release(j) == lock' = IF lock = j THEN Absent ELSE lock

RecordUpdate(u) ==
    /\ Free(u) /\ Release(u)
    /\ \/ Move(u, "succeeded", "ended") /\ row' = [row EXCEPT ![u] = "SUCCEEDED"]
       \/ Move(u, "failing", "ended") /\ row' = [row EXCEPT ![u] = "FAILED"]
    /\ UNCHANGED <<accepted, target, backup, edited, vetted, disturbed>>

RecordRollback(r) == \E u \in job[r].change :
    /\ Free(r) /\ Release(r)
    /\ Move(r, "succeeded", "ended")
    /\ row' = [row EXCEPT ![u] = "ROLLED_BACK"]
    /\ UNCHANGED <<accepted, target, backup, edited, vetted, disturbed>>

\* The FAILED row of a rollback is not a row of its change.
FailRollback(r) ==
    /\ Free(r) /\ Release(r)
    /\ Move(r, "failing", "ended")
    /\ UNCHANGED <<accepted, target, backup, row, edited, vetted, disturbed>>

\* Mutant: the lock of a process that died stays.
Die_Locked(j) ==
    /\ job[j].pc \notin {"idle", "ended", "dead"}
    /\ job' = [job EXCEPT ![j].pc = "dead"]
    /\ UNCHANGED <<accepted, target, backup, row, lock, edited, vetted, disturbed>>

\* The API process is killed.
Die(j) ==
    /\ job[j].pc \notin {"idle", "ended", "dead"}
    /\ job' = [job EXCEPT ![j].pc = "dead"]
    /\ Release(j)
    /\ UNCHANGED <<accepted, target, backup, row, edited, vetted, disturbed>>

Next ==
    \/ \E e \in Edits : Edit(e)
    \/ \E u \in Updates :
        \/ Hash(u) \/ Copy(u) \/ ValidateCandidate(u) \/ Replace(u) \/ ValidateTarget(u)
        \/ Handler(u) \/ RecordUpdate(u)
    \/ \E r \in Rollbacks :
        \/ ReadChange(r) \/ Enter(r) \/ ValidateBackup(r) \/ PutBack(r) \/ ValidateRestored(r)
        \/ RecordRollback(r) \/ FailRollback(r)
    \/ \E j \in Jobs : Die(j)

Spec == Init /\ [][Next]_vars

-----------------------------------------------------------------------------
\* Every variable keeps its type, and the lock is held by a rollback that is under way.
TypeOK ==
    /\ accepted \subseteq Contents
    /\ target \in Contents
    /\ backup \in [Updates -> Contents \cup {Absent}]
    /\ row \in [Updates -> {"none", "SUCCEEDED", "FAILED", "ROLLED_BACK"}]
    /\ lock \in Rollbacks \cup {Absent}
    /\ job \in [Jobs -> JobRecord]
    /\ edited \subseteq Edits
    /\ vetted \subseteq Contents /\ disturbed \subseteq Updates
    /\ lock # Absent => job[lock].pc \notin {"idle", "read", "ended", "dead"}

\* A content of an update is in the file, or in a backup from where a handler or a rollback may
\* put it there, only if the validator accepted it before: whatever updates back up each other's
\* unfinished work, fail, and restore it (config_update.py:105-124, 155-161).
OnlyVettedContent ==
    \A content \in Updates :
        content = target \/ (\E u \in Updates : backup[u] = content) =>
            content \in vetted /\ content \in accepted

\* An update nobody disturbed since it hashed the file is all or nothing, also when it fails after
\* the replace and when it is rolled back, several times or half (config_update.py:103-124,
\* 154-161; router.py:1527).
UndisturbedIsAtomic == \A u \in Updates \ disturbed :
    /\ row[u] = "FAILED" => target = job[u].hash
    /\ row[u] = "ROLLED_BACK" => target = job[u].hash
    /\ row[u] = "SUCCEEDED" => target \in {u, job[u].hash}
    /\ row[u] = "SUCCEEDED" /\ target # u => \E r \in Rollbacks : job[r].change = {u}

=============================================================================
