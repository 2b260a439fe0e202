---------------------------- MODULE CleanupFiles ----------------------------
(***************************************************************************)
(* Cleaning one log file and rolling the cleaning back, file operation by  *)
(* file operation: ControlledCleanupExecutor (executor/production.py) and  *)
(* the root helper (deploy/kylin_guard_privileged.py).                     *)
(*                                                                         *)
(* The program that owns the file writes, rotates and recreates it at any  *)
(* time.  A job of the local path holds SQLite's write lock from the       *)
(* statement that flushes its consumed approval to its commit ("locked"),  *)
(* unless the broker was to do the work and its socket then disappeared    *)
(* ("unlocked").  The daemon starts one helper at a time ("helper").       *)
(*                                                                         *)
(* A file is the set of the writes it holds.  Its identity, the inode and  *)
(* the time of the last write, is what a candidate's snapshot_hash fixes.  *)
(***************************************************************************)
EXTENDS Integers, FiniteSets

CONSTANTS
    Cleanups,       \* executions of safe_log_cleanup, by change_id
    Rollbacks,      \* executions of rollback_change
    Nobody,         \* no job
    MaxWrites       \* bound: writes of the owner

ASSUME JobAssumption ==
    /\ Cleanups \cap Rollbacks = {}
    /\ Nobody \notin Cleanups \cup Rollbacks
    /\ MaxWrites \in Nat \ {0}

Jobs == Cleanups \cup Rollbacks

Modes == {"locked", "unlocked", "helper"}

FileRecord == [there : BOOLEAN, inode : Nat, mtime : Nat, data : SUBSET Nat]
ArchiveRecord == [there : BOOLEAN, data : SUBSET Nat]

\* Progress of a job; a cleaning goes through the first line, a rollback the second.
Places == {"idle", "scanned", "entered", "checked", "digested", "copied", "verified", "unlinked",
           "read", "writing", "raised", "restoring",
           "succeeded", "failing", "ended", "dead"}

JobRecord == [pc : Places, mode : Modes,
              inode : Nat, mtime : Nat,         \* the candidate's identity
              digest : SUBSET Nat,              \* source_digest
              change : SUBSET Cleanups,         \* rollback: the change it names
              status : SUBSET {"SUCCEEDED", "ROLLED_BACK"}]     \* rollback: of rollback_source

VARIABLES
    file,           \* what is at the path
    clock,          \* number of changes at the path; dates them
    archive,        \* the backup root, by change
    row,            \* committed ExecutionRecord.status, by change
    lock,           \* holder of SQLite's write lock
    helper,         \* job the daemon's helper works for
    job,
    owned,          \* history: writes the owner moved elsewhere
    written,        \* history: number of writes of the owner
    late,           \* history: writes done while a job was past its last look at the file
    removed,        \* history: change -> what its unlink found: identity, writes, date
    restored        \* history: changes a rollback wrote back

files == <<file, clock, owned, written, late>>
vars == <<file, clock, archive, row, lock, helper, job, owned, written, late, removed, restored>>

NoFile == [there |-> FALSE, inode |-> 0, mtime |-> 0, data |-> {}]
Nothing == [there |-> FALSE, inode |-> 0, mtime |-> 0, data |-> {}, from |-> 0, at |-> 0]

Init ==
    /\ file = [there |-> TRUE, inode |-> 1, mtime |-> 1, data |-> {1}]
    /\ clock = 1 /\ written = 1
    /\ archive = [c \in Cleanups |-> [there |-> FALSE, data |-> {}]]
    /\ row = [c \in Cleanups |-> "none"]
    /\ lock = Nobody /\ helper = Nobody
    /\ job = [j \in Jobs |-> [pc |-> "idle", mode |-> "locked", inode |-> 0, mtime |-> 0,
                              digest |-> {}, change |-> {}, status |-> {}]]
    /\ owned = {} /\ late = {} /\ restored = {}
    /\ removed = [c \in Cleanups |-> Nothing]

Move(j, from, to) == job[j].pc = from /\ job' = [job EXCEPT ![j].pc = to]

\* The path gets new content, under a new inode or the one it has.
Put(inode, data) ==
    /\ clock' = clock + 1
    /\ file' = [there |-> TRUE, inode |-> inode, mtime |-> clock + 1, data |-> data]
    /\ UNCHANGED <<owned, written, late>>

Vanish ==
    /\ clock' = clock + 1
    /\ file' = NoFile
    /\ UNCHANGED <<owned, written, late>>

-----------------------------------------------------------------------------
(* The owner of the file. *)

PastLook(j) ==
    \/ job[j].pc \in {"copied", "verified", "restoring", "writing"}
    \/ j \in Rollbacks /\ job[j].pc = "checked"

OwnerWrites ==
    /\ written < MaxWrites
    /\ written' = written + 1
    /\ clock' = clock + 1
    /\ file' = [there |-> TRUE, inode |-> IF file.there THEN file.inode ELSE clock + 1,
                mtime |-> clock + 1, data |-> file.data \cup {written + 1}]
    /\ late' = IF \E j \in Jobs : PastLook(j) THEN late \cup {written + 1} ELSE late
    /\ UNCHANGED <<archive, row, lock, helper, job, owned, removed, restored>>

OwnerRotates ==
    /\ file.there
    /\ owned' = owned \cup file.data
    /\ clock' = clock + 1
    /\ file' = NoFile
    /\ UNCHANGED <<archive, row, lock, helper, job, written, late, removed, restored>>

-----------------------------------------------------------------------------
(* What local jobs and jobs of the helper share. *)

\* Mutant: the write lock is asked for and kept by every job.
Acquire_Always(j, mode) ==
    /\ mode = "helper" => helper = Nobody
    /\ lock' = j
    /\ helper' = IF mode = "helper" THEN j ELSE helper

\* The job gets what excludes others: the write lock, the helper, or nothing.
Acquire(j, mode) ==
    /\ mode = "locked" => lock = Nobody
    /\ mode = "helper" => helper = Nobody
    /\ lock' = IF mode = "locked" THEN j ELSE lock
    /\ helper' = IF mode = "helper" THEN j ELSE helper

Release(j) ==
    /\ lock' = IF lock = j THEN Nobody ELSE lock
    /\ helper' = IF helper = j THEN Nobody ELSE helper

\* The helper's exit is seen before the request commits.
HelperDone(j) ==
    /\ helper' = IF helper = j THEN Nobody ELSE helper
    /\ lock' = lock

-----------------------------------------------------------------------------
(* safe_log_cleanup *)

\* An earlier scan stored the file as a candidate.
Scan(c) ==
    /\ file.there
    /\ job[c].pc = "idle"
    /\ job' = [job EXCEPT ![c].pc = "scanned", ![c].inode = file.inode, ![c].mtime = file.mtime]
    /\ UNCHANGED <<files, archive, row, lock, helper, removed, restored>>

EnterCleanup(c) == \E mode \in Modes :
    /\ job[c].pc = "scanned"
    /\ Acquire(c, mode)
    /\ job' = [job EXCEPT ![c].pc = "entered", ![c].mode = mode]
    /\ UNCHANGED <<files, archive, row, removed, restored>>

\* Mutant: any file at the path will do.
Current_Always(c) == file.there

\* _require_current; in the helper the stat and _snapshot_hash.
Current(c) == file.there /\ file.inode = job[c].inode /\ file.mtime = job[c].mtime

Check(c) ==
    /\ Move(c, "entered", IF Current(c) THEN "checked" ELSE "failing")
    /\ removed' = [removed EXCEPT ![c].from = clock]
    /\ UNCHANGED <<files, archive, row, lock, helper, restored>>

\* A file that is gone is an OSError: outside the try of the local path.
Digest(c) ==
    /\ job[c].pc = "checked"
    /\ job' = [job EXCEPT ![c].pc = IF file.there THEN "digested" ELSE "failing",
                          ![c].digest = file.data]
    /\ UNCHANGED <<files, archive, row, lock, helper, removed, restored>>

Copy(c) ==
    /\ Move(c, "digested", IF file.there THEN "copied" ELSE "raised")
    /\ archive' = IF file.there THEN [archive EXCEPT ![c] = [there |-> TRUE, data |-> file.data]]
                  ELSE archive
    /\ UNCHANGED <<files, row, lock, helper, removed, restored>>

Verify(c) ==
    /\ Move(c, "copied", IF archive[c].data = job[c].digest THEN "verified" ELSE "raised")
    /\ UNCHANGED <<files, archive, row, lock, helper, removed, restored>>

Unlink(c) ==
    /\ Move(c, "verified", IF file.there THEN "unlinked" ELSE "raised")
    /\ IF file.there
       THEN /\ Vanish
            /\ removed' = [removed EXCEPT ![c] = [there |-> TRUE, inode |-> file.inode,
                    mtime |-> file.mtime, data |-> file.data, from |-> @.from, at |-> clock]]
       ELSE UNCHANGED <<files, removed>>
    /\ UNCHANGED <<archive, row, lock, helper, restored>>

\* target.exists() after the unlink: somebody recreated it.
Postcondition(c) ==
    /\ Move(c, "unlinked", IF file.there THEN "raised" ELSE "succeeded")
    /\ IF file.there THEN UNCHANGED <<lock, helper>> ELSE HelperDone(c)
    /\ UNCHANGED <<files, archive, row, removed, restored>>

\* except Exception, on the local path alone: restore if the file is gone and archived.
Handler(c) ==
    /\ Move(c, "raised", IF job[c].mode # "helper" /\ archive[c].there /\ ~file.there
                         THEN "restoring" ELSE "failing")
    /\ UNCHANGED <<files, archive, row, lock, helper, removed, restored>>

\* _restore: a temporary file replaces the path, whatever is there by now.
HandlerRestores(c) ==
    /\ Move(c, "restoring", "failing")
    /\ Put(clock + 1, archive[c].data)
    /\ UNCHANGED <<archive, row, lock, helper, removed, restored>>

\* Execution and backup rows, one commit.
RecordCleanup(c) ==
    /\ Move(c, "succeeded", "ended")
    /\ job[c].mode # "locked" => lock = Nobody
    /\ row' = [row EXCEPT ![c] = "SUCCEEDED"]
    /\ Release(c)
    /\ UNCHANGED <<files, archive, removed, restored>>

-----------------------------------------------------------------------------
(* rollback_change *)

\* db.get(ExecutionRecord, change_id), before anything locks.
ReadChange(r) == \E c \in Cleanups :
    /\ row[c] # "none"
    /\ job[r].pc = "idle"
    /\ job' = [job EXCEPT ![r].pc = "read", ![r].change = {c}, ![r].status = {row[c]}]
    /\ UNCHANGED <<files, archive, row, lock, helper, removed, restored>>

\* The router checks the copy it read; the broker reads the row again.
EnterRollback(r) == \E mode \in Modes, c \in job[r].change :
    /\ job[r].pc = "read"
    /\ Acquire(r, mode)
    /\ job' = [job EXCEPT ![r].mode = mode,
            ![r].pc = IF /\ job[r].status = {"SUCCEEDED"}
                         /\ mode = "helper" => row[c] = "SUCCEEDED"
                      THEN "entered" ELSE "failing"]
    /\ UNCHANGED <<files, archive, row, removed, restored>>

\* Mutant: the restore goes over a file that is there.
CheckAbsent_Not(r) ==
    /\ Move(r, "entered", "checked")
    /\ UNCHANGED <<files, archive, row, lock, helper, removed, restored>>

\* ROLLBACK_TARGET_EXISTS
CheckAbsent(r) ==
    /\ Move(r, "entered", IF file.there THEN "failing" ELSE "checked")
    /\ UNCHANGED <<files, archive, row, lock, helper, removed, restored>>

\* Local: one replace.
Restore(r) == \E c \in job[r].change :
    /\ job[r].mode # "helper"
    /\ Move(r, "checked", "succeeded")
    /\ Put(clock + 1, archive[c].data)
    /\ restored' = restored \cup {c}
    /\ UNCHANGED <<archive, row, lock, helper, removed>>

\* Helper: open("wb") truncates or creates, then the bytes follow.
Truncate(r) ==
    /\ job[r].mode = "helper" /\ job[r].pc = "checked"
    /\ Put(IF file.there THEN file.inode ELSE clock + 1, {})
    /\ job' = [job EXCEPT ![r].pc = "writing", ![r].inode = file'.inode]
    /\ UNCHANGED <<archive, row, lock, helper, removed, restored>>

\* The bytes go to the inode that was opened, over what the owner wrote to it since;
\* is_file then looks at the path.
WriteOut(r) == \E c \in job[r].change :
    /\ Move(r, "writing", IF file.there THEN "succeeded" ELSE "failing")
    /\ IF file.there /\ file.inode = job[r].inode
       THEN \E kept \in SUBSET file.data : Put(file.inode, archive[c].data \cup kept)
       ELSE UNCHANGED files
    /\ restored' = restored \cup {c}
    /\ HelperDone(r)
    /\ UNCHANGED <<archive, row, removed>>

\* Mutant: the status does not wait for the outcome.
RecordRollback_Anyway(r) == \E c \in job[r].change :
    /\ job[r].pc \in {"succeeded", "failing"}
    /\ job' = [job EXCEPT ![r].pc = "ended"]
    /\ row' = [row EXCEPT ![c] = "ROLLED_BACK"]
    /\ Release(r)
    /\ UNCHANGED <<files, archive, removed, restored>>

RecordRollback(r) == \E c \in job[r].change :
    /\ Move(r, "succeeded", "ended")
    /\ job[r].mode # "locked" => lock = Nobody
    /\ row' = [row EXCEPT ![c] = "ROLLED_BACK"]
    /\ Release(r)
    /\ UNCHANGED <<files, archive, removed, restored>>

-----------------------------------------------------------------------------
\* The request fails; its own FAILED row is no row of a change.
Fail(j) ==
    /\ Move(j, "failing", "ended")
    /\ Release(j)
    /\ UNCHANGED <<files, archive, row, removed, restored>>

\* The process of the job, API or helper, is killed.
Die(j) ==
    /\ job[j].pc \notin {"idle", "ended", "dead"}
    /\ job' = [job EXCEPT ![j].pc = "dead"]
    /\ Release(j)
    /\ UNCHANGED <<files, archive, row, removed, restored>>

Next ==
    \/ OwnerWrites \/ OwnerRotates
    \/ \E c \in Cleanups :
        \/ Scan(c) \/ EnterCleanup(c) \/ Check(c) \/ Digest(c) \/ Copy(c) \/ Verify(c)
        \/ Unlink(c) \/ Postcondition(c) \/ Handler(c) \/ HandlerRestores(c) \/ RecordCleanup(c)
    \/ \E r \in Rollbacks :
        \/ ReadChange(r) \/ EnterRollback(r) \/ CheckAbsent(r) \/ Restore(r)
        \/ Truncate(r) \/ WriteOut(r) \/ RecordRollback(r)
    \/ \E j \in Jobs : Fail(j) \/ Die(j)

Spec == Init /\ [][Next]_vars

-----------------------------------------------------------------------------
\* Every variable keeps its type, and lock and helper are held by jobs of their mode.
TypeOK ==
    /\ file \in FileRecord
    /\ clock \in Nat /\ written \in Nat
    /\ archive \in [Cleanups -> ArchiveRecord]
    /\ row \in [Cleanups -> {"none", "SUCCEEDED", "ROLLED_BACK"}]
    /\ lock \in Jobs \cup {Nobody} /\ helper \in Jobs \cup {Nobody}
    /\ job \in [Jobs -> JobRecord]
    /\ owned \subseteq Nat /\ late \subseteq Nat
    /\ removed \in [Cleanups -> [there : BOOLEAN, inode : Nat, mtime : Nat, data : SUBSET Nat,
                                 from : Nat, at : Nat]]
    /\ restored \subseteq Cleanups
    /\ lock # Nobody => job[lock].mode = "locked"
    /\ helper # Nobody => job[helper].mode = "helper"

\* What the owner wrote is at the path, in an archive or where the owner moved it, unless it was
\* written while some job had looked at the file for the last time and was about to remove or to
\* replace it.  No order of cleanings, rollbacks, restores by the exception handler, the helper's
\* write in place and deaths loses an older write (production.py:94-104, 188-194;
\* kylin_guard_privileged.py:128-136, 165-169).
OnlyLateWritesLost ==
    1..written \subseteq file.data \cup owned \cup late \cup UNION {archive[c].data : c \in Cleanups}

\* The committed status of a change is true of the files: SUCCEEDED, and its archive holds what
\* the unlink removed but for late writes and what other archives hold; ROLLED_BACK, and some
\* rollback wrote the archive back (router.py:1527, 1594-1613).
RowsTellTruth == \A c \in Cleanups :
    /\ row[c] # "none" => /\ removed[c].there /\ archive[c].there
                          /\ removed[c].data \subseteq
                                late \cup UNION {archive[d].data : d \in Cleanups}
    /\ row[c] = "ROLLED_BACK" => c \in restored

\* A cleaning removes the very file that was scanned and approved, unless the path changed
\* between its check and its unlink: rotation, append, restore or another cleaning
\* (production.py:88-98, kylin_guard_privileged.py:120-134).
RemovedAsApproved == \A c \in Cleanups :
    removed[c].there /\ removed[c].at = removed[c].from =>
        removed[c].inode = job[c].inode /\ removed[c].mtime = job[c].mtime

=============================================================================
