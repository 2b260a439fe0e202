------------------------ MODULE CleanupFiles_proofs ------------------------
(***************************************************************************)
(* What holds of the files for every set of cleanings and rollbacks and    *)
(* every number of writes.  From the moment a cleaning has copied the file *)
(* or a rollback has found its path empty, whatever is at the path is      *)
(* archived or was written late: that is what makes the removals and the   *)
(* replacements that follow harmless, and what the three properties of the *)
(* component are strengthened with.                                        *)
(***************************************************************************)
EXTENDS CleanupFiles, TLAPS

Archived == UNION {archive[c].data : c \in Cleanups}

\* What may leave the path without being lost.
Spare == late \cup Archived

Waiting == {"idle", "scanned", "read"}
Unarchived == {"idle", "scanned", "entered", "checked", "digested"}
Ahead == {"checked", "digested", "copied", "verified"}

\* A holder of the write lock or of the helper has entered.
HoldersEntered == \A j \in Jobs : lock = j \/ helper = j => job[j].pc \notin Waiting

FilesTyped == TypeOK /\ HoldersEntered

\* Nothing is where there is no file, and a job archives once.
NothingElsewhere ==
    /\ ~file.there => file.data = {}
    /\ \A c \in Cleanups : ~archive[c].there => archive[c].data = {}
    /\ \A c \in Cleanups : job[c].pc \in Unarchived => ~archive[c].there

\* Past the last look of some job, the path holds nothing that would be missed.
PathIsSpare == (\E j \in Jobs : PastLook(j)) => file.data \subseteq Spare

NothingLost == 1..written \subseteq file.data \cup owned \cup Spare

\* What an unlink found is spare, and it found it once the archive was there.
RemovedIsSpare == \A c \in Cleanups :
    /\ removed[c].there => removed[c].data \subseteq Spare
    /\ job[c].pc \in {"copied", "verified", "unlinked", "succeeded"} \/ row[c] # "none"
            => archive[c].there
    /\ job[c].pc \in {"unlinked", "succeeded"} \/ row[c] # "none" => removed[c].there

\* A rollback names one committed change, and its success follows its restore.
RollbacksRestore ==
    /\ \A r \in Rollbacks : /\ \A c, d \in job[r].change : c = d
                            /\ job[r].change \subseteq {c \in Cleanups : row[c] # "none"}
                            /\ job[r].pc = "succeeded" => job[r].change \subseteq restored
    /\ \A c \in Cleanups : row[c] = "ROLLED_BACK" => c \in restored

\* Between the check and the unlink, a path that has not changed holds the candidate.
CheckedStands == \A c \in Cleanups :
    /\ job[c].pc \in Ahead \cup {"idle", "scanned", "entered"} => ~removed[c].there
    /\ removed[c].from <= clock
    /\ job[c].pc \in Ahead /\ removed[c].from = clock => Current(c)

FilesInv ==
    /\ FilesTyped /\ NothingElsewhere /\ PathIsSpare /\ NothingLost
    /\ RemovedIsSpare /\ RollbacksRestore /\ CheckedStands /\ RemovedAsApproved

-----------------------------------------------------------------------------
(* Every job keeps its shape. *)

LEMMA PlacesAre ==
    /\ {"idle", "scanned", "entered", "checked", "digested", "copied", "verified", "unlinked"}
            \subseteq Places
    /\ {"read", "writing", "raised", "restoring", "succeeded", "failing", "ended", "dead"}
            \subseteq Places
  BY DEF Places

\* One lemma per kind of update; the place a job is at changes with each.
LEMMA MovesTyped ==
    ASSUME job \in [Jobs -> JobRecord], NEW j \in Jobs, NEW p \in Places
    PROVE  [job EXCEPT ![j].pc = p] \in [Jobs -> JobRecord]
  BY DEF JobRecord

LEMMA ModeTyped ==
    ASSUME job \in [Jobs -> JobRecord], NEW j \in Jobs, NEW p \in Places, NEW m \in Modes
    PROVE  /\ [job EXCEPT ![j].pc = p, ![j].mode = m] \in [Jobs -> JobRecord]
           /\ [job EXCEPT ![j].mode = m, ![j].pc = p] \in [Jobs -> JobRecord]
<1>1. [job EXCEPT ![j].pc = p, ![j].mode = m] \in [Jobs -> JobRecord]
  BY DEF JobRecord
<1>2. [job EXCEPT ![j].mode = m, ![j].pc = p] \in [Jobs -> JobRecord]
  BY DEF JobRecord
<1> QED
  BY <1>1, <1>2

LEMMA InodeTyped ==
    ASSUME job \in [Jobs -> JobRecord], NEW j \in Jobs, NEW p \in Places, NEW n \in Nat
    PROVE  [job EXCEPT ![j].pc = p, ![j].inode = n] \in [Jobs -> JobRecord]
  BY DEF JobRecord

LEMMA SeenTyped ==
    ASSUME job \in [Jobs -> JobRecord], NEW j \in Jobs, NEW p \in Places, NEW n \in Nat, NEW t \in Nat
    PROVE  [job EXCEPT ![j].pc = p, ![j].inode = n, ![j].mtime = t] \in [Jobs -> JobRecord]
  BY DEF JobRecord

LEMMA DigestTyped ==
    ASSUME job \in [Jobs -> JobRecord], NEW j \in Jobs, NEW p \in Places, NEW d \in SUBSET Nat
    PROVE  [job EXCEPT ![j].pc = p, ![j].digest = d] \in [Jobs -> JobRecord]
  BY DEF JobRecord

LEMMA ChangeTyped ==
    ASSUME job \in [Jobs -> JobRecord], NEW j \in Jobs, NEW p \in Places,
           NEW c \in SUBSET Cleanups, NEW t \in SUBSET {"SUCCEEDED", "ROLLED_BACK"}
    PROVE  [job EXCEPT ![j].pc = p, ![j].change = c, ![j].status = t] \in [Jobs -> JobRecord]
  BY DEF JobRecord

LEMMA JobsTyped == TypeOK /\ [Next]_vars => job' \in [Jobs -> JobRecord]
<1> SUFFICES ASSUME TypeOK, [Next]_vars
             PROVE  job' \in [Jobs -> JobRecord]
  OBVIOUS
<1>t. job \in [Jobs -> JobRecord]
  BY DEF TypeOK
<1>1. CASE OwnerWrites
  BY <1>1, <1>t, PlacesAre, MovesTyped DEF OwnerWrites, Jobs
<1>2. CASE OwnerRotates
  BY <1>2, <1>t, PlacesAre, MovesTyped DEF OwnerRotates, Jobs
<1>3. ASSUME NEW c \in Cleanups, Scan(c) PROVE job' \in [Jobs -> JobRecord]
  <2>1. file.inode \in Nat /\ file.mtime \in Nat
    BY DEF TypeOK, FileRecord
  <2>2. job' = [job EXCEPT ![c].pc = "scanned", ![c].inode = file.inode, ![c].mtime = file.mtime]
    BY <1>3 DEF Scan
  <2>3. QED
    BY <1>t, <2>1, <2>2, PlacesAre, SeenTyped DEF Jobs
<1>4. ASSUME NEW c \in Cleanups, EnterCleanup(c) PROVE job' \in [Jobs -> JobRecord]
  <2>1. PICK m \in Modes : job' = [job EXCEPT ![c].pc = "entered", ![c].mode = m]
    BY <1>4 DEF EnterCleanup
  <2>2. QED
    BY <1>t, <2>1, PlacesAre, ModeTyped DEF Jobs
<1>5. ASSUME NEW c \in Cleanups, Check(c) PROVE job' \in [Jobs -> JobRecord]
  BY <1>5, <1>t, PlacesAre, MovesTyped DEF Check, Move, Current, Jobs
<1>6. ASSUME NEW c \in Cleanups, Digest(c) PROVE job' \in [Jobs -> JobRecord]
  <2>1. file.data \in SUBSET Nat
    BY DEF TypeOK, FileRecord
  <2>2. PICK p \in {"digested", "failing"} :
            job' = [job EXCEPT ![c].pc = p, ![c].digest = file.data]
    BY <1>6 DEF Digest
  <2>3. QED
    BY <1>t, <2>1, <2>2, PlacesAre, DigestTyped DEF Jobs
<1>7. ASSUME NEW c \in Cleanups, Copy(c) PROVE job' \in [Jobs -> JobRecord]
  BY <1>7, <1>t, PlacesAre, MovesTyped DEF Copy, Move, Jobs
<1>8. ASSUME NEW c \in Cleanups, Verify(c) PROVE job' \in [Jobs -> JobRecord]
  BY <1>8, <1>t, PlacesAre, MovesTyped DEF Verify, Move, Jobs
<1>9. ASSUME NEW c \in Cleanups, Unlink(c) PROVE job' \in [Jobs -> JobRecord]
  BY <1>9, <1>t, PlacesAre, MovesTyped DEF Unlink, Move, Vanish, Jobs
<1>10. ASSUME NEW c \in Cleanups, Postcondition(c) PROVE job' \in [Jobs -> JobRecord]
  BY <1>10, <1>t, PlacesAre, MovesTyped DEF Postcondition, Move, HelperDone, Jobs
<1>11. ASSUME NEW c \in Cleanups, Handler(c) PROVE job' \in [Jobs -> JobRecord]
  BY <1>11, <1>t, PlacesAre, MovesTyped DEF Handler, Move, Jobs
<1>12. ASSUME NEW c \in Cleanups, HandlerRestores(c) PROVE job' \in [Jobs -> JobRecord]
  BY <1>12, <1>t, PlacesAre, MovesTyped DEF HandlerRestores, Move, Put, Jobs
<1>13. ASSUME NEW c \in Cleanups, RecordCleanup(c) PROVE job' \in [Jobs -> JobRecord]
  BY <1>13, <1>t, PlacesAre, MovesTyped DEF RecordCleanup, Move, Release, Jobs
<1>14. ASSUME NEW r \in Rollbacks, ReadChange(r) PROVE job' \in [Jobs -> JobRecord]
  <2>1. PICK c \in Cleanups : /\ row[c] # "none"
                              /\ job' = [job EXCEPT ![r].pc = "read", ![r].change = {c},
                                                    ![r].status = {row[c]}]
    BY <1>14 DEF ReadChange
  <2>2. {row[c]} \in SUBSET {"SUCCEEDED", "ROLLED_BACK"} /\ {c} \in SUBSET Cleanups
    BY <2>1 DEF TypeOK
  <2>3. QED
    BY <1>t, <2>1, <2>2, PlacesAre, ChangeTyped DEF Jobs
<1>15. ASSUME NEW r \in Rollbacks, EnterRollback(r) PROVE job' \in [Jobs -> JobRecord]
  <2>1. PICK m \in Modes, p \in {"entered", "failing"} :
            job' = [job EXCEPT ![r].mode = m, ![r].pc = p]
    BY <1>15 DEF EnterRollback
  <2>2. QED
    BY <1>t, <2>1, PlacesAre, ModeTyped DEF Jobs
<1>16. ASSUME NEW r \in Rollbacks, CheckAbsent(r) PROVE job' \in [Jobs -> JobRecord]
  BY <1>16, <1>t, PlacesAre, MovesTyped DEF CheckAbsent, Move, Jobs
<1>17. ASSUME NEW r \in Rollbacks, Restore(r) PROVE job' \in [Jobs -> JobRecord]
  <2>1. job' = [job EXCEPT ![r].pc = "succeeded"]
    BY <1>17 DEF Restore, Move
  <2>2. QED
    BY <1>t, <2>1, PlacesAre, MovesTyped DEF Jobs
<1>18. ASSUME NEW r \in Rollbacks, Truncate(r) PROVE job' \in [Jobs -> JobRecord]
  <2>1. file'.inode \in Nat
    BY <1>18 DEF TypeOK, Truncate, Put, FileRecord
  <2>2. QED
    BY <1>t, <1>18, <2>1, PlacesAre, InodeTyped DEF Truncate, Jobs
<1>19. ASSUME NEW r \in Rollbacks, WriteOut(r) PROVE job' \in [Jobs -> JobRecord]
  <2>1. PICK p \in {"succeeded", "failing"} : job' = [job EXCEPT ![r].pc = p]
    BY <1>19 DEF WriteOut, Move
  <2>2. QED
    BY <1>t, <2>1, PlacesAre, MovesTyped DEF Jobs
<1>20. ASSUME NEW r \in Rollbacks, RecordRollback(r) PROVE job' \in [Jobs -> JobRecord]
  <2>1. job' = [job EXCEPT ![r].pc = "ended"]
    BY <1>20 DEF RecordRollback, Move
  <2>2. QED
    BY <1>t, <2>1, PlacesAre, MovesTyped DEF Jobs
<1>21. ASSUME NEW j \in Jobs, Fail(j) PROVE job' \in [Jobs -> JobRecord]
  BY <1>21, <1>t, PlacesAre, MovesTyped DEF Fail, Move, Release, Jobs
<1>22. ASSUME NEW j \in Jobs, Die(j) PROVE job' \in [Jobs -> JobRecord]
  BY <1>22, <1>t, PlacesAre, MovesTyped DEF Die, Release, Jobs
<1>23. CASE UNCHANGED vars
  BY <1>23, <1>t, PlacesAre, MovesTyped DEF vars, files, Jobs
<1>24. QED
  BY <1>1, <1>2, <1>3, <1>4, <1>5, <1>6, <1>7, <1>8, <1>9, <1>10, <1>11, <1>12, <1>13, <1>14,
     <1>15, <1>16, <1>17, <1>18, <1>19, <1>20, <1>21, <1>22, <1>23
     DEF Next

RemovedRecord == [there : BOOLEAN, inode : Nat, mtime : Nat, data : SUBSET Nat,
                  from : Nat, at : Nat]

PathTyped ==
    /\ file \in FileRecord /\ clock \in Nat /\ written \in Nat
    /\ owned \subseteq Nat /\ late \subseteq Nat

RestTyped ==
    /\ archive \in [Cleanups -> ArchiveRecord]
    /\ row \in [Cleanups -> {"none", "SUCCEEDED", "ROLLED_BACK"}]
    /\ removed \in [Cleanups -> RemovedRecord]
    /\ restored \subseteq Cleanups

LEMMA PathTypedStep == TypeOK /\ [Next]_vars => PathTyped'
<1> SUFFICES ASSUME TypeOK, [Next]_vars
             PROVE  PathTyped'
  OBVIOUS
<1>t. PathTyped
  BY DEF TypeOK, PathTyped
<1>1. CASE OwnerWrites
  BY <1>1, <1>t
     DEF OwnerWrites, PathTyped, TypeOK, FileRecord, ArchiveRecord, JobRecord, Jobs, files
<1>2. CASE OwnerRotates
  <2>1. NoFile \in FileRecord
    BY DEF NoFile, FileRecord
  <2>2. file.data \in SUBSET Nat
    BY <1>t DEF PathTyped, FileRecord
  <2>3. file' = NoFile /\ clock' = clock + 1 /\ owned' = owned \cup file.data
        /\ UNCHANGED <<written, late>>
    BY <1>2 DEF OwnerRotates
  <2>4. file' \in FileRecord
    BY <2>1, <2>3
  <2>5. clock' \in Nat /\ written' \in Nat /\ late' \subseteq Nat
    BY <1>t, <2>3 DEF PathTyped
  <2>6. owned' \subseteq Nat
    BY <1>t, <2>2, <2>3 DEF PathTyped
  <2>7. QED
    BY <2>4, <2>5, <2>6 DEF PathTyped
<1>3. ASSUME NEW c \in Cleanups, Scan(c) PROVE PathTyped'
  BY <1>3, <1>t DEF Scan, PathTyped, TypeOK, FileRecord, ArchiveRecord, JobRecord, Jobs, files
<1>4. ASSUME NEW c \in Cleanups, EnterCleanup(c) PROVE PathTyped'
  BY <1>4, <1>t
     DEF EnterCleanup, Acquire, PathTyped, TypeOK, FileRecord, ArchiveRecord, JobRecord, Jobs,
         files
<1>5. ASSUME NEW c \in Cleanups, Check(c) PROVE PathTyped'
  BY <1>5, <1>t
     DEF Check, Move, Current, PathTyped, TypeOK, FileRecord, ArchiveRecord, JobRecord, Jobs,
         files
<1>6. ASSUME NEW c \in Cleanups, Digest(c) PROVE PathTyped'
  BY <1>6, <1>t DEF Digest, PathTyped, TypeOK, FileRecord, ArchiveRecord, JobRecord, Jobs, files
<1>7. ASSUME NEW c \in Cleanups, Copy(c) PROVE PathTyped'
  BY <1>7, <1>t
     DEF Copy, Move, PathTyped, TypeOK, FileRecord, ArchiveRecord, JobRecord, Jobs, files
<1>8. ASSUME NEW c \in Cleanups, Verify(c) PROVE PathTyped'
  BY <1>8, <1>t
     DEF Verify, Move, PathTyped, TypeOK, FileRecord, ArchiveRecord, JobRecord, Jobs, files
<1>9. ASSUME NEW c \in Cleanups, Unlink(c) PROVE PathTyped'
  <2>1. NoFile \in FileRecord
    BY DEF NoFile, FileRecord
  <2>2. QED
    BY <1>t, <1>9, <2>1 DEF Unlink, Vanish, PathTyped, files
<1>10. ASSUME NEW c \in Cleanups, Postcondition(c) PROVE PathTyped'
  BY <1>10, <1>t
     DEF Postcondition, Move, HelperDone, PathTyped, TypeOK, FileRecord, ArchiveRecord, JobRecord,
         Jobs, files
<1>11. ASSUME NEW c \in Cleanups, Handler(c) PROVE PathTyped'
  BY <1>11, <1>t
     DEF Handler, Move, PathTyped, TypeOK, FileRecord, ArchiveRecord, JobRecord, Jobs, files
<1>12. ASSUME NEW c \in Cleanups, HandlerRestores(c) PROVE PathTyped'
  BY <1>12, <1>t
     DEF HandlerRestores, Move, Put, PathTyped, TypeOK, FileRecord, ArchiveRecord, JobRecord,
         Jobs, files
<1>13. ASSUME NEW c \in Cleanups, RecordCleanup(c) PROVE PathTyped'
  BY <1>13, <1>t
     DEF RecordCleanup, Move, Release, PathTyped, TypeOK, FileRecord, ArchiveRecord, JobRecord,
         Jobs, files
<1>14. ASSUME NEW r \in Rollbacks, ReadChange(r) PROVE PathTyped'
  BY <1>14, <1>t
     DEF ReadChange, PathTyped, TypeOK, FileRecord, ArchiveRecord, JobRecord, Jobs, files
<1>15. ASSUME NEW r \in Rollbacks, EnterRollback(r) PROVE PathTyped'
  BY <1>15, <1>t
     DEF EnterRollback, Acquire, PathTyped, TypeOK, FileRecord, ArchiveRecord, JobRecord, Jobs,
         files
<1>16. ASSUME NEW r \in Rollbacks, CheckAbsent(r) PROVE PathTyped'
  BY <1>16, <1>t
     DEF CheckAbsent, Move, PathTyped, TypeOK, FileRecord, ArchiveRecord, JobRecord, Jobs, files
<1>17. ASSUME NEW r \in Rollbacks, Restore(r) PROVE PathTyped'
  BY <1>17, <1>t
     DEF Restore, Move, Put, PathTyped, TypeOK, FileRecord, ArchiveRecord, JobRecord, Jobs, files
<1>18. ASSUME NEW r \in Rollbacks, Truncate(r) PROVE PathTyped'
  BY <1>18, <1>t
     DEF Truncate, Put, PathTyped, TypeOK, FileRecord, ArchiveRecord, JobRecord, Jobs, files
<1>19. ASSUME NEW r \in Rollbacks, WriteOut(r) PROVE PathTyped'
  <2>1. PICK c \in job[r].change :
            IF file.there /\ file.inode = job[r].inode
            THEN \E kept \in SUBSET file.data : Put(file.inode, archive[c].data \cup kept)
            ELSE UNCHANGED files
    BY <1>19 DEF WriteOut
  <2>2. CASE UNCHANGED files
    BY <1>t, <2>2 DEF PathTyped, files
  <2>3. CASE \E kept \in SUBSET file.data : Put(file.inode, archive[c].data \cup kept)
    <3>1. PICK kept \in SUBSET file.data : Put(file.inode, archive[c].data \cup kept)
      BY <2>3
    <3>2. c \in Cleanups
      BY DEF TypeOK, JobRecord, Jobs
    <3>3. archive[c].data \cup kept \in SUBSET Nat
      BY <3>2 DEF TypeOK, ArchiveRecord, FileRecord
    <3>4. QED
      BY <1>t, <3>1, <3>3 DEF Put, PathTyped, FileRecord
  <2>4. QED
    BY <2>1, <2>2, <2>3
<1>20. ASSUME NEW r \in Rollbacks, RecordRollback(r) PROVE PathTyped'
  BY <1>20, <1>t
     DEF RecordRollback, Move, Release, PathTyped, TypeOK, FileRecord, ArchiveRecord, JobRecord,
         Jobs, files
<1>21. ASSUME NEW j \in Jobs, Fail(j) PROVE PathTyped'
  BY <1>21, <1>t
     DEF Fail, Move, Release, PathTyped, TypeOK, FileRecord, ArchiveRecord, JobRecord, Jobs, files
<1>22. ASSUME NEW j \in Jobs, Die(j) PROVE PathTyped'
  BY <1>22, <1>t
     DEF Die, Release, PathTyped, TypeOK, FileRecord, ArchiveRecord, JobRecord, Jobs, files
<1>23. CASE UNCHANGED vars
  BY <1>23, <1>t DEF vars, files, PathTyped, TypeOK, FileRecord, ArchiveRecord, JobRecord, Jobs
<1>24. QED
  BY <1>1, <1>2, <1>3, <1>4, <1>5, <1>6, <1>7, <1>8, <1>9, <1>10, <1>11, <1>12, <1>13, <1>14,
     <1>15, <1>16, <1>17, <1>18, <1>19, <1>20, <1>21, <1>22, <1>23
     DEF Next

LEMMA RestTypedStep == TypeOK /\ [Next]_vars => RestTyped'
<1> SUFFICES ASSUME TypeOK, [Next]_vars
             PROVE  RestTyped'
  OBVIOUS
<1>t. RestTyped
  BY DEF TypeOK, RestTyped, RemovedRecord
<1>1. CASE OwnerWrites
  BY <1>1, <1>t DEF OwnerWrites, RestTyped, TypeOK, ArchiveRecord, FileRecord, JobRecord, Jobs
<1>2. CASE OwnerRotates
  BY <1>2, <1>t DEF OwnerRotates, RestTyped, TypeOK, ArchiveRecord, FileRecord, JobRecord, Jobs
<1>3. ASSUME NEW c \in Cleanups, Scan(c) PROVE RestTyped'
  BY <1>3, <1>t DEF Scan, RestTyped, TypeOK, ArchiveRecord, FileRecord, JobRecord, Jobs
<1>4. ASSUME NEW c \in Cleanups, EnterCleanup(c) PROVE RestTyped'
  BY <1>4, <1>t
     DEF EnterCleanup, Acquire, RestTyped, TypeOK, ArchiveRecord, FileRecord, JobRecord, Jobs
<1>5. ASSUME NEW c \in Cleanups, Check(c) PROVE RestTyped'
  <2>1. removed' = [removed EXCEPT ![c].from = clock] /\ clock \in Nat
    BY <1>5 DEF Check, TypeOK
  <2>2. removed' \in [Cleanups -> RemovedRecord]
    BY <1>t, <2>1 DEF RestTyped, RemovedRecord
  <2>3. QED
    BY <1>t, <1>5, <2>2 DEF Check, RestTyped
<1>6. ASSUME NEW c \in Cleanups, Digest(c) PROVE RestTyped'
  BY <1>6, <1>t DEF Digest, RestTyped, TypeOK, ArchiveRecord, FileRecord, JobRecord, Jobs
<1>7. ASSUME NEW c \in Cleanups, Copy(c) PROVE RestTyped'
  BY <1>7, <1>t DEF Copy, Move, RestTyped, TypeOK, ArchiveRecord, FileRecord, JobRecord, Jobs
<1>8. ASSUME NEW c \in Cleanups, Verify(c) PROVE RestTyped'
  BY <1>8, <1>t DEF Verify, Move, RestTyped, TypeOK, ArchiveRecord, FileRecord, JobRecord, Jobs
<1>9. ASSUME NEW c \in Cleanups, Unlink(c) PROVE RestTyped'
  <2>1. CASE UNCHANGED removed
    BY <1>t, <1>9, <2>1 DEF Unlink, RestTyped
  <2>2. CASE removed' = [removed EXCEPT ![c] = [there |-> TRUE, inode |-> file.inode,
                 mtime |-> file.mtime, data |-> file.data, from |-> @.from, at |-> clock]]
    <3>1. [there |-> TRUE, inode |-> file.inode, mtime |-> file.mtime, data |-> file.data,
           from |-> removed[c].from, at |-> clock] \in RemovedRecord
      BY <1>t DEF TypeOK, FileRecord, RestTyped, RemovedRecord
    <3>2. removed' \in [Cleanups -> RemovedRecord]
      BY <1>t, <2>2, <3>1 DEF RestTyped
    <3>3. QED
      BY <1>t, <1>9, <3>2 DEF Unlink, RestTyped
  <2>3. QED
    BY <1>9, <2>1, <2>2 DEF Unlink
<1>10. ASSUME NEW c \in Cleanups, Postcondition(c) PROVE RestTyped'
  BY <1>10, <1>t
     DEF Postcondition, Move, HelperDone, RestTyped, TypeOK, ArchiveRecord, FileRecord, JobRecord,
         Jobs
<1>11. ASSUME NEW c \in Cleanups, Handler(c) PROVE RestTyped'
  BY <1>11, <1>t DEF Handler, Move, RestTyped, TypeOK, ArchiveRecord, FileRecord, JobRecord, Jobs
<1>12. ASSUME NEW c \in Cleanups, HandlerRestores(c) PROVE RestTyped'
  BY <1>12, <1>t
     DEF HandlerRestores, Move, Put, RestTyped, TypeOK, ArchiveRecord, FileRecord, JobRecord, Jobs
<1>13. ASSUME NEW c \in Cleanups, RecordCleanup(c) PROVE RestTyped'
  BY <1>13, <1>t
     DEF RecordCleanup, Move, Release, RestTyped, TypeOK, ArchiveRecord, FileRecord, JobRecord,
         Jobs
<1>14. ASSUME NEW r \in Rollbacks, ReadChange(r) PROVE RestTyped'
  BY <1>14, <1>t DEF ReadChange, RestTyped, TypeOK, ArchiveRecord, FileRecord, JobRecord, Jobs
<1>15. ASSUME NEW r \in Rollbacks, EnterRollback(r) PROVE RestTyped'
  BY <1>15, <1>t
     DEF EnterRollback, Acquire, RestTyped, TypeOK, ArchiveRecord, FileRecord, JobRecord, Jobs
<1>16. ASSUME NEW r \in Rollbacks, CheckAbsent(r) PROVE RestTyped'
  BY <1>16, <1>t
     DEF CheckAbsent, Move, RestTyped, TypeOK, ArchiveRecord, FileRecord, JobRecord, Jobs
<1>17. ASSUME NEW r \in Rollbacks, Restore(r) PROVE RestTyped'
  BY <1>17, <1>t
     DEF Restore, Move, Put, RestTyped, TypeOK, ArchiveRecord, FileRecord, JobRecord, Jobs
<1>18. ASSUME NEW r \in Rollbacks, Truncate(r) PROVE RestTyped'
  BY <1>18, <1>t DEF Truncate, Put, RestTyped, TypeOK, ArchiveRecord, FileRecord, JobRecord, Jobs
<1>19. ASSUME NEW r \in Rollbacks, WriteOut(r) PROVE RestTyped'
  BY <1>19, <1>t
     DEF WriteOut, Move, Put, HelperDone, RestTyped, TypeOK, ArchiveRecord, FileRecord, JobRecord,
         Jobs
<1>20. ASSUME NEW r \in Rollbacks, RecordRollback(r) PROVE RestTyped'
  BY <1>20, <1>t
     DEF RecordRollback, Move, Release, RestTyped, TypeOK, ArchiveRecord, FileRecord, JobRecord,
         Jobs
<1>21. ASSUME NEW j \in Jobs, Fail(j) PROVE RestTyped'
  BY <1>21, <1>t
     DEF Fail, Move, Release, RestTyped, TypeOK, ArchiveRecord, FileRecord, JobRecord, Jobs
<1>22. ASSUME NEW j \in Jobs, Die(j) PROVE RestTyped'
  BY <1>22, <1>t DEF Die, Release, RestTyped, TypeOK, ArchiveRecord, FileRecord, JobRecord, Jobs
<1>23. CASE UNCHANGED vars
  BY <1>23, <1>t DEF vars, files, RestTyped, TypeOK, ArchiveRecord, FileRecord, JobRecord, Jobs
<1>24. QED
  BY <1>1, <1>2, <1>3, <1>4, <1>5, <1>6, <1>7, <1>8, <1>9, <1>10, <1>11, <1>12, <1>13, <1>14,
     <1>15, <1>16, <1>17, <1>18, <1>19, <1>20, <1>21, <1>22, <1>23
     DEF Next

HoldersTyped ==
    /\ lock \in Jobs \cup {Nobody} /\ helper \in Jobs \cup {Nobody}
    /\ lock # Nobody => job[lock].mode = "locked"
    /\ helper # Nobody => job[helper].mode = "helper"
    /\ HoldersEntered

LEMMA HoldersStep == FilesTyped /\ [Next]_vars => HoldersTyped'
<1> SUFFICES ASSUME FilesTyped, [Next]_vars
             PROVE  HoldersTyped'
  OBVIOUS
<1>t. job \in [Jobs -> JobRecord] /\ HoldersTyped
  BY DEF FilesTyped, TypeOK, HoldersTyped
<1>1. CASE OwnerWrites
  BY <1>1, <1>t, JobAssumption
     DEF OwnerWrites, HoldersTyped, HoldersEntered, Waiting, JobRecord, Jobs, files
<1>2. CASE OwnerRotates
  BY <1>2, <1>t, JobAssumption
     DEF OwnerRotates, HoldersTyped, HoldersEntered, Waiting, JobRecord, Jobs, files
<1>3. ASSUME NEW c \in Cleanups, Scan(c) PROVE HoldersTyped'
  BY <1>3, <1>t, JobAssumption
     DEF Scan, HoldersTyped, HoldersEntered, Waiting, JobRecord, Jobs, files
<1>4. ASSUME NEW c \in Cleanups, EnterCleanup(c) PROVE HoldersTyped'
  BY <1>4, <1>t, JobAssumption
     DEF EnterCleanup, Acquire, HoldersTyped, HoldersEntered, Waiting, JobRecord, Jobs, files
<1>5. ASSUME NEW c \in Cleanups, Check(c) PROVE HoldersTyped'
  BY <1>5, <1>t, JobAssumption
     DEF Check, Move, Current, HoldersTyped, HoldersEntered, Waiting, JobRecord, Jobs, files
<1>6. ASSUME NEW c \in Cleanups, Digest(c) PROVE HoldersTyped'
  BY <1>6, <1>t, JobAssumption
     DEF Digest, HoldersTyped, HoldersEntered, Waiting, JobRecord, Jobs, files
<1>7. ASSUME NEW c \in Cleanups, Copy(c) PROVE HoldersTyped'
  BY <1>7, <1>t, JobAssumption
     DEF Copy, Move, HoldersTyped, HoldersEntered, Waiting, JobRecord, Jobs, files
<1>8. ASSUME NEW c \in Cleanups, Verify(c) PROVE HoldersTyped'
  BY <1>8, <1>t, JobAssumption
     DEF Verify, Move, HoldersTyped, HoldersEntered, Waiting, JobRecord, Jobs, files
<1>9. ASSUME NEW c \in Cleanups, Unlink(c) PROVE HoldersTyped'
  BY <1>9, <1>t, JobAssumption
     DEF Unlink, Move, Vanish, HoldersTyped, HoldersEntered, Waiting, JobRecord, Jobs, files
<1>10. ASSUME NEW c \in Cleanups, Postcondition(c) PROVE HoldersTyped'
  BY <1>10, <1>t, JobAssumption
     DEF Postcondition, Move, HelperDone, HoldersTyped, HoldersEntered, Waiting, JobRecord, Jobs,
         files
<1>11. ASSUME NEW c \in Cleanups, Handler(c) PROVE HoldersTyped'
  BY <1>11, <1>t, JobAssumption
     DEF Handler, Move, HoldersTyped, HoldersEntered, Waiting, JobRecord, Jobs, files
<1>12. ASSUME NEW c \in Cleanups, HandlerRestores(c) PROVE HoldersTyped'
  BY <1>12, <1>t, JobAssumption
     DEF HandlerRestores, Move, Put, HoldersTyped, HoldersEntered, Waiting, JobRecord, Jobs, files
<1>13. ASSUME NEW c \in Cleanups, RecordCleanup(c) PROVE HoldersTyped'
  BY <1>13, <1>t, JobAssumption
     DEF RecordCleanup, Move, Release, HoldersTyped, HoldersEntered, Waiting, JobRecord, Jobs,
         files
<1>14. ASSUME NEW r \in Rollbacks, ReadChange(r) PROVE HoldersTyped'
  BY <1>14, <1>t, JobAssumption
     DEF ReadChange, HoldersTyped, HoldersEntered, Waiting, JobRecord, Jobs, files
<1>15. ASSUME NEW r \in Rollbacks, EnterRollback(r) PROVE HoldersTyped'
  BY <1>15, <1>t, JobAssumption
     DEF EnterRollback, Acquire, HoldersTyped, HoldersEntered, Waiting, JobRecord, Jobs, files
<1>16. ASSUME NEW r \in Rollbacks, CheckAbsent(r) PROVE HoldersTyped'
  BY <1>16, <1>t, JobAssumption
     DEF CheckAbsent, Move, HoldersTyped, HoldersEntered, Waiting, JobRecord, Jobs, files
<1>17. ASSUME NEW r \in Rollbacks, Restore(r) PROVE HoldersTyped'
  BY <1>17, <1>t, JobAssumption
     DEF Restore, Move, Put, HoldersTyped, HoldersEntered, Waiting, JobRecord, Jobs, files
<1>18. ASSUME NEW r \in Rollbacks, Truncate(r) PROVE HoldersTyped'
  BY <1>18, <1>t, JobAssumption
     DEF Truncate, Put, HoldersTyped, HoldersEntered, Waiting, JobRecord, Jobs, files
<1>19. ASSUME NEW r \in Rollbacks, WriteOut(r) PROVE HoldersTyped'
  BY <1>19, <1>t, JobAssumption
     DEF WriteOut, Move, Put, HelperDone, HoldersTyped, HoldersEntered, Waiting, JobRecord, Jobs,
         files
<1>20. ASSUME NEW r \in Rollbacks, RecordRollback(r) PROVE HoldersTyped'
  BY <1>20, <1>t, JobAssumption
     DEF RecordRollback, Move, Release, HoldersTyped, HoldersEntered, Waiting, JobRecord, Jobs,
         files
<1>21. ASSUME NEW j \in Jobs, Fail(j) PROVE HoldersTyped'
  BY <1>21, <1>t, JobAssumption
     DEF Fail, Move, Release, HoldersTyped, HoldersEntered, Waiting, JobRecord, Jobs, files
<1>22. ASSUME NEW j \in Jobs, Die(j) PROVE HoldersTyped'
  BY <1>22, <1>t, JobAssumption
     DEF Die, Release, HoldersTyped, HoldersEntered, Waiting, JobRecord, Jobs, files
<1>23. CASE UNCHANGED vars
  BY <1>23, <1>t, JobAssumption
     DEF vars, files, HoldersTyped, HoldersEntered, Waiting, JobRecord, Jobs
<1>24. QED
  BY <1>1, <1>2, <1>3, <1>4, <1>5, <1>6, <1>7, <1>8, <1>9, <1>10, <1>11, <1>12, <1>13, <1>14,
     <1>15, <1>16, <1>17, <1>18, <1>19, <1>20, <1>21, <1>22, <1>23
     DEF Next

LEMMA TypedStep == FilesTyped /\ [Next]_vars => FilesTyped'
  BY JobsTyped, PathTypedStep, RestTypedStep, HoldersStep
     DEF FilesTyped, TypeOK, PathTyped, RestTyped, HoldersTyped, RemovedRecord

-----------------------------------------------------------------------------
(* What is at the path, in the archives and nowhere else. *)

LEMMA NothingElsewhereStep ==
    TypeOK /\ NothingElsewhere /\ [Next]_vars => NothingElsewhere'
<1> SUFFICES ASSUME TypeOK, NothingElsewhere, [Next]_vars
             PROVE  NothingElsewhere'
  OBVIOUS
<1>t. /\ job \in [Jobs -> JobRecord] /\ archive \in [Cleanups -> ArchiveRecord]
      /\ file \in FileRecord
  BY DEF TypeOK
<1>1. CASE OwnerWrites
  BY <1>1, <1>t, JobAssumption
     DEF OwnerWrites, NothingElsewhere, Unarchived, JobRecord, ArchiveRecord, FileRecord, Jobs,
         files, NoFile
<1>2. CASE OwnerRotates
  BY <1>2, <1>t, JobAssumption
     DEF OwnerRotates, NothingElsewhere, Unarchived, JobRecord, ArchiveRecord, FileRecord, Jobs,
         files, NoFile
<1>3. ASSUME NEW c \in Cleanups, Scan(c) PROVE NothingElsewhere'
  BY <1>3, <1>t, JobAssumption
     DEF Scan, NothingElsewhere, Unarchived, JobRecord, ArchiveRecord, FileRecord, Jobs, files,
         NoFile
<1>4. ASSUME NEW c \in Cleanups, EnterCleanup(c) PROVE NothingElsewhere'
  BY <1>4, <1>t, JobAssumption
     DEF EnterCleanup, Acquire, NothingElsewhere, Unarchived, JobRecord, ArchiveRecord,
         FileRecord, Jobs, files, NoFile
<1>5. ASSUME NEW c \in Cleanups, Check(c) PROVE NothingElsewhere'
  BY <1>5, <1>t, JobAssumption
     DEF Check, Move, Current, NothingElsewhere, Unarchived, JobRecord, ArchiveRecord, FileRecord,
         Jobs, files, NoFile
<1>6. ASSUME NEW c \in Cleanups, Digest(c) PROVE NothingElsewhere'
  BY <1>6, <1>t, JobAssumption
     DEF Digest, NothingElsewhere, Unarchived, JobRecord, ArchiveRecord, FileRecord, Jobs, files,
         NoFile
<1>7. ASSUME NEW c \in Cleanups, Copy(c) PROVE NothingElsewhere'
  BY <1>7, <1>t, JobAssumption
     DEF Copy, Move, NothingElsewhere, Unarchived, JobRecord, ArchiveRecord, FileRecord, Jobs,
         files, NoFile
<1>8. ASSUME NEW c \in Cleanups, Verify(c) PROVE NothingElsewhere'
  BY <1>8, <1>t, JobAssumption
     DEF Verify, Move, NothingElsewhere, Unarchived, JobRecord, ArchiveRecord, FileRecord, Jobs,
         files, NoFile
<1>9. ASSUME NEW c \in Cleanups, Unlink(c) PROVE NothingElsewhere'
  BY <1>9, <1>t, JobAssumption
     DEF Unlink, Move, Vanish, NothingElsewhere, Unarchived, JobRecord, ArchiveRecord, FileRecord,
         Jobs, files, NoFile
<1>10. ASSUME NEW c \in Cleanups, Postcondition(c) PROVE NothingElsewhere'
  BY <1>10, <1>t, JobAssumption
     DEF Postcondition, Move, HelperDone, NothingElsewhere, Unarchived, JobRecord, ArchiveRecord,
         FileRecord, Jobs, files, NoFile
<1>11. ASSUME NEW c \in Cleanups, Handler(c) PROVE NothingElsewhere'
  BY <1>11, <1>t, JobAssumption
     DEF Handler, Move, NothingElsewhere, Unarchived, JobRecord, ArchiveRecord, FileRecord, Jobs,
         files, NoFile
<1>12. ASSUME NEW c \in Cleanups, HandlerRestores(c) PROVE NothingElsewhere'
  BY <1>12, <1>t, JobAssumption
     DEF HandlerRestores, Move, Put, NothingElsewhere, Unarchived, JobRecord, ArchiveRecord,
         FileRecord, Jobs, files, NoFile
<1>13. ASSUME NEW c \in Cleanups, RecordCleanup(c) PROVE NothingElsewhere'
  BY <1>13, <1>t, JobAssumption
     DEF RecordCleanup, Move, Release, NothingElsewhere, Unarchived, JobRecord, ArchiveRecord,
         FileRecord, Jobs, files, NoFile
<1>14. ASSUME NEW r \in Rollbacks, ReadChange(r) PROVE NothingElsewhere'
  BY <1>14, <1>t, JobAssumption
     DEF ReadChange, NothingElsewhere, Unarchived, JobRecord, ArchiveRecord, FileRecord, Jobs,
         files, NoFile
<1>15. ASSUME NEW r \in Rollbacks, EnterRollback(r) PROVE NothingElsewhere'
  BY <1>15, <1>t, JobAssumption
     DEF EnterRollback, Acquire, NothingElsewhere, Unarchived, JobRecord, ArchiveRecord,
         FileRecord, Jobs, files, NoFile
<1>16. ASSUME NEW r \in Rollbacks, CheckAbsent(r) PROVE NothingElsewhere'
  BY <1>16, <1>t, JobAssumption
     DEF CheckAbsent, Move, NothingElsewhere, Unarchived, JobRecord, ArchiveRecord, FileRecord,
         Jobs, files, NoFile
<1>17. ASSUME NEW r \in Rollbacks, Restore(r) PROVE NothingElsewhere'
  BY <1>17, <1>t, JobAssumption
     DEF Restore, Move, Put, NothingElsewhere, Unarchived, JobRecord, ArchiveRecord, FileRecord,
         Jobs, files, NoFile
<1>18. ASSUME NEW r \in Rollbacks, Truncate(r) PROVE NothingElsewhere'
  BY <1>18, <1>t, JobAssumption
     DEF Truncate, Put, NothingElsewhere, Unarchived, JobRecord, ArchiveRecord, FileRecord, Jobs,
         files, NoFile
<1>19. ASSUME NEW r \in Rollbacks, WriteOut(r) PROVE NothingElsewhere'
  BY <1>19, <1>t, JobAssumption
     DEF WriteOut, Move, Put, HelperDone, NothingElsewhere, Unarchived, JobRecord, ArchiveRecord,
         FileRecord, Jobs, files, NoFile
<1>20. ASSUME NEW r \in Rollbacks, RecordRollback(r) PROVE NothingElsewhere'
  BY <1>20, <1>t, JobAssumption
     DEF RecordRollback, Move, Release, NothingElsewhere, Unarchived, JobRecord, ArchiveRecord,
         FileRecord, Jobs, files, NoFile
<1>21. ASSUME NEW j \in Jobs, Fail(j) PROVE NothingElsewhere'
  BY <1>21, <1>t, JobAssumption
     DEF Fail, Move, Release, NothingElsewhere, Unarchived, JobRecord, ArchiveRecord, FileRecord,
         Jobs, files, NoFile
<1>22. ASSUME NEW j \in Jobs, Die(j) PROVE NothingElsewhere'
  BY <1>22, <1>t, JobAssumption
     DEF Die, Release, NothingElsewhere, Unarchived, JobRecord, ArchiveRecord, FileRecord, Jobs,
         files, NoFile
<1>23. CASE UNCHANGED vars
  BY <1>23, <1>t, JobAssumption
     DEF vars, files, NothingElsewhere, Unarchived, JobRecord, ArchiveRecord, FileRecord, Jobs,
         NoFile
<1>24. QED
  BY <1>1, <1>2, <1>3, <1>4, <1>5, <1>6, <1>7, <1>8, <1>9, <1>10, <1>11, <1>12, <1>13, <1>14,
     <1>15, <1>16, <1>17, <1>18, <1>19, <1>20, <1>21, <1>22, <1>23
     DEF Next

LEMMA SpareGrows ==
    TypeOK /\ NothingElsewhere /\ [Next]_vars =>
        /\ \A c \in Cleanups : /\ archive[c].data \subseteq archive'[c].data
                               /\ archive[c].there => archive'[c].there
        /\ Spare \subseteq Spare'
<1> DEFINE Grows == /\ \A d \in Cleanups : /\ archive[d].data \subseteq archive'[d].data
                                           /\ archive[d].there => archive'[d].there
                    /\ late \subseteq late'
<1> SUFFICES ASSUME TypeOK, NothingElsewhere, [Next]_vars
             PROVE  Grows
  BY DEF Spare, Archived
<1> HIDE DEF Grows
<1>t. /\ job \in [Jobs -> JobRecord] /\ archive \in [Cleanups -> ArchiveRecord]
      /\ file \in FileRecord
  BY DEF TypeOK
<1>1. CASE OwnerWrites
  BY <1>1, <1>t DEF OwnerWrites, Grows, NothingElsewhere, Unarchived, ArchiveRecord, files
<1>2. CASE OwnerRotates
  BY <1>2, <1>t DEF OwnerRotates, Grows, NothingElsewhere, Unarchived, ArchiveRecord, files
<1>3. ASSUME NEW c \in Cleanups, Scan(c) PROVE Grows
  BY <1>3, <1>t DEF Scan, Grows, NothingElsewhere, Unarchived, ArchiveRecord, files
<1>4. ASSUME NEW c \in Cleanups, EnterCleanup(c) PROVE Grows
  BY <1>4, <1>t
     DEF EnterCleanup, Acquire, Grows, NothingElsewhere, Unarchived, ArchiveRecord, files
<1>5. ASSUME NEW c \in Cleanups, Check(c) PROVE Grows
  BY <1>5, <1>t
     DEF Check, Move, Current, Grows, NothingElsewhere, Unarchived, ArchiveRecord, files
<1>6. ASSUME NEW c \in Cleanups, Digest(c) PROVE Grows
  BY <1>6, <1>t DEF Digest, Grows, NothingElsewhere, Unarchived, ArchiveRecord, files
<1>7. ASSUME NEW c \in Cleanups, Copy(c) PROVE Grows
  BY <1>7, <1>t DEF Copy, Move, Grows, NothingElsewhere, Unarchived, ArchiveRecord, files
<1>8. ASSUME NEW c \in Cleanups, Verify(c) PROVE Grows
  BY <1>8, <1>t DEF Verify, Move, Grows, NothingElsewhere, Unarchived, ArchiveRecord, files
<1>9. ASSUME NEW c \in Cleanups, Unlink(c) PROVE Grows
  BY <1>9, <1>t
     DEF Unlink, Move, Vanish, Grows, NothingElsewhere, Unarchived, ArchiveRecord, files
<1>10. ASSUME NEW c \in Cleanups, Postcondition(c) PROVE Grows
  BY <1>10, <1>t
     DEF Postcondition, Move, HelperDone, Grows, NothingElsewhere, Unarchived, ArchiveRecord,
         files
<1>11. ASSUME NEW c \in Cleanups, Handler(c) PROVE Grows
  BY <1>11, <1>t DEF Handler, Move, Grows, NothingElsewhere, Unarchived, ArchiveRecord, files
<1>12. ASSUME NEW c \in Cleanups, HandlerRestores(c) PROVE Grows
  BY <1>12, <1>t
     DEF HandlerRestores, Move, Put, Grows, NothingElsewhere, Unarchived, ArchiveRecord, files
<1>13. ASSUME NEW c \in Cleanups, RecordCleanup(c) PROVE Grows
  BY <1>13, <1>t
     DEF RecordCleanup, Move, Release, Grows, NothingElsewhere, Unarchived, ArchiveRecord, files
<1>14. ASSUME NEW r \in Rollbacks, ReadChange(r) PROVE Grows
  BY <1>14, <1>t DEF ReadChange, Grows, NothingElsewhere, Unarchived, ArchiveRecord, files
<1>15. ASSUME NEW r \in Rollbacks, EnterRollback(r) PROVE Grows
  BY <1>15, <1>t
     DEF EnterRollback, Acquire, Grows, NothingElsewhere, Unarchived, ArchiveRecord, files
<1>16. ASSUME NEW r \in Rollbacks, CheckAbsent(r) PROVE Grows
  BY <1>16, <1>t DEF CheckAbsent, Move, Grows, NothingElsewhere, Unarchived, ArchiveRecord, files
<1>17. ASSUME NEW r \in Rollbacks, Restore(r) PROVE Grows
  BY <1>17, <1>t DEF Restore, Move, Put, Grows, NothingElsewhere, Unarchived, ArchiveRecord, files
<1>18. ASSUME NEW r \in Rollbacks, Truncate(r) PROVE Grows
  BY <1>18, <1>t DEF Truncate, Put, Grows, NothingElsewhere, Unarchived, ArchiveRecord, files
<1>19. ASSUME NEW r \in Rollbacks, WriteOut(r) PROVE Grows
  BY <1>19, <1>t
     DEF WriteOut, Move, Put, HelperDone, Grows, NothingElsewhere, Unarchived, ArchiveRecord,
         files
<1>20. ASSUME NEW r \in Rollbacks, RecordRollback(r) PROVE Grows
  BY <1>20, <1>t
     DEF RecordRollback, Move, Release, Grows, NothingElsewhere, Unarchived, ArchiveRecord, files
<1>21. ASSUME NEW j \in Jobs, Fail(j) PROVE Grows
  BY <1>21, <1>t
     DEF Fail, Move, Release, Grows, NothingElsewhere, Unarchived, ArchiveRecord, files
<1>22. ASSUME NEW j \in Jobs, Die(j) PROVE Grows
  BY <1>22, <1>t DEF Die, Release, Grows, NothingElsewhere, Unarchived, ArchiveRecord, files
<1>23. CASE UNCHANGED vars
  BY <1>23, <1>t DEF vars, files, Grows, NothingElsewhere, Unarchived, ArchiveRecord
<1>24. QED
  BY <1>1, <1>2, <1>3, <1>4, <1>5, <1>6, <1>7, <1>8, <1>9, <1>10, <1>11, <1>12, <1>13, <1>14,
     <1>15, <1>16, <1>17, <1>18, <1>19, <1>20, <1>21, <1>22, <1>23
     DEF Next

LEMMA PathIsSpareStep ==
    TypeOK /\ NothingElsewhere /\ PathIsSpare /\ [Next]_vars => PathIsSpare'
<1> SUFFICES ASSUME TypeOK, NothingElsewhere, PathIsSpare, [Next]_vars
             PROVE  PathIsSpare'
  OBVIOUS
<1>t. /\ job \in [Jobs -> JobRecord] /\ archive \in [Cleanups -> ArchiveRecord]
      /\ file \in FileRecord
  BY DEF TypeOK
<1>s. /\ Spare \subseteq Spare' /\ late' \subseteq Spare'
      /\ \A c \in Cleanups : archive[c].data \subseteq Spare /\ archive'[c].data \subseteq Spare'
  <2>1. Spare \subseteq Spare'
    BY SpareGrows
  <2>2. QED
    BY <2>1 DEF Spare, Archived
<1>1. CASE OwnerWrites
  BY <1>1, <1>t, <1>s, JobAssumption
     DEF OwnerWrites, PathIsSpare, PastLook, NothingElsewhere, JobRecord, Jobs, files, NoFile
<1>2. CASE OwnerRotates
  BY <1>2, <1>t, <1>s, JobAssumption
     DEF OwnerRotates, PathIsSpare, PastLook, NothingElsewhere, JobRecord, Jobs, files, NoFile
<1>3. ASSUME NEW c \in Cleanups, Scan(c) PROVE PathIsSpare'
  BY <1>3, <1>t, <1>s, JobAssumption
     DEF Scan, PathIsSpare, PastLook, NothingElsewhere, JobRecord, Jobs, files, NoFile
<1>4. ASSUME NEW c \in Cleanups, EnterCleanup(c) PROVE PathIsSpare'
  BY <1>4, <1>t, <1>s, JobAssumption
     DEF EnterCleanup, Acquire, PathIsSpare, PastLook, NothingElsewhere, JobRecord, Jobs, files,
         NoFile
<1>5. ASSUME NEW c \in Cleanups, Check(c) PROVE PathIsSpare'
  BY <1>5, <1>t, <1>s, JobAssumption
     DEF Check, Move, Current, PathIsSpare, PastLook, NothingElsewhere, JobRecord, Jobs, files,
         NoFile
<1>6. ASSUME NEW c \in Cleanups, Digest(c) PROVE PathIsSpare'
  BY <1>6, <1>t, <1>s, JobAssumption
     DEF Digest, PathIsSpare, PastLook, NothingElsewhere, JobRecord, Jobs, files, NoFile
<1>7. ASSUME NEW c \in Cleanups, Copy(c) PROVE PathIsSpare'
  BY <1>7, <1>t, <1>s, JobAssumption
     DEF Copy, Move, PathIsSpare, PastLook, NothingElsewhere, JobRecord, Jobs, files, NoFile
<1>8. ASSUME NEW c \in Cleanups, Verify(c) PROVE PathIsSpare'
  BY <1>8, <1>t, <1>s, JobAssumption
     DEF Verify, Move, PathIsSpare, PastLook, NothingElsewhere, JobRecord, Jobs, files, NoFile
<1>9. ASSUME NEW c \in Cleanups, Unlink(c) PROVE PathIsSpare'
  BY <1>9, <1>t, <1>s, JobAssumption
     DEF Unlink, Move, Vanish, PathIsSpare, PastLook, NothingElsewhere, JobRecord, Jobs, files,
         NoFile
<1>10. ASSUME NEW c \in Cleanups, Postcondition(c) PROVE PathIsSpare'
  BY <1>10, <1>t, <1>s, JobAssumption
     DEF Postcondition, Move, HelperDone, PathIsSpare, PastLook, NothingElsewhere, JobRecord,
         Jobs, files, NoFile
<1>11. ASSUME NEW c \in Cleanups, Handler(c) PROVE PathIsSpare'
  BY <1>11, <1>t, <1>s, JobAssumption
     DEF Handler, Move, PathIsSpare, PastLook, NothingElsewhere, JobRecord, Jobs, files, NoFile
<1>12. ASSUME NEW c \in Cleanups, HandlerRestores(c) PROVE PathIsSpare'
  BY <1>12, <1>t, <1>s, JobAssumption
     DEF HandlerRestores, Move, Put, PathIsSpare, PastLook, NothingElsewhere, JobRecord, Jobs,
         files, NoFile
<1>13. ASSUME NEW c \in Cleanups, RecordCleanup(c) PROVE PathIsSpare'
  BY <1>13, <1>t, <1>s, JobAssumption
     DEF RecordCleanup, Move, Release, PathIsSpare, PastLook, NothingElsewhere, JobRecord, Jobs,
         files, NoFile
<1>14. ASSUME NEW r \in Rollbacks, ReadChange(r) PROVE PathIsSpare'
  BY <1>14, <1>t, <1>s, JobAssumption
     DEF ReadChange, PathIsSpare, PastLook, NothingElsewhere, JobRecord, Jobs, files, NoFile
<1>15. ASSUME NEW r \in Rollbacks, EnterRollback(r) PROVE PathIsSpare'
  BY <1>15, <1>t, <1>s, JobAssumption
     DEF EnterRollback, Acquire, PathIsSpare, PastLook, NothingElsewhere, JobRecord, Jobs, files,
         NoFile
<1>16. ASSUME NEW r \in Rollbacks, CheckAbsent(r) PROVE PathIsSpare'
  BY <1>16, <1>t, <1>s, JobAssumption
     DEF CheckAbsent, Move, PathIsSpare, PastLook, NothingElsewhere, JobRecord, Jobs, files,
         NoFile
<1>17. ASSUME NEW r \in Rollbacks, Restore(r) PROVE PathIsSpare'
  BY <1>17, <1>t, <1>s, JobAssumption
     DEF Restore, Move, Put, PathIsSpare, PastLook, NothingElsewhere, JobRecord, Jobs, files,
         NoFile
<1>18. ASSUME NEW r \in Rollbacks, Truncate(r) PROVE PathIsSpare'
  BY <1>18, <1>t, <1>s, JobAssumption
     DEF Truncate, Put, PathIsSpare, PastLook, NothingElsewhere, JobRecord, Jobs, files, NoFile
<1>19. ASSUME NEW r \in Rollbacks, WriteOut(r) PROVE PathIsSpare'
  BY <1>19, <1>t, <1>s, JobAssumption
     DEF WriteOut, Move, Put, HelperDone, PathIsSpare, PastLook, NothingElsewhere, JobRecord,
         Jobs, files, NoFile
<1>20. ASSUME NEW r \in Rollbacks, RecordRollback(r) PROVE PathIsSpare'
  BY <1>20, <1>t, <1>s, JobAssumption
     DEF RecordRollback, Move, Release, PathIsSpare, PastLook, NothingElsewhere, JobRecord, Jobs,
         files, NoFile
<1>21. ASSUME NEW j \in Jobs, Fail(j) PROVE PathIsSpare'
  BY <1>21, <1>t, <1>s, JobAssumption
     DEF Fail, Move, Release, PathIsSpare, PastLook, NothingElsewhere, JobRecord, Jobs, files,
         NoFile
<1>22. ASSUME NEW j \in Jobs, Die(j) PROVE PathIsSpare'
  BY <1>22, <1>t, <1>s, JobAssumption
     DEF Die, Release, PathIsSpare, PastLook, NothingElsewhere, JobRecord, Jobs, files, NoFile
<1>23. CASE UNCHANGED vars
  BY <1>23, <1>t, <1>s, JobAssumption
     DEF vars, files, PathIsSpare, PastLook, NothingElsewhere, JobRecord, Jobs, NoFile
<1>24. QED
  BY <1>1, <1>2, <1>3, <1>4, <1>5, <1>6, <1>7, <1>8, <1>9, <1>10, <1>11, <1>12, <1>13, <1>14,
     <1>15, <1>16, <1>17, <1>18, <1>19, <1>20, <1>21, <1>22, <1>23
     DEF Next

LEMMA NothingLostStep ==
    TypeOK /\ NothingElsewhere /\ PathIsSpare /\ NothingLost /\ [Next]_vars => NothingLost'
<1> SUFFICES ASSUME TypeOK, NothingElsewhere, PathIsSpare, NothingLost, [Next]_vars
             PROVE  NothingLost'
  OBVIOUS
<1>t. /\ job \in [Jobs -> JobRecord] /\ archive \in [Cleanups -> ArchiveRecord]
      /\ file \in FileRecord
  BY DEF TypeOK
<1>s. /\ Spare \subseteq Spare' /\ late' \subseteq Spare'
      /\ \A c \in Cleanups : archive[c].data \subseteq Spare /\ archive'[c].data \subseteq Spare'
  <2>1. Spare \subseteq Spare'
    BY SpareGrows
  <2>2. QED
    BY <2>1 DEF Spare, Archived
<1>1. CASE OwnerWrites
  <2>1. written' = written + 1 /\ written + 1 \in file'.data /\ file.data \subseteq file'.data
        /\ UNCHANGED owned
    BY <1>1 DEF OwnerWrites
  <2>2. 1..written' = 1..written \cup {written + 1}
    <3>1. \A n \in Nat : 1..n + 1 = 1..n \cup {n + 1}
      OBVIOUS
    <3> QED
      BY <2>1, <3>1 DEF TypeOK
  <2>3. QED
    BY <1>s, <2>1, <2>2 DEF NothingLost
<1>2. CASE OwnerRotates
  BY <1>2, <1>t, <1>s
     DEF OwnerRotates, PathIsSpare, PastLook, NothingLost, JobRecord, Jobs, files, NoFile
<1>3. ASSUME NEW c \in Cleanups, Scan(c) PROVE NothingLost'
  BY <1>3, <1>t, <1>s DEF Scan, PathIsSpare, PastLook, NothingLost, JobRecord, Jobs, files, NoFile
<1>4. ASSUME NEW c \in Cleanups, EnterCleanup(c) PROVE NothingLost'
  BY <1>4, <1>t, <1>s
     DEF EnterCleanup, Acquire, PathIsSpare, PastLook, NothingLost, JobRecord, Jobs, files, NoFile
<1>5. ASSUME NEW c \in Cleanups, Check(c) PROVE NothingLost'
  BY <1>5, <1>t, <1>s
     DEF Check, Move, Current, PathIsSpare, PastLook, NothingLost, JobRecord, Jobs, files, NoFile
<1>6. ASSUME NEW c \in Cleanups, Digest(c) PROVE NothingLost'
  BY <1>6, <1>t, <1>s
     DEF Digest, PathIsSpare, PastLook, NothingLost, JobRecord, Jobs, files, NoFile
<1>7. ASSUME NEW c \in Cleanups, Copy(c) PROVE NothingLost'
  BY <1>7, <1>t, <1>s
     DEF Copy, Move, PathIsSpare, PastLook, NothingLost, JobRecord, Jobs, files, NoFile
<1>8. ASSUME NEW c \in Cleanups, Verify(c) PROVE NothingLost'
  BY <1>8, <1>t, <1>s
     DEF Verify, Move, PathIsSpare, PastLook, NothingLost, JobRecord, Jobs, files, NoFile
<1>9. ASSUME NEW c \in Cleanups, Unlink(c) PROVE NothingLost'
  BY <1>9, <1>t, <1>s
     DEF Unlink, Move, Vanish, PathIsSpare, PastLook, NothingLost, JobRecord, Jobs, files, NoFile
<1>10. ASSUME NEW c \in Cleanups, Postcondition(c) PROVE NothingLost'
  BY <1>10, <1>t, <1>s
     DEF Postcondition, Move, HelperDone, PathIsSpare, PastLook, NothingLost, JobRecord, Jobs,
         files, NoFile
<1>11. ASSUME NEW c \in Cleanups, Handler(c) PROVE NothingLost'
  BY <1>11, <1>t, <1>s
     DEF Handler, Move, PathIsSpare, PastLook, NothingLost, JobRecord, Jobs, files, NoFile
<1>12. ASSUME NEW c \in Cleanups, HandlerRestores(c) PROVE NothingLost'
  BY <1>12, <1>t, <1>s
     DEF HandlerRestores, Move, Put, PathIsSpare, PastLook, NothingLost, JobRecord, Jobs, files,
         NoFile
<1>13. ASSUME NEW c \in Cleanups, RecordCleanup(c) PROVE NothingLost'
  BY <1>13, <1>t, <1>s
     DEF RecordCleanup, Move, Release, PathIsSpare, PastLook, NothingLost, JobRecord, Jobs, files,
         NoFile
<1>14. ASSUME NEW r \in Rollbacks, ReadChange(r) PROVE NothingLost'
  BY <1>14, <1>t, <1>s
     DEF ReadChange, PathIsSpare, PastLook, NothingLost, JobRecord, Jobs, files, NoFile
<1>15. ASSUME NEW r \in Rollbacks, EnterRollback(r) PROVE NothingLost'
  BY <1>15, <1>t, <1>s
     DEF EnterRollback, Acquire, PathIsSpare, PastLook, NothingLost, JobRecord, Jobs, files,
         NoFile
<1>16. ASSUME NEW r \in Rollbacks, CheckAbsent(r) PROVE NothingLost'
  BY <1>16, <1>t, <1>s
     DEF CheckAbsent, Move, PathIsSpare, PastLook, NothingLost, JobRecord, Jobs, files, NoFile
<1>17. ASSUME NEW r \in Rollbacks, Restore(r) PROVE NothingLost'
  BY <1>17, <1>t, <1>s
     DEF Restore, Move, Put, PathIsSpare, PastLook, NothingLost, JobRecord, Jobs, files, NoFile
<1>18. ASSUME NEW r \in Rollbacks, Truncate(r) PROVE NothingLost'
  BY <1>18, <1>t, <1>s
     DEF Truncate, Put, PathIsSpare, PastLook, NothingLost, JobRecord, Jobs, files, NoFile
<1>19. ASSUME NEW r \in Rollbacks, WriteOut(r) PROVE NothingLost'
  BY <1>19, <1>t, <1>s
     DEF WriteOut, Move, Put, HelperDone, PathIsSpare, PastLook, NothingLost, JobRecord, Jobs,
         files, NoFile
<1>20. ASSUME NEW r \in Rollbacks, RecordRollback(r) PROVE NothingLost'
  BY <1>20, <1>t, <1>s
     DEF RecordRollback, Move, Release, PathIsSpare, PastLook, NothingLost, JobRecord, Jobs,
         files, NoFile
<1>21. ASSUME NEW j \in Jobs, Fail(j) PROVE NothingLost'
  BY <1>21, <1>t, <1>s
     DEF Fail, Move, Release, PathIsSpare, PastLook, NothingLost, JobRecord, Jobs, files, NoFile
<1>22. ASSUME NEW j \in Jobs, Die(j) PROVE NothingLost'
  BY <1>22, <1>t, <1>s
     DEF Die, Release, PathIsSpare, PastLook, NothingLost, JobRecord, Jobs, files, NoFile
<1>23. CASE UNCHANGED vars
  BY <1>23, <1>t, <1>s
     DEF vars, files, PathIsSpare, PastLook, NothingLost, JobRecord, Jobs, NoFile
<1>24. QED
  BY <1>1, <1>2, <1>3, <1>4, <1>5, <1>6, <1>7, <1>8, <1>9, <1>10, <1>11, <1>12, <1>13, <1>14,
     <1>15, <1>16, <1>17, <1>18, <1>19, <1>20, <1>21, <1>22, <1>23
     DEF Next

-----------------------------------------------------------------------------
(* What unlinks found, what rollbacks put back, what was checked. *)

LEMMA RemovedIsSpareStep ==
    TypeOK /\ NothingElsewhere /\ PathIsSpare /\ RemovedIsSpare /\ RollbacksRestore /\ [Next]_vars
        => RemovedIsSpare'
<1> SUFFICES ASSUME TypeOK, NothingElsewhere, PathIsSpare, RemovedIsSpare, RollbacksRestore,
                    [Next]_vars
             PROVE  RemovedIsSpare'
  OBVIOUS
<1>t. /\ job \in [Jobs -> JobRecord] /\ archive \in [Cleanups -> ArchiveRecord]
      /\ file \in FileRecord
  BY DEF TypeOK
<1>s. /\ Spare \subseteq Spare' /\ late' \subseteq Spare'
      /\ \A c \in Cleanups : archive[c].data \subseteq Spare /\ archive'[c].data \subseteq Spare'
  <2>1. Spare \subseteq Spare'
    BY SpareGrows
  <2>2. QED
    BY <2>1 DEF Spare, Archived
<1>u. \A c \in Cleanups : archive[c].there => archive'[c].there
  BY SpareGrows
<1>v. /\ removed \in [Cleanups -> RemovedRecord]
      /\ row \in [Cleanups -> {"none", "SUCCEEDED", "ROLLED_BACK"}]
  BY DEF TypeOK, RemovedRecord
<1>1. CASE OwnerWrites
  BY <1>1, <1>t, <1>s, <1>u, <1>v, JobAssumption
     DEF OwnerWrites, PathIsSpare, PastLook, RemovedIsSpare, RollbacksRestore, JobRecord,
         RemovedRecord, Jobs, files
<1>2. CASE OwnerRotates
  BY <1>2, <1>t, <1>s, <1>u, <1>v, JobAssumption
     DEF OwnerRotates, PathIsSpare, PastLook, RemovedIsSpare, RollbacksRestore, JobRecord,
         RemovedRecord, Jobs, files
<1>3. ASSUME NEW c \in Cleanups, Scan(c) PROVE RemovedIsSpare'
  BY <1>3, <1>t, <1>s, <1>u, <1>v, JobAssumption
     DEF Scan, PathIsSpare, PastLook, RemovedIsSpare, RollbacksRestore, JobRecord, RemovedRecord,
         Jobs, files
<1>4. ASSUME NEW c \in Cleanups, EnterCleanup(c) PROVE RemovedIsSpare'
  BY <1>4, <1>t, <1>s, <1>u, <1>v, JobAssumption
     DEF EnterCleanup, Acquire, PathIsSpare, PastLook, RemovedIsSpare, RollbacksRestore,
         JobRecord, RemovedRecord, Jobs, files
<1>5. ASSUME NEW c \in Cleanups, Check(c) PROVE RemovedIsSpare'
  BY <1>5, <1>t, <1>s, <1>u, <1>v, JobAssumption
     DEF Check, Move, Current, PathIsSpare, PastLook, RemovedIsSpare, RollbacksRestore, JobRecord,
         RemovedRecord, Jobs, files
<1>6. ASSUME NEW c \in Cleanups, Digest(c) PROVE RemovedIsSpare'
  BY <1>6, <1>t, <1>s, <1>u, <1>v, JobAssumption
     DEF Digest, PathIsSpare, PastLook, RemovedIsSpare, RollbacksRestore, JobRecord,
         RemovedRecord, Jobs, files
<1>7. ASSUME NEW c \in Cleanups, Copy(c) PROVE RemovedIsSpare'
  BY <1>7, <1>t, <1>s, <1>u, <1>v, JobAssumption
     DEF Copy, Move, PathIsSpare, PastLook, RemovedIsSpare, RollbacksRestore, JobRecord,
         RemovedRecord, Jobs, files
<1>8. ASSUME NEW c \in Cleanups, Verify(c) PROVE RemovedIsSpare'
  BY <1>8, <1>t, <1>s, <1>u, <1>v, JobAssumption
     DEF Verify, Move, PathIsSpare, PastLook, RemovedIsSpare, RollbacksRestore, JobRecord,
         RemovedRecord, Jobs, files
<1>9. ASSUME NEW c \in Cleanups, Unlink(c) PROVE RemovedIsSpare'
  BY <1>9, <1>t, <1>s, <1>u, <1>v, JobAssumption
     DEF Unlink, Move, Vanish, PathIsSpare, PastLook, RemovedIsSpare, RollbacksRestore, JobRecord,
         RemovedRecord, Jobs, files
<1>10. ASSUME NEW c \in Cleanups, Postcondition(c) PROVE RemovedIsSpare'
  BY <1>10, <1>t, <1>s, <1>u, <1>v, JobAssumption
     DEF Postcondition, Move, HelperDone, PathIsSpare, PastLook, RemovedIsSpare, RollbacksRestore,
         JobRecord, RemovedRecord, Jobs, files
<1>11. ASSUME NEW c \in Cleanups, Handler(c) PROVE RemovedIsSpare'
  BY <1>11, <1>t, <1>s, <1>u, <1>v, JobAssumption
     DEF Handler, Move, PathIsSpare, PastLook, RemovedIsSpare, RollbacksRestore, JobRecord,
         RemovedRecord, Jobs, files
<1>12. ASSUME NEW c \in Cleanups, HandlerRestores(c) PROVE RemovedIsSpare'
  BY <1>12, <1>t, <1>s, <1>u, <1>v, JobAssumption
     DEF HandlerRestores, Move, Put, PathIsSpare, PastLook, RemovedIsSpare, RollbacksRestore,
         JobRecord, RemovedRecord, Jobs, files
<1>13. ASSUME NEW c \in Cleanups, RecordCleanup(c) PROVE RemovedIsSpare'
  BY <1>13, <1>t, <1>s, <1>u, <1>v, JobAssumption
     DEF RecordCleanup, Move, Release, PathIsSpare, PastLook, RemovedIsSpare, RollbacksRestore,
         JobRecord, RemovedRecord, Jobs, files
<1>14. ASSUME NEW r \in Rollbacks, ReadChange(r) PROVE RemovedIsSpare'
  BY <1>14, <1>t, <1>s, <1>u, <1>v, JobAssumption
     DEF ReadChange, PathIsSpare, PastLook, RemovedIsSpare, RollbacksRestore, JobRecord,
         RemovedRecord, Jobs, files
<1>15. ASSUME NEW r \in Rollbacks, EnterRollback(r) PROVE RemovedIsSpare'
  BY <1>15, <1>t, <1>s, <1>u, <1>v, JobAssumption
     DEF EnterRollback, Acquire, PathIsSpare, PastLook, RemovedIsSpare, RollbacksRestore,
         JobRecord, RemovedRecord, Jobs, files
<1>16. ASSUME NEW r \in Rollbacks, CheckAbsent(r) PROVE RemovedIsSpare'
  BY <1>16, <1>t, <1>s, <1>u, <1>v, JobAssumption
     DEF CheckAbsent, Move, PathIsSpare, PastLook, RemovedIsSpare, RollbacksRestore, JobRecord,
         RemovedRecord, Jobs, files
<1>17. ASSUME NEW r \in Rollbacks, Restore(r) PROVE RemovedIsSpare'
  BY <1>17, <1>t, <1>s, <1>u, <1>v, JobAssumption
     DEF Restore, Move, Put, PathIsSpare, PastLook, RemovedIsSpare, RollbacksRestore, JobRecord,
         RemovedRecord, Jobs, files
<1>18. ASSUME NEW r \in Rollbacks, Truncate(r) PROVE RemovedIsSpare'
  BY <1>18, <1>t, <1>s, <1>u, <1>v, JobAssumption
     DEF Truncate, Put, PathIsSpare, PastLook, RemovedIsSpare, RollbacksRestore, JobRecord,
         RemovedRecord, Jobs, files
<1>19. ASSUME NEW r \in Rollbacks, WriteOut(r) PROVE RemovedIsSpare'
  BY <1>19, <1>t, <1>s, <1>u, <1>v, JobAssumption
     DEF WriteOut, Move, Put, HelperDone, PathIsSpare, PastLook, RemovedIsSpare, RollbacksRestore,
         JobRecord, RemovedRecord, Jobs, files
<1>20. ASSUME NEW r \in Rollbacks, RecordRollback(r) PROVE RemovedIsSpare'
  BY <1>20, <1>t, <1>s, <1>u, <1>v, JobAssumption
     DEF RecordRollback, Move, Release, PathIsSpare, PastLook, RemovedIsSpare, RollbacksRestore,
         JobRecord, RemovedRecord, Jobs, files
<1>21. ASSUME NEW j \in Jobs, Fail(j) PROVE RemovedIsSpare'
  BY <1>21, <1>t, <1>s, <1>u, <1>v, JobAssumption
     DEF Fail, Move, Release, PathIsSpare, PastLook, RemovedIsSpare, RollbacksRestore, JobRecord,
         RemovedRecord, Jobs, files
<1>22. ASSUME NEW j \in Jobs, Die(j) PROVE RemovedIsSpare'
  BY <1>22, <1>t, <1>s, <1>u, <1>v, JobAssumption
     DEF Die, Release, PathIsSpare, PastLook, RemovedIsSpare, RollbacksRestore, JobRecord,
         RemovedRecord, Jobs, files
<1>23. CASE UNCHANGED vars
  BY <1>23, <1>t, <1>s, <1>u, <1>v, JobAssumption
     DEF vars, files, PathIsSpare, PastLook, RemovedIsSpare, RollbacksRestore, JobRecord,
         RemovedRecord, Jobs
<1>24. QED
  BY <1>1, <1>2, <1>3, <1>4, <1>5, <1>6, <1>7, <1>8, <1>9, <1>10, <1>11, <1>12, <1>13, <1>14,
     <1>15, <1>16, <1>17, <1>18, <1>19, <1>20, <1>21, <1>22, <1>23
     DEF Next

LEMMA RollbacksRestoreStep ==
    TypeOK /\ RollbacksRestore /\ [Next]_vars => RollbacksRestore'
<1> SUFFICES ASSUME TypeOK, RollbacksRestore, [Next]_vars
             PROVE  RollbacksRestore'
  OBVIOUS
<1>t. /\ job \in [Jobs -> JobRecord] /\ archive \in [Cleanups -> ArchiveRecord]
      /\ file \in FileRecord
  BY DEF TypeOK
<1>v. row \in [Cleanups -> {"none", "SUCCEEDED", "ROLLED_BACK"}]
  BY DEF TypeOK
<1>1. CASE OwnerWrites
  BY <1>1, <1>t, <1>v, JobAssumption DEF OwnerWrites, RollbacksRestore, JobRecord, Jobs
<1>2. CASE OwnerRotates
  BY <1>2, <1>t, <1>v, JobAssumption DEF OwnerRotates, RollbacksRestore, JobRecord, Jobs
<1>3. ASSUME NEW c \in Cleanups, Scan(c) PROVE RollbacksRestore'
  BY <1>3, <1>t, <1>v, JobAssumption DEF Scan, RollbacksRestore, JobRecord, Jobs
<1>4. ASSUME NEW c \in Cleanups, EnterCleanup(c) PROVE RollbacksRestore'
  BY <1>4, <1>t, <1>v, JobAssumption DEF EnterCleanup, Acquire, RollbacksRestore, JobRecord, Jobs
<1>5. ASSUME NEW c \in Cleanups, Check(c) PROVE RollbacksRestore'
  BY <1>5, <1>t, <1>v, JobAssumption DEF Check, Move, Current, RollbacksRestore, JobRecord, Jobs
<1>6. ASSUME NEW c \in Cleanups, Digest(c) PROVE RollbacksRestore'
  BY <1>6, <1>t, <1>v, JobAssumption DEF Digest, RollbacksRestore, JobRecord, Jobs
<1>7. ASSUME NEW c \in Cleanups, Copy(c) PROVE RollbacksRestore'
  BY <1>7, <1>t, <1>v, JobAssumption DEF Copy, Move, RollbacksRestore, JobRecord, Jobs
<1>8. ASSUME NEW c \in Cleanups, Verify(c) PROVE RollbacksRestore'
  BY <1>8, <1>t, <1>v, JobAssumption DEF Verify, Move, RollbacksRestore, JobRecord, Jobs
<1>9. ASSUME NEW c \in Cleanups, Unlink(c) PROVE RollbacksRestore'
  BY <1>9, <1>t, <1>v, JobAssumption DEF Unlink, Move, Vanish, RollbacksRestore, JobRecord, Jobs
<1>10. ASSUME NEW c \in Cleanups, Postcondition(c) PROVE RollbacksRestore'
  BY <1>10, <1>t, <1>v, JobAssumption
     DEF Postcondition, Move, HelperDone, RollbacksRestore, JobRecord, Jobs
<1>11. ASSUME NEW c \in Cleanups, Handler(c) PROVE RollbacksRestore'
  BY <1>11, <1>t, <1>v, JobAssumption DEF Handler, Move, RollbacksRestore, JobRecord, Jobs
<1>12. ASSUME NEW c \in Cleanups, HandlerRestores(c) PROVE RollbacksRestore'
  BY <1>12, <1>t, <1>v, JobAssumption
     DEF HandlerRestores, Move, Put, RollbacksRestore, JobRecord, Jobs
<1>13. ASSUME NEW c \in Cleanups, RecordCleanup(c) PROVE RollbacksRestore'
  BY <1>13, <1>t, <1>v, JobAssumption
     DEF RecordCleanup, Move, Release, RollbacksRestore, JobRecord, Jobs
<1>14. ASSUME NEW r \in Rollbacks, ReadChange(r) PROVE RollbacksRestore'
  BY <1>14, <1>t, <1>v, JobAssumption DEF ReadChange, RollbacksRestore, JobRecord, Jobs
<1>15. ASSUME NEW r \in Rollbacks, EnterRollback(r) PROVE RollbacksRestore'
  BY <1>15, <1>t, <1>v, JobAssumption
     DEF EnterRollback, Acquire, RollbacksRestore, JobRecord, Jobs
<1>16. ASSUME NEW r \in Rollbacks, CheckAbsent(r) PROVE RollbacksRestore'
  BY <1>16, <1>t, <1>v, JobAssumption DEF CheckAbsent, Move, RollbacksRestore, JobRecord, Jobs
<1>17. ASSUME NEW r \in Rollbacks, Restore(r) PROVE RollbacksRestore'
  BY <1>17, <1>t, <1>v, JobAssumption DEF Restore, Move, Put, RollbacksRestore, JobRecord, Jobs
<1>18. ASSUME NEW r \in Rollbacks, Truncate(r) PROVE RollbacksRestore'
  BY <1>18, <1>t, <1>v, JobAssumption DEF Truncate, Put, RollbacksRestore, JobRecord, Jobs
<1>19. ASSUME NEW r \in Rollbacks, WriteOut(r) PROVE RollbacksRestore'
  BY <1>19, <1>t, <1>v, JobAssumption
     DEF WriteOut, Move, Put, HelperDone, RollbacksRestore, JobRecord, Jobs
<1>20. ASSUME NEW r \in Rollbacks, RecordRollback(r) PROVE RollbacksRestore'
  BY <1>20, <1>t, <1>v, JobAssumption
     DEF RecordRollback, Move, Release, RollbacksRestore, JobRecord, Jobs
<1>21. ASSUME NEW j \in Jobs, Fail(j) PROVE RollbacksRestore'
  BY <1>21, <1>t, <1>v, JobAssumption DEF Fail, Move, Release, RollbacksRestore, JobRecord, Jobs
<1>22. ASSUME NEW j \in Jobs, Die(j) PROVE RollbacksRestore'
  BY <1>22, <1>t, <1>v, JobAssumption DEF Die, Release, RollbacksRestore, JobRecord, Jobs
<1>23. CASE UNCHANGED vars
  BY <1>23, <1>t, <1>v, JobAssumption DEF vars, files, RollbacksRestore, JobRecord, Jobs
<1>24. QED
  BY <1>1, <1>2, <1>3, <1>4, <1>5, <1>6, <1>7, <1>8, <1>9, <1>10, <1>11, <1>12, <1>13, <1>14,
     <1>15, <1>16, <1>17, <1>18, <1>19, <1>20, <1>21, <1>22, <1>23
     DEF Next

LEMMA CheckedStandsStep ==
    TypeOK /\ CheckedStands /\ [Next]_vars => CheckedStands'
<1> SUFFICES ASSUME TypeOK, CheckedStands, [Next]_vars
             PROVE  CheckedStands'
  OBVIOUS
<1>t. /\ job \in [Jobs -> JobRecord] /\ archive \in [Cleanups -> ArchiveRecord]
      /\ file \in FileRecord
  BY DEF TypeOK
<1>v. removed \in [Cleanups -> RemovedRecord] /\ clock \in Nat
  BY DEF TypeOK, RemovedRecord
<1>1. CASE OwnerWrites
  BY <1>1, <1>t, <1>v, JobAssumption
     DEF OwnerWrites, CheckedStands, Current, Ahead, JobRecord, RemovedRecord, Jobs, files
<1>2. CASE OwnerRotates
  BY <1>2, <1>t, <1>v, JobAssumption
     DEF OwnerRotates, CheckedStands, Current, Ahead, JobRecord, RemovedRecord, Jobs, files
<1>3. ASSUME NEW c \in Cleanups, Scan(c) PROVE CheckedStands'
  BY <1>3, <1>t, <1>v, JobAssumption
     DEF Scan, CheckedStands, Current, Ahead, JobRecord, RemovedRecord, Jobs, files
<1>4. ASSUME NEW c \in Cleanups, EnterCleanup(c) PROVE CheckedStands'
  BY <1>4, <1>t, <1>v, JobAssumption
     DEF EnterCleanup, Acquire, CheckedStands, Current, Ahead, JobRecord, RemovedRecord, Jobs,
         files
<1>5. ASSUME NEW c \in Cleanups, Check(c) PROVE CheckedStands'
  BY <1>5, <1>t, <1>v, JobAssumption
     DEF Check, Move, Current, CheckedStands, Current, Ahead, JobRecord, RemovedRecord, Jobs,
         files
<1>6. ASSUME NEW c \in Cleanups, Digest(c) PROVE CheckedStands'
  BY <1>6, <1>t, <1>v, JobAssumption
     DEF Digest, CheckedStands, Current, Ahead, JobRecord, RemovedRecord, Jobs, files
<1>7. ASSUME NEW c \in Cleanups, Copy(c) PROVE CheckedStands'
  BY <1>7, <1>t, <1>v, JobAssumption
     DEF Copy, Move, CheckedStands, Current, Ahead, JobRecord, RemovedRecord, Jobs, files
<1>8. ASSUME NEW c \in Cleanups, Verify(c) PROVE CheckedStands'
  BY <1>8, <1>t, <1>v, JobAssumption
     DEF Verify, Move, CheckedStands, Current, Ahead, JobRecord, RemovedRecord, Jobs, files
<1>9. ASSUME NEW c \in Cleanups, Unlink(c) PROVE CheckedStands'
  BY <1>9, <1>t, <1>v, JobAssumption
     DEF Unlink, Move, Vanish, CheckedStands, Current, Ahead, JobRecord, RemovedRecord, Jobs,
         files
<1>10. ASSUME NEW c \in Cleanups, Postcondition(c) PROVE CheckedStands'
  BY <1>10, <1>t, <1>v, JobAssumption
     DEF Postcondition, Move, HelperDone, CheckedStands, Current, Ahead, JobRecord, RemovedRecord,
         Jobs, files
<1>11. ASSUME NEW c \in Cleanups, Handler(c) PROVE CheckedStands'
  BY <1>11, <1>t, <1>v, JobAssumption
     DEF Handler, Move, CheckedStands, Current, Ahead, JobRecord, RemovedRecord, Jobs, files
<1>12. ASSUME NEW c \in Cleanups, HandlerRestores(c) PROVE CheckedStands'
  BY <1>12, <1>t, <1>v, JobAssumption
     DEF HandlerRestores, Move, Put, CheckedStands, Current, Ahead, JobRecord, RemovedRecord,
         Jobs, files
<1>13. ASSUME NEW c \in Cleanups, RecordCleanup(c) PROVE CheckedStands'
  BY <1>13, <1>t, <1>v, JobAssumption
     DEF RecordCleanup, Move, Release, CheckedStands, Current, Ahead, JobRecord, RemovedRecord,
         Jobs, files
<1>14. ASSUME NEW r \in Rollbacks, ReadChange(r) PROVE CheckedStands'
  BY <1>14, <1>t, <1>v, JobAssumption
     DEF ReadChange, CheckedStands, Current, Ahead, JobRecord, RemovedRecord, Jobs, files
<1>15. ASSUME NEW r \in Rollbacks, EnterRollback(r) PROVE CheckedStands'
  BY <1>15, <1>t, <1>v, JobAssumption
     DEF EnterRollback, Acquire, CheckedStands, Current, Ahead, JobRecord, RemovedRecord, Jobs,
         files
<1>16. ASSUME NEW r \in Rollbacks, CheckAbsent(r) PROVE CheckedStands'
  BY <1>16, <1>t, <1>v, JobAssumption
     DEF CheckAbsent, Move, CheckedStands, Current, Ahead, JobRecord, RemovedRecord, Jobs, files
<1>17. ASSUME NEW r \in Rollbacks, Restore(r) PROVE CheckedStands'
  BY <1>17, <1>t, <1>v, JobAssumption
     DEF Restore, Move, Put, CheckedStands, Current, Ahead, JobRecord, RemovedRecord, Jobs, files
<1>18. ASSUME NEW r \in Rollbacks, Truncate(r) PROVE CheckedStands'
  BY <1>18, <1>t, <1>v, JobAssumption
     DEF Truncate, Put, CheckedStands, Current, Ahead, JobRecord, RemovedRecord, Jobs, files
<1>19. ASSUME NEW r \in Rollbacks, WriteOut(r) PROVE CheckedStands'
  BY <1>19, <1>t, <1>v, JobAssumption
     DEF WriteOut, Move, Put, HelperDone, CheckedStands, Current, Ahead, JobRecord, RemovedRecord,
         Jobs, files
<1>20. ASSUME NEW r \in Rollbacks, RecordRollback(r) PROVE CheckedStands'
  BY <1>20, <1>t, <1>v, JobAssumption
     DEF RecordRollback, Move, Release, CheckedStands, Current, Ahead, JobRecord, RemovedRecord,
         Jobs, files
<1>21. ASSUME NEW j \in Jobs, Fail(j) PROVE CheckedStands'
  BY <1>21, <1>t, <1>v, JobAssumption
     DEF Fail, Move, Release, CheckedStands, Current, Ahead, JobRecord, RemovedRecord, Jobs, files
<1>22. ASSUME NEW j \in Jobs, Die(j) PROVE CheckedStands'
  BY <1>22, <1>t, <1>v, JobAssumption
     DEF Die, Release, CheckedStands, Current, Ahead, JobRecord, RemovedRecord, Jobs, files
<1>23. CASE UNCHANGED vars
  BY <1>23, <1>t, <1>v, JobAssumption
     DEF vars, files, CheckedStands, Current, Ahead, JobRecord, RemovedRecord, Jobs
<1>24. QED
  BY <1>1, <1>2, <1>3, <1>4, <1>5, <1>6, <1>7, <1>8, <1>9, <1>10, <1>11, <1>12, <1>13, <1>14,
     <1>15, <1>16, <1>17, <1>18, <1>19, <1>20, <1>21, <1>22, <1>23
     DEF Next

LEMMA ApprovedStep ==
    TypeOK /\ CheckedStands /\ RemovedAsApproved /\ [Next]_vars => RemovedAsApproved'
<1> SUFFICES ASSUME TypeOK, CheckedStands, RemovedAsApproved, [Next]_vars
             PROVE  RemovedAsApproved'
  OBVIOUS
<1>t. /\ job \in [Jobs -> JobRecord] /\ archive \in [Cleanups -> ArchiveRecord]
      /\ file \in FileRecord
  BY DEF TypeOK
<1>v. removed \in [Cleanups -> RemovedRecord] /\ clock \in Nat
  BY DEF TypeOK, RemovedRecord
<1>1. CASE OwnerWrites
  BY <1>1, <1>t, <1>v, JobAssumption
     DEF OwnerWrites, RemovedAsApproved, CheckedStands, Current, Ahead, JobRecord, RemovedRecord,
         Jobs, files
<1>2. CASE OwnerRotates
  BY <1>2, <1>t, <1>v, JobAssumption
     DEF OwnerRotates, RemovedAsApproved, CheckedStands, Current, Ahead, JobRecord, RemovedRecord,
         Jobs, files
<1>3. ASSUME NEW c \in Cleanups, Scan(c) PROVE RemovedAsApproved'
  BY <1>3, <1>t, <1>v, JobAssumption
     DEF Scan, RemovedAsApproved, CheckedStands, Current, Ahead, JobRecord, RemovedRecord, Jobs,
         files
<1>4. ASSUME NEW c \in Cleanups, EnterCleanup(c) PROVE RemovedAsApproved'
  BY <1>4, <1>t, <1>v, JobAssumption
     DEF EnterCleanup, Acquire, RemovedAsApproved, CheckedStands, Current, Ahead, JobRecord,
         RemovedRecord, Jobs, files
<1>5. ASSUME NEW c \in Cleanups, Check(c) PROVE RemovedAsApproved'
  BY <1>5, <1>t, <1>v, JobAssumption
     DEF Check, Move, Current, RemovedAsApproved, CheckedStands, Current, Ahead, JobRecord,
         RemovedRecord, Jobs, files
<1>6. ASSUME NEW c \in Cleanups, Digest(c) PROVE RemovedAsApproved'
  BY <1>6, <1>t, <1>v, JobAssumption
     DEF Digest, RemovedAsApproved, CheckedStands, Current, Ahead, JobRecord, RemovedRecord, Jobs,
         files
<1>7. ASSUME NEW c \in Cleanups, Copy(c) PROVE RemovedAsApproved'
  BY <1>7, <1>t, <1>v, JobAssumption
     DEF Copy, Move, RemovedAsApproved, CheckedStands, Current, Ahead, JobRecord, RemovedRecord,
         Jobs, files
<1>8. ASSUME NEW c \in Cleanups, Verify(c) PROVE RemovedAsApproved'
  BY <1>8, <1>t, <1>v, JobAssumption
     DEF Verify, Move, RemovedAsApproved, CheckedStands, Current, Ahead, JobRecord, RemovedRecord,
         Jobs, files
<1>9. ASSUME NEW c \in Cleanups, Unlink(c) PROVE RemovedAsApproved'
  <2>1. \A d \in Cleanups : /\ job'[d].inode = job[d].inode /\ job'[d].mtime = job[d].mtime
                            /\ d # c => removed'[d] = removed[d]
    BY <1>9, <1>t, <1>v DEF Unlink, Move, JobRecord, RemovedRecord, Jobs
  <2>2. removed[c].from = clock => file.inode = job[c].inode /\ file.mtime = job[c].mtime
    BY <1>9 DEF Unlink, Move, CheckedStands, Ahead, Current
  <2>3. \/ removed'[c] = removed[c]
        \/ /\ removed'[c].at = clock /\ removed'[c].from = removed[c].from
           /\ removed'[c].inode = file.inode /\ removed'[c].mtime = file.mtime
    BY <1>9, <1>v DEF Unlink, RemovedRecord
  <2> QED
    BY <2>1, <2>2, <2>3 DEF RemovedAsApproved
<1>10. ASSUME NEW c \in Cleanups, Postcondition(c) PROVE RemovedAsApproved'
  BY <1>10, <1>t, <1>v, JobAssumption
     DEF Postcondition, Move, HelperDone, RemovedAsApproved, CheckedStands, Current, Ahead,
         JobRecord, RemovedRecord, Jobs, files
<1>11. ASSUME NEW c \in Cleanups, Handler(c) PROVE RemovedAsApproved'
  BY <1>11, <1>t, <1>v, JobAssumption
     DEF Handler, Move, RemovedAsApproved, CheckedStands, Current, Ahead, JobRecord,
         RemovedRecord, Jobs, files
<1>12. ASSUME NEW c \in Cleanups, HandlerRestores(c) PROVE RemovedAsApproved'
  BY <1>12, <1>t, <1>v, JobAssumption
     DEF HandlerRestores, Move, Put, RemovedAsApproved, CheckedStands, Current, Ahead, JobRecord,
         RemovedRecord, Jobs, files
<1>13. ASSUME NEW c \in Cleanups, RecordCleanup(c) PROVE RemovedAsApproved'
  BY <1>13, <1>t, <1>v, JobAssumption
     DEF RecordCleanup, Move, Release, RemovedAsApproved, CheckedStands, Current, Ahead,
         JobRecord, RemovedRecord, Jobs, files
<1>14. ASSUME NEW r \in Rollbacks, ReadChange(r) PROVE RemovedAsApproved'
  BY <1>14, <1>t, <1>v, JobAssumption
     DEF ReadChange, RemovedAsApproved, CheckedStands, Current, Ahead, JobRecord, RemovedRecord,
         Jobs, files
<1>15. ASSUME NEW r \in Rollbacks, EnterRollback(r) PROVE RemovedAsApproved'
  BY <1>15, <1>t, <1>v, JobAssumption
     DEF EnterRollback, Acquire, RemovedAsApproved, CheckedStands, Current, Ahead, JobRecord,
         RemovedRecord, Jobs, files
<1>16. ASSUME NEW r \in Rollbacks, CheckAbsent(r) PROVE RemovedAsApproved'
  BY <1>16, <1>t, <1>v, JobAssumption
     DEF CheckAbsent, Move, RemovedAsApproved, CheckedStands, Current, Ahead, JobRecord,
         RemovedRecord, Jobs, files
<1>17. ASSUME NEW r \in Rollbacks, Restore(r) PROVE RemovedAsApproved'
  BY <1>17, <1>t, <1>v, JobAssumption
     DEF Restore, Move, Put, RemovedAsApproved, CheckedStands, Current, Ahead, JobRecord,
         RemovedRecord, Jobs, files
<1>18. ASSUME NEW r \in Rollbacks, Truncate(r) PROVE RemovedAsApproved'
  BY <1>18, <1>t, <1>v, JobAssumption
     DEF Truncate, Put, RemovedAsApproved, CheckedStands, Current, Ahead, JobRecord,
         RemovedRecord, Jobs, files
<1>19. ASSUME NEW r \in Rollbacks, WriteOut(r) PROVE RemovedAsApproved'
  BY <1>19, <1>t, <1>v, JobAssumption
     DEF WriteOut, Move, Put, HelperDone, RemovedAsApproved, CheckedStands, Current, Ahead,
         JobRecord, RemovedRecord, Jobs, files
<1>20. ASSUME NEW r \in Rollbacks, RecordRollback(r) PROVE RemovedAsApproved'
  BY <1>20, <1>t, <1>v, JobAssumption
     DEF RecordRollback, Move, Release, RemovedAsApproved, CheckedStands, Current, Ahead,
         JobRecord, RemovedRecord, Jobs, files
<1>21. ASSUME NEW j \in Jobs, Fail(j) PROVE RemovedAsApproved'
  BY <1>21, <1>t, <1>v, JobAssumption
     DEF Fail, Move, Release, RemovedAsApproved, CheckedStands, Current, Ahead, JobRecord,
         RemovedRecord, Jobs, files
<1>22. ASSUME NEW j \in Jobs, Die(j) PROVE RemovedAsApproved'
  BY <1>22, <1>t, <1>v, JobAssumption
     DEF Die, Release, RemovedAsApproved, CheckedStands, Current, Ahead, JobRecord, RemovedRecord,
         Jobs, files
<1>23. CASE UNCHANGED vars
  BY <1>23, <1>t, <1>v, JobAssumption
     DEF vars, files, RemovedAsApproved, CheckedStands, Current, Ahead, JobRecord, RemovedRecord,
         Jobs
<1>24. QED
  BY <1>1, <1>2, <1>3, <1>4, <1>5, <1>6, <1>7, <1>8, <1>9, <1>10, <1>11, <1>12, <1>13, <1>14,
     <1>15, <1>16, <1>17, <1>18, <1>19, <1>20, <1>21, <1>22, <1>23
     DEF Next

-----------------------------------------------------------------------------
LEMMA FilesStart == Init => FilesInv
<1> SUFFICES ASSUME Init
             PROVE  FilesInv
  OBVIOUS
<1>1. FilesTyped
  BY JobAssumption DEF Init, FilesTyped, TypeOK, HoldersEntered, Nothing, FileRecord,
     ArchiveRecord, JobRecord, Places, Modes, Jobs
<1>2. NothingElsewhere /\ RollbacksRestore
  BY DEF Init, NothingElsewhere, RollbacksRestore, Jobs
<1>3. PathIsSpare /\ NothingLost
  BY DEF Init, PathIsSpare, PastLook, NothingLost, Jobs
<1>4. RemovedIsSpare /\ CheckedStands /\ RemovedAsApproved
  BY DEF Init, RemovedIsSpare, CheckedStands, RemovedAsApproved, Nothing, Ahead, Jobs
<1>5. QED
  BY <1>1, <1>2, <1>3, <1>4 DEF FilesInv

LEMMA FilesInductive == FilesInv /\ [Next]_vars => FilesInv'
<1> SUFFICES ASSUME FilesInv, [Next]_vars
             PROVE  FilesInv'
  OBVIOUS
<1>1. /\ FilesTyped /\ TypeOK /\ NothingElsewhere /\ PathIsSpare /\ NothingLost
      /\ RemovedIsSpare /\ RollbacksRestore /\ CheckedStands /\ RemovedAsApproved
  BY DEF FilesInv, FilesTyped
<1>2. FilesTyped' /\ NothingElsewhere' /\ PathIsSpare' /\ NothingLost'
  BY <1>1, TypedStep, NothingElsewhereStep, PathIsSpareStep, NothingLostStep
<1>3. RemovedIsSpare' /\ RollbacksRestore'
  BY <1>1, RemovedIsSpareStep, RollbacksRestoreStep
<1>4. CheckedStands' /\ RemovedAsApproved'
  BY <1>1, CheckedStandsStep, ApprovedStep
<1>5. QED
  BY <1>2, <1>3, <1>4 DEF FilesInv

\* Every variable keeps its type, and whoever holds SQLite's write lock or the helper entered in
\* the mode that asks for it, whatever the number of jobs.
THEOREM FilesTypeCorrect == Spec => []TypeOK
<1>1. FilesInv => TypeOK
  BY DEF FilesInv, FilesTyped
<1>2. QED
  BY <1>1, FilesStart, FilesInductive, PTL DEF Spec

\* No interleaving of any number of cleanings, rollbacks, restores by the exception handler,
\* writes in place by the helper and deaths loses a write of the owner that some job could still
\* have seen (production.py:94-104, 188-194; kylin_guard_privileged.py:128-136, 165-169).
THEOREM OlderWritesKept == Spec => []OnlyLateWritesLost
<1>1. FilesInv => OnlyLateWritesLost
  BY DEF FilesInv, NothingLost, OnlyLateWritesLost, Spare, Archived
<1>2. QED
  BY <1>1, FilesStart, FilesInductive, PTL DEF Spec

\* SUCCEEDED and ROLLED_BACK are only ever committed of a change whose unlink and archive, or
\* whose restore, they tell of (router.py:1527, 1594-1613).
THEOREM StatusTruthful == Spec => []RowsTellTruth
<1>1. FilesInv => RowsTellTruth
  BY DEF FilesInv, RemovedIsSpare, RollbacksRestore, RowsTellTruth, Spare, Archived
<1>2. QED
  BY <1>1, FilesStart, FilesInductive, PTL DEF Spec

\* A path that did not change between a cleaning's check and its unlink loses the very file that
\* was approved (production.py:88-98, kylin_guard_privileged.py:120-134).
THEOREM RemovalsApproved == Spec => []RemovedAsApproved
<1>1. FilesInv => RemovedAsApproved
  BY DEF FilesInv
<1>2. QED
  BY <1>1, FilesStart, FilesInductive, PTL DEF Spec

=============================================================================
