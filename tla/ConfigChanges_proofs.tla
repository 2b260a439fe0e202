------------------------ MODULE ConfigChanges_proofs ------------------------
(***************************************************************************)
(* What holds of the configuration file for any updates, rollbacks and     *)
(* edits: what may stand in it was validated, and an update that nobody    *)
(* disturbs is all or nothing.                                             *)
(***************************************************************************)
EXTENDS ConfigChanges, TLAPS

\* What the jobs hold, and contents where contents belong.
Shapes ==
    /\ job \in [Jobs -> JobRecord]
    /\ target \in Contents \cup {Absent}
    /\ backup \in [Updates -> Contents \cup {Absent}]
    /\ row \in [Updates -> {"none", "SUCCEEDED", "FAILED", "ROLLED_BACK"}]

\* A content that may stand in the file.
Vetted(content) == content \in Updates => content \in vetted /\ content \in accepted

\* Everything that is in the file, or that a handler or a rollback may put there,
\* and what an update is about to put there.
SourcesVetted ==
    /\ Vetted(target)
    /\ \A u \in Updates : Vetted(backup[u])
    /\ \A u \in Updates : job[u].pc = "valid" => Vetted(u)

VettedInv == Shapes /\ SourcesVetted

-----------------------------------------------------------------------------
\* A job that moves on keeps the rest of its record.
LEMMA MoveShape ==
    ASSUME Shapes, NEW j \in Jobs, NEW from, NEW to \in Places, Move(j, from, to)
    PROVE  /\ job' \in [Jobs -> JobRecord]
           /\ job[j].pc = from /\ job'[j].pc = to /\ job'[j].change = job[j].change
           /\ \A k \in Jobs \ {j} : job'[k] = job[k]
<1> DEFINE moved == [job[j] EXCEPT !.pc = to]
<1>1. job[j] \in JobRecord
  BY DEF Shapes
<1>2. moved \in JobRecord /\ moved.pc = to /\ moved.change = job[j].change
  BY <1>1 DEF JobRecord
<1>3. job[j].pc = from /\ job' = [job EXCEPT ![j] = moved]
  BY DEF Move
<1> HIDE DEF moved
<1> QED
  BY <1>2, <1>3 DEF Shapes

\* Steps that put nothing anywhere, and let no update but a vetted one go on to the replace.
LEMMA NothingWritten ==
    ASSUME VettedInv, NEW j \in Jobs, NEW from, NEW to \in Places, Move(j, from, to),
           UNCHANGED <<accepted, target, backup>>, vetted \subseteq vetted',
           row' \in [Updates -> {"none", "SUCCEEDED", "FAILED", "ROLLED_BACK"}],
           to = "valid" /\ j \in Updates => j \in vetted' /\ j \in accepted
    PROVE  VettedInv'
<1>1. /\ job' \in [Jobs -> JobRecord]
      /\ job'[j].pc = to
      /\ \A k \in Jobs \ {j} : job'[k] = job[k]
  BY MoveShape DEF VettedInv
<1>2. Shapes'
  BY <1>1 DEF VettedInv, Shapes
<1>3. \A content : Vetted(content) => Vetted(content)'
  BY DEF Vetted
<1>4. Vetted(target)' /\ \A u \in Updates : Vetted(backup[u])'
  BY <1>3 DEF VettedInv, SourcesVetted
<1>5. ASSUME NEW u \in Updates, job'[u].pc = "valid"
      PROVE  Vetted(u)'
  BY <1>1, <1>3, <1>5 DEF VettedInv, SourcesVetted, Vetted, Jobs
<1> QED
  BY <1>2, <1>4, <1>5 DEF VettedInv, SourcesVetted

\* Steps that write a vetted content.
LEMMA VettedWritten ==
    ASSUME VettedInv, NEW j \in Jobs, NEW from, NEW to \in Places \ {"valid"}, Move(j, from, to),
           NEW content \in Contents \cup {Absent}, Vetted(content), target' = content,
           UNCHANGED <<accepted, backup, row, vetted>>
    PROVE  VettedInv'
<1>1. /\ job' \in [Jobs -> JobRecord]
      /\ job'[j].pc = to
      /\ \A k \in Jobs \ {j} : job'[k] = job[k]
  BY MoveShape DEF VettedInv
<1>2. Shapes'
  BY <1>1 DEF VettedInv, Shapes
<1>3. SourcesVetted'
  BY <1>1 DEF VettedInv, SourcesVetted, Vetted, Jobs
<1> QED
  BY <1>2, <1>3 DEF VettedInv

LEMMA EditKeeps ==
    ASSUME VettedInv, NEW e \in Edits, Edit(e)
    PROVE  VettedInv'
<1>1. target' = e /\ UNCHANGED <<accepted, backup, row, job, vetted>>
  BY DEF Edit, Write
<1>2. e \notin Updates /\ e \in Contents
  BY ContentAssumption DEF Contents
<1> QED
  BY <1>1, <1>2 DEF VettedInv, Shapes, SourcesVetted, Vetted

LEMMA HashKeeps ==
    ASSUME VettedInv, NEW u \in Updates, Hash(u)
    PROVE  VettedInv'
<1> DEFINE hashed == [job[u] EXCEPT !.pc = "hashed", !.hash = target]
<1>1. job[u] \in JobRecord
  BY DEF VettedInv, Shapes, Jobs
<1>2. hashed \in JobRecord /\ hashed.pc = "hashed"
  BY <1>1 DEF VettedInv, Shapes, JobRecord, Places
<1>3. job' = [job EXCEPT ![u] = hashed] /\ UNCHANGED <<accepted, target, backup, row, vetted>>
  BY DEF Hash
<1> HIDE DEF hashed
<1>4. Shapes' /\ job'[u].pc = "hashed" /\ \A k \in Updates \ {u} : job'[k] = job[k]
  BY <1>2, <1>3 DEF VettedInv, Shapes, Jobs
<1> QED
  BY <1>3, <1>4 DEF VettedInv, SourcesVetted, Vetted

\* A backup is a copy of the file.
LEMMA CopyKeeps ==
    ASSUME VettedInv, NEW u \in Updates, Copy(u)
    PROVE  VettedInv'
<1>1. /\ Move(u, "hashed", "copied") /\ backup' = [backup EXCEPT ![u] = target]
      /\ UNCHANGED <<accepted, target, row, vetted>>
  BY DEF Copy
<1>2. u \in Jobs /\ "copied" \in Places
  BY DEF Jobs, Places
<1>3. /\ job' \in [Jobs -> JobRecord]
      /\ job'[u].pc = "copied"
      /\ \A k \in Jobs \ {u} : job'[k] = job[k]
  BY <1>1, <1>2, MoveShape DEF VettedInv
<1>4. Shapes'
  BY <1>1, <1>3 DEF VettedInv, Shapes
<1>5. SourcesVetted'
  BY <1>1, <1>3 DEF VettedInv, Shapes, SourcesVetted, Vetted, Jobs
<1> QED
  BY <1>4, <1>5 DEF VettedInv

LEMMA ReadChangeKeeps ==
    ASSUME VettedInv, NEW r \in Rollbacks, ReadChange(r)
    PROVE  VettedInv'
<1>1. PICK u \in Updates :
        /\ row[u] \in {"SUCCEEDED", "ROLLED_BACK"}
        /\ job' = [job EXCEPT ![r].pc = "read", ![r].change = {u}, ![r].status = {row[u]}]
        /\ UNCHANGED <<accepted, target, backup, row, vetted>>
  BY DEF ReadChange
<1> DEFINE began == [job[r] EXCEPT !.pc = "read", !.change = {u}, !.status = {row[u]}]
<1>2. job[r] \in JobRecord
  BY DEF VettedInv, Shapes, Jobs
<1>3. began \in JobRecord /\ began.pc = "read"
  BY <1>1, <1>2 DEF JobRecord, Places
<1>4. job' = [job EXCEPT ![r] = began]
  BY <1>1
<1> HIDE DEF began
<1>5. job' \in [Jobs -> JobRecord] /\ \A k \in Jobs \ {r} : job'[k] = job[k]
  BY <1>3, <1>4 DEF VettedInv, Shapes
<1>6. Shapes'
  BY <1>1, <1>5 DEF VettedInv, Shapes
<1>7. \A k \in Updates : job'[k] = job[k]
  BY <1>5, ContentAssumption DEF Jobs
<1> QED
  BY <1>1, <1>6, <1>7 DEF VettedInv, SourcesVetted, Vetted

-----------------------------------------------------------------------------
LEMMA UpdateKeeps ==
    ASSUME VettedInv, NEW u \in Updates,
           \/ Hash(u) \/ Copy(u) \/ ValidateCandidate(u) \/ Replace(u) \/ ValidateTarget(u)
           \/ Handler(u) \/ RecordUpdate(u)
    PROVE  VettedInv'
<1>0. u \in Jobs /\ u \in Contents /\ row \in [Updates -> {"none", "SUCCEEDED", "FAILED", "ROLLED_BACK"}]
  BY DEF Jobs, Contents, VettedInv, Shapes
<1>1. CASE Hash(u) \/ Copy(u)
  BY <1>1, HashKeeps, CopyKeeps
<1>2. CASE ValidateCandidate(u)
  <2>1. PICK verdict \in BOOLEAN :
          /\ Validates(u, verdict)
          /\ Move(u, "copied", IF backup[u] = job[u].hash /\ verdict THEN "valid" ELSE "raised")
          /\ vetted' = IF backup[u] = job[u].hash /\ verdict THEN vetted \cup {u} ELSE vetted
          /\ UNCHANGED <<accepted, target, backup, row>>
    BY <1>2 DEF ValidateCandidate
  <2>2. CASE backup[u] = job[u].hash /\ verdict
    <3>1. Move(u, "copied", "valid") /\ u \in vetted' /\ u \in accepted /\ vetted \subseteq vetted'
      BY <2>1, <2>2 DEF Validates
    <3> QED
      BY <1>0, <2>1, <3>1, NothingWritten DEF Places
  <2>3. CASE ~(backup[u] = job[u].hash /\ verdict)
    <3>1. Move(u, "copied", "raised") /\ vetted' = vetted
      BY <2>1, <2>3
    <3> QED
      BY <1>0, <2>1, <3>1, NothingWritten DEF Places
  <2> QED
    BY <2>2, <2>3
<1>3. CASE Replace(u)
  <2>1. Move(u, "valid", "replaced") /\ target' = u /\ UNCHANGED <<accepted, backup, row, vetted>>
    BY <1>3 DEF Replace, Write
  <2>2. Vetted(u)
    BY <2>1 DEF Move, VettedInv, SourcesVetted
  <2> QED
    BY <1>0, <2>1, <2>2, VettedWritten DEF Places
<1>4. CASE ValidateTarget(u)
  <2>1. PICK to \in {"succeeded", "raised"} :
          Move(u, "replaced", to) /\ UNCHANGED <<accepted, target, backup, row, vetted>>
    BY <1>4 DEF ValidateTarget
  <2> QED
    BY <1>0, <2>1, NothingWritten DEF Places
<1>5. CASE Handler(u)
  <2>1. Move(u, "raised", "failing") /\ UNCHANGED <<accepted, backup, row, vetted>>
    BY <1>5 DEF Handler
  <2>2. target' = backup[u] \/ target' = target
    BY <1>5 DEF Handler, Write
  <2>3. PICK content \in {backup[u], target} : target' = content
    BY <2>2
  <2>4. Vetted(content) /\ content \in Contents \cup {Absent}
    BY <2>3 DEF VettedInv, Shapes, SourcesVetted
  <2>5. "failing" \in Places \ {"valid"}
    BY DEF Places
  <2> QED
    BY <1>0, <2>1, <2>3, <2>4, <2>5, VettedWritten
<1>6. CASE RecordUpdate(u)
  <2>1. PICK from \in {"succeeded", "failing"}, status \in {"SUCCEEDED", "FAILED"} :
          /\ Move(u, from, "ended") /\ row' = [row EXCEPT ![u] = status]
          /\ UNCHANGED <<accepted, target, backup, vetted>>
    BY <1>6 DEF RecordUpdate
  <2>2. row' \in [Updates -> {"none", "SUCCEEDED", "FAILED", "ROLLED_BACK"}]
    BY <1>0, <2>1
  <2> QED
    BY <1>0, <2>1, <2>2, NothingWritten DEF Places
<1> QED
  BY <1>1, <1>2, <1>3, <1>4, <1>5, <1>6

LEMMA RollbackKeeps ==
    ASSUME VettedInv, NEW r \in Rollbacks,
           \/ ReadChange(r) \/ Enter(r) \/ ValidateBackup(r) \/ PutBack(r) \/ ValidateRestored(r)
           \/ RecordRollback(r) \/ FailRollback(r)
    PROVE  VettedInv'
<1>0. /\ r \in Jobs /\ r \notin Updates /\ job[r].change \subseteq Updates
      /\ row \in [Updates -> {"none", "SUCCEEDED", "FAILED", "ROLLED_BACK"}]
  BY ContentAssumption DEF Jobs, VettedInv, Shapes, JobRecord
<1>1. CASE ReadChange(r)
  BY <1>1, ReadChangeKeeps
<1>2. CASE Enter(r) \/ ValidateRestored(r) \/ FailRollback(r)
  <2>1. PICK from, to \in Places :
          Move(r, from, to) /\ UNCHANGED <<accepted, target, backup, row, vetted>>
    BY <1>2 DEF Enter, ValidateRestored, FailRollback, Places
  <2> QED
    BY <1>0, <2>1, NothingWritten
<1>3. CASE ValidateBackup(r)
  <2>1. PICK to \in {"valid", "failing"} :
          /\ Move(r, "entered", to) /\ vetted \subseteq vetted'
          /\ UNCHANGED <<accepted, target, backup, row>>
    BY <1>3 DEF ValidateBackup
  <2> QED
    BY <1>0, <2>1, NothingWritten DEF Places
<1>4. CASE PutBack(r)
  <2>1. PICK u \in job[r].change :
          /\ Move(r, "valid", "replaced") /\ target' = backup[u]
          /\ UNCHANGED <<accepted, backup, row, vetted>>
    BY <1>4 DEF PutBack, Write
  <2>2. Vetted(backup[u]) /\ backup[u] \in Contents \cup {Absent}
    BY <1>0, <2>1 DEF VettedInv, Shapes, SourcesVetted
  <2> QED
    BY <1>0, <2>1, <2>2, VettedWritten DEF Places
<1>5. CASE RecordRollback(r)
  <2>1. PICK u \in job[r].change :
          /\ Move(r, "succeeded", "ended") /\ row' = [row EXCEPT ![u] = "ROLLED_BACK"]
          /\ UNCHANGED <<accepted, target, backup, vetted>>
    BY <1>5 DEF RecordRollback
  <2>2. row' \in [Updates -> {"none", "SUCCEEDED", "FAILED", "ROLLED_BACK"}]
    BY <1>0, <2>1
  <2> QED
    BY <1>0, <2>1, <2>2, NothingWritten DEF Places
<1> QED
  BY <1>1, <1>2, <1>3, <1>4, <1>5

LEMMA DieKeeps ==
    ASSUME VettedInv, NEW j \in Jobs, Die(j)
    PROVE  VettedInv'
<1>1. Move(j, job[j].pc, "dead") /\ UNCHANGED <<accepted, target, backup, row, vetted>>
  BY DEF Die, Move
<1>2. row \in [Updates -> {"none", "SUCCEEDED", "FAILED", "ROLLED_BACK"}]
  BY DEF VettedInv, Shapes
<1> QED
  BY <1>1, <1>2, NothingWritten DEF Places

-----------------------------------------------------------------------------
LEMMA VettedStart == Init => VettedInv
<1> SUFFICES ASSUME Init
             PROVE  VettedInv
  OBVIOUS
<1>1. Shapes
  BY DEF Init, Shapes, JobRecord, Places, Contents
<1>2. \A u \in Updates : job[u].pc = "idle" /\ backup[u] = Absent
  BY DEF Init, Jobs
<1>3. Original \notin Updates /\ Absent \notin Updates
  BY ContentAssumption
<1> QED
  BY <1>1, <1>2, <1>3 DEF Init, VettedInv, SourcesVetted, Vetted

LEMMA VettedInductive == VettedInv /\ [Next]_vars => VettedInv'
<1> SUFFICES ASSUME VettedInv, [Next]_vars
             PROVE  VettedInv'
  OBVIOUS
<1>1. CASE UNCHANGED vars
  BY <1>1 DEF vars, VettedInv, Shapes, SourcesVetted, Vetted
<1> QED
  BY <1>1, EditKeeps, UpdateKeeps, RollbackKeeps, DieKeeps DEF Next

\* A content of an update stands in the file, or in a backup from where it may be put
\* there, only if the validator accepted it before (config_update.py:105-124, 155-161).
THEOREM OnlyVettedContentHolds == Spec => []OnlyVettedContent
<1>1. VettedInv => OnlyVettedContent
  BY DEF VettedInv, SourcesVetted, Vetted, OnlyVettedContent
<1> QED
  BY <1>1, VettedStart, VettedInductive, PTL DEF Spec

-----------------------------------------------------------------------------
(* An update that is let alone. *)

Backed == {"copied", "valid", "replaced", "raised", "succeeded", "failing"}

\* Who is where: a row ends its update, a rollback names one change that succeeded once, and the
\* holder of the lock is under way.
JobsOrdered ==
    /\ lock \in Rollbacks \cup {Absent}
    /\ lock # Absent => job[lock].pc \notin {"idle", "read", "ended", "dead"}
    /\ \A u \in Updates : row[u] # "none" => job[u].pc = "ended"
    /\ \A r \in Rollbacks :
        /\ \A u \in job[r].change : u \in Updates /\ row[u] \in {"SUCCEEDED", "ROLLED_BACK"}
        /\ \A u, v \in job[r].change : u = v
        /\ job[r].pc = "idle" => job[r].change = {}

\* What is hashed, backed up and written is a content.
ContentsHeld ==
    /\ accepted \subseteq Contents /\ target \in Contents
    /\ edited \subseteq Edits
    /\ vetted \subseteq Contents /\ disturbed \subseteq Updates
    /\ \A u \in Updates : job[u].pc # "idle" => job[u].hash \in Contents
    /\ \A u \in Updates : job[u].pc \in Backed \/ row[u] # "none" => backup[u] \in Contents

\* What an undisturbed update finds in the file, place by place.
LetAlone(u) ==
    /\ job[u].pc \in Backed \/ row[u] # "none" => backup[u] = job[u].hash
    /\ job[u].pc \in {"hashed", "copied", "valid", "failing"} => target = job[u].hash
    /\ job[u].pc \in {"replaced", "succeeded"} => target = u
    /\ job[u].pc = "raised" => target \in {u, job[u].hash}
    /\ \A r \in Rollbacks : u \in job[r].change /\ job[r].pc \in {"replaced", "succeeded"}
            => target = job[u].hash
    /\ row[u] \in {"FAILED", "ROLLED_BACK"} => target = job[u].hash
    /\ row[u] = "SUCCEEDED" => target \in {u, job[u].hash}
    /\ row[u] = "SUCCEEDED" /\ target # u => \E r \in Rollbacks : u \in job[r].change

UndisturbedStand == \A u \in Updates \ disturbed : LetAlone(u)

ConfigInv == VettedInv /\ JobsOrdered /\ ContentsHeld /\ UndisturbedStand

LEMMA ConfigStart == Init => ConfigInv
<1> SUFFICES ASSUME Init
             PROVE  ConfigInv
  OBVIOUS
<1>1. JobsOrdered /\ ContentsHeld
  BY DEF Init, JobsOrdered, ContentsHeld, Contents, Jobs, Backed
<1>2. UndisturbedStand
  BY DEF Init, UndisturbedStand, LetAlone, Jobs, Backed
<1> QED
  BY <1>1, <1>2, VettedStart DEF ConfigInv

LEMMA OrderedStep == Shapes /\ Shapes' /\ JobsOrdered /\ [Next]_vars => JobsOrdered'
<1> SUFFICES ASSUME Shapes, Shapes', JobsOrdered, [Next]_vars
             PROVE  JobsOrdered'
  OBVIOUS
<1>t. /\ job \in [Jobs -> JobRecord]
      /\ row \in [Updates -> {"none", "SUCCEEDED", "FAILED", "ROLLED_BACK"}]
  BY DEF Shapes
<1>1. ASSUME NEW e \in Edits, Edit(e) PROVE JobsOrdered'
  BY <1>1, <1>t, ContentAssumption DEF Edit, Write, JobsOrdered, JobRecord, Jobs
<1>2. ASSUME NEW u \in Updates, Hash(u) PROVE JobsOrdered'
  BY <1>2, <1>t, ContentAssumption DEF Hash, JobsOrdered, JobRecord, Jobs
<1>3. ASSUME NEW u \in Updates, Copy(u) PROVE JobsOrdered'
  BY <1>3, <1>t, ContentAssumption DEF Copy, Move, JobsOrdered, JobRecord, Jobs
<1>4. ASSUME NEW u \in Updates, ValidateCandidate(u) PROVE JobsOrdered'
  BY <1>4, <1>t, ContentAssumption
     DEF ValidateCandidate, Move, Validates, JobsOrdered, JobRecord, Jobs
<1>5. ASSUME NEW u \in Updates, Replace(u) PROVE JobsOrdered'
  BY <1>5, <1>t, ContentAssumption DEF Replace, Move, Write, JobsOrdered, JobRecord, Jobs
<1>6. ASSUME NEW u \in Updates, ValidateTarget(u) PROVE JobsOrdered'
  BY <1>6, <1>t, ContentAssumption DEF ValidateTarget, Move, JobsOrdered, JobRecord, Jobs
<1>7. ASSUME NEW u \in Updates, Handler(u) PROVE JobsOrdered'
  BY <1>7, <1>t, ContentAssumption DEF Handler, Move, Write, JobsOrdered, JobRecord, Jobs
<1>8. ASSUME NEW u \in Updates, RecordUpdate(u) PROVE JobsOrdered'
  <2>1. PICK from \in {"succeeded", "failing"}, status \in {"SUCCEEDED", "FAILED"} :
          /\ job[u].pc = from /\ job' = [job EXCEPT ![u].pc = "ended"]
          /\ row' = [row EXCEPT ![u] = status]
          /\ lock' = IF lock = u THEN Absent ELSE lock
          /\ UNCHANGED <<accepted, target, backup, edited, vetted, disturbed>>
    BY <1>8 DEF RecordUpdate, Move, Release
  <2> QED
    BY <1>t, <2>1, ContentAssumption DEF JobsOrdered, JobRecord, Jobs
<1>9. ASSUME NEW r \in Rollbacks, ReadChange(r) PROVE JobsOrdered'
  BY <1>9, <1>t, ContentAssumption DEF ReadChange, JobsOrdered, JobRecord, Jobs
<1>10. ASSUME NEW r \in Rollbacks, Enter(r) PROVE JobsOrdered'
  BY <1>10, <1>t, ContentAssumption DEF Enter, Move, JobsOrdered, JobRecord, Jobs
<1>11. ASSUME NEW r \in Rollbacks, ValidateBackup(r) PROVE JobsOrdered'
  BY <1>11, <1>t, ContentAssumption DEF ValidateBackup, Move, JobsOrdered, JobRecord, Jobs
<1>12. ASSUME NEW r \in Rollbacks, PutBack(r) PROVE JobsOrdered'
  BY <1>12, <1>t, ContentAssumption DEF PutBack, Move, Write, JobsOrdered, JobRecord, Jobs
<1>13. ASSUME NEW r \in Rollbacks, ValidateRestored(r) PROVE JobsOrdered'
  BY <1>13, <1>t, ContentAssumption DEF ValidateRestored, Move, JobsOrdered, JobRecord, Jobs
<1>14. ASSUME NEW r \in Rollbacks, RecordRollback(r) PROVE JobsOrdered'
  BY <1>14, <1>t, ContentAssumption
     DEF RecordRollback, Move, Release, JobsOrdered, JobRecord, Jobs
<1>15. ASSUME NEW r \in Rollbacks, FailRollback(r) PROVE JobsOrdered'
  BY <1>15, <1>t, ContentAssumption DEF FailRollback, Move, Release, JobsOrdered, JobRecord, Jobs
<1>16. ASSUME NEW j \in Jobs, Die(j) PROVE JobsOrdered'
  BY <1>16, <1>t, ContentAssumption DEF Die, Release, JobsOrdered, JobRecord, Jobs
<1>17. CASE UNCHANGED vars
  BY <1>17, <1>t, ContentAssumption DEF vars, JobsOrdered, JobRecord, Jobs
<1>18. QED
  BY <1>1, <1>2, <1>3, <1>4, <1>5, <1>6, <1>7, <1>8, <1>9, <1>10, <1>11, <1>12, <1>13, <1>14,
     <1>15, <1>16, <1>17
     DEF Next

LEMMA ContentsStep ==
    Shapes /\ JobsOrdered /\ ContentsHeld /\ [Next]_vars => ContentsHeld'
<1> SUFFICES ASSUME Shapes, JobsOrdered, ContentsHeld, [Next]_vars
             PROVE  ContentsHeld'
  OBVIOUS
<1>t. /\ job \in [Jobs -> JobRecord] /\ backup \in [Updates -> Contents \cup {Absent}]
      /\ row \in [Updates -> {"none", "SUCCEEDED", "FAILED", "ROLLED_BACK"}]
      /\ Updates \subseteq Contents /\ Edits \subseteq Contents
  BY DEF Shapes, Contents
<1>1. ASSUME NEW e \in Edits, Edit(e) PROVE ContentsHeld'
  BY <1>1, <1>t, ContentAssumption
     DEF Edit, Write, ContentsHeld, JobsOrdered, Backed, JobRecord, Jobs
<1>2. ASSUME NEW u \in Updates, Hash(u) PROVE ContentsHeld'
  BY <1>2, <1>t, ContentAssumption DEF Hash, ContentsHeld, JobsOrdered, Backed, JobRecord, Jobs
<1>3. ASSUME NEW u \in Updates, Copy(u) PROVE ContentsHeld'
  BY <1>3, <1>t, ContentAssumption
     DEF Copy, Move, ContentsHeld, JobsOrdered, Backed, JobRecord, Jobs
<1>4. ASSUME NEW u \in Updates, ValidateCandidate(u) PROVE ContentsHeld'
  BY <1>4, <1>t, ContentAssumption
     DEF ValidateCandidate, Move, Validates, ContentsHeld, JobsOrdered, Backed, JobRecord, Jobs
<1>5. ASSUME NEW u \in Updates, Replace(u) PROVE ContentsHeld'
  BY <1>5, <1>t, ContentAssumption
     DEF Replace, Move, Write, ContentsHeld, JobsOrdered, Backed, JobRecord, Jobs
<1>6. ASSUME NEW u \in Updates, ValidateTarget(u) PROVE ContentsHeld'
  BY <1>6, <1>t, ContentAssumption
     DEF ValidateTarget, Move, ContentsHeld, JobsOrdered, Backed, JobRecord, Jobs
<1>7. ASSUME NEW u \in Updates, Handler(u) PROVE ContentsHeld'
  BY <1>7, <1>t, ContentAssumption
     DEF Handler, Move, Write, ContentsHeld, JobsOrdered, Backed, JobRecord, Jobs
<1>8. ASSUME NEW u \in Updates, RecordUpdate(u) PROVE ContentsHeld'
  <2>1. PICK from \in {"succeeded", "failing"}, status \in {"SUCCEEDED", "FAILED"} :
          /\ job[u].pc = from /\ job' = [job EXCEPT ![u].pc = "ended"]
          /\ row' = [row EXCEPT ![u] = status]
          /\ lock' = IF lock = u THEN Absent ELSE lock
          /\ UNCHANGED <<accepted, target, backup, edited, vetted, disturbed>>
    BY <1>8 DEF RecordUpdate, Move, Release
  <2> QED
    BY <1>t, <2>1, ContentAssumption DEF ContentsHeld, Backed, JobRecord, Jobs
<1>9. ASSUME NEW r \in Rollbacks, ReadChange(r) PROVE ContentsHeld'
  <2>1. PICK u \in Updates :
          /\ job[r].pc = "idle"
          /\ job' = [job EXCEPT ![r].pc = "read", ![r].change = {u}, ![r].status = {row[u]}]
          /\ UNCHANGED <<accepted, target, backup, row, lock, edited, vetted, disturbed>>
    BY <1>9 DEF ReadChange
  <2>2. \A v \in Updates : job'[v] = job[v]
    BY <1>t, <2>1, ContentAssumption DEF Jobs
  <2> QED
    BY <2>1, <2>2 DEF ContentsHeld
<1>10. ASSUME NEW r \in Rollbacks, Enter(r) PROVE ContentsHeld'
  BY <1>10, <1>t, ContentAssumption
     DEF Enter, Move, ContentsHeld, JobsOrdered, Backed, JobRecord, Jobs
<1>11. ASSUME NEW r \in Rollbacks, ValidateBackup(r) PROVE ContentsHeld'
  BY <1>11, <1>t, ContentAssumption
     DEF ValidateBackup, Move, ContentsHeld, JobsOrdered, Backed, JobRecord, Jobs
<1>12. ASSUME NEW r \in Rollbacks, PutBack(r) PROVE ContentsHeld'
  BY <1>12, <1>t, ContentAssumption
     DEF PutBack, Move, Write, ContentsHeld, JobsOrdered, Backed, JobRecord, Jobs
<1>13. ASSUME NEW r \in Rollbacks, ValidateRestored(r) PROVE ContentsHeld'
  BY <1>13, <1>t, ContentAssumption
     DEF ValidateRestored, Move, ContentsHeld, JobsOrdered, Backed, JobRecord, Jobs
<1>14. ASSUME NEW r \in Rollbacks, RecordRollback(r) PROVE ContentsHeld'
  BY <1>14, <1>t, ContentAssumption
     DEF RecordRollback, Move, Release, ContentsHeld, JobsOrdered, Backed, JobRecord, Jobs
<1>15. ASSUME NEW r \in Rollbacks, FailRollback(r) PROVE ContentsHeld'
  BY <1>15, <1>t, ContentAssumption
     DEF FailRollback, Move, Release, ContentsHeld, JobsOrdered, Backed, JobRecord, Jobs
<1>16. ASSUME NEW j \in Jobs, Die(j) PROVE ContentsHeld'
  BY <1>16, <1>t, ContentAssumption
     DEF Die, Release, ContentsHeld, JobsOrdered, Backed, JobRecord, Jobs
<1>17. CASE UNCHANGED vars
  BY <1>17, <1>t, ContentAssumption
     DEF vars, ContentsHeld, JobsOrdered, Backed, JobRecord, Jobs
<1>18. QED
  BY <1>1, <1>2, <1>3, <1>4, <1>5, <1>6, <1>7, <1>8, <1>9, <1>10, <1>11, <1>12, <1>13, <1>14,
     <1>15, <1>16, <1>17
     DEF Next

LEMMA UndisturbedStep ==
    Shapes /\ JobsOrdered /\ UndisturbedStand /\ [Next]_vars => UndisturbedStand'
<1> SUFFICES ASSUME Shapes, JobsOrdered, UndisturbedStand, [Next]_vars
             PROVE  UndisturbedStand'
  OBVIOUS
<1>t. /\ job \in [Jobs -> JobRecord] /\ backup \in [Updates -> Contents \cup {Absent}]
      /\ row \in [Updates -> {"none", "SUCCEEDED", "FAILED", "ROLLED_BACK"}]
  BY DEF Shapes
<1>1. ASSUME NEW e \in Edits, Edit(e) PROVE UndisturbedStand'
  BY <1>1, <1>t, ContentAssumption
     DEF Edit, Write, UndisturbedStand, LetAlone, JobsOrdered, Backed, JobRecord, Jobs
<1>2. ASSUME NEW u \in Updates, Hash(u) PROVE UndisturbedStand'
  <2>1. /\ job[u].pc = "idle"
        /\ job' = [job EXCEPT ![u].pc = "hashed", ![u].hash = target]
        /\ UNCHANGED <<target, backup, row, disturbed>>
    BY <1>2 DEF Hash
  <2>2. /\ \A k \in Jobs \ {u} : job'[k] = job[k]
        /\ job'[u].pc = "hashed" /\ job'[u].hash = target
    BY <1>t, <2>1 DEF Jobs, JobRecord
  <2>3. /\ \A r \in Rollbacks : r \in Jobs \ {u}
        /\ \A r \in Rollbacks : u \notin job[r].change
        /\ row[u] = "none"
    BY <1>t, <2>1, ContentAssumption DEF Jobs, JobsOrdered
  <2>4. ASSUME NEW v \in Updates \ disturbed, v # u PROVE LetAlone(v)'
    <3>1. LetAlone(v) /\ job'[v] = job[v]
      BY <2>2, <2>4 DEF UndisturbedStand, Jobs
    <3> QED
      BY <2>1, <2>2, <2>3, <3>1 DEF LetAlone
  <2>5. LetAlone(u)'
    BY <2>1, <2>2, <2>3 DEF LetAlone, Backed
  <2> QED
    BY <2>1, <2>4, <2>5 DEF UndisturbedStand
<1>3. ASSUME NEW u \in Updates, Copy(u) PROVE UndisturbedStand'
  BY <1>3, <1>t, ContentAssumption
     DEF Copy, Move, UndisturbedStand, LetAlone, JobsOrdered, Backed, JobRecord, Jobs
<1>4. ASSUME NEW u \in Updates, ValidateCandidate(u) PROVE UndisturbedStand'
  BY <1>4, <1>t, ContentAssumption
     DEF ValidateCandidate, Move, Validates, UndisturbedStand, LetAlone, JobsOrdered, Backed,
         JobRecord, Jobs
<1>5. ASSUME NEW u \in Updates, Replace(u) PROVE UndisturbedStand'
  BY <1>5, <1>t, ContentAssumption
     DEF Replace, Move, Write, UndisturbedStand, LetAlone, JobsOrdered, Backed, JobRecord, Jobs
<1>6. ASSUME NEW u \in Updates, ValidateTarget(u) PROVE UndisturbedStand'
  BY <1>6, <1>t, ContentAssumption
     DEF ValidateTarget, Move, UndisturbedStand, LetAlone, JobsOrdered, Backed, JobRecord, Jobs
<1>7. ASSUME NEW u \in Updates, Handler(u) PROVE UndisturbedStand'
  BY <1>7, <1>t, ContentAssumption
     DEF Handler, Move, Write, UndisturbedStand, LetAlone, JobsOrdered, Backed, JobRecord, Jobs
<1>8. ASSUME NEW u \in Updates, RecordUpdate(u) PROVE UndisturbedStand'
  <2>1. PICK from \in {"succeeded", "failing"} :
          /\ job[u].pc = from /\ job' = [job EXCEPT ![u].pc = "ended"]
          /\ row' = [row EXCEPT ![u] = IF from = "succeeded" THEN "SUCCEEDED" ELSE "FAILED"]
          /\ UNCHANGED <<target, backup, disturbed>>
    BY <1>8 DEF RecordUpdate, Move
  <2>2. /\ \A k \in Jobs \ {u} : job'[k] = job[k]
        /\ job'[u].pc = "ended" /\ job'[u].hash = job[u].hash
        /\ \A v \in Updates \ {u} : row'[v] = row[v]
        /\ row'[u] = IF from = "succeeded" THEN "SUCCEEDED" ELSE "FAILED"
    BY <1>t, <2>1, ContentAssumption DEF Jobs, JobRecord
  <2>3. /\ \A r \in Rollbacks : r \in Jobs \ {u}
        /\ \A r \in Rollbacks : u \notin job[r].change
    BY <2>1, ContentAssumption DEF Jobs, JobsOrdered
  <2>4. ASSUME NEW v \in Updates \ disturbed, v # u PROVE LetAlone(v)'
    <3>1. LetAlone(v) /\ job'[v] = job[v] /\ row'[v] = row[v]
      BY <2>2, <2>4 DEF UndisturbedStand, Jobs
    <3> QED
      BY <2>1, <2>2, <2>3, <3>1 DEF LetAlone
  <2>5. ASSUME u \notin disturbed PROVE LetAlone(u)'
    <3>1. LetAlone(u)
      BY <2>5 DEF UndisturbedStand
    <3> QED
      BY <2>1, <2>2, <2>3, <3>1 DEF LetAlone, Backed
  <2> QED
    BY <2>1, <2>4, <2>5 DEF UndisturbedStand
<1>9. ASSUME NEW r \in Rollbacks, ReadChange(r) PROVE UndisturbedStand'
  <2>1. PICK u \in Updates :
          /\ row[u] \in {"SUCCEEDED", "ROLLED_BACK"}
          /\ job[r].pc = "idle"
          /\ job' = [job EXCEPT ![r].pc = "read", ![r].change = {u}, ![r].status = {row[u]}]
          /\ UNCHANGED <<accepted, target, backup, row, lock, edited, vetted, disturbed>>
    BY <1>9 DEF ReadChange
  <2>2. /\ \A v \in Updates : job'[v] = job[v]
        /\ job'[r].pc = "read" /\ \A q \in Rollbacks \ {r} : job'[q] = job[q]
        /\ job[r].change = {}
    BY <1>t, <2>1, ContentAssumption DEF Jobs, JobRecord, JobsOrdered
  <2> QED
    <3> SUFFICES ASSUME NEW v \in Updates \ disturbed
                 PROVE  LetAlone(v)'
      BY <2>1 DEF UndisturbedStand
    <3>1. LetAlone(v) /\ job'[v] = job[v] /\ UNCHANGED <<target, backup, row>>
      BY <2>1, <2>2 DEF UndisturbedStand
    <3>2. \A q \in Rollbacks : v \in job[q].change => q # r /\ v \in job'[q].change
      BY <2>2
    <3>3. \A q \in Rollbacks : v \in job'[q].change /\ job'[q].pc \in {"replaced", "succeeded"}
            => v \in job[q].change /\ job[q].pc \in {"replaced", "succeeded"}
      BY <2>2
    <3> QED
      BY <3>1, <3>2, <3>3 DEF LetAlone
<1>10. ASSUME NEW r \in Rollbacks, Enter(r) PROVE UndisturbedStand'
  BY <1>10, <1>t, ContentAssumption
     DEF Enter, Move, UndisturbedStand, LetAlone, JobsOrdered, Backed, JobRecord, Jobs
<1>11. ASSUME NEW r \in Rollbacks, ValidateBackup(r) PROVE UndisturbedStand'
  BY <1>11, <1>t, ContentAssumption
     DEF ValidateBackup, Move, UndisturbedStand, LetAlone, JobsOrdered, Backed, JobRecord, Jobs
<1>12. ASSUME NEW r \in Rollbacks, PutBack(r) PROVE UndisturbedStand'
  BY <1>12, <1>t, ContentAssumption
     DEF PutBack, Move, Write, UndisturbedStand, LetAlone, JobsOrdered, Backed, JobRecord, Jobs
<1>13. ASSUME NEW r \in Rollbacks, ValidateRestored(r) PROVE UndisturbedStand'
  BY <1>13, <1>t, ContentAssumption
     DEF ValidateRestored, Move, UndisturbedStand, LetAlone, JobsOrdered, Backed, JobRecord, Jobs
<1>14. ASSUME NEW r \in Rollbacks, RecordRollback(r) PROVE UndisturbedStand'
  BY <1>14, <1>t, ContentAssumption
     DEF RecordRollback, Move, Release, UndisturbedStand, LetAlone, JobsOrdered, Backed,
         JobRecord, Jobs
<1>15. ASSUME NEW r \in Rollbacks, FailRollback(r) PROVE UndisturbedStand'
  BY <1>15, <1>t, ContentAssumption
     DEF FailRollback, Move, Release, UndisturbedStand, LetAlone, JobsOrdered, Backed, JobRecord,
         Jobs
<1>16. ASSUME NEW j \in Jobs, Die(j) PROVE UndisturbedStand'
  BY <1>16, <1>t, ContentAssumption
     DEF Die, Release, UndisturbedStand, LetAlone, JobsOrdered, Backed, JobRecord, Jobs
<1>17. CASE UNCHANGED vars
  BY <1>17, <1>t, ContentAssumption
     DEF vars, UndisturbedStand, LetAlone, JobsOrdered, Backed, JobRecord, Jobs
<1>18. QED
  BY <1>1, <1>2, <1>3, <1>4, <1>5, <1>6, <1>7, <1>8, <1>9, <1>10, <1>11, <1>12, <1>13, <1>14,
     <1>15, <1>16, <1>17
     DEF Next

LEMMA ConfigInductive == ConfigInv /\ [Next]_vars => ConfigInv'
<1> SUFFICES ASSUME ConfigInv, [Next]_vars
             PROVE  ConfigInv'
  OBVIOUS
<1>1. VettedInv /\ VettedInv' /\ Shapes /\ Shapes'
  BY VettedInductive DEF ConfigInv, VettedInv
<1> QED
  BY <1>1, OrderedStep, ContentsStep, UndisturbedStep DEF ConfigInv

\* Every variable keeps its type, whatever the updates, rollbacks and edits, and only a rollback
\* that is under way holds the lock.
THEOREM ConfigTypeCorrect == Spec => []TypeOK
<1>1. ConfigInv => TypeOK
  BY DEF ConfigInv, VettedInv, Shapes, JobsOrdered, ContentsHeld, TypeOK
<1> QED
  BY <1>1, ConfigStart, ConfigInductive, PTL DEF Spec

\* An update nobody disturbed is all or nothing, however it ends and however often and how far
\* it is rolled back (config_update.py:103-124, 154-161; router.py:1527).
THEOREM UndisturbedAtomic == Spec => []UndisturbedIsAtomic
<1>1. ASSUME ConfigInv, NEW r \in Rollbacks, NEW u \in job[r].change
      PROVE  job[r].change = {u}
  BY <1>1 DEF ConfigInv, JobsOrdered
<1>2. ConfigInv => UndisturbedIsAtomic
  <2> SUFFICES ASSUME ConfigInv, NEW u \in Updates \ disturbed
               PROVE  /\ row[u] = "FAILED" => target = job[u].hash
                      /\ row[u] = "ROLLED_BACK" => target = job[u].hash
                      /\ row[u] = "SUCCEEDED" => target \in {u, job[u].hash}
                      /\ row[u] = "SUCCEEDED" /\ target # u
                            => \E r \in Rollbacks : job[r].change = {u}
    BY DEF UndisturbedIsAtomic
  <2>1. LetAlone(u)
    BY DEF ConfigInv, UndisturbedStand
  <2> QED
    BY <1>1, <2>1 DEF LetAlone
<1> QED
  BY <1>2, ConfigStart, ConfigInductive, PTL DEF Spec

=============================================================================
