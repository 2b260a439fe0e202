------------------------- MODULE Inspections_proofs -------------------------
(***************************************************************************)
(* Proofs about Inspections for any machine, captures and requests.        *)
(***************************************************************************)
EXTENDS Inspections, FiniteSetTheorems, TLAPS

\* What the captures hold.
Shapes ==
    /\ level \in [Disks -> Levels] /\ failing \in SUBSET Checks
    /\ capture \in [Captures -> CaptureRecord]

\* The write lock belongs to the capture that has inserted its snapshot.
LockHeld == \A c \in Captures : capture[c].pc = "locked" <=> lock = c

\* What a capture is about to open nobody has open, and only a capture that
\* holds the lock is about to open anything.
CreatedIsNew == \A c \in Captures :
    /\ capture[c].created \cap OpenSummaries = {}
    /\ capture[c].pc # "locked" => capture[c].created = {}

\* An incident has a status.
HasStatus == \A i \in incidents : "status" \in DOMAIN i

IncidentInv == Shapes /\ HasStatus /\ LockHeld /\ CreatedIsNew /\ OneOpenIncident

-----------------------------------------------------------------------------
LEMMA FindingsAreSummaries ==
    ASSUME Shapes
    PROVE  DiskFindings(level) \subseteq Summaries /\ CheckFindings(failing) \subseteq Summaries
  BY DEF Shapes, DiskFindings, CheckFindings, Summaries

\* A tool's result moves the capture on and adds findings, nothing else.
LEMMA ReadsShape ==
    ASSUME Shapes, NEW c \in Captures, NEW from, NEW to \in {"baseline", "locked"},
           NEW read \in SUBSET Summaries, Reads(c, from, to, read)
    PROVE  /\ capture' \in [Captures -> CaptureRecord]
           /\ capture[c].pc = from
           /\ capture'[c].pc = to /\ capture'[c].created = capture[c].created
           /\ \A d \in Captures \ {c} : capture'[d] = capture[d]
<1>1. PICK more \in SUBSET Summaries :
        capture' = [capture EXCEPT ![c].pc = to, ![c].findings = @ \cup more]
  <2>1. PICK ok \in BOOLEAN :
          capture' = [capture EXCEPT ![c].pc = to, ![c].findings = @ \cup (IF ok THEN read ELSE {})]
    BY DEF Reads
  <2>2. (IF ok THEN read ELSE {}) \in SUBSET Summaries
    OBVIOUS
  <2> QED
    BY <2>1, <2>2
<1>2. capture[c] \in CaptureRecord
  BY DEF Shapes
<1> DEFINE moved == [capture[c] EXCEPT !.pc = to, !.findings = @ \cup more]
<1>3. moved \in CaptureRecord /\ moved.pc = to /\ moved.created = capture[c].created
  BY <1>2 DEF CaptureRecord
<1>4. capture' = [capture EXCEPT ![c] = moved]
  BY <1>1
<1> HIDE DEF moved
<1>5. capture[c].pc = from
  BY DEF Reads
<1> QED
  BY <1>3, <1>4, <1>5 DEF Shapes

\* The machine, the incidents and the lock are as they were, and so are the captures.
LEMMA NothingOpened ==
    ASSUME IncidentInv, UNCHANGED <<incidents, capture, lock>>,
           level' \in [Disks -> Levels], failing' \in SUBSET Checks
    PROVE  IncidentInv'
  BY DEF IncidentInv, Shapes, LockHeld, CreatedIsNew, OneOpenIncident, OpenSummaries, HasStatus

LEMMA ReadSnapshotKeeps ==
    ASSUME IncidentInv, NEW c \in Captures, ReadSnapshot(c)
    PROVE  IncidentInv'
<1>1. Reads(c, "snapshot", "baseline", DiskFindings(level))
        /\ UNCHANGED <<level, failing, incidents, lock>>
  BY DEF ReadSnapshot
<1>2. /\ capture' \in [Captures -> CaptureRecord]
      /\ capture[c].pc = "snapshot"
      /\ capture'[c].pc = "baseline" /\ capture'[c].created = capture[c].created
      /\ \A d \in Captures \ {c} : capture'[d] = capture[d]
  BY <1>1, ReadsShape, FindingsAreSummaries DEF IncidentInv
<1> QED
  BY <1>1, <1>2 DEF IncidentInv, Shapes, LockHeld, CreatedIsNew, OneOpenIncident, OpenSummaries, HasStatus

LEMMA ReadBaselineKeeps ==
    ASSUME IncidentInv, NEW c \in Captures, ReadBaseline(c)
    PROVE  IncidentInv'
<1>1. Reads(c, "baseline", "locked", CheckFindings(failing))
        /\ lock = Nobody /\ lock' = c /\ UNCHANGED <<level, failing, incidents>>
  BY DEF ReadBaseline
<1>2. /\ capture' \in [Captures -> CaptureRecord]
      /\ capture[c].pc = "baseline"
      /\ capture'[c].pc = "locked" /\ capture'[c].created = capture[c].created
      /\ \A d \in Captures \ {c} : capture'[d] = capture[d]
  BY <1>1, ReadsShape, FindingsAreSummaries DEF IncidentInv
<1>3. \A d \in Captures : d # Nobody
  BY InspectionAssumption DEF Captures
<1> QED
  BY <1>1, <1>2, <1>3 DEF IncidentInv, Shapes, LockHeld, CreatedIsNew, OneOpenIncident, OpenSummaries, HasStatus

\* The duplicate check looks at what is open and at what the capture opens itself.
LEMMA DeriveKeeps ==
    ASSUME IncidentInv, NEW c \in Captures, Derive(c)
    PROVE  IncidentInv'
<1>1. PICK s \in capture[c].findings :
        /\ capture[c].pc = "locked"
        /\ capture' = [capture EXCEPT ![c].findings = @ \ {s},
                                      ![c].created = IF Duplicate(c, s) THEN @ ELSE @ \cup {s}]
        /\ UNCHANGED <<level, failing, incidents, lock>>
  BY DEF Derive
<1>2. capture[c] \in CaptureRecord
  BY DEF IncidentInv, Shapes
<1> DEFINE created == IF Duplicate(c, s) THEN capture[c].created ELSE capture[c].created \cup {s}
           derived == [capture[c] EXCEPT !.findings = @ \ {s}, !.created = created]
<1>3. created \in SUBSET Summaries
  BY <1>2 DEF CaptureRecord
<1>4. created \cap OpenSummaries = {}
  BY DEF Duplicate, IncidentInv, CreatedIsNew
<1> HIDE DEF created
<1>5. derived \in CaptureRecord /\ derived.pc = "locked" /\ derived.created = created
  BY <1>1, <1>2, <1>3 DEF CaptureRecord
<1>6. capture' = [capture EXCEPT ![c] = derived]
  BY <1>1 DEF created
<1> HIDE DEF derived
<1>7. capture' \in [Captures -> CaptureRecord] /\ capture'[c] = derived
        /\ \A d \in Captures \ {c} : capture'[d] = capture[d]
  BY <1>5, <1>6 DEF IncidentInv, Shapes
<1> QED
  BY <1>1, <1>4, <1>5, <1>7 DEF IncidentInv, Shapes, LockHeld, CreatedIsNew, OneOpenIncident, OpenSummaries, HasStatus

\* The incidents opened are one for each summary that has none open.
LEMMA OpeningKeepsOneOpen ==
    ASSUME OneOpenIncident, NEW S, S \cap OpenSummaries = {},
           incidents' = incidents \cup {Opened(s) : s \in S}
    PROVE  OneOpenIncident'
<1> SUFFICES ASSUME NEW i \in incidents', NEW j \in incidents',
                    i.status = "OPEN", j.status = "OPEN", i.summary = j.summary
             PROVE  i = j
  BY DEF OneOpenIncident
<1>1. \A s \in S : Opened(s).summary = s
  BY DEF Opened
<1>2. \A k \in incidents : k.status = "OPEN" => k.summary \notin S
  BY DEF OpenSummaries
<1>3. CASE i \in incidents /\ j \in incidents
  BY <1>3 DEF OneOpenIncident
<1>4. CASE i \in incidents /\ j \notin incidents
  BY <1>1, <1>2, <1>4
<1>5. CASE i \notin incidents /\ j \in incidents
  BY <1>1, <1>2, <1>5
<1>6. CASE i \notin incidents /\ j \notin incidents
  <2>1. PICK s \in S, t \in S : i = Opened(s) /\ j = Opened(t)
    BY <1>6
  <2>2. s = t
    BY <1>1, <2>1
  <2> QED
    BY <2>1, <2>2
<1> QED
  BY <1>3, <1>4, <1>5, <1>6

\* A capture that is over holds nothing.
LEMMA FinishKeeps ==
    ASSUME IncidentInv, NEW c \in Captures, NEW to, Finish(c, to),
           lock' = (IF lock = c THEN Nobody ELSE lock), UNCHANGED <<level, failing>>
    PROVE  /\ Shapes' /\ LockHeld'
           /\ capture'[c].created = {} /\ capture'[c].pc # "locked"
           /\ \A d \in Captures \ {c} : capture'[d] = capture[d]
<1> DEFINE over == [NewCapture EXCEPT !.pc = IF c \in Threads THEN "idle" ELSE "ended"]
<1>1. over \in CaptureRecord /\ over.pc # "locked" /\ over.created = {}
  BY DEF NewCapture, CaptureRecord
<1>2. capture' = [capture EXCEPT ![c] = over]
  BY DEF Finish
<1> HIDE DEF over
<1>3. capture' \in [Captures -> CaptureRecord] /\ capture'[c] = over
        /\ \A d \in Captures \ {c} : capture'[d] = capture[d]
  BY <1>1, <1>2 DEF IncidentInv, Shapes
<1>4. \A d \in Captures : d # Nobody
  BY InspectionAssumption DEF Captures
<1> QED
  BY <1>1, <1>3, <1>4 DEF IncidentInv, Shapes, LockHeld

LEMMA CommitKeeps ==
    ASSUME IncidentInv, NEW c \in Captures, Commit(c)
    PROVE  IncidentInv'
<1>1. /\ capture[c].pc = "locked"
      /\ incidents' = incidents \cup {Opened(s) : s \in capture[c].created}
      /\ lock' = (IF lock = c THEN Nobody ELSE lock)
      /\ Finish(c, "sleeping") /\ UNCHANGED <<level, failing>>
  BY DEF Commit
<1>2. /\ Shapes' /\ LockHeld'
      /\ capture'[c].created = {} /\ capture'[c].pc # "locked"
      /\ \A d \in Captures \ {c} : capture'[d] = capture[d]
  BY <1>1, FinishKeeps
<1>3. OneOpenIncident'
  BY <1>1, OpeningKeepsOneOpen DEF IncidentInv, CreatedIsNew
<1>4. \A d \in Captures : capture'[d].created = {}
  BY <1>1, <1>2 DEF IncidentInv, LockHeld, CreatedIsNew
<1>5. \A s : "status" \in DOMAIN Opened(s)
  BY DEF Opened
<1>6. HasStatus'
  BY <1>1, <1>5 DEF IncidentInv, HasStatus
<1> QED
  BY <1>2, <1>3, <1>4, <1>6 DEF IncidentInv, CreatedIsNew

LEMMA RaiseKeeps ==
    ASSUME IncidentInv, NEW c \in Captures, Raise(c)
    PROVE  IncidentInv'
<1>1. /\ lock' = (IF lock = c THEN Nobody ELSE lock)
      /\ Finish(c, "raised") /\ UNCHANGED <<level, failing, incidents>>
  BY DEF Raise
<1>2. /\ Shapes' /\ LockHeld'
      /\ capture'[c].created = {} /\ capture'[c].pc # "locked"
      /\ \A d \in Captures \ {c} : capture'[d] = capture[d]
  BY <1>1, FinishKeeps
<1> QED
  BY <1>1, <1>2 DEF IncidentInv, CreatedIsNew, OneOpenIncident, OpenSummaries, HasStatus

LEMMA BeginKeeps ==
    ASSUME IncidentInv, NEW c \in Captures, Begin(c), UNCHANGED <<level, failing, incidents, lock>>
    PROVE  IncidentInv'
<1> DEFINE begun == [capture[c] EXCEPT !.pc = "snapshot"]
<1>1. capture[c].pc = "idle" /\ capture' = [capture EXCEPT ![c] = begun]
  BY DEF Begin
<1>2. capture[c] \in CaptureRecord
  BY DEF IncidentInv, Shapes
<1>3. begun \in CaptureRecord /\ begun.pc = "snapshot" /\ begun.created = capture[c].created
  BY <1>2 DEF CaptureRecord
<1> HIDE DEF begun
<1>4. capture' \in [Captures -> CaptureRecord] /\ capture'[c] = begun
        /\ \A d \in Captures \ {c} : capture'[d] = capture[d]
  BY <1>1, <1>3 DEF IncidentInv, Shapes
<1> QED
  BY <1>1, <1>3, <1>4 DEF IncidentInv, Shapes, LockHeld, CreatedIsNew, OneOpenIncident, OpenSummaries, HasStatus

\* An update never opens an incident, so that a stale one does no harm.
LEMMA UpdateKeeps ==
    ASSUME IncidentInv, NEW u \in Updates, UpdateIncident(u)
    PROVE  IncidentInv'
<1>1. PICK i \in update[u].incident, status \in UpdateStatuses :
        /\ incidents' = IF i.status = status THEN incidents
                        ELSE {IF SameIncident(i, j) THEN [j EXCEPT !.status = status] ELSE j : j \in incidents}
        /\ UNCHANGED <<level, failing, capture, lock>>
  BY DEF UpdateIncident
<1>2. \A k \in incidents' : k.status = "OPEN" => k \in incidents
  <2> SUFFICES ASSUME NEW k \in incidents', k.status = "OPEN", i.status # status
               PROVE  k \in incidents
    BY <1>1
  <2>1. PICK j \in incidents : k = IF SameIncident(i, j) THEN [j EXCEPT !.status = status] ELSE j
    BY <1>1
  <2>2. CASE ~SameIncident(i, j)
    BY <2>1, <2>2
  <2>3. CASE SameIncident(i, j)
    <3>1. k = [j EXCEPT !.status = status]
      BY <2>1, <2>3
    <3>2. k.status = status
      BY <3>1 DEF IncidentInv, HasStatus
    <3> QED
      BY <3>2 DEF UpdateStatuses
  <2> QED
    BY <2>2, <2>3
<1>3. OneOpenIncident' /\ OpenSummaries' \subseteq OpenSummaries
  BY <1>2 DEF IncidentInv, OneOpenIncident, OpenSummaries
<1>4. HasStatus'
  BY <1>1 DEF IncidentInv, HasStatus
<1> QED
  BY <1>1, <1>3, <1>4 DEF IncidentInv, Shapes, LockHeld, CreatedIsNew

-----------------------------------------------------------------------------
LEMMA IncidentInductive ==
    ASSUME IncidentInv, [Next]_vars
    PROVE  IncidentInv'
<1>0. level \in [Disks -> Levels] /\ failing \in SUBSET Checks
  BY DEF IncidentInv, Shapes
<1>1. CASE MachineChanges
  BY <1>1, NothingOpened DEF MachineChanges
<1>2. ASSUME NEW c \in Captures, Step(c) \/ Raise(c)
      PROVE  IncidentInv'
  BY <1>2, ReadSnapshotKeeps, ReadBaselineKeeps, DeriveKeeps, CommitKeeps, RaiseKeeps DEF Step
<1>3. ASSUME NEW r \in Requests, RunInspection(r)
      PROVE  IncidentInv'
  BY <1>3, BeginKeeps DEF RunInspection, Captures
<1>4. ASSUME NEW t \in Threads, PeriodicCapture(t)
      PROVE  IncidentInv'
  BY <1>4, BeginKeeps DEF PeriodicCapture, Captures
<1>5. CASE Start \/ Stop
  BY <1>0, <1>5, NothingOpened DEF Start, Stop
<1>6. ASSUME NEW u \in Updates, ReadIncident(u)
      PROVE  IncidentInv'
  BY <1>0, <1>6, NothingOpened DEF ReadIncident
<1>7. ASSUME NEW u \in Updates, UpdateIncident(u)
      PROVE  IncidentInv'
  BY <1>7, UpdateKeeps
<1>8. CASE UNCHANGED vars
  BY <1>0, <1>8, NothingOpened DEF vars
<1> QED
  BY <1>1, <1>2, <1>3, <1>4, <1>5, <1>6, <1>7, <1>8 DEF Next

LEMMA IncidentStart ==
    ASSUME Init
    PROVE  IncidentInv
<1>1. NewCapture \in CaptureRecord /\ NewCapture.pc = "idle" /\ NewCapture.created = {}
  BY DEF NewCapture, CaptureRecord
<1>2. Shapes /\ \A c \in Captures : capture[c] = NewCapture
  BY <1>1 DEF Init, Shapes
<1>3. \A c \in Captures : c # Nobody
  BY InspectionAssumption DEF Captures
<1>4. LockHeld /\ CreatedIsNew
  BY <1>1, <1>2, <1>3 DEF Init, LockHeld, CreatedIsNew
<1> QED
  BY <1>2, <1>4 DEF Init, IncidentInv, OneOpenIncident, HasStatus

\* A symptom has at most one open incident, however many inspections see it at once
\* (inspection_service.py:97).
THEOREM OneOpenIncidentHolds == Spec => []OneOpenIncident
<1>1. IncidentInv => OneOpenIncident
  BY DEF IncidentInv
<1> QED
  BY <1>1, IncidentStart, IncidentInductive, PTL DEF Spec

-----------------------------------------------------------------------------
(* The types.  An incident is numbered by a count of those there are, so   *)
(* that the type of its number rests on there being finitely many.         *)

Awaited == {t \in Threads : capture[t].pc # "idle"}

\* What IncidentInv does not say yet of the state.
Rest ==
    /\ incidents \subseteq IncidentRecord
    /\ update \in [Updates -> UpdateRecord]
    /\ loop \in {"none", "sleeping", "raised"} \cup Awaited
    /\ faults \in 0..MaxFaults /\ starts \in 0..MaxStarts

Finite == IsFiniteSet(incidents) /\ \A c \in Captures : IsFiniteSet(capture[c].created)

TypedInv == IncidentInv /\ Rest /\ Finite

\* The values of a function on a finite set are finitely many.
LEMMA FiniteValues ==
    ASSUME NEW S, NEW T, IsFiniteSet(S), NEW f \in [S -> T], \A y \in T : \E x \in S : f[x] = y
    PROVE  IsFiniteSet(T)
<1>1. f \in Surjection(S, T)
  BY DEF Surjection
<1> QED
  BY <1>1, FS_Surjection

LEMMA OpenedTyped ==
    ASSUME Finite, NEW s \in Summaries
    PROVE  Opened(s) \in IncidentRecord
<1> DEFINE same == {i \in incidents : i.summary = s}
<1>1. IsFiniteSet(same)
  BY FS_Subset DEF Finite
<1>2. Cardinality(same) \in Nat
  BY <1>1, FS_CardinalityType
<1>3. 1 + Cardinality(same) \in Nat \ {0}
  BY <1>2
<1>4. Severity(s) \in {"CRITICAL", "WARNING"}
  BY DEF Severity
<1> QED
  BY <1>3, <1>4 DEF Opened, IncidentRecord

\* The loop waits for a capture that is still under way, or for none.
LEMMA LoopKept ==
    ASSUME Rest, UNCHANGED loop, \A t \in Threads : capture[t].pc # "idle" => capture'[t].pc # "idle"
    PROVE  loop' \in {"none", "sleeping", "raised"} \cup Awaited'
  BY DEF Rest, Awaited

LEMMA ReadsTyped ==
    ASSUME TypedInv, NEW c \in Captures, capture'[c].pc # "idle",
           capture'[c].created = capture[c].created,
           \A d \in Captures \ {c} : capture'[d] = capture[d],
           faults' = faults \/ (faults < MaxFaults /\ faults' = faults + 1),
           UNCHANGED <<incidents, update, loop, starts>>
    PROVE  Rest' /\ Finite'
<1>1. faults' \in 0..MaxFaults
  BY InspectionAssumption DEF TypedInv, Rest
<1>2. loop' \in {"none", "sleeping", "raised"} \cup Awaited'
  BY LoopKept DEF TypedInv, Captures
<1>3. Finite'
  BY DEF TypedInv, Finite
<1> QED
  BY <1>1, <1>2, <1>3 DEF TypedInv, Rest

LEMMA ReadSnapshotTyped ==
    ASSUME TypedInv, NEW c \in Captures, ReadSnapshot(c)
    PROVE  Rest' /\ Finite'
<1>1. Shapes /\ DiskFindings(level) \subseteq Summaries
  BY FindingsAreSummaries DEF TypedInv, IncidentInv
<1>2. Reads(c, "snapshot", "baseline", DiskFindings(level)) /\ UNCHANGED <<incidents, update, loop, starts>>
  BY DEF ReadSnapshot
<1>3. faults' = faults \/ (faults < MaxFaults /\ faults' = faults + 1)
  BY <1>2 DEF Reads
<1> QED
  BY <1>1, <1>2, <1>3, ReadsShape, ReadsTyped

LEMMA ReadBaselineTyped ==
    ASSUME TypedInv, NEW c \in Captures, ReadBaseline(c)
    PROVE  Rest' /\ Finite'
<1>1. Shapes /\ CheckFindings(failing) \subseteq Summaries
  BY FindingsAreSummaries DEF TypedInv, IncidentInv
<1>2. Reads(c, "baseline", "locked", CheckFindings(failing)) /\ UNCHANGED <<incidents, update, loop, starts>>
  BY DEF ReadBaseline
<1>3. faults' = faults \/ (faults < MaxFaults /\ faults' = faults + 1)
  BY <1>2 DEF Reads
<1> QED
  BY <1>1, <1>2, <1>3, ReadsShape, ReadsTyped

LEMMA DeriveTyped ==
    ASSUME TypedInv, NEW c \in Captures, Derive(c)
    PROVE  Rest' /\ Finite'
<1>1. PICK s \in capture[c].findings :
        /\ capture[c].pc = "locked"
        /\ capture' = [capture EXCEPT ![c].findings = @ \ {s},
                                      ![c].created = IF Duplicate(c, s) THEN @ ELSE @ \cup {s}]
        /\ UNCHANGED <<incidents, update, loop, faults, starts>>
  BY DEF Derive
<1>2. capture \in [Captures -> CaptureRecord] /\ capture[c] \in CaptureRecord
  BY DEF TypedInv, IncidentInv, Shapes
<1>3. \A d \in Captures : capture'[d].pc = capture[d].pc
  BY <1>1, <1>2 DEF CaptureRecord
<1>4. \A d \in Captures \ {c} : capture'[d] = capture[d]
  BY <1>1, <1>2
<1>5. capture'[c].created \in {capture[c].created, capture[c].created \cup {s}}
  BY <1>1, <1>2 DEF CaptureRecord
<1>6. IsFiniteSet(capture[c].created) /\ IsFiniteSet(capture[c].created \cup {s})
  BY FS_AddElement DEF TypedInv, Finite
<1>7. Finite'
  BY <1>1, <1>4, <1>5, <1>6 DEF TypedInv, Finite
<1>8. loop' \in {"none", "sleeping", "raised"} \cup Awaited'
  BY <1>1, <1>3, LoopKept DEF TypedInv, Captures
<1> QED
  BY <1>1, <1>7, <1>8 DEF TypedInv, Rest

\* A capture that ends is no longer waited for.
LEMMA FinishTyped ==
    ASSUME TypedInv, NEW c \in Captures, NEW to \in {"sleeping", "raised"}, Finish(c, to)
    PROVE  /\ loop' \in {"none", "sleeping", "raised"} \cup Awaited'
           /\ \A d \in Captures : IsFiniteSet(capture'[d].created)
<1> DEFINE over == [NewCapture EXCEPT !.pc = IF c \in Threads THEN "idle" ELSE "ended"]
<1>1. over.created = {}
  BY DEF NewCapture
<1>2. capture' = [capture EXCEPT ![c] = over] /\ loop' = IF loop = c THEN to ELSE loop
  BY DEF Finish
<1> HIDE DEF over
<1>3. capture'[c] = over /\ \A d \in Captures \ {c} : capture'[d] = capture[d]
  BY <1>2 DEF TypedInv, IncidentInv, Shapes
<1>4. \A d \in Captures : IsFiniteSet(capture'[d].created)
  BY <1>1, <1>3, FS_EmptySet DEF TypedInv, Finite
<1>5. CASE loop = c
  BY <1>2, <1>4, <1>5
<1>6. CASE loop # c
  BY <1>2, <1>3, <1>4, <1>6 DEF TypedInv, Rest, Awaited, Captures
<1> QED
  BY <1>4, <1>5, <1>6

LEMMA CommitTyped ==
    ASSUME TypedInv, NEW c \in Captures, Commit(c)
    PROVE  Rest' /\ Finite'
<1>1. /\ incidents' = incidents \cup {Opened(s) : s \in capture[c].created}
      /\ Finish(c, "sleeping") /\ UNCHANGED <<update, faults, starts>>
  BY DEF Commit
<1> DEFINE made == capture[c].created
           opened == {Opened(s) : s \in made}
           open == [s \in made |-> Opened(s)]
<1>2. made \subseteq Summaries /\ IsFiniteSet(made)
  BY DEF TypedInv, IncidentInv, Shapes, CaptureRecord, Finite
<1>3. opened \subseteq IncidentRecord
  BY <1>2, OpenedTyped DEF TypedInv
<1>4. open \in [made -> opened] /\ \A y \in opened : \E s \in made : open[s] = y
  OBVIOUS
<1> HIDE DEF open, opened, made
<1>5. IsFiniteSet(opened)
  BY <1>2, <1>4, FiniteValues
<1>6. incidents' = incidents \cup opened
  BY <1>1 DEF opened, made
<1>7. IsFiniteSet(incidents') /\ incidents' \subseteq IncidentRecord
  BY <1>3, <1>5, <1>6, FS_Union DEF TypedInv, Rest, Finite
<1>8. /\ loop' \in {"none", "sleeping", "raised"} \cup Awaited'
      /\ \A d \in Captures : IsFiniteSet(capture'[d].created)
  BY <1>1, FinishTyped
<1> QED
  BY <1>1, <1>7, <1>8 DEF TypedInv, Rest, Finite

LEMMA RaiseTyped ==
    ASSUME TypedInv, NEW c \in Captures, Raise(c)
    PROVE  Rest' /\ Finite'
<1>1. /\ faults < MaxFaults /\ faults' = faults + 1
      /\ Finish(c, "raised") /\ UNCHANGED <<incidents, update, starts>>
  BY DEF Raise
<1>2. /\ loop' \in {"none", "sleeping", "raised"} \cup Awaited'
      /\ \A d \in Captures : IsFiniteSet(capture'[d].created)
  BY <1>1, FinishTyped
<1>3. faults' \in 0..MaxFaults
  BY <1>1, InspectionAssumption DEF TypedInv, Rest
<1> QED
  BY <1>1, <1>2, <1>3 DEF TypedInv, Rest, Finite

LEMMA BeginTyped ==
    ASSUME TypedInv, NEW c \in Captures, Begin(c), UNCHANGED <<incidents, update, faults, starts>>,
           loop' = loop \/ (loop' = c /\ c \in Threads)
    PROVE  Rest' /\ Finite'
<1>1. capture' = [capture EXCEPT ![c].pc = "snapshot"]
  BY DEF Begin
<1>2. capture \in [Captures -> CaptureRecord] /\ capture[c] \in CaptureRecord
  BY DEF TypedInv, IncidentInv, Shapes
<1>3. /\ capture'[c].pc = "snapshot"
      /\ \A d \in Captures : capture'[d].created = capture[d].created
      /\ \A d \in Captures \ {c} : capture'[d] = capture[d]
  BY <1>1, <1>2 DEF CaptureRecord
<1>4. loop' \in {"none", "sleeping", "raised"} \cup Awaited'
  BY <1>3 DEF TypedInv, Rest, Awaited, Captures
<1> QED
  BY <1>3, <1>4 DEF TypedInv, Rest, Finite

LEMMA UpdateTyped ==
    ASSUME TypedInv, NEW u \in Updates, UpdateIncident(u)
    PROVE  Rest' /\ Finite'
<1>1. PICK i \in update[u].incident, status \in UpdateStatuses :
        /\ update' = [update EXCEPT ![u] = [pc |-> "ended", incident |-> {}]]
        /\ incidents' = IF i.status = status THEN incidents
                        ELSE {IF SameIncident(i, j) THEN [j EXCEPT !.status = status] ELSE j : j \in incidents}
        /\ UNCHANGED <<capture, loop, faults, starts>>
  BY DEF UpdateIncident
<1>2. [pc |-> "ended", incident |-> {}] \in UpdateRecord
  BY DEF UpdateRecord
<1>3. update' \in [Updates -> UpdateRecord]
  BY <1>1, <1>2 DEF TypedInv, Rest
<1> DEFINE New(j) == IF SameIncident(i, j) THEN [j EXCEPT !.status = status] ELSE j
           written == {New(j) : j \in incidents}
           write == [j \in incidents |-> New(j)]
<1>4. \A j \in incidents : New(j) \in IncidentRecord
  BY DEF TypedInv, Rest, IncidentRecord
<1>5. write \in [incidents -> written] /\ \A y \in written : \E j \in incidents : write[j] = y
  OBVIOUS
<1>6. written \subseteq IncidentRecord
  BY <1>4
<1>7. incidents' = incidents \/ incidents' = written
  BY <1>1
<1> HIDE DEF write, written
<1>8. IsFiniteSet(written)
  BY <1>5, FiniteValues DEF TypedInv, Finite
<1>9. incidents' \subseteq IncidentRecord /\ IsFiniteSet(incidents')
  BY <1>6, <1>7, <1>8 DEF TypedInv, Rest, Finite
<1> QED
  BY <1>1, <1>3, <1>9 DEF TypedInv, Rest, Finite, Awaited

LEMMA ReadIncidentTyped ==
    ASSUME TypedInv, NEW u \in Updates, ReadIncident(u)
    PROVE  Rest' /\ Finite'
<1>1. PICK i \in incidents :
        /\ update' = [update EXCEPT ![u] = [pc |-> "read", incident |-> {i}]]
        /\ UNCHANGED <<incidents, capture, loop, faults, starts>>
  BY DEF ReadIncident
<1>2. [pc |-> "read", incident |-> {i}] \in UpdateRecord
  BY DEF UpdateRecord, TypedInv, Rest
<1> QED
  BY <1>1, <1>2 DEF TypedInv, Rest, Finite, Awaited

\* The switch of the periodic capture.
LEMMA SwitchTyped ==
    ASSUME TypedInv, MachineChanges \/ Start \/ Stop \/ UNCHANGED vars
    PROVE  Rest' /\ Finite'
<1>1. loop' \in {"none", "sleeping", "raised"} \cup Awaited'
  BY DEF MachineChanges, Start, Stop, vars, TypedInv, Rest, Awaited
<1>2. starts' \in 0..MaxStarts
  BY InspectionAssumption DEF MachineChanges, Start, Stop, vars, TypedInv, Rest
<1> QED
  BY <1>1, <1>2 DEF MachineChanges, Start, Stop, vars, TypedInv, Rest, Finite

LEMMA TypedInductive ==
    ASSUME TypedInv, [Next]_vars
    PROVE  TypedInv'
<1>0. IncidentInv'
  BY IncidentInductive DEF TypedInv
<1>1. ASSUME NEW c \in Captures, Step(c) \/ Raise(c)
      PROVE  Rest' /\ Finite'
  BY <1>1, ReadSnapshotTyped, ReadBaselineTyped, DeriveTyped, CommitTyped, RaiseTyped DEF Step
<1>2. ASSUME NEW r \in Requests, RunInspection(r)
      PROVE  Rest' /\ Finite'
  BY <1>2, BeginTyped DEF RunInspection, Captures
<1>3. ASSUME NEW t \in Threads, PeriodicCapture(t)
      PROVE  Rest' /\ Finite'
  BY <1>3, BeginTyped DEF PeriodicCapture, Captures
<1>4. ASSUME NEW u \in Updates, ReadIncident(u) \/ UpdateIncident(u)
      PROVE  Rest' /\ Finite'
  BY <1>4, ReadIncidentTyped, UpdateTyped
<1>5. ASSUME MachineChanges \/ Start \/ Stop
      PROVE  Rest' /\ Finite'
  BY <1>5, SwitchTyped
<1>6. ASSUME UNCHANGED vars
      PROVE  Rest' /\ Finite'
  BY <1>6, SwitchTyped
<1>7. Rest' /\ Finite'
  BY <1>1, <1>2, <1>3, <1>4, <1>5, <1>6 DEF Next
<1> QED
  BY <1>0, <1>7 DEF TypedInv

\* The variables keep their types, the write lock belongs to the capture between its
\* first INSERT and its commit, and the loop waits only for a capture under way
\* (snapshot_scheduler.py:33, inspection_service.py).
THEOREM InspectionTypeCorrect == Spec => []TypeOK
<1>1. Init => TypedInv
  <2> SUFFICES ASSUME Init PROVE TypedInv
    OBVIOUS
  <2>1. IncidentInv
    BY IncidentStart
  <2>2. [pc |-> "idle", incident |-> {}] \in UpdateRecord
    BY DEF UpdateRecord
  <2>3. Rest
    BY <2>2, InspectionAssumption DEF Init, Rest
  <2>4. Finite
    BY FS_EmptySet DEF Init, Finite, NewCapture
  <2> QED
    BY <2>1, <2>3, <2>4 DEF TypedInv
<1>2. TypedInv => TypeOK
  BY DEF TypedInv, IncidentInv, Shapes, LockHeld, Rest, Awaited, TypeOK
<1> QED
  BY <1>1, <1>2, TypedInductive, PTL DEF Spec

=============================================================================
