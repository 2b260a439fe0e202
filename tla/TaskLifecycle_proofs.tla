------------------------ MODULE TaskLifecycle_proofs ------------------------
(***************************************************************************)
(* Proofs about TaskLifecycle, for any number of requests.                 *)
(*                                                                         *)
(* Copies of the row are old, never invented: the state in a copy was      *)
(* audited (or is the first one), and a count of steps is at most the      *)
(* number there are now.  That is all the races leave, and it is enough    *)
(* for the numbering of the steps and for the origin of every change.      *)
(***************************************************************************)
EXTENDS TaskLifecycle, FiniteSetTheorems, TLAPS

\* The task has, or had, this state.
Visited(state) == state = "RECEIVED" \/ \E i \in 1..Len(events) : events[i].to = state

\* What is known of a request between its read and its commit.
Pending(r) ==
    /\ Visited(req[r].read.state)
    /\ r \in Cancels /\ req[r].pc = "checked" => can_transition(req[r].read.state, "CANCELLED")
    /\ r \in Transitions /\ req[r].pc \in {"checked", "counted"} =>
         can_transition(req[r].read.state, req[r].target)
    /\ req[r].pc = "counted" => r \in Transitions /\ req[r].sequence \in 1..Cardinality(steps) + 1

TaskInv ==
    /\ TypeOK
    /\ IsFiniteSet(steps)
    /\ StepsNumbered
    /\ StateAudited
    /\ ChangesFromVisited
    /\ \A r \in Requests : Pending(r)

-----------------------------------------------------------------------------
LEMMA InitTask == Init => TaskInv
<1> SUFFICES ASSUME Init PROVE TaskInv
  OBVIOUS
<1>1. Created \in TaskRecord
  BY DEF Created, TaskRecord, States
<1>2. TypeOK
  <2>1. [pc |-> "idle", read |-> Created, target |-> "RECEIVED", sequence |-> 0] \in RequestRecord
    BY <1>1 DEF RequestRecord, States
  <2> QED
    BY <1>1, <2>1 DEF Init, TypeOK
<1>3. IsFiniteSet(steps) /\ Cardinality(steps) = 0 /\ StepsNumbered
  BY FS_EmptySet DEF Init, StepsNumbered
<1>4. StateAudited /\ ChangesFromVisited
  BY DEF Init, StateAudited, ChangesFromVisited, Created
<1>5. \A r \in Requests : Pending(r)
  BY DEF Init, Pending, Visited, Created
<1> QED
  BY <1>2, <1>3, <1>4, <1>5 DEF TaskInv

\* Steps that commit nothing: only one request moves.
LEMMA QuietStep ==
    ASSUME TaskInv, UNCHANGED <<task, steps, events>>, NEW r \in Requests,
           NEW q \in RequestRecord, req' = [req EXCEPT ![r] = q], Pending(r)'
    PROVE  TaskInv'
<1>1. TypeOK'
  BY DEF TaskInv, TypeOK
<1>2. IsFiniteSet(steps)' /\ StepsNumbered' /\ StateAudited' /\ ChangesFromVisited'
  BY DEF TaskInv, StepsNumbered, StateAudited, ChangesFromVisited
<1>3. \A s \in Requests : Pending(s)'
  <2> SUFFICES ASSUME NEW s \in Requests, s # r PROVE Pending(s)'
    OBVIOUS
  <2>1. req'[s] = req[s]
    BY DEF TaskInv, TypeOK
  <2> QED
    BY <2>1 DEF TaskInv, Pending, Visited
<1> QED
  BY <1>1, <1>2, <1>3 DEF TaskInv

LEMMA CurrentIsVisited == TaskInv => task.state \in States /\ Visited(task.state)
  BY DEF TaskInv, TypeOK, TaskRecord, StateAudited, Visited

LEMMA ReadKeeps ==
    ASSUME TaskInv, NEW r \in Requests, NEW target \in States, NEW allowed \in BOOLEAN,
           Read(r, target, allowed),
           allowed /\ r \in Cancels => can_transition(task.state, "CANCELLED"),
           allowed /\ r \in Transitions => can_transition(task.state, target)
    PROVE  TaskInv'
<1> DEFINE q == [req[r] EXCEPT !.read = task, !.target = target,
                              !.pc = IF allowed THEN "checked" ELSE "error"]
<1>1. req[r] \in RequestRecord /\ task \in TaskRecord
  BY DEF TaskInv, TypeOK
<1>2. q \in RequestRecord
  BY <1>1 DEF RequestRecord
<1>3. req' = [req EXCEPT ![r] = q] /\ UNCHANGED <<task, steps, events>>
  BY <1>1 DEF Read, TaskInv, TypeOK, RequestRecord
<1>4. q.read = task /\ q.target = target /\ q.pc = IF allowed THEN "checked" ELSE "error"
  BY <1>1 DEF RequestRecord
<1> HIDE DEF q
<1>5. req'[r] = q
  BY <1>3 DEF TaskInv, TypeOK
<1>6. Pending(r)'
  BY <1>3, <1>4, <1>5, CurrentIsVisited DEF Pending, Visited
<1> QED
  BY <1>2, <1>3, <1>6, QuietStep

LEMMA CountKeeps ==
    ASSUME TaskInv, NEW t \in Transitions, CountSteps(t)
    PROVE  TaskInv'
<1> DEFINE n == Cardinality(steps)
           q == [req[t] EXCEPT !.sequence = n + 1, !.pc = "counted"]
<1>1. req[t] \in RequestRecord /\ t \in Requests /\ n \in Nat
  BY FS_CardinalityType DEF TaskInv, TypeOK, Requests
<1> HIDE DEF n
<1>2. q \in RequestRecord
  <2>1. PICK m \in Nat : m = n + 1
    BY <1>1
  <2>2. [req[t] EXCEPT !.sequence = m, !.pc = "counted"] \in RequestRecord
    BY <1>1 DEF RequestRecord
  <2> QED
    BY <2>1, <2>2
<1>3. req' = [req EXCEPT ![t] = q] /\ UNCHANGED <<task, steps, events>>
  BY <1>1 DEF CountSteps, TaskInv, TypeOK, RequestRecord, n
<1>4. q.read = req[t].read /\ q.target = req[t].target /\ q.pc = "counted" /\ q.sequence = n + 1
  BY <1>1 DEF RequestRecord
<1> HIDE DEF q
<1>5. req'[t] = q
  BY <1>1, <1>3 DEF TaskInv, TypeOK
<1>6. n + 1 \in 1..n + 1
  BY <1>1
<1>7. Pending(t)'
  <2>1. Pending(t) /\ req[t].pc = "checked"
    BY <1>1 DEF TaskInv, CountSteps
  <2>2. /\ req'[t].read = req[t].read /\ req'[t].target = req[t].target
        /\ req'[t].pc = "counted" /\ req'[t].sequence = n + 1
    BY <1>4, <1>5
  <2>3. Visited(req[t].read.state)'
    BY <1>3, <2>1, <2>2 DEF Pending, Visited
  <2>4. can_transition(req'[t].read.state, req'[t].target)
    BY <2>1, <2>2 DEF Pending
  <2>5. req'[t].sequence \in 1..Cardinality(steps') + 1
    BY <1>3, <1>6, <2>2 DEF n
  <2> QED
    BY <2>2, <2>3, <2>4, <2>5 DEF Pending
<1> QED
  BY <1>1, <1>2, <1>3, <1>7, QuietStep

LEMMA FailKeeps ==
    ASSUME TaskInv, NEW r \in Requests, RequestFails(r)
    PROVE  TaskInv'
<1> DEFINE q == [req[r] EXCEPT !.pc = "error"]
<1>1. req[r] \in RequestRecord
  BY DEF TaskInv, TypeOK
<1>2. q \in RequestRecord
  BY <1>1 DEF RequestRecord
<1>3. req' = [req EXCEPT ![r] = q] /\ UNCHANGED <<task, steps, events>>
  BY <1>1 DEF RequestFails, TaskInv, TypeOK, RequestRecord
<1>4. q.read = req[r].read /\ q.pc = "error"
  BY <1>1 DEF RequestRecord
<1> HIDE DEF q
<1>5. Pending(r)'
  BY <1>3, <1>4 DEF TaskInv, TypeOK, Pending, Visited
<1> QED
  BY <1>2, <1>3, <1>5, QuietStep

-----------------------------------------------------------------------------
(***************************************************************************)
(* Commits.                                                                *)
(***************************************************************************)
\* The part of a commit that all three handlers share.
LEMMA CommitShared ==
    ASSUME TaskInv, NEW r \in Requests, NEW state \in States,
           NEW type \in {"TASK_CANCELLED", "TASK_STATE_CHANGED", "AGENT_RUN_COMPLETED"},
           NEW from \in States \cup {"unsaid"},
           Commit(r, state, type, from),
           type # "AGENT_RUN_COMPLETED" => Visited(from) /\ can_transition(from, state)
    PROVE  /\ task' \in TaskRecord /\ events' \in Seq(EventRecord)
           /\ req' \in [Requests -> RequestRecord]
           /\ StateAudited' /\ ChangesFromVisited'
           /\ \A s \in States : Visited(s) => Visited(s)'
           /\ \A s \in Requests : s # r => req'[s] = req[s]
           /\ req'[r] = [req[r] EXCEPT !.pc = "done"]
<1> DEFINE event == [type |-> type, from |-> from, to |-> state]
           read == req[r].read
<1>1. req[r] \in RequestRecord /\ task \in TaskRecord /\ events \in Seq(EventRecord)
        /\ req \in [Requests -> RequestRecord]
  BY DEF TaskInv, TypeOK
<1>2. read \in TaskRecord
  BY <1>1 DEF RequestRecord
<1>3. event \in EventRecord /\ event.to = state /\ event.from = from /\ event.type = type
  BY DEF EventRecord
<1>4. events' = Append(events, event)
  BY DEF Commit
<1> HIDE DEF event, read
<1>5. events' \in Seq(EventRecord) /\ Len(events') = Len(events) + 1 /\ Len(events) \in Nat
        /\ events'[Len(events) + 1] = event
        /\ \A i \in 1..Len(events) : events'[i] = events[i]
  BY <1>1, <1>3, <1>4
<1>6. task' \in TaskRecord /\ task'.state = IF state = read.state THEN task.state ELSE state
  BY <1>1, <1>2 DEF Commit, Written, TaskRecord, read
<1>7. \A s \in States : Visited(s) => Visited(s)'
  BY <1>5 DEF Visited
<1>8. Visited(state)'
  BY <1>3, <1>5 DEF Visited
<1>9. StateAudited'
  <2>1. events' # <<>>
    BY <1>5
  <2>2. \E i \in 1..Len(events') : events'[i].to = task'.state
    <3>1. CASE state # read.state
      BY <1>3, <1>5, <1>6, <3>1
    <3>2. CASE state = read.state /\ events # <<>>
      BY <1>5, <1>6, <3>2 DEF TaskInv, StateAudited
    <3>3. CASE state = read.state /\ events = <<>>
      <4>1. task.state = "RECEIVED" /\ read.state = "RECEIVED"
        BY <3>3 DEF TaskInv, StateAudited, Pending, Visited, read
      <4> QED
        BY <1>3, <1>5, <1>6, <3>3, <4>1
    <3> QED
      BY <3>1, <3>2, <3>3
  <2> QED
    BY <2>1, <2>2 DEF StateAudited
<1>10. ChangesFromVisited'
  <2> SUFFICES ASSUME NEW i \in 1..Len(events'), events'[i].type # "AGENT_RUN_COMPLETED"
               PROVE  /\ can_transition(events'[i].from, events'[i].to)
                      /\ \/ events'[i].from = "RECEIVED"
                         \/ \E j \in 1..(i - 1) : events'[j].to = events'[i].from
    BY DEF ChangesFromVisited, can_transition
  <2>1. CASE i \in 1..Len(events)
    <3>1. /\ can_transition(events[i].from, events[i].to)
          /\ \/ events[i].from = "RECEIVED"
             \/ \E j \in 1..(i - 1) : events[j].to = events[i].from
      BY <1>5, <2>1 DEF TaskInv, ChangesFromVisited
    <3>2. \A j \in 1..(i - 1) : j \in 1..Len(events)
      BY <1>5, <2>1
    <3> QED
      BY <1>5, <2>1, <3>1, <3>2
  <2>2. CASE i = Len(events) + 1
    <3>1. events'[i] = event /\ 1..(i - 1) = 1..Len(events)
      BY <1>5, <2>2
    <3>2. Visited(from) /\ can_transition(from, state)
      BY <1>3, <3>1
    <3> QED
      BY <1>3, <1>5, <3>1, <3>2 DEF Visited
  <2> QED
    BY <1>5, <2>1, <2>2
<1>11. req' = [req EXCEPT ![r] = [req[r] EXCEPT !.pc = "done"]]
  BY <1>1 DEF Commit, RequestRecord
<1>12. [req[r] EXCEPT !.pc = "done"] \in RequestRecord
  BY <1>1 DEF RequestRecord
<1>13. req' \in [Requests -> RequestRecord] /\ req'[r] = [req[r] EXCEPT !.pc = "done"]
         /\ \A s \in Requests : s # r => req'[s] = req[s]
  BY <1>1, <1>11, <1>12
<1> QED
  BY <1>5, <1>6, <1>7, <1>9, <1>10, <1>13

\* A commit that leaves the other requests a state they have seen and a count that is not too
\* high keeps what is known of them.
LEMMA PendingKept ==
    ASSUME TaskInv, NEW r \in Requests, req' \in [Requests -> RequestRecord],
           \A s \in States : Visited(s) => Visited(s)',
           \A s \in Requests : s # r => req'[s] = req[s],
           req'[r] = [req[r] EXCEPT !.pc = "done"],
           IsFiniteSet(steps'), Cardinality(steps) <= Cardinality(steps')
    PROVE  \A s \in Requests : Pending(s)'
<1> SUFFICES ASSUME NEW s \in Requests PROVE Pending(s)'
  OBVIOUS
<1>1. Cardinality(steps) \in Nat /\ Cardinality(steps') \in Nat
  BY FS_CardinalityType DEF TaskInv
<1>2. req[s] \in RequestRecord /\ req[s].read.state \in States /\ Visited(req[s].read.state)
  BY DEF TaskInv, TypeOK, RequestRecord, TaskRecord, Pending
<1>3. CASE s = r
  <2>1. req'[s].pc = "done" /\ req'[s].read = req[s].read
    BY <1>2, <1>3 DEF RequestRecord
  <2> QED
    BY <1>2, <2>1 DEF Pending
<1>4. CASE s # r
  <2>1. req'[s] = req[s] /\ Pending(s)
    BY <1>4 DEF TaskInv
  <2>2. 1..Cardinality(steps) + 1 \subseteq 1..Cardinality(steps') + 1
    BY <1>1
  <2> QED
    BY <1>2, <2>1, <2>2 DEF Pending, can_transition
<1> QED
  BY <1>3, <1>4

LEMMA CancelCommitKeeps ==
    ASSUME TaskInv, NEW c \in Cancels, CancelCommit(c)
    PROVE  TaskInv'
<1> DEFINE from == req[c].read.state
<1>1. c \in Requests /\ from \in States /\ "CANCELLED" \in States
  BY DEF TaskInv, TypeOK, RequestRecord, TaskRecord, Requests, States
<1>2. Visited(from) /\ can_transition(from, "CANCELLED")
  BY <1>1 DEF TaskInv, Pending, CancelCommit
<1>3. Commit(c, "CANCELLED", "TASK_CANCELLED", from) /\ steps' = steps
  BY DEF CancelCommit
<1> HIDE DEF from
<1>4. /\ task' \in TaskRecord /\ events' \in Seq(EventRecord)
      /\ req' \in [Requests -> RequestRecord]
      /\ StateAudited' /\ ChangesFromVisited'
      /\ \A s \in States : Visited(s) => Visited(s)'
      /\ \A s \in Requests : s # c => req'[s] = req[s]
      /\ req'[c] = [req[c] EXCEPT !.pc = "done"]
  BY <1>1, <1>2, <1>3, CommitShared
<1>5. IsFiniteSet(steps') /\ Cardinality(steps) <= Cardinality(steps')
  BY <1>3, FS_CardinalityType DEF TaskInv
<1>6. \A s \in Requests : Pending(s)'
  BY <1>1, <1>4, <1>5, PendingKept
<1> QED
  BY <1>3, <1>4, <1>5, <1>6 DEF TaskInv, TypeOK, StepsNumbered

LEMMA RunCommitKeeps ==
    ASSUME TaskInv, NEW r \in Runs, NEW outcome \in Outcomes, RunCommit(r, outcome)
    PROVE  TaskInv'
<1>1. r \in Requests /\ outcome \in States
  BY DEF Requests, Outcomes, States
<1>2. Commit(r, outcome, "AGENT_RUN_COMPLETED", "unsaid") /\ steps' = steps
  BY DEF RunCommit
<1>3. /\ task' \in TaskRecord /\ events' \in Seq(EventRecord)
      /\ req' \in [Requests -> RequestRecord]
      /\ StateAudited' /\ ChangesFromVisited'
      /\ \A s \in States : Visited(s) => Visited(s)'
      /\ \A s \in Requests : s # r => req'[s] = req[s]
      /\ req'[r] = [req[r] EXCEPT !.pc = "done"]
  BY <1>1, <1>2, CommitShared
<1>4. IsFiniteSet(steps') /\ Cardinality(steps) <= Cardinality(steps')
  BY <1>2, FS_CardinalityType DEF TaskInv
<1>5. \A s \in Requests : Pending(s)'
  BY <1>1, <1>3, <1>4, PendingKept
<1> QED
  BY <1>2, <1>3, <1>4, <1>5 DEF TaskInv, TypeOK, StepsNumbered

\* The step that is added has the next number, although it was counted before.
LEMMA TransitionNumbers ==
    ASSUME TaskInv, NEW t \in Transitions, TransitionCommit(t)
    PROVE  /\ IsFiniteSet(steps') /\ Cardinality(steps') = Cardinality(steps) + 1
           /\ Cardinality(steps) \in Nat /\ req[t].sequence = Cardinality(steps) + 1
<1> DEFINE n == req[t].sequence
           step == [sequence |-> n, from_state |-> req[t].read.state, to_state |-> req[t].target]
<1>1. n \in 1..Cardinality(steps) + 1
  BY DEF TaskInv, Pending, TransitionCommit, Requests
<1>2. steps' = steps \cup {step} /\ \A s \in steps : s.sequence # n
  BY DEF TransitionCommit, Unique
<1>3. step.sequence = n
  OBVIOUS
<1> HIDE DEF n, step
<1>4. /\ IsFiniteSet(steps') /\ Cardinality(steps') = Cardinality(steps) + 1
      /\ Cardinality(steps) \in Nat
  <2>1. step \notin steps
    BY <1>2, <1>3
  <2> QED
    BY <1>2, <2>1, FS_AddElement, FS_CardinalityType DEF TaskInv
<1>5. n \notin 1..Cardinality(steps)
  BY <1>2 DEF TaskInv, StepsNumbered
<1> QED
  BY <1>1, <1>4, <1>5 DEF n

LEMMA TransitionCommitKeeps ==
    ASSUME TaskInv, NEW t \in Transitions, TransitionCommit(t)
    PROVE  TaskInv'
<1> DEFINE from == req[t].read.state
           target == req[t].target
           n == req[t].sequence
           step == [sequence |-> n, from_state |-> from, to_state |-> target]
<1>1. t \in Requests /\ from \in States /\ target \in States /\ n \in Nat
  BY DEF TaskInv, TypeOK, RequestRecord, TaskRecord, Requests
<1>2. Visited(from) /\ can_transition(from, target) /\ n \in 1..Cardinality(steps) + 1
  BY <1>1 DEF TaskInv, Pending, TransitionCommit
<1>3. /\ Commit(t, target, "TASK_STATE_CHANGED", from)
      /\ steps' = steps \cup {step} /\ \A s \in steps : s.sequence # n
  BY DEF TransitionCommit, Unique
<1>4. step \in StepRecord /\ step.sequence = n
  BY <1>1 DEF StepRecord
<1> HIDE DEF from, target, n, step
<1>5. /\ task' \in TaskRecord /\ events' \in Seq(EventRecord)
      /\ req' \in [Requests -> RequestRecord]
      /\ StateAudited' /\ ChangesFromVisited'
      /\ \A s \in States : Visited(s) => Visited(s)'
      /\ \A s \in Requests : s # t => req'[s] = req[s]
      /\ req'[t] = [req[t] EXCEPT !.pc = "done"]
  BY <1>1, <1>2, <1>3, CommitShared
<1>6. /\ IsFiniteSet(steps') /\ Cardinality(steps') = Cardinality(steps) + 1
      /\ Cardinality(steps) \in Nat /\ n = Cardinality(steps) + 1
  BY TransitionNumbers DEF n
<1>8. StepsNumbered'
  <2>1. {s.sequence : s \in steps'} = {s.sequence : s \in steps} \cup {n}
    BY <1>3, <1>4
  <2>2. 1..Cardinality(steps) \cup {n} = 1..Cardinality(steps')
    BY <1>6
  <2> QED
    BY <2>1, <2>2 DEF TaskInv, StepsNumbered
<1>9. \A s \in Requests : Pending(s)'
  <2>1. Cardinality(steps) <= Cardinality(steps')
    BY <1>6
  <2> QED
    BY <1>1, <1>5, <1>6, <2>1, PendingKept
<1>10. steps' \subseteq StepRecord
  BY <1>3, <1>4 DEF TaskInv, TypeOK
<1> QED
  BY <1>5, <1>6, <1>8, <1>9, <1>10 DEF TaskInv, TypeOK

-----------------------------------------------------------------------------
THEOREM TaskInductive == Spec => []TaskInv
<1>1. TaskInv /\ [Next]_vars => TaskInv'
  <2> SUFFICES ASSUME TaskInv, [Next]_vars PROVE TaskInv'
    OBVIOUS
  <2> USE DEF Requests
  <2>1. ASSUME NEW c \in Cancels, CancelRead(c) PROVE TaskInv'
    <3>1. can_transition(task.state, "CANCELLED") \in BOOLEAN /\ "CANCELLED" \in States
      BY DEF can_transition, States
    <3> QED
      BY <2>1, <3>1, KindAssumption, ReadKeeps DEF CancelRead
  <2>2. ASSUME NEW t \in Transitions, NEW target \in States, TransitionRead(t, target)
        PROVE  TaskInv'
    <3>1. can_transition(task.state, target) \in BOOLEAN
      BY DEF can_transition
    <3> QED
      BY <2>2, <3>1, KindAssumption, ReadKeeps DEF TransitionRead
  <2>3. ASSUME NEW r \in Runs, RunRead(r) PROVE TaskInv'
    <3>1. "RECEIVED" \in States
      BY DEF States
    <3> QED
      BY <2>3, <3>1, KindAssumption, ReadKeeps DEF RunRead
  <2>4. CASE UNCHANGED vars
    BY <2>4 DEF TaskInv, TypeOK, StepsNumbered, StateAudited, ChangesFromVisited, Pending,
                Visited, vars
  <2> QED
    BY <2>1, <2>2, <2>3, <2>4, CountKeeps, FailKeeps, CancelCommitKeeps, RunCommitKeeps,
       TransitionCommitKeeps DEF Next
<1> QED
  BY <1>1, InitTask, PTL DEF Spec

-----------------------------------------------------------------------------
(***************************************************************************)
(* Steps and audited changes tell one story.                               *)
(***************************************************************************)
LEMMA ChangesFinite ==
    ASSUME TypeOK, NEW S \in SUBSET Changes
    PROVE  IsFiniteSet(S) /\ Cardinality(S) \in Nat
<1>1. Len(events) \in Nat
  BY DEF TypeOK
<1>2. S \subseteq 1..Len(events) /\ IsFiniteSet(1..Len(events))
  BY <1>1, FS_Interval DEF Changes
<1> QED
  BY <1>2, FS_Subset, FS_CardinalityType

\* The events there were keep their places; the new one is a change or it is not.
LEMMA CommitAppends ==
    ASSUME TypeOK, NEW r, NEW state, NEW type, NEW from, Commit(r, state, type, from)
    PROVE  /\ Len(events) \in Nat /\ \A i \in Changes : i \in 1..Len(events) /\ events'[i] = events[i]
           /\ LET last == Len(events) + 1
              IN  /\ events'[last] = [type |-> type, from |-> from, to |-> state]
                  /\ Changes' = IF type = "TASK_STATE_CHANGED" THEN Changes \cup {last}
                                ELSE Changes
<1> DEFINE event == [type |-> type, from |-> from, to |-> state]
<1>1. events \in Seq(EventRecord) /\ events' = Append(events, event)
  BY DEF TypeOK, Commit
<1>2. event.type = type
  OBVIOUS
<1> HIDE DEF event
<1>3. /\ Len(events) \in Nat /\ Len(events') = Len(events) + 1
      /\ events'[Len(events) + 1] = event
      /\ \A i \in 1..Len(events) : events'[i] = events[i]
  BY <1>1
<1>4. 1..Len(events') = 1..Len(events) \cup {Len(events) + 1}
  BY <1>3
<1>5. Changes' = IF type = "TASK_STATE_CHANGED" THEN Changes \cup {Len(events) + 1} ELSE Changes
  BY <1>2, <1>3, <1>4 DEF Changes
<1>6. \A i \in Changes : i \in 1..Len(events) /\ events'[i] = events[i]
  BY <1>3 DEF Changes
<1> QED
  BY <1>3, <1>5, <1>6 DEF event

LEMMA TransitionIsAudited ==
    ASSUME TaskInv, StepsAudited, NEW t \in Transitions, TransitionCommit(t)
    PROVE  StepsAudited'
<1> DEFINE last == Len(events) + 1
           step == [sequence |-> req[t].sequence, from_state |-> req[t].read.state,
                    to_state |-> req[t].target]
<1>1. /\ Len(events) \in Nat /\ \A i \in Changes : i \in 1..Len(events) /\ events'[i] = events[i]
      /\ events'[last].from = step.from_state /\ events'[last].to = step.to_state
      /\ Changes' = Changes \cup {last}
  <2>1. Commit(t, req[t].target, "TASK_STATE_CHANGED", req[t].read.state) /\ TypeOK
    BY DEF TaskInv, TransitionCommit
  <2>2. LET new == Len(events) + 1
        IN  /\ events'[new] = [type |-> "TASK_STATE_CHANGED", from |-> req[t].read.state,
                               to |-> req[t].target]
            /\ Changes' = Changes \cup {new}
    BY <2>1, CommitAppends
  <2> QED
    BY <2>1, <2>2, CommitAppends
<1>2. /\ step.sequence = Cardinality(steps) + 1 /\ Cardinality(steps) \in Nat
      /\ Cardinality(steps') = Cardinality(steps) + 1
  BY TransitionNumbers
<1>3. steps' = steps \cup {step}
  BY DEF TransitionCommit
<1>4. last \notin Changes /\ \A i \in Changes : i <= last
  BY <1>1
<1>5. Cardinality(Changes') = Cardinality(Changes) + 1
  <2>1. IsFiniteSet(Changes)
    BY ChangesFinite DEF TaskInv
  <2> QED
    BY <1>1, <1>4, <2>1, FS_AddElement
<1> HIDE DEF step
<1>6. ASSUME NEW i \in Changes
      PROVE  {j \in Changes' : j <= i} = {j \in Changes : j <= i}
  BY <1>1
<1>7. {j \in Changes' : j <= last} = Changes'
  BY <1>1, <1>4
<1>8. \A s \in steps : \E i \in Changes' :
         /\ Cardinality({j \in Changes' : j <= i}) = s.sequence
         /\ events'[i].from = s.from_state /\ events'[i].to = s.to_state
  BY <1>1, <1>6 DEF StepsAudited
<1>9. /\ last \in Changes' /\ Cardinality({j \in Changes' : j <= last}) = step.sequence
      /\ events'[last].from = step.from_state /\ events'[last].to = step.to_state
  BY <1>1, <1>2, <1>5, <1>7 DEF StepsAudited
<1> HIDE DEF last
<1>10. Cardinality(Changes') = Cardinality(steps')
  BY <1>2, <1>5 DEF StepsAudited
<1> QED
  BY <1>3, <1>8, <1>9, <1>10 DEF StepsAudited

LEMMA OthersAuditNoStep ==
    ASSUME TaskInv, StepsAudited, UNCHANGED steps,
           \/ UNCHANGED events
           \/ \E r \in Requests, state \in States, from \in States \cup {"unsaid"},
                 type \in {"TASK_CANCELLED", "AGENT_RUN_COMPLETED"} : Commit(r, state, type, from)
    PROVE  StepsAudited'
<1>1. Changes' = Changes /\ \A i \in Changes : events'[i] = events[i]
  BY CommitAppends DEF TaskInv, Changes
<1> QED
  BY <1>1 DEF StepsAudited

LEMMA AuditedInductive == TaskInv /\ StepsAudited /\ [Next]_vars => StepsAudited'
<1> SUFFICES ASSUME TaskInv, StepsAudited, [Next]_vars
             PROVE  StepsAudited'
  OBVIOUS
<1>1. ASSUME NEW c \in Cancels, CancelRead(c) \/ CancelCommit(c) PROVE StepsAudited'
  <2>1. c \in Requests /\ req[c].read.state \in States /\ "CANCELLED" \in States
    BY DEF TaskInv, TypeOK, RequestRecord, TaskRecord, Requests, States
  <2> QED
    BY <1>1, <2>1, OthersAuditNoStep DEF CancelRead, CancelCommit, Read
<1>2. ASSUME NEW t \in Transitions, NEW target \in States, TransitionRead(t, target) \/ CountSteps(t)
      PROVE  StepsAudited'
  BY <1>2, OthersAuditNoStep DEF TransitionRead, CountSteps, Read
<1>3. ASSUME NEW r \in Runs, NEW outcome \in Outcomes, RunRead(r) \/ RunCommit(r, outcome)
      PROVE  StepsAudited'
  <2>1. r \in Requests /\ outcome \in States
    BY DEF Requests, Outcomes, States
  <2> QED
    BY <1>3, <2>1, OthersAuditNoStep DEF RunRead, RunCommit, Read
<1>4. ASSUME NEW r \in Requests, RequestFails(r) PROVE StepsAudited'
  BY <1>4, OthersAuditNoStep DEF RequestFails
<1>5. CASE UNCHANGED vars
  BY <1>5, OthersAuditNoStep DEF vars
<1>6. States # {} /\ Outcomes # {}
  BY DEF States, Outcomes
<1> QED
  BY <1>1, <1>2, <1>3, <1>4, <1>5, <1>6, TransitionIsAudited DEF Next

\* The n-th change of state in the audit chain is step n, though chain and steps are written by
\* requests that overtake each other.
THEOREM StepsAreAudited == Spec => []StepsAudited
<1>1. Init => StepsAudited
  <2> SUFFICES ASSUME Init PROVE StepsAudited
    OBVIOUS
  <2>1. Changes = {} /\ steps = {}
    BY DEF Init, Changes
  <2> QED
    BY <2>1 DEF StepsAudited
<1> QED
  BY <1>1, TaskInductive, AuditedInductive, PTL DEF Spec

\* Steps are numbered without gap or double, however many transitions race
\* (transition_task counts first and commits later; the UNIQUE constraint decides).
THEOREM StepsNumberedHolds == Spec => []StepsNumbered
<1>1. TaskInv => StepsNumbered
  BY DEF TaskInv
<1> QED
  BY <1>1, TaskInductive, PTL

\* Every audited change is legal and starts in a state the task had been in, although the
\* UPDATE does not compare the row with the copy it was decided on.
THEOREM ChangesHaveOrigin == Spec => []ChangesFromVisited
<1>1. TaskInv => ChangesFromVisited
  BY DEF TaskInv
<1> QED
  BY <1>1, TaskInductive, PTL

\* The audit chain tells of the state the task has, even when a run left the column alone.
THEOREM StateIsAudited == Spec => []StateAudited
<1>1. TaskInv => StateAudited
  BY DEF TaskInv
<1> QED
  BY <1>1, TaskInductive, PTL

=============================================================================
