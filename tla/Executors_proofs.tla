-------------------------- MODULE Executors_proofs --------------------------
(***************************************************************************)
(* Proofs about the service and process executors (module ServiceProcess)  *)
(* and the executor of DEMO mode (module DemoSandbox), for any executions, *)
(* rollbacks, tokens and pids.                                             *)
(***************************************************************************)
EXTENDS ServiceProcess, DemoSandbox, TLAPS

-----------------------------------------------------------------------------
(* Service and processes.                                                  *)

\* A pid has one process at a time, and start times are given once.
HostOK ==
    /\ clock \in Nat /\ proc \in [Pids -> Nat]
    /\ \A p \in Pids : proc[p] <= clock
    /\ \A p, q \in Pids : proc[p] = proc[q] /\ proc[p] # 0 => p = q
    /\ 0 \notin managed

\* A process stays, goes, or makes room for one that starts now, whoever acts.
HostStep ==
    /\ HostOK' /\ clock <= clock'
    /\ \A p \in Pids : proc'[p] \in {proc[p], 0} \/ proc'[p] > clock
    /\ \A p \in Pids : proc'[p] \in managed'
                           => (proc'[p] = proc[p] /\ proc[p] \in managed) \/ proc'[p] > clock

Shapes ==
    /\ job \in [Jobs -> JobRecord]
    /\ row \in [Changes -> {"none", "SUCCEEDED", "ROLLED_BACK"}]
    /\ signals \in [Terminations -> Nat] /\ looked \in [Terminations -> Nat]
    /\ served \in [Jobs -> SUBSET [from : Nat, to : Nat]]
    /\ \A j \in backlog : j \in Restarts \cup Rollbacks /\ job[j].pc # "idle"

\* The candidate of a termination, wherever its process is now.
Identified(t) ==
    /\ job[t].start \in 1..clock
    /\ \E pid \in Pids : /\ job[t].pid = {pid}
                         /\ \A p \in Pids : proc[p] = job[t].start => p = pid

Gone(t) == \A p \in Pids : proc[p] # job[t].start

TermInv(t) ==
    /\ job[t].pc \in {"idle", "candidate", "checked", "signalled", "succeeded", "failing", "ended", "dead"}
    /\ job[t].pc = "idle" => row[t] = "none"
    /\ job[t].pc # "idle" => Identified(t)
    /\ job[t].pc \in {"idle", "candidate", "checked"} => signals[t] = 0
    /\ looked[t] <= clock
    /\ job[t].pc = "checked" =>
            \A p \in job[t].pid : proc[p] \in {0, job[t].start} \/ proc[p] > looked[t]
    /\ signals[t] # 0 => signals[t] = job[t].start \/ signals[t] > looked[t]
    /\ job[t].pc = "succeeded" \/ row[t] # "none" => Gone(t)

\* A restart of j was done, and no process of the service is older.
Renewed(j) == \E s \in served[j] :
    s.from <= clock /\ \A p \in Pids : proc[p] \in managed => proc[p] > s.from

\* j was, or is about to be, recorded as a success.
Succeeds(j) == job[j].pc = "succeeded" \/ (job[j].pc = "answered" /\ job[j].code = 0)

RestartInv(c) == Succeeds(c) \/ row[c] # "none" => Renewed(c)

RollInv(r) ==
    /\ job[r].pc = "idle" => served[r] = {}
    /\ job[r].pc # "idle" => \E c \in Changes : job[r].change = {c} /\ row[c] # "none"
    /\ Succeeds(r) => served[r] # {}

RolledBack(c) ==
    row[c] = "ROLLED_BACK" => \E r \in Rollbacks : job[r].change = {c} /\ served[r] # {}

ServiceInv ==
    /\ HostOK /\ Shapes
    /\ \A t \in Terminations : TermInv(t)
    /\ \A c \in Restarts : RestartInv(c)
    /\ \A r \in Rollbacks : RollInv(r)
    /\ \A c \in Changes : RolledBack(c)

-----------------------------------------------------------------------------
(* The host.                                                               *)

LEMMA HostStands ==
    ASSUME HostOK, UNCHANGED host
    PROVE  HostStep
  BY DEF HostOK, HostStep, host

LEMMA HostStartsStep ==
    ASSUME HostOK, NEW pid \in Pids, HostStarts(pid)
    PROVE  HostStep
<1>1. /\ clock' = clock + 1 /\ proc[pid] = 0
      /\ proc' = [proc EXCEPT ![pid] = clock + 1]
      /\ managed' \in {managed, managed \cup {clock + 1}}
  BY DEF HostStarts
<1>2. proc' \in [Pids -> Nat] /\ \A p \in Pids : proc'[p] = IF p = pid THEN clock + 1 ELSE proc[p]
  BY <1>1 DEF HostOK
<1> QED
  BY <1>1, <1>2 DEF HostOK, HostStep

LEMMA WithoutShape ==
    ASSUME HostOK, NEW pids
    PROVE  /\ Without(pids) \in [Pids -> Nat]
           /\ \A p \in Pids : Without(pids)[p] = IF p \in pids THEN 0 ELSE proc[p]
  BY DEF Without, HostOK

LEMMA HostEndsStep ==
    ASSUME HostOK, NEW pid \in Pids, HostEnds(pid)
    PROVE  HostStep
<1>1. proc' = Without({pid}) /\ UNCHANGED <<managed, clock>>
  BY DEF HostEnds
<1> QED
  BY <1>1, WithoutShape DEF HostOK, HostStep

\* A restart ends every process of the service and starts one or none.
LEMMA ServeStep ==
    ASSUME HostOK, NEW j, Serve(j)
    PROVE  HostStep
<1>1. /\ Without(Service) \in [Pids -> Nat]
      /\ \A p \in Pids : Without(Service)[p] = IF p \in Service THEN 0 ELSE proc[p]
  BY WithoutShape
<1>2. CASE \E pid \in {p \in Pids : Without(Service)[p] = 0} :
             /\ clock' = clock + 1 /\ managed' = managed \cup {clock + 1}
             /\ proc' = [Without(Service) EXCEPT ![pid] = clock + 1]
  <2>1. PICK pid \in {p \in Pids : Without(Service)[p] = 0} :
             /\ clock' = clock + 1 /\ managed' = managed \cup {clock + 1}
             /\ proc' = [Without(Service) EXCEPT ![pid] = clock + 1]
    BY <1>2
  <2>2. /\ proc' \in [Pids -> Nat]
        /\ \A p \in Pids : proc'[p] = IF p = pid THEN clock + 1 ELSE IF p \in Service THEN 0 ELSE proc[p]
    BY <1>1, <2>1 DEF HostOK
  <2> QED
    BY <2>1, <2>2 DEF HostOK, HostStep, Service
<1>3. CASE proc' = Without(Service) /\ UNCHANGED <<managed, clock>>
  BY <1>1, <1>3 DEF HostOK, HostStep
<1> QED
  BY <1>2, <1>3 DEF Serve

-----------------------------------------------------------------------------
(* What a step leaves alone stays as good as it was.                       *)

\* A row that was written is not unwritten.
RowKept(c) == row'[c] = row[c] \/ (row[c] # "none" /\ row'[c] # "none")

LEMMA GoneStays ==
    ASSUME HostOK, HostStep, NEW t \in Terminations, Identified(t), Gone(t),
           job'[t].start = job[t].start
    PROVE  Gone(t)'
  BY DEF HostOK, HostStep, Identified, Gone

LEMMA IdentifiedStays ==
    ASSUME HostOK, HostStep, NEW t \in Terminations, Identified(t),
           job'[t].start = job[t].start, job'[t].pid = job[t].pid
    PROVE  Identified(t)'
<1>1. PICK pid \in Pids : /\ job[t].pid = {pid}
                          /\ \A p \in Pids : proc[p] = job[t].start => p = pid
  BY DEF Identified
<1>2. \A p \in Pids : proc'[p] = job[t].start => p = pid
  BY <1>1 DEF HostOK, HostStep, Identified
<1>3. job[t].start \in 1..clock'
  BY DEF HostOK, HostStep, Identified
<1> QED
  BY <1>1, <1>2, <1>3 DEF Identified

LEMMA TermStays ==
    ASSUME HostOK, Shapes, HostStep, NEW t \in Terminations, TermInv(t),
           job'[t] = job[t], signals'[t] = signals[t], looked'[t] = looked[t], RowKept(t)
    PROVE  TermInv(t)'
<1>1. job[t].pc # "idle" => Identified(t)'
  BY IdentifiedStays DEF TermInv
<1>2. job[t].pc = "succeeded" \/ row'[t] # "none" => Gone(t)'
  BY GoneStays DEF TermInv, RowKept
<1>3. looked[t] <= clock'
  BY DEF TermInv, HostOK, HostStep, Shapes
<1>4. job[t].pc = "checked" =>
        \A p \in job[t].pid : proc'[p] \in {0, job[t].start} \/ proc'[p] > looked[t]
  <2> SUFFICES ASSUME job[t].pc = "checked", NEW p \in job[t].pid
               PROVE  proc'[p] \in {0, job[t].start} \/ proc'[p] > looked[t]
    OBVIOUS
  <2>1. p \in Pids
    BY DEF TermInv, Identified
  <2> QED
    BY <2>1 DEF TermInv, HostOK, HostStep, Shapes
<1> QED
  BY <1>1, <1>2, <1>3, <1>4 DEF TermInv, RowKept

LEMMA RenewedStays ==
    ASSUME HostOK, Shapes, HostStep, NEW j \in Jobs, Renewed(j), served'[j] = served[j]
    PROVE  Renewed(j)'
<1>1. PICK s \in served[j] :
        s.from <= clock /\ \A p \in Pids : proc[p] \in managed => proc[p] > s.from
  BY DEF Renewed
<1>2. s.from \in Nat
  BY DEF Shapes
<1>3. s.from <= clock' /\ \A p \in Pids : proc'[p] \in managed' => proc'[p] > s.from
  BY <1>1, <1>2 DEF HostOK, HostStep
<1> QED
  BY <1>3 DEF Renewed

LEMMA RestartStays ==
    ASSUME HostOK, Shapes, HostStep, NEW c \in Restarts, RestartInv(c),
           Succeeds(c)' => Succeeds(c), served'[c] = served[c], RowKept(c)
    PROVE  RestartInv(c)'
  BY RenewedStays DEF RestartInv, RowKept, Jobs, Changes

LEMMA RollStays ==
    ASSUME Shapes, NEW r \in Rollbacks, RollInv(r), job'[r] = job[r], served'[r] = served[r],
           \A c \in Changes : RowKept(c)
    PROVE  RollInv(r)'
  BY DEF RollInv, RowKept, Succeeds

\* What a step that is about one job alone has to show.
LEMMA OthersStay ==
    ASSUME ServiceInv, HostStep, Shapes', NEW j \in Jobs,
           \A i \in Jobs \ {j} : job'[i] = job[i] /\ served'[i] = served[i],
           \A t \in Terminations \ {j} : signals'[t] = signals[t] /\ looked'[t] = looked[t],
           \A c \in Changes \ {j} : RowKept(c),
           j \in Terminations => TermInv(j)',
           j \in Restarts => RestartInv(j)',
           j \in Rollbacks => RollInv(j)' /\ (served[j] # {} => served'[j] # {} /\ job'[j].change = job[j].change),
           \A c \in Changes : row'[c] = "ROLLED_BACK" => row[c] = "ROLLED_BACK" \/ RolledBack(c)',
           j \in Changes /\ row[j] # "none" => row'[j] # "none"
    PROVE  ServiceInv'
<1>0. HostOK /\ Shapes /\ HostOK'
  BY DEF ServiceInv, HostStep
<1>1. \A t \in Terminations : TermInv(t)'
  <2> TAKE t \in Terminations
  <2>1. CASE t # j
    BY <1>0, <2>1, TermStays DEF ServiceInv, Jobs, Changes
  <2> QED
    BY <2>1
<1>2. \A c \in Restarts : RestartInv(c)'
  <2> TAKE c \in Restarts
  <2>1. CASE c # j
    <3>1. c \in Jobs /\ c \in Changes /\ RowKept(c) /\ job'[c] = job[c] /\ served'[c] = served[c]
      BY <2>1 DEF Jobs, Changes
    <3>2. Succeeds(c)' => Succeeds(c)
      BY <3>1 DEF Succeeds
    <3> QED
      BY <1>0, <3>1, <3>2, RestartStays DEF ServiceInv
  <2> QED
    BY <2>1
<1>3. \A c \in Changes : row[c] # "none" => row'[c] # "none"
  BY DEF RowKept
<1>4. \A r \in Rollbacks : RollInv(r)'
  <2> TAKE r \in Rollbacks
  <2>1. CASE r # j
    <3>1. job'[r] = job[r] /\ served'[r] = served[r]
      BY <2>1 DEF Jobs
    <3>2. RollInv(r)
      BY DEF ServiceInv
    <3> QED
      BY <1>3, <3>1, <3>2 DEF RollInv, Succeeds
  <2> QED
    BY <2>1
<1>5. \A c \in Changes : RolledBack(c)'
  <2> TAKE c \in Changes
  <2>1. CASE row[c] = "ROLLED_BACK"
    <3>1. PICK r \in Rollbacks : job[r].change = {c} /\ served[r] # {}
      BY <2>1 DEF ServiceInv, RolledBack
    <3>2. job'[r].change = {c} /\ served'[r] # {}
      BY <3>1 DEF Jobs
    <3> QED
      BY <3>2 DEF RolledBack
  <2> QED
    BY <2>1 DEF RolledBack
<1> QED
  BY <1>0, <1>1, <1>2, <1>4, <1>5 DEF ServiceInv

\* The host acts, or the daemon loses a request nobody waits for any more.
LEMMA JobsStand ==
    ASSUME ServiceInv, HostStep, backlog' \subseteq backlog,
           UNCHANGED <<row, job, signals, looked, served>>
    PROVE  ServiceInv'
<1>1. HostOK /\ Shapes /\ HostOK'
  BY DEF ServiceInv, HostStep
<1>2. Shapes'
  BY <1>1 DEF Shapes
<1>3. \A c \in Changes : RowKept(c)
  BY DEF RowKept
<1>4. \A t \in Terminations : TermInv(t)'
  BY <1>1, <1>3, TermStays DEF ServiceInv, Changes
<1>5. \A c \in Restarts : RestartInv(c)'
  BY <1>1, <1>3, RestartStays DEF ServiceInv, Succeeds, Changes
<1>6. \A r \in Rollbacks : RollInv(r)'
  BY <1>1, <1>3, RollStays DEF ServiceInv
<1>7. \A c \in Changes : RolledBack(c)'
  BY DEF ServiceInv, RolledBack
<1> QED
  BY <1>1, <1>2, <1>4, <1>5, <1>6, <1>7 DEF ServiceInv

-----------------------------------------------------------------------------
(* One job moves.                                                          *)

\* j is at to, and nothing else of any job changed.
MovedTo(j, to) ==
    /\ job' \in [Jobs -> JobRecord]
    /\ job'[j].pc = to /\ job'[j].pid = job[j].pid /\ job'[j].start = job[j].start
    /\ job'[j].change = job[j].change /\ job'[j].code = job[j].code
    /\ \A i \in Jobs \ {j} : job'[i] = job[i]

LEMMA Moved ==
    ASSUME Shapes, NEW j \in Jobs, NEW to \in Places, job' = [job EXCEPT ![j].pc = to]
    PROVE  MovedTo(j, to)
<1>1. job \in [Jobs -> JobRecord] /\ job[j] \in JobRecord
  BY DEF Shapes
<1> DEFINE moved == [job[j] EXCEPT !.pc = to]
<1>2. /\ moved \in JobRecord
      /\ moved.pc = to /\ moved.pid = job[j].pid /\ moved.start = job[j].start
      /\ moved.change = job[j].change /\ moved.code = job[j].code
  BY <1>1 DEF JobRecord
<1>3. job' = [job EXCEPT ![j] = moved]
  OBVIOUS
<1> HIDE DEF moved
<1>4. job'[j] = moved /\ \A i \in Jobs \ {j} : job'[i] = job[i]
  BY <1>1, <1>3
<1>5. job' \in [Jobs -> JobRecord]
  BY <1>1, <1>2, <1>3
<1> QED
  BY <1>2, <1>4, <1>5 DEF MovedTo

\* The rest of the state as a job leaves it that tells nobody of a success.
Quiet == UNCHANGED <<proc, managed, clock, row, signals, looked, served>>

LEMMA Kinds ==
    \A j \in Jobs : /\ j \in Restarts \/ j \in Terminations \/ j \in Rollbacks
                    /\ ~(j \in Restarts /\ j \in Terminations)
                    /\ ~(j \in Changes /\ j \in Rollbacks)
  BY JobAssumption DEF Jobs, Changes

LEMMA QuietMove ==
    ASSUME ServiceInv, NEW j \in Jobs, NEW to \in {"requested", "failing", "ended", "dead"},
           MovedTo(j, to), Quiet, job[j].pc # "idle" \/ j \in Restarts,
           j \in Terminations => to # "requested",
           backlog' \subseteq backlog \cup (IF j \in Terminations THEN {} ELSE {j})
    PROVE  ServiceInv'
<1>1. HostOK /\ Shapes /\ HostStep
  BY HostStands DEF ServiceInv, Quiet, host
<1>2. Shapes'
  <2>1. \A i \in backlog' : i \in Restarts \cup Rollbacks /\ job'[i].pc # "idle"
    BY <1>1, Kinds DEF Shapes, MovedTo, Jobs, Changes
  <2> QED
    BY <1>1, <2>1 DEF Shapes, MovedTo, Quiet
<1>3. ~Succeeds(j)'
  BY DEF Succeeds, MovedTo
<1>4. \A c \in Changes : RowKept(c)
  BY DEF RowKept, Quiet
<1>5. ASSUME j \in Terminations PROVE TermInv(j)'
  <2>1. TermInv(j) /\ job[j].pc # "idle"
    BY <1>5, Kinds DEF ServiceInv
  <2>2. Identified(j)'
    BY <1>1, <1>5, <2>1, IdentifiedStays DEF TermInv, MovedTo
  <2>3. row[j] # "none" => Gone(j)'
    BY <1>1, <1>5, <2>1, GoneStays DEF TermInv, MovedTo
  <2> QED
    BY <1>5, <2>1, <2>2, <2>3 DEF TermInv, MovedTo, Quiet
<1>6. ASSUME j \in Restarts PROVE RestartInv(j)'
  BY <1>1, <1>3, <1>4, <1>6, RestartStays DEF ServiceInv, Quiet, Changes
<1>7. ASSUME j \in Rollbacks PROVE RollInv(j)'
  <2>1. RollInv(j) /\ job[j].pc # "idle"
    BY <1>7, Kinds DEF ServiceInv, Changes
  <2> QED
    BY <1>3, <2>1 DEF RollInv, MovedTo, Quiet
<1> QED
  BY <1>1, <1>2, <1>4, <1>5, <1>6, <1>7, OthersStay DEF MovedTo, Quiet

-----------------------------------------------------------------------------
(* service_restart, and the rollback of one.                               *)

LEMMA RequestKeeps ==
    ASSUME ServiceInv, NEW s \in Restarts, Request(s)
    PROVE  ServiceInv'
<1>1. s \in Jobs /\ Shapes /\ s \notin Terminations
  BY JobAssumption DEF ServiceInv, Jobs, Changes
<1>2. PICK to \in {"requested", "failing"} : job' = [job EXCEPT ![s].pc = to]
  BY DEF Request
<1>3. MovedTo(s, to)
  BY <1>1, <1>2, Moved DEF Places
<1>4. Quiet /\ backlog' \subseteq backlog \cup {s}
  BY DEF Request, Quiet, host
<1> QED
  BY <1>1, <1>3, <1>4, QuietMove

LEMMA DropKeeps ==
    ASSUME ServiceInv, NEW j \in Jobs, Drop(j)
    PROVE  ServiceInv'
<1>1. Shapes /\ HostOK /\ Quiet /\ backlog' \subseteq backlog /\ j \in backlog
  BY DEF ServiceInv, Drop, Quiet, host
<1>2. CASE job[j].pc = "requested"
  <2>1. MovedTo(j, "failing")
    BY <1>1, <1>2, Moved DEF Drop, Places
  <2> QED
    BY <1>1, <1>2, <2>1, QuietMove
<1>3. CASE job[j].pc # "requested"
  BY <1>1, <1>3, HostStands, JobsStand DEF Drop, Quiet, host
<1> QED
  BY <1>2, <1>3

LEMMA TimeOutKeeps ==
    ASSUME ServiceInv, NEW j \in Jobs, TimeOut(j)
    PROVE  ServiceInv'
<1>1. Shapes /\ Quiet /\ backlog' \subseteq backlog /\ job[j].pc # "idle"
  BY DEF ServiceInv, TimeOut, Move, Quiet, host
<1>2. MovedTo(j, "failing")
  BY <1>1, Moved DEF TimeOut, Move, Places
<1> QED
  BY <1>1, <1>2, QuietMove

LEMMA FailKeeps ==
    ASSUME ServiceInv, NEW j \in Jobs, Fail(j) \/ Die(j)
    PROVE  ServiceInv'
<1>1. Shapes /\ Quiet /\ backlog' \subseteq backlog /\ job[j].pc # "idle"
  BY DEF ServiceInv, Fail, Die, Move, Quiet, host
<1>2. MovedTo(j, "ended") \/ MovedTo(j, "dead")
  BY <1>1, Moved DEF Fail, Die, Move, Places
<1> QED
  BY <1>1, <1>2, QuietMove

\* An answer 0 with the service active is a success; so was the answer.
LEMMA ConfirmKeeps ==
    ASSUME ServiceInv, NEW j \in Jobs, Confirm(j)
    PROVE  ServiceInv'
<1>1. Shapes /\ HostOK /\ Quiet /\ backlog' = backlog /\ job[j].pc = "answered"
  BY DEF ServiceInv, Confirm, Move, Quiet, host
<1>2. CASE MovedTo(j, "failing")
  BY <1>1, <1>2, QuietMove
<1>3. CASE job[j].code = 0 /\ MovedTo(j, "succeeded")
  <2>1. HostStep
    BY <1>1, HostStands DEF Quiet, host
  <2>2. Shapes'
    BY <1>1, <1>3 DEF Shapes, MovedTo, Quiet, Jobs, Changes
  <2>3. Succeeds(j)
    BY <1>1, <1>3 DEF Succeeds
  <2>4. \A c \in Changes : RowKept(c)
    BY <1>1 DEF RowKept, Quiet
  <2>5. j \notin Terminations
    BY <1>1 DEF ServiceInv, TermInv
  <2>6. ASSUME j \in Restarts PROVE RestartInv(j)'
    BY <1>1, <2>1, <2>3, <2>4, <2>6, RestartStays DEF ServiceInv, Quiet, Changes
  <2>7. ASSUME j \in Rollbacks PROVE RollInv(j)'
    BY <1>1, <1>3, <2>3, <2>7 DEF ServiceInv, RollInv, MovedTo, Quiet
  <2> QED
    BY <1>1, <1>3, <2>1, <2>2, <2>4, <2>5, <2>6, <2>7, OthersStay DEF MovedTo, Quiet
<1>4. MovedTo(j, "failing") \/ (job[j].code = 0 /\ MovedTo(j, "succeeded"))
  BY <1>1, Moved DEF Confirm, Move, Places
<1> QED
  BY <1>2, <1>3, <1>4

\* After a restart whatever runs of the service was started by it.
LEMMA ServeRenews ==
    ASSUME HostOK, NEW j, Serve(j)
    PROVE  \A p \in Pids : proc'[p] \in managed' => proc'[p] > clock
<1>1. /\ Without(Service) \in [Pids -> Nat]
      /\ \A p \in Pids : Without(Service)[p] = IF p \in Service THEN 0 ELSE proc[p]
  BY WithoutShape
<1>2. CASE \E pid \in {p \in Pids : Without(Service)[p] = 0} :
             /\ clock' = clock + 1 /\ managed' = managed \cup {clock + 1}
             /\ proc' = [Without(Service) EXCEPT ![pid] = clock + 1]
  <2>1. PICK pid \in {p \in Pids : Without(Service)[p] = 0} :
             /\ clock' = clock + 1 /\ managed' = managed \cup {clock + 1}
             /\ proc' = [Without(Service) EXCEPT ![pid] = clock + 1]
    BY <1>2
  <2>2. \A p \in Pids : proc'[p] = IF p = pid THEN clock + 1 ELSE IF p \in Service THEN 0 ELSE proc[p]
    BY <1>1, <2>1 DEF HostOK
  <2> QED
    BY <2>1, <2>2 DEF HostOK, Service
<1>3. CASE proc' = Without(Service) /\ UNCHANGED <<managed, clock>>
  BY <1>1, <1>3 DEF HostOK, Service
<1> QED
  BY <1>2, <1>3 DEF Serve

LEMMA AnswerWritten ==
    ASSUME job \in [Jobs -> JobRecord], NEW j \in Jobs, NEW p, NEW c
    PROVE  [job EXCEPT ![j].pc = p, ![j].code = c]
             = [job EXCEPT ![j] = [job[j] EXCEPT !.pc = p, !.code = c]]
  OBVIOUS

\* The answer reaches j if it still waits, and changes nothing else of any job.
LEMMA Answered ==
    ASSUME Shapes, NEW j \in Jobs, NEW code \in {0, 1, 70}, Answer(j, code)
    PROVE  /\ job' \in [Jobs -> JobRecord] /\ \A i \in Jobs \ {j} : job'[i] = job[i]
           /\ job'[j].change = job[j].change
           /\ job[j].pc # "idle" => job'[j].pc # "idle"
           /\ Succeeds(j)' => Succeeds(j) \/ code = 0
<1>1. job \in [Jobs -> JobRecord] /\ job[j] \in JobRecord
  BY DEF Shapes
<1>2. CASE job' = job
  BY <1>1, <1>2 DEF Succeeds
<1>3. CASE job' = [job EXCEPT ![j].pc = "answered", ![j].code = code]
  <2> DEFINE told == [job[j] EXCEPT !.pc = "answered", !.code = code]
  <2>1. told \in JobRecord /\ told.pc = "answered" /\ told.code = code /\ told.change = job[j].change
    <3>1. told \in JobRecord
      <4>1. "answered" \in Places
        BY DEF Places
      <4> QED
        BY <1>1, <4>1 DEF JobRecord
    <3>2. told.pc = "answered" /\ told.code = code /\ told.change = job[j].change
      BY <1>1 DEF JobRecord
    <3> QED
      BY <3>1, <3>2
  <2>2. job' = [job EXCEPT ![j] = told]
    BY <1>1, <1>3, AnswerWritten, Zenon
  <2> HIDE DEF told
  <2>3. job'[j] = told /\ \A i \in Jobs \ {j} : job'[i] = job[i]
    BY <1>1, <2>2
  <2>4. job' \in [Jobs -> JobRecord]
    BY <1>1, <2>1, <2>2
  <2> QED
    BY <2>1, <2>3, <2>4 DEF Succeeds
<1> QED
  BY <1>2, <1>3 DEF Answer

LEMMA ServeKeeps ==
    ASSUME ServiceInv, NEW j \in Jobs, Serve(j)
    PROVE  ServiceInv'
<1>1. HostOK /\ Shapes /\ HostStep /\ UNCHANGED <<row, signals, looked>>
  BY ServeStep DEF ServiceInv, Serve
<1>2. j \in Restarts \cup Rollbacks /\ j \notin Terminations /\ job[j].pc # "idle"
  BY <1>1, Kinds DEF Serve, Shapes, Changes
<1>3. PICK code \in {0, 1, 70} :
        /\ Answer(j, code)
        /\ code = 0 => served' = [served EXCEPT ![j] = {[from |-> clock, to |-> clock + 1]}]
        /\ code # 0 => UNCHANGED served
  BY DEF Serve
<1>4. /\ job' \in [Jobs -> JobRecord] /\ \A i \in Jobs \ {j} : job'[i] = job[i]
      /\ job'[j].change = job[j].change /\ job'[j].pc # "idle"
      /\ Succeeds(j)' => Succeeds(j) \/ code = 0
  BY <1>1, <1>2, <1>3, Answered
<1> DEFINE done == {[from |-> clock, to |-> clock + 1]}
<1>5. done \in SUBSET [from : Nat, to : Nat]
  BY <1>1 DEF HostOK
<1>6. /\ served' \in [Jobs -> SUBSET [from : Nat, to : Nat]]
      /\ \A i \in Jobs \ {j} : served'[i] = served[i]
      /\ served'[j] = IF code = 0 THEN done ELSE served[j]
  <2>1. served \in [Jobs -> SUBSET [from : Nat, to : Nat]]
    BY <1>1 DEF Shapes
  <2>2. code = 0 => served' = [served EXCEPT ![j] = done]
    BY <1>3
  <2> HIDE DEF done
  <2>3. CASE code = 0
    BY <1>5, <2>1, <2>2, <2>3
  <2>4. CASE code # 0
    BY <1>3, <2>1, <2>4
  <2> QED
    BY <2>3, <2>4
<1>7. Shapes'
  <2>1. backlog' \subseteq backlog
    BY <1>3 DEF Answer
  <2>2. \A i \in backlog' : i \in Restarts \cup Rollbacks /\ job'[i].pc # "idle"
    BY <1>1, <1>4, <2>1 DEF Shapes, Jobs, Changes
  <2> QED
    BY <1>1, <1>4, <1>6, <2>2 DEF Shapes
<1>8. \A c \in Changes : RowKept(c)
  BY <1>1 DEF RowKept
<1>9. ASSUME j \in Restarts PROVE RestartInv(j)'
  <2>1. CASE code = 0
    <3>1. clock <= clock' /\ \A p \in Pids : proc'[p] \in managed' => proc'[p] > clock
      BY <1>1, ServeRenews DEF HostStep
    <3>2. [from |-> clock, to |-> clock + 1] \in served'[j]
      BY <1>6, <2>1
    <3>3. Renewed(j)'
      BY <3>1, <3>2 DEF Renewed
    <3> QED
      BY <3>3 DEF RestartInv
  <2>2. CASE code # 0
    BY <1>1, <1>4, <1>6, <1>8, <1>9, <2>2, RestartStays DEF ServiceInv, Changes
  <2> QED
    BY <2>1, <2>2
<1>10. served[j] # {} => served'[j] # {}
  BY <1>6
<1>11. ASSUME j \in Rollbacks PROVE RollInv(j)'
  <2>1. Succeeds(j)' => served'[j] # {}
    BY <1>4, <1>6, <1>11 DEF ServiceInv, RollInv
  <2> QED
    BY <1>1, <1>2, <1>4, <1>11, <2>1 DEF ServiceInv, RollInv
<1> QED
  BY <1>1, <1>2, <1>4, <1>6, <1>7, <1>8, <1>9, <1>10, <1>11, OthersStay

-----------------------------------------------------------------------------
(* terminate_process                                                       *)

\* A termination moved: what is left is to show it as good as before.
LEMMA TerminationMoves ==
    ASSUME ServiceInv, NEW t \in Terminations, TermInv(t)', UNCHANGED <<host, backlog, row, served>>,
           job' \in [Jobs -> JobRecord], \A i \in Jobs \ {t} : job'[i] = job[i],
           signals' \in [Terminations -> Nat], looked' \in [Terminations -> Nat],
           \A u \in Terminations \ {t} : signals'[u] = signals[u] /\ looked'[u] = looked[u]
    PROVE  ServiceInv'
<1>1. HostOK /\ Shapes /\ HostStep /\ t \in Jobs
  BY HostStands DEF ServiceInv, Jobs, Changes
<1>2. t \notin Restarts /\ t \notin Rollbacks
  BY JobAssumption
<1>3. Shapes'
  BY <1>1, <1>2 DEF Shapes, Jobs, Changes
<1>4. \A c \in Changes : RowKept(c)
  BY DEF RowKept
<1> QED
  BY <1>1, <1>2, <1>3, <1>4, OthersStay

LEMMA CreateCandidateKeeps ==
    ASSUME ServiceInv, NEW t \in Terminations, CreateCandidate(t)
    PROVE  ServiceInv'
<1>1. PICK pid \in Service :
        /\ job[t].pc = "idle"
        /\ job' = [job EXCEPT ![t].pc = "candidate", ![t].pid = {pid}, ![t].start = proc[pid]]
        /\ UNCHANGED <<host, backlog, row, signals, looked, served>>
  BY DEF CreateCandidate
<1>2. HostOK /\ Shapes /\ TermInv(t) /\ t \in Jobs /\ UNCHANGED <<proc, managed, clock>>
  BY <1>1 DEF ServiceInv, Jobs, Changes, host
<1>3. pid \in Pids /\ proc[pid] \in managed /\ proc[pid] # 0 /\ proc[pid] \in 1..clock /\ proc[pid] \in Nat
  BY <1>2 DEF Service, HostOK
<1>4. job \in [Jobs -> JobRecord] /\ job[t] \in JobRecord
  BY <1>2 DEF Shapes
<1> DEFINE found == [job[t] EXCEPT !.pc = "candidate", !.pid = {pid}, !.start = proc[pid]]
<1>5. found \in JobRecord /\ found.pc = "candidate" /\ found.pid = {pid} /\ found.start = proc[pid]
  <2>1. {pid} \in SUBSET Pids /\ proc[pid] \in Nat
    BY <1>3
  <2> QED
    BY <1>4, <2>1 DEF JobRecord, Places
<1>6. job' = [job EXCEPT ![t] = found]
  BY <1>1
<1> HIDE DEF found
<1>7. /\ job' \in [Jobs -> JobRecord] /\ job'[t] = found
      /\ \A i \in Jobs \ {t} : job'[i] = job[i]
  BY <1>2, <1>4, <1>5, <1>6
<1>8. Identified(t)'
  BY <1>2, <1>3, <1>5, <1>7 DEF Identified, HostOK
<1>9. TermInv(t)'
  BY <1>1, <1>2, <1>5, <1>7, <1>8 DEF TermInv
<1> QED
  BY <1>1, <1>2, <1>7, <1>9, TerminationMoves DEF Shapes

\* The pid may be another's by now; the start time tells.
LEMMA RequireCurrentKeeps ==
    ASSUME ServiceInv, NEW t \in Terminations, RequireCurrent(t)
    PROVE  ServiceInv'
<1>1. PICK pid \in job[t].pid :
        /\ job[t].pc = "candidate"
        /\ job' = [job EXCEPT ![t].pc = IF proc[pid] = job[t].start THEN "checked" ELSE "failing"]
        /\ looked' = [looked EXCEPT ![t] = clock]
        /\ UNCHANGED <<host, backlog, row, signals, served>>
  BY DEF RequireCurrent, Move
<1>2. HostOK /\ Shapes /\ TermInv(t) /\ t \in Jobs /\ UNCHANGED <<proc, managed, clock>> /\ HostStep
  BY <1>1, HostStands DEF ServiceInv, Jobs, Changes, host
<1>3. PICK to \in {"checked", "failing"} :
        MovedTo(t, to) /\ (to = "checked" => proc[pid] = job[t].start)
  <2>1. CASE proc[pid] = job[t].start
    BY <1>1, <1>2, <2>1, Moved DEF Places
  <2>2. CASE proc[pid] # job[t].start
    BY <1>1, <1>2, <2>2, Moved DEF Places
  <2> QED
    BY <2>1, <2>2
<1>4. /\ looked' \in [Terminations -> Nat] /\ looked'[t] = clock
      /\ \A u \in Terminations \ {t} : looked'[u] = looked[u]
  BY <1>1, <1>2 DEF Shapes, HostOK
<1>5. Identified(t) /\ Identified(t)' /\ job[t].pid = {pid}
  BY <1>1, <1>2, <1>3, IdentifiedStays DEF TermInv, MovedTo, Identified
<1>6. row[t] # "none" => Gone(t)'
  BY <1>2, <1>3, <1>5, GoneStays DEF TermInv, MovedTo
<1>7. TermInv(t)'
  BY <1>1, <1>2, <1>3, <1>4, <1>5, <1>6 DEF TermInv, MovedTo, HostOK
<1> QED
  BY <1>1, <1>2, <1>3, <1>4, <1>7, TerminationMoves DEF Shapes, MovedTo

\* What has the pid is the candidate, or came after the comparison.
LEMMA TerminateKeeps ==
    ASSUME ServiceInv, NEW t \in Terminations, Terminate(t)
    PROVE  ServiceInv'
<1>1. PICK pid \in job[t].pid :
        /\ job[t].pc = "checked"
        /\ job' = [job EXCEPT ![t].pc = IF proc[pid] # 0 THEN "signalled" ELSE "failing"]
        /\ signals' = [signals EXCEPT ![t] = proc[pid]]
        /\ UNCHANGED <<host, backlog, row, looked, served>>
  BY DEF Terminate, Move
<1>2. HostOK /\ Shapes /\ TermInv(t) /\ t \in Jobs /\ UNCHANGED <<proc, managed, clock>> /\ HostStep
  BY <1>1, HostStands DEF ServiceInv, Jobs, Changes, host
<1>3. PICK to \in {"signalled", "failing"} : MovedTo(t, to)
  <2>1. (IF proc[pid] # 0 THEN "signalled" ELSE "failing") \in {"signalled", "failing"} \cap Places
    BY DEF Places
  <2> QED
    BY <1>1, <1>2, <2>1, Moved
<1>4. Identified(t) /\ Identified(t)' /\ pid \in Pids
  BY <1>1, <1>2, <1>3, IdentifiedStays DEF TermInv, MovedTo, Identified
<1>5. /\ signals' \in [Terminations -> Nat] /\ signals'[t] = proc[pid]
      /\ \A u \in Terminations \ {t} : signals'[u] = signals[u]
  BY <1>1, <1>2, <1>4 DEF Shapes, HostOK
<1>6. row[t] # "none" => Gone(t)'
  BY <1>2, <1>3, <1>4, GoneStays DEF TermInv, MovedTo
<1>7. TermInv(t)'
  BY <1>1, <1>2, <1>3, <1>4, <1>5, <1>6 DEF TermInv, MovedTo
<1> QED
  BY <1>1, <1>2, <1>3, <1>5, <1>7, TerminationMoves DEF Shapes, MovedTo

\* The identity gone from its pid is gone from the host.
LEMMA AwaitKeeps ==
    ASSUME ServiceInv, NEW t \in Terminations, Await(t)
    PROVE  ServiceInv'
<1>1. PICK pid \in job[t].pid :
        /\ job[t].pc = "signalled"
        /\ \/ proc[pid] # job[t].start /\ job' = [job EXCEPT ![t].pc = "succeeded"]
           \/ job' = [job EXCEPT ![t].pc = "failing"]
        /\ UNCHANGED <<host, backlog, row, signals, looked, served>>
  BY DEF Await, Move
<1>2. HostOK /\ Shapes /\ TermInv(t) /\ t \in Jobs /\ UNCHANGED <<proc, managed, clock>> /\ HostStep
  BY <1>1, HostStands DEF ServiceInv, Jobs, Changes, host
<1>3. PICK to \in {"succeeded", "failing"} :
        MovedTo(t, to) /\ (to = "succeeded" => proc[pid] # job[t].start)
  BY <1>1, <1>2, Moved DEF Places
<1>4. Identified(t) /\ Identified(t)' /\ job[t].pid = {pid}
  BY <1>1, <1>2, <1>3, IdentifiedStays DEF TermInv, MovedTo, Identified
<1>5. to = "succeeded" => Gone(t)
  BY <1>3, <1>4 DEF Identified, Gone
<1>6. to = "succeeded" \/ row[t] # "none" => Gone(t)'
  BY <1>2, <1>3, <1>4, <1>5, GoneStays DEF TermInv, MovedTo
<1>7. TermInv(t)'
  BY <1>1, <1>2, <1>3, <1>4, <1>6 DEF TermInv, MovedTo
<1> QED
  BY <1>1, <1>2, <1>3, <1>7, TerminationMoves DEF Shapes, MovedTo

-----------------------------------------------------------------------------
(* rollback_change, and what is recorded.                                  *)

LEMMA ReadChangeKeeps ==
    ASSUME ServiceInv, NEW r \in Rollbacks, ReadChange(r)
    PROVE  ServiceInv'
<1>1. PICK c \in Changes :
        /\ row[c] # "none" /\ job[r].pc = "idle"
        /\ job' = [job EXCEPT ![r].pc = "read", ![r].change = {c}, ![r].status = {row[c]}]
        /\ UNCHANGED <<host, backlog, row, signals, looked, served>>
  BY DEF ReadChange
<1>2. HostOK /\ Shapes /\ RollInv(r) /\ HostStep /\ r \in Jobs
  BY <1>1, HostStands DEF ServiceInv, Jobs
<1>3. job \in [Jobs -> JobRecord] /\ job[r] \in JobRecord /\ row[c] \in {"SUCCEEDED", "ROLLED_BACK"}
  BY <1>1, <1>2 DEF Shapes
<1> DEFINE read == [job[r] EXCEPT !.pc = "read", !.change = {c}, !.status = {row[c]}]
<1>4. read \in JobRecord /\ read.pc = "read" /\ read.change = {c}
  <2>1. read \in JobRecord
    <3>1. "read" \in Places
      BY DEF Places
    <3>2. {c} \in SUBSET Changes /\ {row[c]} \in SUBSET {"SUCCEEDED", "ROLLED_BACK"}
      BY <1>3
    <3>3. \A x \in SUBSET Changes, s \in SUBSET {"SUCCEEDED", "ROLLED_BACK"} :
            [job[r] EXCEPT !.pc = "read", !.change = x, !.status = s] \in JobRecord
      BY <1>3, <3>1 DEF JobRecord
    <3> QED
      BY <3>2, <3>3, Zenon
  <2>2. read.pc = "read" /\ read.change = {c}
    BY <1>3 DEF JobRecord
  <2> QED
    BY <2>1, <2>2
<1>5. job' = [job EXCEPT ![r] = read]
  BY <1>1
<1> HIDE DEF read
<1>6. /\ job' \in [Jobs -> JobRecord] /\ job'[r] = read
      /\ \A i \in Jobs \ {r} : job'[i] = job[i]
  BY <1>2, <1>3, <1>4, <1>5
<1>7. served[r] = {} /\ r \notin Terminations /\ r \notin Restarts /\ r \notin Changes
  BY <1>1, <1>2, JobAssumption DEF RollInv, Changes
<1>8. Shapes'
  BY <1>1, <1>2, <1>6 DEF Shapes, Jobs, Changes
<1>9. \A d \in Changes : RowKept(d)
  BY <1>1 DEF RowKept
<1>10. RollInv(r)'
  BY <1>1, <1>4, <1>6 DEF RollInv, Succeeds
<1> QED
  BY <1>1, <1>2, <1>6, <1>7, <1>8, <1>9, <1>10, OthersStay

\* Only the rollback of a restart that is recorded as a success is sent to the broker.
LEMMA RequestRollbackKeeps ==
    ASSUME ServiceInv, NEW r \in Rollbacks, RequestRollback(r)
    PROVE  ServiceInv'
<1>1. Shapes /\ r \in Jobs /\ r \notin Terminations /\ job[r].pc = "read" /\ Quiet
  BY JobAssumption DEF ServiceInv, Jobs, Changes, RequestRollback, Move, Quiet, host
<1>2. PICK to \in {"requested", "failing"} : job' = [job EXCEPT ![r].pc = to]
  BY DEF RequestRollback, Move
<1>3. MovedTo(r, to)
  BY <1>1, <1>2, Moved DEF Places
<1>4. backlog' \subseteq backlog \cup {r}
  BY DEF RequestRollback
<1> QED
  BY <1>1, <1>3, <1>4, QuietMove

LEMMA RecordChangeKeeps ==
    ASSUME ServiceInv, NEW j \in Changes, Record(j)
    PROVE  ServiceInv'
<1>1. /\ job[j].pc = "succeeded" /\ row' = [row EXCEPT ![j] = "SUCCEEDED"]
      /\ UNCHANGED <<host, backlog, signals, looked, served>>
  BY DEF Record, Move
<1>2. HostOK /\ Shapes /\ HostStep /\ j \in Jobs /\ j \notin Rollbacks
  BY <1>1, HostStands, JobAssumption DEF ServiceInv, Jobs, Changes
<1>3. MovedTo(j, "ended")
  BY <1>2, Moved DEF Record, Move, Places
<1>4. /\ row' \in [Changes -> {"none", "SUCCEEDED", "ROLLED_BACK"}]
      /\ row'[j] = "SUCCEEDED" /\ \A c \in Changes \ {j} : row'[c] = row[c]
  BY <1>1, <1>2 DEF Shapes
<1>5. Shapes'
  BY <1>1, <1>2, <1>3, <1>4 DEF Shapes, MovedTo, Jobs, Changes
<1>6. ASSUME j \in Terminations PROVE TermInv(j)'
  <2>1. TermInv(j) /\ Identified(j) /\ Gone(j) /\ clock' = clock
    BY <1>1, <1>6 DEF ServiceInv, TermInv, host
  <2>2. Identified(j)' /\ Gone(j)'
    BY <1>2, <1>3, <1>6, <2>1, IdentifiedStays, GoneStays DEF MovedTo
  <2> QED
    BY <1>1, <1>3, <2>1, <2>2 DEF TermInv, MovedTo
<1>7. ASSUME j \in Restarts PROVE RestartInv(j)'
  <2>1. Renewed(j)
    BY <1>1, <1>7 DEF ServiceInv, RestartInv, Succeeds
  <2> QED
    BY <1>1, <1>2, <2>1, RenewedStays DEF RestartInv
<1>8. \A c \in Changes \ {j} : RowKept(c)
  BY <1>4 DEF RowKept
<1>9. \A c \in Changes : row'[c] = "ROLLED_BACK" => row[c] = "ROLLED_BACK"
  BY <1>4
<1> QED
  BY <1>1, <1>2, <1>3, <1>4, <1>5, <1>6, <1>7, <1>8, <1>9, OthersStay DEF MovedTo

LEMMA RecordRollbackKeeps ==
    ASSUME ServiceInv, NEW r \in Rollbacks, Record(r)
    PROVE  ServiceInv'
<1>1. /\ job[r].pc = "succeeded" /\ r \notin Changes
      /\ row' = [c \in Changes |-> IF c \in job[r].change THEN "ROLLED_BACK" ELSE row[c]]
      /\ UNCHANGED <<host, backlog, signals, looked, served>>
  BY JobAssumption DEF Record, Move, Changes
<1>2. HostOK /\ Shapes /\ HostStep /\ r \in Jobs /\ RollInv(r)
  BY <1>1, HostStands DEF ServiceInv, Jobs
<1>3. MovedTo(r, "ended")
  BY <1>2, Moved DEF Record, Move, Places
<1>4. PICK c \in Changes : job[r].change = {c} /\ row[c] # "none"
  BY <1>1, <1>2 DEF RollInv
<1>5. /\ row' \in [Changes -> {"none", "SUCCEEDED", "ROLLED_BACK"}]
      /\ row'[c] = "ROLLED_BACK" /\ \A d \in Changes \ {c} : row'[d] = row[d]
  BY <1>1, <1>2, <1>4 DEF Shapes
<1>6. Shapes'
  BY <1>1, <1>2, <1>3, <1>5 DEF Shapes, MovedTo, Jobs, Changes
<1>7. \A d \in Changes : RowKept(d)
  BY <1>4, <1>5 DEF RowKept
<1>8. served[r] # {}
  BY <1>1, <1>2 DEF RollInv, Succeeds
<1>9. RollInv(r)'
  BY <1>1, <1>3, <1>4, <1>5 DEF RollInv, MovedTo, Succeeds
<1>10. RolledBack(c)'
  BY <1>1, <1>3, <1>4, <1>8 DEF RolledBack, MovedTo
<1>11. \A d \in Changes : row'[d] = "ROLLED_BACK" => row[d] = "ROLLED_BACK" \/ RolledBack(d)'
  BY <1>5, <1>10
<1>12. r \notin Terminations /\ r \notin Restarts
  BY <1>1 DEF Changes
<1> QED
  BY <1>1, <1>2, <1>3, <1>6, <1>7, <1>9, <1>11, <1>12, OthersStay DEF MovedTo

-----------------------------------------------------------------------------
LEMMA ServiceInductive ==
    ASSUME ServiceInv, [Next]_vars
    PROVE  ServiceInv'
<1>1. HostOK
  BY DEF ServiceInv
<1>2. ASSUME NEW pid \in Pids, HostStarts(pid) \/ HostEnds(pid)
      PROVE  ServiceInv'
  <2>1. HostStep
    BY <1>1, <1>2, HostStartsStep, HostEndsStep
  <2> QED
    BY <1>2, <2>1, JobsStand DEF HostStarts, HostEnds
<1>3. ASSUME NEW s \in Restarts, Request(s)
      PROVE  ServiceInv'
  BY <1>3, RequestKeeps
<1>4. ASSUME NEW t \in Terminations,
             CreateCandidate(t) \/ RequireCurrent(t) \/ Terminate(t) \/ Await(t)
      PROVE  ServiceInv'
  BY <1>4, CreateCandidateKeeps, RequireCurrentKeeps, TerminateKeeps, AwaitKeeps
<1>5. ASSUME NEW r \in Rollbacks, ReadChange(r) \/ RequestRollback(r)
      PROVE  ServiceInv'
  BY <1>5, ReadChangeKeeps, RequestRollbackKeeps
<1>6. ASSUME NEW j \in Jobs, Serve(j) \/ Drop(j) \/ TimeOut(j) \/ Confirm(j) \/ Fail(j) \/ Die(j)
      PROVE  ServiceInv'
  BY <1>6, ServeKeeps, DropKeeps, TimeOutKeeps, ConfirmKeeps, FailKeeps
<1>7. ASSUME NEW j \in Jobs, Record(j)
      PROVE  ServiceInv'
  BY <1>7, RecordChangeKeeps, RecordRollbackKeeps DEF Jobs
<1>8. ASSUME UNCHANGED vars
      PROVE  ServiceInv'
  BY <1>1, <1>8, HostStands, JobsStand DEF vars, host
<1> QED
  BY <1>2, <1>3, <1>4, <1>5, <1>6, <1>7, <1>8 DEF Next

LEMMA ServiceStart ==
    ASSUME Init
    PROVE  ServiceInv
<1>1. HostOK
  <2>1. PICK pid \in Pids : proc = [p \in Pids |-> IF p = pid THEN 1 ELSE 0]
    BY DEF Init
  <2> QED
    BY <2>1 DEF Init, HostOK
<1> DEFINE fresh == [pc |-> "idle", pid |-> {}, start |-> 0, change |-> {}, status |-> {}, code |-> 0]
<1>2. fresh \in JobRecord /\ fresh.pc = "idle"
  BY DEF JobRecord, Places
<1>3. job = [j \in Jobs |-> fresh]
  BY DEF Init
<1> HIDE DEF fresh
<1>4. Shapes
  BY <1>2, <1>3 DEF Init, Shapes
<1>5. \A j \in Jobs : job[j].pc = "idle" /\ served[j] = {}
  BY <1>2, <1>3 DEF Init
<1>6. \A c \in Changes : row[c] = "none"
  BY DEF Init
<1>7. \A t \in Terminations : TermInv(t)
  <2> TAKE t \in Terminations
  <2>1. job[t].pc = "idle" /\ row[t] = "none" /\ signals[t] = 0 /\ looked[t] = 0 /\ clock = 1
    BY <1>5, <1>6 DEF Init, Jobs, Changes
  <2> QED
    BY <2>1 DEF TermInv
<1> QED
  BY <1>1, <1>4, <1>5, <1>6, <1>7 DEF ServiceInv, RestartInv, RollInv, RolledBack, Succeeds, Jobs, Changes

\* SIGTERM reaches the approved process or one that took over its pid after the identity was
\* compared, whoever starts, ends and restarts processes meanwhile (process.py:132-133, 180-190).
THEOREM SignalsHit == Spec => []SignalsHitCandidateOrNewcomer
<1>1. ServiceInv => SignalsHitCandidateOrNewcomer
  BY DEF ServiceInv, TermInv, SignalsHitCandidateOrNewcomer
<1> QED
  BY <1>1, ServiceStart, ServiceInductive, PTL DEF Spec

\* What is recorded of a restart, a termination and a rollback is true of the host
\* (process.py:134-151, systemd.py:124-131, 162-173, router.py:1527).
THEOREM RecordsAreTrue == Spec => []RecordedIsTrue
<1>1. ServiceInv => RecordedIsTrue
  <2> SUFFICES ASSUME ServiceInv, NEW c \in Changes
               PROVE  /\ c \in Terminations /\ row[c] # "none" => Gone(c)
                      /\ c \in Restarts /\ row[c] # "none" => Renewed(c)
                      /\ RolledBack(c)
    BY DEF RecordedIsTrue, Gone, Renewed, RolledBack
  <2> QED
    BY DEF ServiceInv, TermInv, RestartInv
<1> QED
  BY <1>1, ServiceStart, ServiceInductive, PTL DEF Spec

-----------------------------------------------------------------------------
(* The demo sandbox: a nonce is looked up by one statement and added by    *)
(* another, and whoever was let pass twice was seen racing.                *)

DemoShapes ==
    /\ box \in Boxes
    /\ token \in [Tokens -> TokenRecord]
    /\ run \in [Runs -> RunRecord]
    /\ consumed \in [Boxes -> SUBSET Tokens]

\* r got past the nonce: its handler is at work, or has changed the sandbox.
Through(r) == Handling(r) \/ \E a \in acts : a.run = r

\* r and q are of one sandbox and token, and the race that let both pass is on record.
RacedWith(q, r) == run[q].box = run[r].box =>
    \A t \in run[q].token \cap run[r].token : [box |-> run[r].box, token |-> t] \in raced

NonceInv(r) ==
    /\ run[r].pc = "idle" => ~Through(r)
    /\ run[r].pc # "idle" => \E t \in Tokens : run[r].token = {t}
    /\ Through(r) => run[r].token \subseteq consumed[run[r].box]
    /\ run[r].pc = "unseen" =>
            \A t \in run[r].token \cap consumed[run[r].box] : [box |-> run[r].box, token |-> t] \in raced

PairInv(q, r) ==
    /\ run[q].pc = "unseen" /\ run[r].pc = "unseen" => RacedWith(q, r)
    /\ Through(q) /\ Through(r) => RacedWith(q, r)

ActsOfRuns == \A a \in acts :
    a.run \in Runs /\ a.box = run[a.run].box /\ a.token \in run[a.run].token

DemoInv ==
    /\ DemoShapes
    /\ \A r \in Runs : NonceInv(r)
    /\ \A q, r \in Runs : q # r => PairInv(q, r)
    /\ ActsOfRuns

-----------------------------------------------------------------------------
\* Nobody comes to the nonce, or past it.
LEMMA RunsGoOn ==
    ASSUME DemoInv, DemoShapes', ActsOfRuns', UNCHANGED <<consumed, raced>>,
           \A q \in Runs : /\ run'[q].box = run[q].box /\ run'[q].token = run[q].token
                           /\ run'[q].pc = "idle" <=> run[q].pc = "idle"
                           /\ run'[q].pc = "unseen" => run[q].pc = "unseen"
                           /\ Through(q)' => Through(q)
    PROVE  DemoInv'
<1>1. \A r \in Runs : NonceInv(r)'
  BY DEF DemoInv, NonceInv
<1>2. \A q, r \in Runs : q # r => PairInv(q, r)'
  BY DEF DemoInv, PairInv, RacedWith
<1> QED
  BY <1>1, <1>2 DEF DemoInv

\* The runs stand.
LEMMA RunsStand ==
    ASSUME DemoInv, box' \in Boxes, token' \in [Tokens -> TokenRecord],
           UNCHANGED <<run, consumed, raced, acts>>
    PROVE  DemoInv'
<1>1. DemoShapes' /\ ActsOfRuns'
  BY DEF DemoInv, DemoShapes, ActsOfRuns
<1>2. \A q \in Runs : Through(q)' => Through(q)
  BY DEF Through, Handling
<1> QED
  BY <1>1, <1>2, RunsGoOn

\* A run past the nonce, or that gave up, goes on; a handler at work may act.
LEMMA OneGoesOn ==
    ASSUME DemoInv, NEW r \in Runs, NEW next \in RunRecord, run' = [run EXCEPT ![r] = next],
           next.token = run[r].token, next.box = run[r].box,
           next.pc \notin {"idle", "unseen"}, run[r].pc # "idle",
           Handling(r) \/ (acts' = acts /\ next.pc \in {"acted", "rejected", "error", "ended"}),
           acts' \subseteq acts \cup {[box |-> run[r].box, token |-> The(r), run |-> r]},
           box' \in Boxes, token' \in [Tokens -> TokenRecord], UNCHANGED <<consumed, raced>>
    PROVE  DemoInv'
<1>1. run \in [Runs -> RunRecord]
  BY DEF DemoInv, DemoShapes
<1>2. run' \in [Runs -> RunRecord] /\ run'[r] = next /\ \A q \in Runs \ {r} : run'[q] = run[q]
  BY <1>1
<1>3. DemoShapes'
  BY <1>2 DEF DemoInv, DemoShapes
<1>4. The(r) \in run[r].token
  <2>1. PICK t \in Tokens : run[r].token = {t}
    BY DEF DemoInv, NonceInv
  <2>2. The(r) \in Tokens /\ The(r) \in run[r].token
    BY <2>1 DEF The
  <2> QED
    BY <2>2
<1>5. ActsOfRuns'
  BY <1>2, <1>4 DEF DemoInv, ActsOfRuns
<1>6. \A q \in Runs : Through(q)' => Through(q)
  <2> TAKE q \in Runs
  <2>1. CASE q = r
    BY <1>2, <2>1 DEF Through, Handling
  <2>2. CASE q # r
    <3>1. \A a \in acts' : a.run = q => a \in acts
      BY <2>2
    <3> QED
      BY <1>2, <2>2, <3>1 DEF Through, Handling
  <2> QED
    BY <2>1, <2>2
<1> QED
  BY <1>2, <1>3, <1>5, <1>6, RunsGoOn

LEMMA ProceedsOn ==
    ASSUME DemoInv, NEW r \in Runs, NEW to \in RunPlaces \ {"idle", "unseen"},
           run' = [run EXCEPT ![r].pc = to], run[r].pc # "idle",
           Handling(r) \/ to \in {"acted", "rejected", "error", "ended"},
           token' \in [Tokens -> TokenRecord], UNCHANGED <<box, acts, consumed, raced>>
    PROVE  DemoInv'
<1>1. run \in [Runs -> RunRecord] /\ run[r] \in RunRecord /\ box \in Boxes
  BY DEF DemoInv, DemoShapes
<1> DEFINE next == [run[r] EXCEPT !.pc = to]
<1>2. next \in RunRecord /\ next.token = run[r].token /\ next.box = run[r].box /\ next.pc = to
  BY <1>1 DEF RunRecord
<1>3. run' = [run EXCEPT ![r] = next]
  OBVIOUS
<1> HIDE DEF next
<1> QED
  BY <1>1, <1>2, <1>3, OneGoesOn

\* A handler acts, which it records under its run, or breaks off.
LEMMA HandlerActs ==
    ASSUME DemoInv, NEW r \in Runs, Handling(r), Acted(r) \/ Errs(r),
           UNCHANGED <<box, token, consumed, raced>>
    PROVE  DemoInv'
<1>1. run \in [Runs -> RunRecord] /\ run[r] \in RunRecord /\ box \in Boxes
        /\ token \in [Tokens -> TokenRecord] /\ run[r].pc # "idle"
  BY DEF DemoInv, DemoShapes, Handling
<1>2. CASE Acted(r)
  <2> DEFINE next == [run[r] EXCEPT !.pc = IF run[r].fault THEN "undo" ELSE "acted",
                                    !.undo = IF run[r].fault THEN r ELSE Absent]
  <2>1. /\ next \in RunRecord /\ next.token = run[r].token /\ next.box = run[r].box
        /\ next.pc \notin {"idle", "unseen"}
    BY <1>1 DEF RunRecord, RunPlaces
  <2>2. /\ run' = [run EXCEPT ![r] = next]
        /\ acts' = acts \cup {[box |-> run[r].box, token |-> The(r), run |-> r]}
    BY <1>2 DEF Acted
  <2> HIDE DEF next
  <2> QED
    BY <1>1, <2>1, <2>2, OneGoesOn
<1>3. CASE Errs(r)
  BY <1>1, <1>3, ProceedsOn DEF Errs, RunPlaces
<1> QED
  BY <1>2, <1>3

LEMMA HandlersKeep ==
    ASSUME DemoInv, NEW r \in Runs,
           \/ RestartService(r) \/ TerminateProcess(r) \/ CleanLog(r)
           \/ CopyConfig(r) \/ WriteConfig(r) \/ ReplaceConfig(r)
    PROVE  DemoInv'
<1>0. token \in [Tokens -> TokenRecord]
  BY DEF DemoInv, DemoShapes
<1>1. CASE RestartService(r)
  BY <1>1, HandlerActs DEF RestartService, Handling
<1>2. CASE TerminateProcess(r)
  BY <1>2, HandlerActs DEF TerminateProcess, Handling
<1>3. CASE CleanLog(r)
  BY <1>3, HandlerActs DEF CleanLog, Handling
<1>4. CASE CopyConfig(r)
  <2>1. PICK to \in {"copied", "error"} : run' = [run EXCEPT ![r].pc = to]
    BY <1>4 DEF CopyConfig, Proceed
  <2> QED
    BY <1>0, <1>4, <2>1, ProceedsOn DEF CopyConfig, Proceed, Handling, RunPlaces, history
<1>5. CASE WriteConfig(r)
  BY <1>0, <1>5, ProceedsOn DEF WriteConfig, Proceed, Handling, RunPlaces, history
<1>6. CASE ReplaceConfig(r)
  <2>1. Handling(r) /\ UNCHANGED <<box, token, consumed, raced>>
    BY <1>6 DEF ReplaceConfig, Handling
  <2>2. \/ Acted(r) \/ Errs(r)
        \/ run' = [run EXCEPT ![r].pc = "rejected"] /\ UNCHANGED acts
    BY <1>6 DEF ReplaceConfig
  <2>3. CASE Acted(r) \/ Errs(r)
    BY <2>1, <2>3, HandlerActs
  <2>4. CASE run' = [run EXCEPT ![r].pc = "rejected"] /\ UNCHANGED acts
    BY <1>0, <2>1, <2>4, ProceedsOn DEF RunPlaces, Handling
  <2> QED
    BY <2>2, <2>3, <2>4
<1> QED
  BY <1>1, <1>2, <1>3, <1>4, <1>5, <1>6

LEMMA RollbackKeeps ==
    ASSUME DemoInv, NEW r \in Runs, FindChange(r) \/ ClearTarget(r) \/ MoveBack(r)
    PROVE  DemoInv'
<1>0. /\ token \in [Tokens -> TokenRecord] /\ box \in Boxes
      /\ run \in [Runs -> RunRecord] /\ run[r] \in RunRecord
  BY DEF DemoInv, DemoShapes
<1>1. CASE FindChange(r)
  <2>1. PICK to \in {"undo", "rejected"} :
          /\ run[r].pc = "consumed"
          /\ run' = [run EXCEPT ![r].pc = to, ![r].undo = token[The(r)].change]
          /\ UNCHANGED <<box, consumed, token, acts, raced>>
    BY <1>1 DEF FindChange, sandbox, history
  <2>2. PICK t \in Tokens : run[r].token = {t}
    BY <2>1 DEF DemoInv, NonceInv
  <2>3. token[The(r)].change \in Runs \cup {Absent}
    <3>1. The(r) \in Tokens
      BY <2>2 DEF The
    <3> QED
      BY <1>0, <3>1 DEF TokenRecord
  <2> DEFINE next == [run[r] EXCEPT !.pc = to, !.undo = token[The(r)].change]
  <2>4. /\ next \in RunRecord /\ next.token = run[r].token /\ next.box = run[r].box
        /\ next.pc \notin {"idle", "unseen"}
    BY <1>0, <2>3 DEF RunRecord, RunPlaces
  <2>5. run' = [run EXCEPT ![r] = next]
    BY <2>1
  <2> HIDE DEF next
  <2> QED
    BY <1>0, <2>1, <2>4, <2>5, OneGoesOn DEF Handling
<1>2. CASE ClearTarget(r)
  <2>1. PICK to \in {"acted", "unlinked"} : run' = [run EXCEPT ![r].pc = to]
    BY <1>2 DEF ClearTarget, Proceed
  <2> QED
    BY <1>0, <1>2, <2>1, ProceedsOn DEF ClearTarget, Proceed, Handling, RunPlaces, history
<1>3. CASE MoveBack(r)
  <2>1. PICK to \in {"acted", "error"} : run' = [run EXCEPT ![r].pc = to]
    BY <1>3 DEF MoveBack, Proceed
  <2> QED
    BY <1>0, <1>3, <2>1, ProceedsOn DEF MoveBack, Proceed, Handling, RunPlaces
<1> QED
  BY <1>1, <1>2, <1>3

LEMMA EndKeeps ==
    ASSUME DemoInv, NEW r \in Runs, Succeed(r) \/ Reject(r) \/ Crash(r)
    PROVE  DemoInv'
<1>1. token \in [Tokens -> TokenRecord]
  BY DEF DemoInv, DemoShapes
<1>2. /\ run[r].pc # "idle" /\ run' = [run EXCEPT ![r].pc = "ended"]
      /\ UNCHANGED <<box, acts, consumed, raced>>
  BY DEF Succeed, Reject, Crash, Proceed, sandbox, history
<1>3. token' = token \/ \E t \in run[r].token : token' = [token EXCEPT ![t].status = "CONSUMED"]
  BY DEF Succeed, Reject, Crash, Commit
<1>4. token' \in [Tokens -> TokenRecord]
  <2> SUFFICES ASSUME NEW t \in run[r].token, token' = [token EXCEPT ![t].status = "CONSUMED"]
               PROVE  token' \in [Tokens -> TokenRecord]
    BY <1>1, <1>3
  <2>1. t \in Tokens
    BY <1>2 DEF DemoInv, NonceInv
  <2> QED
    BY <1>1, <2>1 DEF TokenRecord
<1> QED
  BY <1>2, <1>4, ProceedsOn DEF RunPlaces

-----------------------------------------------------------------------------
(* Requests, and the two statements about the nonce.                       *)

LEMMA ApproveKeeps ==
    ASSUME DemoInv, NEW t \in Tokens, Approve(t)
    PROVE  DemoInv'
<1>1. PICK tool \in Tools, change \in Runs \cup {Absent}, blank \in BOOLEAN :
        token' = [token EXCEPT ![t] = [status |-> "APPROVED", tool |-> tool, box |-> box,
                                       change |-> change, blank |-> blank]]
  BY DEF Approve
<1>2. box \in Boxes /\ token \in [Tokens -> TokenRecord] /\ UNCHANGED <<box, run, consumed, raced, acts>>
  BY DEF DemoInv, DemoShapes, Approve, sandbox, history
<1>3. [status |-> "APPROVED", tool |-> tool, box |-> box, change |-> change, blank |-> blank] \in TokenRecord
  BY <1>2 DEF TokenRecord
<1>4. token' \in [Tokens -> TokenRecord]
  BY <1>1, <1>2, <1>3
<1> QED
  BY <1>2, <1>4, RunsStand

LEMMA ResetKeeps ==
    ASSUME DemoInv, Reset
    PROVE  DemoInv'
<1>1. box' \in Boxes
  BY DemoAssumption DEF Reset, Boxes, DemoInv, DemoShapes
<1>2. token' \in [Tokens -> TokenRecord] /\ UNCHANGED <<run, consumed, raced, acts>>
  BY DEF Reset, DemoInv, DemoShapes, history
<1> QED
  BY <1>1, <1>2, RunsStand

\* A run that starts has no act and no nonce yet.
LEMMA SelectKeeps ==
    ASSUME DemoInv, NEW r \in Runs, Select(r)
    PROVE  DemoInv'
<1>1. PICK t \in Tokens, fault \in BOOLEAN, to \in {"selected", "rejected"} :
        /\ run[r].pc = "idle"
        /\ run' = [run EXCEPT ![r] = [pc |-> to, token |-> {t}, box |-> box, undo |-> Absent,
                                      fault |-> fault]]
  BY DEF Select
<1> DEFINE next == [pc |-> to, token |-> {t}, box |-> box, undo |-> Absent, fault |-> fault]
<1>2. UNCHANGED <<box, token, consumed, raced, acts>>
  BY DEF Select, sandbox, history
<1>3. next \in RunRecord /\ next.pc \in {"selected", "rejected"} /\ next.token = {t}
  BY DEF DemoInv, DemoShapes, RunRecord, RunPlaces
<1>4. run' = [run EXCEPT ![r] = next]
  BY <1>1
<1> HIDE DEF next
<1>5. run' \in [Runs -> RunRecord] /\ run'[r] = next /\ \A q \in Runs \ {r} : run'[q] = run[q]
  BY <1>3, <1>4 DEF DemoInv, DemoShapes
<1>6. \A a \in acts : a.run # r
  BY <1>1 DEF DemoInv, NonceInv, Through
<1>7. ~Through(r)' /\ \A q \in Runs \ {r} : Through(q)' <=> Through(q)
  BY <1>2, <1>3, <1>5, <1>6 DEF Through, Handling
<1>8. DemoShapes' /\ ActsOfRuns'
  BY <1>2, <1>5, <1>6 DEF DemoInv, DemoShapes, ActsOfRuns
<1>9. \A q \in Runs : NonceInv(q)'
  BY <1>2, <1>3, <1>5, <1>7 DEF DemoInv, NonceInv
<1>10. \A q, p \in Runs : q # p => PairInv(q, p)'
  BY <1>2, <1>3, <1>5, <1>7 DEF DemoInv, PairInv, RacedWith
<1> QED
  BY <1>8, <1>9, <1>10 DEF DemoInv

LEMMA NonceMoved ==
    ASSUME DemoShapes, NEW r \in Runs, NEW to \in RunPlaces, run' = [run EXCEPT ![r].pc = to]
    PROVE  /\ run' \in [Runs -> RunRecord]
           /\ run'[r].pc = to /\ run'[r].token = run[r].token /\ run'[r].box = run[r].box
           /\ \A q \in Runs \ {r} : run'[q] = run[q]
  BY DEF DemoShapes, RunRecord

\* Who looks the nonce up while another has not added it yet, races.
LEMMA CheckNonceKeeps ==
    ASSUME DemoInv, NEW r \in Runs, CheckNonce(r)
    PROVE  DemoInv'
<1>1. PICK t \in run[r].token :
        /\ run[r].pc = "selected"
        /\ run' = [run EXCEPT ![r].pc = IF t \in consumed[run[r].box] THEN "rejected" ELSE "unseen"]
        /\ raced' = IF \E q \in Runs : /\ run[q].pc = "unseen" /\ run[q].box = run[r].box
                                       /\ t \in run[q].token
                    THEN raced \cup {[box |-> run[r].box, token |-> t]} ELSE raced
        /\ UNCHANGED <<box, token, consumed, acts>>
  BY DEF CheckNonce, Proceed, sandbox
<1>2. run[r].token = {t}
  BY <1>1 DEF DemoInv, NonceInv
<1>3. PICK to \in {"rejected", "unseen"} :
        /\ run' = [run EXCEPT ![r].pc = to]
        /\ to = "unseen" => t \notin consumed[run[r].box]
  BY <1>1
<1>4. /\ run' \in [Runs -> RunRecord]
      /\ run'[r].pc = to /\ run'[r].token = run[r].token /\ run'[r].box = run[r].box
      /\ \A q \in Runs \ {r} : run'[q] = run[q]
  BY <1>3, NonceMoved DEF DemoInv, RunPlaces
<1>5. DemoShapes' /\ ActsOfRuns' /\ raced \subseteq raced'
  BY <1>1, <1>4 DEF DemoInv, DemoShapes, ActsOfRuns
<1>6. \A q \in Runs : Through(q)' <=> Through(q)
  BY <1>1, <1>4 DEF Through, Handling
<1>7. \A q \in Runs : NonceInv(q)'
  BY <1>1, <1>2, <1>3, <1>4, <1>5, <1>6 DEF DemoInv, NonceInv
<1>8. ASSUME NEW q \in Runs, q # r, run[q].pc = "unseen", run[q].box = run[r].box
      PROVE  \A u \in run[q].token \cap run[r].token : [box |-> run[r].box, token |-> u] \in raced'
  BY <1>1, <1>2, <1>8
<1>9. \A q, p \in Runs : q # p => PairInv(q, p)'
  <2> SUFFICES ASSUME NEW q \in Runs, NEW p \in Runs, q # p
               PROVE  PairInv(q, p)'
    OBVIOUS
  <2>1. Through(q)' /\ Through(p)' => RacedWith(q, p)'
    BY <1>4, <1>5, <1>6 DEF DemoInv, PairInv, RacedWith
  <2>2. CASE q # r /\ p # r
    BY <1>4, <1>5, <2>1, <2>2 DEF DemoInv, PairInv, RacedWith
  <2>3. CASE q = r
    BY <1>4, <1>8, <2>1, <2>3 DEF PairInv, RacedWith
  <2>4. CASE p = r
    BY <1>4, <1>8, <2>1, <2>4 DEF PairInv, RacedWith
  <2> QED
    BY <2>2, <2>3, <2>4
<1> QED
  BY <1>5, <1>7, <1>9 DEF DemoInv

\* Who adds a nonce that is there by now had raced for it.
LEMMA AddNonceKeeps ==
    ASSUME DemoInv, NEW r \in Runs, AddNonce(r)
    PROVE  DemoInv'
<1>1. PICK t \in run[r].token :
        /\ run[r].pc = "unseen"
        /\ run' = [run EXCEPT ![r].pc = "consumed"]
        /\ consumed' = [consumed EXCEPT ![run[r].box] = @ \cup {t}]
        /\ UNCHANGED <<box, token, acts, raced>>
  BY DEF AddNonce, Proceed
<1>2. run[r].token = {t} /\ t \in Tokens /\ run[r].box \in Boxes
  BY <1>1 DEF DemoInv, NonceInv, DemoShapes, RunRecord
<1>3. /\ run' \in [Runs -> RunRecord]
      /\ run'[r].pc = "consumed" /\ run'[r].token = run[r].token /\ run'[r].box = run[r].box
      /\ \A q \in Runs \ {r} : run'[q] = run[q]
  BY <1>1, NonceMoved DEF DemoInv, RunPlaces
<1>4. /\ consumed' \in [Boxes -> SUBSET Tokens]
      /\ \A b \in Boxes : consumed'[b] = IF b = run[r].box THEN consumed[b] \cup {t} ELSE consumed[b]
  BY <1>1, <1>2 DEF DemoInv, DemoShapes
<1>5. DemoShapes' /\ ActsOfRuns'
  BY <1>1, <1>3, <1>4 DEF DemoInv, DemoShapes, ActsOfRuns
<1>6. \A q \in Runs \ {r} : Through(q)' <=> Through(q)
  BY <1>1, <1>3 DEF Through, Handling
<1>7. \A q \in Runs : run[q].box \in Boxes
  BY DEF DemoInv, DemoShapes, RunRecord
<1>8. \A q \in Runs : NonceInv(q)'
  <2> TAKE q \in Runs
  <2>1. CASE q = r
    BY <1>2, <1>3, <1>4, <2>1 DEF NonceInv
  <2>2. CASE q # r
    <3>1. NonceInv(q) /\ run'[q] = run[q] /\ consumed[run[q].box] \subseteq consumed'[run[q].box]
      BY <1>3, <1>4, <1>7, <2>2 DEF DemoInv
    <3>2. ASSUME run[q].pc = "unseen", NEW u \in run[q].token \cap consumed'[run[q].box]
          PROVE  [box |-> run[q].box, token |-> u] \in raced
      <4>1. CASE u \in consumed[run[q].box]
        BY <3>1, <3>2, <4>1 DEF NonceInv
      <4>2. CASE u \notin consumed[run[q].box]
        <5>1. u = t /\ run[q].box = run[r].box
          BY <1>4, <1>7, <3>2, <4>2
        <5>2. RacedWith(q, r)
          BY <1>1, <2>2, <3>2 DEF DemoInv, PairInv
        <5> QED
          BY <1>2, <3>2, <5>1, <5>2 DEF RacedWith
      <4> QED
        BY <4>1, <4>2
    <3> QED
      BY <1>1, <1>6, <2>2, <3>1, <3>2 DEF NonceInv
  <2> QED
    BY <2>1, <2>2
<1>9. ASSUME NEW q \in Runs, q # r, Through(q)
      PROVE  RacedWith(q, r) /\ RacedWith(r, q)
  BY <1>1, <1>9 DEF DemoInv, NonceInv, RacedWith
<1>10. \A q, p \in Runs : q # p => PairInv(q, p)'
  <2> SUFFICES ASSUME NEW q \in Runs, NEW p \in Runs, q # p
               PROVE  PairInv(q, p)'
    OBVIOUS
  <2>1. CASE q # r /\ p # r
    BY <1>1, <1>3, <1>6, <2>1 DEF DemoInv, PairInv, RacedWith
  <2>2. CASE q = r
    BY <1>1, <1>3, <1>6, <1>9, <2>2 DEF PairInv, RacedWith
  <2>3. CASE p = r
    BY <1>1, <1>3, <1>6, <1>9, <2>3 DEF PairInv, RacedWith
  <2> QED
    BY <2>1, <2>2, <2>3
<1> QED
  BY <1>5, <1>8, <1>10 DEF DemoInv

-----------------------------------------------------------------------------
LEMMA DemoInductive ==
    ASSUME DemoInv, [DemoNext]_demoVars
    PROVE  DemoInv'
<1>1. CASE Reset
  BY <1>1, ResetKeeps
<1>2. ASSUME NEW t \in Tokens, Approve(t)
      PROVE  DemoInv'
  BY <1>2, ApproveKeeps
<1>3. ASSUME NEW r \in Runs, Select(r) \/ CheckNonce(r) \/ AddNonce(r)
      PROVE  DemoInv'
  BY <1>3, SelectKeeps, CheckNonceKeeps, AddNonceKeeps
<1>4. ASSUME NEW r \in Runs,
             \/ RestartService(r) \/ TerminateProcess(r) \/ CleanLog(r)
             \/ CopyConfig(r) \/ WriteConfig(r) \/ ReplaceConfig(r)
      PROVE  DemoInv'
  BY <1>4, HandlersKeep
<1>5. ASSUME NEW r \in Runs, FindChange(r) \/ ClearTarget(r) \/ MoveBack(r)
      PROVE  DemoInv'
  BY <1>5, RollbackKeeps
<1>6. ASSUME NEW r \in Runs, Succeed(r) \/ Reject(r) \/ Crash(r)
      PROVE  DemoInv'
  BY <1>6, EndKeeps
<1>7. ASSUME UNCHANGED demoVars
      PROVE  DemoInv'
  <2>1. box' \in Boxes /\ token' \in [Tokens -> TokenRecord]
    BY <1>7 DEF demoVars, DemoInv, DemoShapes
  <2> QED
    BY <1>7, <2>1, RunsStand DEF demoVars
<1> QED
  BY <1>1, <1>2, <1>3, <1>4, <1>5, <1>6, <1>7 DEF DemoNext

LEMMA DemoStart == DemoInit => DemoInv
<1> SUFFICES ASSUME DemoInit PROVE DemoInv
  OBVIOUS
<1>1. box \in Boxes /\ 1 \in Boxes
  BY DemoAssumption DEF DemoInit, Boxes
<1>2. DemoShapes
  BY <1>1 DEF DemoInit, DemoShapes, TokenRecord, RunRecord, RunPlaces, Tools
<1>3. acts = {} /\ \A r \in Runs : run[r].pc = "idle"
  BY DEF DemoInit
<1> QED
  BY <1>2, <1>3 DEF DemoInv, NonceInv, PairInv, ActsOfRuns, Through, Handling

\* A token changes a sandbox at most once, whatever commits are undone and whenever it is
\* presented again, unless two runs looked its nonce up before either added it
\* (approval.py:70-82, controlled.py:66-73, demo_service.py:21).
THEOREM TokensActOnce == DemoSpec => []TokenActsOncePerSandbox
<1>1. DemoInv => TokenActsOncePerSandbox
  <2> SUFFICES ASSUME DemoInv, NEW a \in acts, NEW b \in acts,
                      a.box = b.box, a.token = b.token, a.run # b.run
               PROVE  [box |-> a.box, token |-> a.token] \in raced
    BY DEF TokenActsOncePerSandbox
  <2>1. /\ a.run \in Runs /\ a.box = run[a.run].box /\ a.token \in run[a.run].token
        /\ b.run \in Runs /\ b.box = run[b.run].box /\ b.token \in run[b.run].token
    BY DEF DemoInv, ActsOfRuns
  <2>2. Through(a.run) /\ Through(b.run)
    BY DEF Through
  <2>3. RacedWith(a.run, b.run)
    BY <2>1, <2>2 DEF DemoInv, PairInv
  <2> QED
    BY <2>1, <2>3 DEF RacedWith
<1> QED
  BY <1>1, DemoStart, DemoInductive, PTL DEF DemoSpec
-----------------------------------------------------------------------------
(* The changes of a sandbox's file: what a backup holds is what the        *)
(* changes below its own in the stack made of the file.                    *)

StackShapes ==
    /\ file \in [Boxes -> Files] /\ temp \in [Boxes -> Files]
    /\ backup \in [Runs -> Files]
    /\ changes \in [Boxes -> SUBSET Runs]
    /\ DOMAIN stack = Boxes /\ \A b \in Boxes \ astray : stack[b] \in Seq(Runs)

Cleans(r) == Uses(r, "safe_log_cleanup")

\* What the file is when the changes from the i-th of the stack on are in effect.
Content(b, i) ==
    IF i \in DOMAIN stack[b] THEN IF Cleans(stack[b][i]) THEN Absent ELSE stack[b][i]
                             ELSE Original

\* Before it acts, and after.
Before == {"idle", "selected", "unseen", "consumed"}
After == {"undo", "unlinked", "acted", "error", "ended"}

RunStands(r) ==
    /\ run[r].pc = "idle" => run[r].token = {}
    /\ \A t \in run[r].token : token[t].status # "none"
    /\ run[r].box \in 1..box
    /\ run[r].pc \in Before => backup[r] = Absent
    /\ run[r].pc \in {"copied", "written"} => Uses(r, "config_safe_update")
    /\ run[r].pc \in {"undo", "unlinked"} => run[r].undo \in changes[run[r].box]

ChangesStand(b) ==
    /\ \A c \in changes[b] : run[c].box = b /\ run[c].pc \in After
    /\ b \notin 1..box => stack[b] = <<>>

Stacked(b) ==
    /\ \A i \in DOMAIN stack[b] :
        /\ stack[b][i] \in changes[b]
        /\ backup[stack[b][i]] = Content(b, i + 1) /\ Content(b, i + 1) # Absent
    /\ \A i, j \in DOMAIN stack[b] : stack[b][i] = stack[b][j] => i = j
    /\ \A c \in changes[b] : backup[c] # Absent => \E i \in DOMAIN stack[b] : stack[b][i] = c

\* One handler is at work; only its update is written, and only it has cleared the file.
Handled(b) ==
    /\ \A q, r \in Runs : Handling(q) /\ Handling(r) /\ run[q].box = b /\ run[r].box = b => q = r
    /\ \A r \in Runs : run[r].box = b =>
        /\ run[r].pc \in {"copied", "written"} => backup[r] = Content(b, 1) /\ Content(b, 1) # Absent
        /\ run[r].pc = "written" => temp[b] = r
        /\ run[r].pc = "unlinked" => backup[run[r].undo] # Absent
    /\ b \in 1..box /\ (\A r \in Runs : run[r].box = b => run[r].pc # "unlinked")
            => file[b] = Content(b, 1)

StackInv ==
    /\ StackShapes
    /\ \A r \in Runs : RunStands(r)
    /\ \A b \in Boxes : ChangesStand(b)
    /\ \A b \in Boxes \ astray : Stacked(b) /\ Handled(b)

\* No run that started changes its token, and no token its tool.
ToolsKept ==
    /\ \A q \in Runs : run[q].pc # "idle" => run'[q].token = run[q].token
    /\ \A t \in Tokens : token[t].status # "none" =>
        token'[t].status # "none" /\ token'[t].tool = token[t].tool

LEMMA UsesStay ==
    ASSUME DemoInv, StackInv, ToolsKept, NEW r \in Runs, run[r].pc # "idle"
    PROVE  \A tool \in Tools : Uses(r, tool)' <=> Uses(r, tool)
<1>1. \A t \in run[r].token : t \in Tokens /\ token[t].status # "none"
  BY DEF DemoInv, NonceInv, StackInv, RunStands
<1>2. run'[r].token = run[r].token /\ \A t \in run[r].token : token'[t].tool = token[t].tool
  BY <1>1 DEF ToolsKept
<1> QED
  BY <1>2 DEF Uses

\* A stack that stays means the same contents.
LEMMA ContentStays ==
    ASSUME DemoInv, StackInv, ToolsKept, NEW b \in Boxes \ astray, stack'[b] = stack[b]
    PROVE  \A i \in Nat : Content(b, i)' = Content(b, i)
<1>1. \A i \in DOMAIN stack[b] : stack[b][i] \in Runs /\ run[stack[b][i]].pc # "idle"
  BY DEF StackInv, StackShapes, Stacked, ChangesStand, After
<1>2. ASSUME NEW c \in Runs, run[c].pc # "idle"
      PROVE  (\E t \in run'[c].token : token'[t].tool = "safe_log_cleanup")
                <=> \E t \in run[c].token : token[t].tool = "safe_log_cleanup"
  <2>1. Uses(c, "safe_log_cleanup")' <=> Uses(c, "safe_log_cleanup")
    BY <1>2, UsesStay DEF Tools
  <2> QED
    BY <2>1 DEF Uses
<1> QED
  BY <1>1, <1>2 DEF Content, Cleans, Uses

\* A step of one run disturbs its own sandbox only.
LEMMA OwnBox ==
    ASSUME DemoInv, StackInv, StackShapes', ToolsKept, NEW r \in Runs,
           run[r].pc # "idle", run'[r].pc # "idle",
           run'[r].box = run[r].box, \A q \in Runs \ {r} : run'[q] = run[q],
           \A b \in Boxes \ {run[r].box} : /\ file'[b] = file[b] /\ temp'[b] = temp[b]
                                           /\ changes'[b] = changes[b] /\ stack'[b] = stack[b],
           changes[run[r].box] \subseteq changes'[run[r].box],
           \A d \in Runs \ {r} : run[d].box # run[r].box \/ run[d].pc \in Before
                => backup'[d] = backup[d],
           box' = box, astray \subseteq astray',
           RunStands(r)', ChangesStand(run[r].box)',
           run[r].box \in Boxes \ astray' => Stacked(run[r].box)' /\ Handled(run[r].box)'
    PROVE  StackInv'
<1>1. \A q \in Runs : run[q].box \in Boxes
  BY DEF DemoInv, DemoShapes, RunRecord
<1>2. ASSUME NEW q \in Runs, q # r
      PROVE  RunStands(q)'
  <2>1. RunStands(q) /\ run'[q] = run[q] /\ run[q].box \in Boxes
    BY <1>1, <1>2 DEF StackInv
  <2>2. changes[run[q].box] \subseteq changes'[run[q].box]
    BY <2>1
  <2>3. \A t \in run[q].token : token'[t].status # "none"
    <3>1. \A t \in run[q].token : t \in Tokens
      BY <2>1 DEF DemoInv, DemoShapes, RunRecord
    <3> QED
      BY <2>1, <3>1 DEF RunStands, ToolsKept
  <2>4. run[q].pc # "idle" => (Uses(q, "config_safe_update")' <=> Uses(q, "config_safe_update"))
    BY UsesStay DEF Tools
  <2>5. run[q].pc \in Before => backup'[q] = backup[q]
    BY <1>2
  <2> QED
    BY <2>1, <2>2, <2>3, <2>4, <2>5 DEF RunStands
<1>3. ASSUME NEW b \in Boxes, b # run[r].box
      PROVE  ChangesStand(b)'
  <2>1. \A c \in changes[b] : c \in Runs /\ c # r
    BY <1>3 DEF StackInv, StackShapes, ChangesStand
  <2> QED
    BY <1>3, <2>1 DEF StackInv, ChangesStand
<1>4. ASSUME NEW b \in Boxes \ astray', b # run[r].box
      PROVE  Stacked(b)' /\ Handled(b)'
  <2>1. /\ b \in Boxes \ astray /\ stack'[b] = stack[b] /\ changes'[b] = changes[b]
        /\ file'[b] = file[b] /\ temp'[b] = temp[b]
        /\ Stacked(b) /\ Handled(b) /\ ChangesStand(b)
    BY <1>4 DEF StackInv
  <2>2. \A i \in Nat : Content(b, i)' = Content(b, i)
    BY <2>1, ContentStays
  <2>3. \A i \in DOMAIN stack[b] : i \in Nat /\ i + 1 \in Nat
    BY <2>1 DEF StackInv, StackShapes
  <2>4. \A c \in changes[b] : c \in Runs /\ run[c].box = b /\ c # r /\ backup'[c] = backup[c]
    BY <1>4, <2>1 DEF StackInv, StackShapes, ChangesStand
  <2>5. Stacked(b)'
    BY <2>1, <2>2, <2>3, <2>4 DEF Stacked
  <2>6. \A q \in Runs : run[q].box = b => q # r /\ backup'[q] = backup[q]
    BY <1>4
  <2>7. \A q \in Runs : run[q].box = b /\ run[q].pc = "unlinked" => run[q].undo \in changes[b]
    BY DEF StackInv, RunStands
  <2>8. \A q \in Runs : run'[q].box = b => run'[q] = run[q]
    BY <1>4
  <2>9. Content(b, 1)' = Content(b, 1)
    BY <2>2
  <2>10. Handled(b)'
    BY <2>1, <2>4, <2>6, <2>7, <2>8, <2>9 DEF Handled, Handling
  <2> QED
    BY <2>5, <2>10
<1> QED
  BY <1>1, <1>2, <1>3, <1>4 DEF StackInv

\* A handler that clears the temporary file had written it.
TempKept(r) ==
    \/ UNCHANGED temp
    \/ run[r].pc = "written" /\ temp' = [temp EXCEPT ![run[r].box] = Absent]

\* A run goes on without touching the stack: it changes no file but the temporary one.
LEMMA QuietStep ==
    ASSUME DemoInv, StackInv, ToolsKept, NEW r \in Runs, TempKept(r),
           \A q \in Runs \ {r} : run'[q] = run[q],
           run'[r].token = run[r].token, run'[r].box = run[r].box, run[r].pc # "idle",
           run'[r].pc \notin {"idle", "copied", "written", "unlinked"},
           UNCHANGED <<file, backup, changes, stack, box>>, astray \subseteq astray',
           run[r].pc = "unlinked" => run[r].box \in astray',
           run[r].pc \in After => run'[r].pc \in After,
           run'[r].pc \in Before => run[r].pc \in Before,
           run'[r].pc = "undo" => run'[r].undo \in changes[run[r].box],
           run'[r].pc \in {"consumed", "undo"} =>
                \/ Handling(r) \/ run[r].box \in astray'
                \/ \A q \in Runs : Handling(q) => run[q].box # run[r].box
    PROVE  StackInv'
<1> DEFINE b == run[r].box
<1>1. /\ run[r].box \in Boxes /\ run[r].token \subseteq Tokens
  BY DEF DemoInv, DemoShapes, RunRecord
<1>2. StackShapes'
  BY <1>1 DEF StackInv, StackShapes, Files, TempKept
<1>3. \A v \in Boxes \ {b} : temp'[v] = temp[v]
  BY DEF TempKept, StackInv, StackShapes
<1>4. RunStands(r)'
  <2>1. RunStands(r)
    BY DEF StackInv
  <2>2. \A t \in run[r].token : token'[t].status # "none"
    BY <1>1, <2>1 DEF RunStands, ToolsKept
  <2> QED
    BY <1>1, <2>1, <2>2 DEF RunStands
<1>5. ChangesStand(b)'
  <2>1. ChangesStand(b) /\ changes[b] \subseteq Runs
    BY <1>1 DEF StackInv, StackShapes
  <2>2. \A c \in changes[b] : run'[c].box = run[c].box /\ run'[c].pc \in After
    BY <2>1 DEF ChangesStand
  <2> QED
    BY <2>1, <2>2 DEF ChangesStand
<1>6. ASSUME b \in Boxes \ astray'
      PROVE  Stacked(b)' /\ Handled(b)'
  <2>1. b \in Boxes \ astray /\ Stacked(b) /\ Handled(b) /\ ChangesStand(b)
    BY <1>6 DEF StackInv
  <2>2. \A i \in Nat : Content(b, i)' = Content(b, i)
    BY <2>1, ContentStays
  <2>3. \A i \in DOMAIN stack[b] : i + 1 \in Nat
    BY <2>1 DEF StackInv, StackShapes
  <2>4. Stacked(b)'
    BY <1>1, <2>1, <2>2, <2>3 DEF Stacked
  <2>5. \A q \in Runs \ {r} : run[q].box = b /\ run[q].pc = "written" => temp'[b] = temp[b]
    BY <2>1 DEF Handled, Handling, TempKept
  <2>6. Content(b, 1)' = Content(b, 1)
    BY <2>2
  <2>7. \A q, p \in Runs : Handling(q)' /\ Handling(p)' /\ run'[q].box = b /\ run'[p].box = b => q = p
    <3>1. Handling(r)' => Handling(r) \/ \A q \in Runs : Handling(q) => run[q].box # b
      BY <1>1, <1>6 DEF Handling
    <3>2. \A q \in Runs \ {r} : Handling(q)' <=> Handling(q)
      BY <1>1 DEF Handling
    <3> QED
      BY <1>1, <2>1, <3>1, <3>2 DEF Handled
  <2>8. (\A q \in Runs : run'[q].box = b => run'[q].pc # "unlinked")
            => \A q \in Runs : run[q].box = b => run[q].pc # "unlinked"
    BY <1>1, <1>6
  <2>9. \A q \in Runs : run'[q].box = b =>
            /\ run'[q].pc \in {"copied", "written"} =>
                    backup'[q] = Content(b, 1) /\ Content(b, 1) # Absent
            /\ run'[q].pc = "written" => temp'[b] = q
            /\ run'[q].pc = "unlinked" => backup'[run'[q].undo] # Absent
    BY <1>1, <2>1, <2>5 DEF Handled
  <2>10. Handled(b)'
    BY <1>1, <2>1, <2>6, <2>7, <2>8, <2>9 DEF Handled
  <2> QED
    BY <2>4, <2>10
<1> HIDE DEF b
<1>7. \A v \in Boxes \ {b} : /\ file'[v] = file[v] /\ temp'[v] = temp[v]
                             /\ changes'[v] = changes[v] /\ stack'[v] = stack[v]
  BY <1>3
<1> QED
  BY <1>1, <1>2, <1>4, <1>5, <1>6, <1>7, OwnBox DEF b

\* Unless a token's row is made for it, no token changes its tool.
LEMMA TokensStay ==
    ASSUME UNCHANGED token, \A q \in Runs : run[q].pc # "idle" => run'[q].token = run[q].token
    PROVE  ToolsKept
  BY DEF ToolsKept

LEMMA TokenOfRun ==
    ASSUME DemoInv, NEW r \in Runs, run[r].pc # "idle"
    PROVE  /\ run[r].token = {The(r)} /\ The(r) \in Tokens
           /\ \A tool : Uses(r, tool) <=> token[The(r)].tool = tool
<1>1. PICK t \in Tokens : run[r].token = {t}
  BY DEF DemoInv, NonceInv
<1>2. The(r) = t
  BY <1>1 DEF The
<1> QED
  BY <1>1, <1>2 DEF Uses

LEMMA NonceStacks ==
    ASSUME DemoInv, StackInv, NEW r \in Runs, CheckNonce(r) \/ AddNonce(r)
    PROVE  StackInv'
<1>1. CASE CheckNonce(r)
  <2>1. PICK to \in {"rejected", "unseen"} : run' = [run EXCEPT ![r].pc = to]
    BY <1>1 DEF CheckNonce, Proceed
  <2>2. /\ run[r].pc = "selected"
        /\ UNCHANGED <<file, temp, backup, changes, stack, box, token, astray>>
    BY <1>1 DEF CheckNonce, Proceed, sandbox
  <2>3. run'[r].pc = to /\ run'[r].token = run[r].token /\ run'[r].box = run[r].box
        /\ \A q \in Runs \ {r} : run'[q] = run[q]
    BY <2>1, NonceMoved DEF DemoInv, RunPlaces
  <2>4. ToolsKept /\ TempKept(r)
    BY <2>2, <2>3 DEF ToolsKept, TempKept
  <2> QED
    BY <2>2, <2>3, <2>4, QuietStep DEF Before, After
<1>2. CASE AddNonce(r)
  <2>1. /\ run[r].pc = "unseen" /\ run' = [run EXCEPT ![r].pc = "consumed"]
        /\ UNCHANGED <<file, temp, backup, changes, stack, box, token>>
        /\ astray \subseteq astray'
        /\ run[r].box \in astray' \/ \A q \in Runs : Handling(q) => run[q].box # run[r].box
    BY <1>2 DEF AddNonce, Proceed
  <2>2. run'[r].pc = "consumed" /\ run'[r].token = run[r].token /\ run'[r].box = run[r].box
        /\ \A q \in Runs \ {r} : run'[q] = run[q]
    BY <2>1, NonceMoved DEF DemoInv, RunPlaces
  <2>3. ToolsKept /\ TempKept(r)
    BY <2>1, <2>2 DEF ToolsKept, TempKept
  <2> QED
    BY <2>1, <2>2, <2>3, QuietStep DEF Before, After
<1> QED
  BY <1>1, <1>2

LEMMA EndStacks ==
    ASSUME DemoInv, StackInv, NEW r \in Runs, Succeed(r) \/ Reject(r) \/ Crash(r)
    PROVE  StackInv'
<1>1. /\ run[r].pc \in {"acted", "rejected", "error"} /\ run' = [run EXCEPT ![r].pc = "ended"]
      /\ UNCHANGED <<file, temp, backup, changes, stack, box, astray>>
  BY DEF Succeed, Reject, Crash, Proceed, sandbox, history
<1>2. token' = token \/ \E t \in run[r].token : token' = [token EXCEPT ![t].status = "CONSUMED"]
  BY DEF Succeed, Reject, Crash, Commit
<1>3. \A t \in Tokens : token'[t].tool = token[t].tool
                        /\ (token[t].status # "none" => token'[t].status # "none")
  BY <1>2 DEF DemoInv, DemoShapes, TokenRecord
<1>4. run'[r].pc = "ended" /\ run'[r].token = run[r].token /\ run'[r].box = run[r].box
      /\ \A q \in Runs \ {r} : run'[q] = run[q]
  BY <1>1, NonceMoved DEF DemoInv, RunPlaces
<1>5. ToolsKept /\ TempKept(r)
  BY <1>1, <1>3, <1>4 DEF ToolsKept, TempKept
<1> QED
  BY <1>1, <1>4, <1>5, QuietStep DEF Before, After

\* A handler that breaks off, whose temporary file may be gone.
LEMMA ErrsStacks ==
    ASSUME DemoInv, StackInv, NEW r \in Runs, NEW to \in {"error", "rejected"},
           run[r].pc \in {"consumed", "written"}, run' = [run EXCEPT ![r].pc = to],
           UNCHANGED <<file, backup, changes, stack, box, astray, token>>,
           TempKept(r)
    PROVE  StackInv'
<1>1. run'[r].pc = to /\ run'[r].token = run[r].token /\ run'[r].box = run[r].box
      /\ \A q \in Runs \ {r} : run'[q] = run[q]
  BY NonceMoved DEF DemoInv, RunPlaces
<1>2. ToolsKept
  BY <1>1 DEF ToolsKept
<1> QED
  BY <1>1, <1>2, QuietStep DEF Before, After

LEMMA FindStacks ==
    ASSUME DemoInv, StackInv, NEW r \in Runs, FindChange(r)
    PROVE  StackInv'
<1> DEFINE c == token[The(r)].change
<1>1. PICK to \in {"undo", "rejected"} :
        /\ run[r].pc = "consumed" /\ run' = [run EXCEPT ![r].pc = to, ![r].undo = c]
        /\ to = "undo" => c \in changes[run[r].box]
        /\ UNCHANGED <<file, temp, backup, changes, stack, box, token, astray>>
  BY DEF FindChange, sandbox, history
<1>2. /\ run'[r].token = run[r].token /\ run'[r].box = run[r].box
      /\ run'[r].pc = to /\ run'[r].undo = c /\ \A q \in Runs \ {r} : run'[q] = run[q]
  BY <1>1 DEF DemoInv, DemoShapes, RunRecord
<1> HIDE DEF c
<1>3. ToolsKept /\ TempKept(r)
  BY <1>1, <1>2 DEF ToolsKept, TempKept
<1> QED
  BY <1>1, <1>2, <1>3, QuietStep DEF Before, After, Handling

\* A stack stays as long as the backups of its changes do.
LEMMA StackedStays ==
    ASSUME DemoInv, StackInv, ToolsKept, NEW b \in Boxes \ astray,
           stack'[b] = stack[b], changes'[b] = changes[b],
           \A c \in changes[b] : backup'[c] = backup[c]
    PROVE  Stacked(b)' /\ Content(b, 1)' = Content(b, 1)
<1>1. \A i \in Nat : Content(b, i)' = Content(b, i)
  BY ContentStays
<1>2. \A i \in DOMAIN stack[b] : i + 1 \in Nat
  BY DEF StackInv, StackShapes
<1>3. Stacked(b)
  BY DEF StackInv
<1>4. Stacked(b)'
  BY <1>1, <1>2, <1>3 DEF Stacked
<1> QED
  BY <1>1, <1>4

\* What the one handler at work has to see to.
HandlerStands(r, b) ==
    /\ run[r].pc \in {"copied", "written"} => backup[r] = Content(b, 1) /\ Content(b, 1) # Absent
    /\ run[r].pc = "written" => temp[b] = r
    /\ run[r].pc = "unlinked" => backup[run[r].undo] # Absent
    /\ run[r].pc # "unlinked" => file[b] = Content(b, 1)

LEMMA HandlerIs ==
    ASSUME StackInv, NEW r \in Runs, Handling(r), NEW b \in Boxes \ astray, run[r].box = b
    PROVE  HandlerStands(r, b) /\ \A q \in Runs \ {r} : Handling(q) => run[q].box # b
<1>1. Handled(b) /\ b \in 1..box
  BY DEF StackInv, RunStands
<1>2. \A q \in Runs \ {r} : Handling(q) => run[q].box # b
  BY <1>1 DEF Handled
<1>3. \A q \in Runs \ {r} : run[q].box = b => run[q].pc # "unlinked"
  BY <1>2 DEF Handling
<1> QED
  BY <1>1, <1>2, <1>3 DEF Handled, HandlerStands

LEMMA HandledGoesOn ==
    ASSUME StackInv, NEW r \in Runs, Handling(r), NEW b \in Boxes \ astray, run[r].box = b,
           \A q \in Runs \ {r} : run'[q] = run[q], run'[r].box = b, HandlerStands(r, b)'
    PROVE  Handled(b)'
<1>1. \A q \in Runs \ {r} : Handling(q) => run[q].box # b
  BY HandlerIs
<1>2. \A q \in Runs \ {r} : run'[q].box = b
        => ~Handling(q)' /\ run'[q].pc \notin {"copied", "written", "unlinked"}
  BY <1>1 DEF Handling
<1>3. \A q \in Runs : run'[q].box = b
        /\ (Handling(q)' \/ run'[q].pc \in {"copied", "written", "unlinked"}) => q = r
  BY <1>2
<1> QED
  BY <1>3 DEF Handled, HandlerStands

LEMMA ChangesGoOn ==
    ASSUME StackInv, NEW r \in Runs, NEW b \in Boxes, run[r].box = b, run'[r].box = b,
           \A q \in Runs \ {r} : run'[q] = run[q], changes'[b] \subseteq changes[b] \cup {r},
           r \in changes'[b] => run'[r].pc \in After, box' = box
    PROVE  ChangesStand(b)'
<1>1. ChangesStand(b) /\ changes[b] \subseteq Runs /\ b \in 1..box
  BY DEF StackInv, StackShapes, RunStands
<1>2. \A c \in changes'[b] : run'[c].box = b /\ run'[c].pc \in After
  BY <1>1 DEF ChangesStand
<1> QED
  BY <1>1, <1>2 DEF ChangesStand

\* A handler copies the file, or writes its candidate.
LEMMA CopyStacks ==
    ASSUME DemoInv, StackInv, NEW r \in Runs, CopyConfig(r)
    PROVE  StackInv'
<1>0. PICK b \in Boxes : b = run[r].box
  BY DEF DemoInv, DemoShapes, RunRecord
<1>1. /\ run[r].pc = "consumed" /\ Uses(r, "config_safe_update")
      /\ run' = [run EXCEPT ![r].pc = IF file[b] # Absent THEN "copied" ELSE "error"]
      /\ backup' = [backup EXCEPT ![r] = file[b]]
      /\ UNCHANGED <<box, file, temp, changes, stack, token, astray>>
  BY <1>0 DEF CopyConfig, Proceed, history
<1>2. /\ run'[r].pc = (IF file[b] # Absent THEN "copied" ELSE "error")
      /\ run'[r].token = run[r].token /\ run'[r].box = b
      /\ \A q \in Runs \ {r} : run'[q] = run[q]
  BY <1>0, <1>1, NonceMoved DEF DemoInv, RunPlaces
<1>3. ToolsKept /\ TempKept(r)
  BY <1>1, <1>2 DEF ToolsKept, TempKept
<1>4. backup[r] = Absent /\ backup \in [Runs -> Files] /\ file[b] \in Files /\ RunStands(r)
  BY <1>0, <1>1 DEF StackInv, StackShapes, RunStands, Before
<1>5. CASE file[b] = Absent
  <2>1. backup' = backup
    BY <1>1, <1>4, <1>5
  <2> QED
    BY <1>0, <1>1, <1>2, <1>3, <1>5, <2>1, QuietStep DEF Before, After
<1>6. CASE file[b] # Absent
  <2>1. /\ backup'[r] = file[b] /\ \A d \in Runs \ {r} : backup'[d] = backup[d]
        /\ backup' \in [Runs -> Files]
    BY <1>1, <1>4
  <2>2. RunStands(r)'
    <3>1. Uses(r, "config_safe_update")'
      BY <1>1, <1>3, UsesStay DEF Tools
    <3>2. \A t \in run[r].token : token'[t].status # "none"
      BY <1>1, <1>4 DEF RunStands
    <3> QED
      BY <1>0, <1>1, <1>2, <1>4, <1>6, <3>1, <3>2 DEF RunStands, Before
  <2>3. r \notin changes[b] /\ changes[b] \subseteq Runs
    BY <1>0, <1>1 DEF StackInv, StackShapes, ChangesStand, After
  <2>4. ChangesStand(b)'
    BY <1>0, <1>1, <1>2, <2>3, ChangesGoOn
  <2>5. ASSUME b \in Boxes \ astray'
        PROVE  Stacked(b)' /\ Handled(b)'
    <3>1. Handling(r) /\ b \in Boxes \ astray
      BY <1>1, <2>5 DEF Handling
    <3>2. HandlerStands(r, b)
      BY <1>0, <3>1, HandlerIs
    <3>3. Stacked(b)' /\ Content(b, 1)' = Content(b, 1)
      BY <1>1, <1>3, <2>1, <2>3, <3>1, StackedStays
    <3>4. HandlerStands(r, b)'
      BY <1>1, <1>2, <1>6, <2>1, <3>2, <3>3 DEF HandlerStands
    <3> QED
      BY <1>0, <1>2, <3>1, <3>3, <3>4, HandledGoesOn
  <2>6. StackShapes'
    BY <1>1, <2>1 DEF StackInv, StackShapes
  <2> QED
    BY <1>0, <1>1, <1>2, <1>3, <1>6, <2>1, <2>2, <2>4, <2>5, <2>6, OwnBox
<1> QED
  BY <1>4, <1>5, <1>6

LEMMA WriteStacks ==
    ASSUME DemoInv, StackInv, NEW r \in Runs, WriteConfig(r)
    PROVE  StackInv'
<1>0. PICK b \in Boxes : b = run[r].box
  BY DEF DemoInv, DemoShapes, RunRecord
<1>1. /\ run[r].pc = "copied" /\ run' = [run EXCEPT ![r].pc = "written"]
      /\ temp' = [temp EXCEPT ![b] = r]
      /\ UNCHANGED <<box, file, backup, changes, stack, token, astray>>
  BY <1>0 DEF WriteConfig, Proceed, history
<1>2. /\ run'[r].pc = "written" /\ run'[r].token = run[r].token /\ run'[r].box = b
      /\ \A q \in Runs \ {r} : run'[q] = run[q]
  BY <1>0, <1>1, NonceMoved DEF DemoInv, RunPlaces
<1>3. ToolsKept
  BY <1>1, <1>2 DEF ToolsKept
<1>4. temp'[b] = r /\ (\A v \in Boxes \ {b} : temp'[v] = temp[v]) /\ StackShapes'
  BY <1>1 DEF StackInv, StackShapes, Files
<1>5. RunStands(r)'
  <2>1. RunStands(r)
    BY DEF StackInv
  <2>2. Uses(r, "config_safe_update")'
    BY <1>1, <1>3, <2>1, UsesStay DEF RunStands, Tools
  <2> QED
    BY <1>0, <1>1, <1>2, <2>1, <2>2 DEF RunStands, Before
<1>6. ChangesStand(b)'
  <2>1. r \notin changes[b]
    BY <1>0, <1>1 DEF StackInv, ChangesStand, After
  <2> QED
    BY <1>0, <1>1, <1>2, <2>1, ChangesGoOn
<1>7. ASSUME b \in Boxes \ astray'
      PROVE  Stacked(b)' /\ Handled(b)'
  <2>1. Handling(r) /\ b \in Boxes \ astray
    BY <1>1, <1>7 DEF Handling
  <2>2. HandlerStands(r, b)
    BY <1>0, <2>1, HandlerIs
  <2>3. Stacked(b)' /\ Content(b, 1)' = Content(b, 1)
    BY <1>1, <1>3, <2>1, StackedStays
  <2>4. HandlerStands(r, b)'
    BY <1>1, <1>2, <1>4, <2>2, <2>3 DEF HandlerStands
  <2> QED
    BY <1>0, <1>2, <2>1, <2>3, <2>4, HandledGoesOn
<1> QED
  BY <1>0, <1>1, <1>2, <1>3, <1>4, <1>5, <1>6, <1>7, OwnBox

\* rollback() clears the file only when there is something to move back.
LEMMA ClearStacks ==
    ASSUME DemoInv, StackInv, NEW r \in Runs, ClearTarget(r)
    PROVE  StackInv'
<1>0. PICK b \in Boxes : b = run[r].box
  BY DEF DemoInv, DemoShapes, RunRecord
<1>1. /\ run[r].pc = "undo"
      /\ run' = [run EXCEPT ![r].pc = IF backup[run[r].undo] = Absent THEN "acted" ELSE "unlinked"]
      /\ file' = IF backup[run[r].undo] = Absent THEN file ELSE [file EXCEPT ![b] = Absent]
      /\ UNCHANGED <<box, temp, backup, changes, stack, token, astray>>
  BY <1>0 DEF ClearTarget, Proceed, history
<1>2. /\ run'[r].pc = (IF backup[run[r].undo] = Absent THEN "acted" ELSE "unlinked")
      /\ run'[r].token = run[r].token /\ run'[r].box = b
      /\ run'[r].undo = run[r].undo
      /\ \A q \in Runs \ {r} : run'[q] = run[q]
  BY <1>0, <1>1 DEF DemoInv, DemoShapes, RunRecord
<1>3. ToolsKept /\ TempKept(r)
  BY <1>1, <1>2 DEF ToolsKept, TempKept
<1>4. CASE backup[run[r].undo] = Absent
  BY <1>0, <1>1, <1>2, <1>3, <1>4, QuietStep DEF Before, After
<1>5. CASE backup[run[r].undo] # Absent
  <2>1. (\A v \in Boxes \ {b} : file'[v] = file[v]) /\ StackShapes'
    BY <1>1, <1>5 DEF StackInv, StackShapes, Files
  <2>2. RunStands(r)'
    <3>1. RunStands(r)
      BY DEF StackInv
    <3> QED
      BY <1>0, <1>1, <1>2, <1>5, <3>1 DEF RunStands, Before
  <2>3. ChangesStand(b)'
    BY <1>0, <1>1, <1>2, <1>5, ChangesGoOn DEF After
  <2>4. ASSUME b \in Boxes \ astray'
        PROVE  Stacked(b)' /\ Handled(b)'
    <3>1. Handling(r) /\ b \in Boxes \ astray
      BY <1>1, <2>4 DEF Handling
    <3>2. Stacked(b)'
      BY <1>1, <1>3, <3>1, StackedStays
    <3>3. HandlerStands(r, b)'
      BY <1>1, <1>2, <1>5 DEF HandlerStands
    <3> QED
      BY <1>0, <1>2, <3>1, <3>2, <3>3, HandledGoesOn
  <2> QED
    BY <1>0, <1>1, <1>2, <1>3, <1>5, <2>1, <2>2, <2>3, <2>4, OwnBox
<1> QED
  BY <1>4, <1>5

\* A change that is moved back was the latest, and what the one below it made of the file
\* returns; or the sandbox is astray.
LEMMA MoveStacks ==
    ASSUME DemoInv, StackInv, NEW r \in Runs, MoveBack(r)
    PROVE  StackInv'
<1>0. PICK b \in Boxes : b = run[r].box
  BY DEF DemoInv, DemoShapes, RunRecord
<1>1. PICK c \in changes[b] : c = run[r].undo
  BY <1>0 DEF MoveBack, Proceed, StackInv, RunStands
<1>2. c \in Runs /\ run[r].pc = "unlinked" /\ run[c].pc \in After /\ run[c].box = b
  BY <1>0, <1>1 DEF MoveBack, Proceed, StackInv, StackShapes, ChangesStand
<1>3. /\ run' = [run EXCEPT ![r].pc = IF backup[c] = Absent THEN "error" ELSE "acted"]
      /\ UNCHANGED <<box, temp, changes, token>>
  BY <1>0, <1>1 DEF MoveBack, Proceed
<1>4. /\ run'[r].pc = (IF backup[c] = Absent THEN "error" ELSE "acted")
      /\ run'[r].token = run[r].token /\ run'[r].box = b
      /\ \A q \in Runs \ {r} : run'[q] = run[q]
  BY <1>0, <1>3, NonceMoved DEF DemoInv, RunPlaces
<1>5. ToolsKept /\ TempKept(r)
  BY <1>3, <1>4 DEF ToolsKept, TempKept
<1>6. CASE backup[c] = Absent
  <2>1. UNCHANGED <<file, backup, stack, astray>>
    BY <1>0, <1>1, <1>6 DEF MoveBack
  <2>2. b \in astray
    BY <1>0, <1>1, <1>2, <1>6, HandlerIs DEF HandlerStands, Handling
  <2> QED
    BY <1>0, <1>2, <1>3, <1>4, <1>5, <1>6, <2>1, <2>2, QuietStep DEF Before, After
<1>7. CASE backup[c] # Absent
  <2>1. /\ file' = [file EXCEPT ![b] = backup[c]]
        /\ backup' = [backup EXCEPT ![c] = Absent]
        /\ \/ /\ Head(stack[b]) = c
              /\ stack' = [stack EXCEPT ![b] = Tail(@)] /\ UNCHANGED astray
           \/ astray' = astray \cup {b} /\ UNCHANGED stack
    BY <1>0, <1>1, <1>7 DEF MoveBack
  <2>2. /\ file'[b] = backup[c] /\ \A v \in Boxes \ {b} : file'[v] = file[v]
        /\ backup'[c] = Absent /\ \A d \in Runs \ {c} : backup'[d] = backup[d]
        /\ \A v \in Boxes \ {b} : stack'[v] = stack[v]
        /\ file' \in [Boxes -> Files] /\ backup' \in [Runs -> Files]
    BY <1>2, <2>1 DEF StackInv, StackShapes, Files
  <2>3. RunStands(r)'
    <3>1. RunStands(r)
      BY DEF StackInv
    <3> QED
      BY <1>0, <1>2, <1>3, <1>4, <1>7, <3>1 DEF RunStands, Before
  <2>4. ChangesStand(b)'
    BY <1>0, <1>3, <1>4, <1>7, ChangesGoOn DEF After
  <2>5. ASSUME b \in Boxes \ astray
        PROVE  stack[b] # <<>> /\ Stacked(b)
    <3>1. Stacked(b)
      BY <2>5 DEF StackInv
    <3>2. \E i \in DOMAIN stack[b] : stack[b][i] = c
      BY <1>7, <3>1 DEF Stacked
    <3> QED
      BY <3>1, <3>2
  <2>6. ASSUME b \in Boxes \ astray'
        PROVE  Stacked(b)' /\ Handled(b)'
    <3>1. Handling(r) /\ b \in Boxes \ astray
      BY <1>2, <2>1, <2>6 DEF Handling
    <3>2. /\ stack[b] \in Seq(Runs) /\ stack[b] # <<>> /\ Stacked(b)
          /\ c = stack[b][1] /\ stack'[b] = Tail(stack[b])
      BY <2>1, <2>5, <2>6, <3>1 DEF StackInv, StackShapes
    <3> DEFINE s == stack[b]
    <3>3. /\ Len(s) \in Nat \ {0} /\ DOMAIN s = 1..Len(s)
          /\ DOMAIN stack'[b] = 1..(Len(s) - 1)
          /\ \A i \in 1..(Len(s) - 1) : stack'[b][i] = s[i + 1]
      BY <3>2
    <3>4. \A i \in 1..Len(s) : s[i] \in Runs /\ run[s[i]].pc # "idle"
      BY <3>1, <3>2, <3>3 DEF Stacked, StackInv, StackShapes, ChangesStand, After
    <3>5. \A d \in Runs : run[d].pc # "idle" =>
              ((\E t \in run'[d].token : token'[t].tool = "safe_log_cleanup")
                <=> \E t \in run[d].token : token[t].tool = "safe_log_cleanup")
      <4> TAKE d \in Runs
      <4>1. run[d].pc # "idle" => (Uses(d, "safe_log_cleanup")' <=> Uses(d, "safe_log_cleanup"))
        BY <1>5, UsesStay DEF Tools
      <4> QED
        BY <4>1 DEF Uses
    <3>6. \A i \in 1..Len(s) : Content(b, i)' = Content(b, i + 1)
      <4> SUFFICES ASSUME NEW i \in 1..Len(s)
                   PROVE  Content(b, i)' = Content(b, i + 1)
        OBVIOUS
      <4>1. CASE i = Len(s)
        BY <3>3, <4>1 DEF Content
      <4>2. CASE i # Len(s)
        <5>1. i \in 1..(Len(s) - 1) /\ i + 1 \in 1..Len(s)
          BY <3>3, <4>2
        <5> QED
          BY <3>3, <3>4, <3>5, <5>1 DEF Content, Cleans, Uses
      <4> QED
        BY <4>1, <4>2
    <3>7. \A i \in 1..Len(s) : /\ s[i] \in changes[b]
                               /\ backup[s[i]] = Content(b, i + 1) /\ Content(b, i + 1) # Absent
      BY <3>2, <3>3 DEF Stacked
    <3>8. \A i, j \in 1..Len(s) : s[i] = s[j] => i = j
      BY <3>2, <3>3 DEF Stacked
    <3>9. \A d \in changes[b] : backup[d] # Absent => \E i \in 1..Len(s) : s[i] = d
      BY <3>2, <3>3 DEF Stacked
    <3> HIDE DEF s
    <3>10. Stacked(b)'
      <4>1. ASSUME NEW i \in 1..(Len(s) - 1)
            PROVE  /\ stack'[b][i] \in changes'[b]
                   /\ backup'[stack'[b][i]] = Content(b, i + 1)' /\ Content(b, i + 1)' # Absent
        <5>1. i + 1 \in 1..Len(s) /\ i + 1 # 1 /\ 1 \in 1..Len(s)
          BY <3>3
        <5>2. s[i + 1] # c /\ s[i + 1] \in Runs
          BY <3>2, <3>4, <3>8, <5>1 DEF s
        <5>3. Content(b, i + 1)' = Content(b, i + 1 + 1)
          BY <3>6, <5>1
        <5> QED
          BY <1>3, <2>2, <3>3, <3>7, <5>1, <5>2, <5>3
      <4>2. ASSUME NEW i \in 1..(Len(s) - 1), NEW j \in 1..(Len(s) - 1),
                   stack'[b][i] = stack'[b][j]
            PROVE  i = j
        <5>1. i + 1 \in 1..Len(s) /\ j + 1 \in 1..Len(s) /\ s[i + 1] = s[j + 1]
          BY <3>3, <4>2
        <5>2. i + 1 = j + 1
          BY <3>8, <5>1
        <5> QED
          BY <3>3, <5>2
      <4>3. ASSUME NEW d \in changes[b], backup'[d] # Absent
            PROVE  \E i \in 1..(Len(s) - 1) : stack'[b][i] = d
        <5>1. d \in Runs /\ d # c
          BY <2>2, <3>1, <4>3 DEF StackInv, StackShapes
        <5>2. PICK k \in 1..Len(s) : s[k] = d
          BY <2>2, <3>9, <4>3, <5>1
        <5>3. k # 1
          BY <3>2, <5>1, <5>2 DEF s
        <5>4. k - 1 \in 1..(Len(s) - 1) /\ (k - 1) + 1 = k
          BY <3>3, <5>3
        <5> QED
          BY <3>3, <5>2, <5>4
      <4> QED
        BY <1>3, <3>3, <4>1, <4>2, <4>3 DEF Stacked
    <3>11. HandlerStands(r, b)'
      <4>1. backup[c] = Content(b, 2) /\ Content(b, 1)' = Content(b, 2)
        <5>1. 1 \in 1..Len(s)
          BY <3>3
        <5>2. backup[s[1]] = Content(b, 1 + 1) /\ Content(b, 1)' = Content(b, 1 + 1)
          BY <3>6, <3>7, <5>1
        <5> QED
          BY <3>2, <5>2 DEF s
      <4> QED
        BY <1>4, <1>7, <2>2, <4>1 DEF HandlerStands
    <3> QED
      BY <1>0, <1>4, <3>1, <3>10, <3>11, HandledGoesOn
  <2>7. StackShapes'
    <3>1. ASSUME b \in Boxes \ astray'
          PROVE  stack'[b] \in Seq(Runs)
      <4>1. stack[b] \in Seq(Runs) /\ stack[b] # <<>> /\ stack'[b] = Tail(stack[b])
        BY <2>1, <2>5, <3>1 DEF StackInv, StackShapes
      <4> QED
        BY <4>1
    <3>2. \A v \in Boxes \ astray' : stack'[v] \in Seq(Runs)
      BY <2>1, <2>2, <3>1 DEF StackInv, StackShapes
    <3>3. DOMAIN stack' = Boxes
      BY <2>1 DEF StackInv, StackShapes
    <3> QED
      BY <1>3, <2>2, <3>2, <3>3 DEF StackInv, StackShapes
  <2>8. astray \subseteq astray'
    BY <2>1
  <2>9. \A d \in Runs \ {r} : run[d].box # run[r].box \/ run[d].pc \in Before => backup'[d] = backup[d]
    BY <1>0, <1>2, <2>2 DEF Before, After
  <2> QED
    BY <1>0, <1>2, <1>3, <1>4, <1>5, <1>7, <2>2, <2>3, <2>4, <2>6, <2>7, <2>8, <2>9, OwnBox
<1> QED
  BY <1>6, <1>7

LEMMA ActedIs ==
    ASSUME DemoInv, NEW r \in Runs, Acted(r)
    PROVE  /\ run'[r].token = run[r].token /\ run'[r].box = run[r].box
           /\ \A q \in Runs \ {r} : run'[q] = run[q]
           /\ run'[r].pc \in {"undo", "acted"} /\ (run'[r].pc = "undo" => run'[r].undo = r)
           /\ changes' = [changes EXCEPT ![run[r].box] = @ \cup {r}]
<1>1. PICK fault \in BOOLEAN :
        run' = [run EXCEPT ![r].pc = IF fault THEN "undo" ELSE "acted",
                           ![r].undo = IF fault THEN r ELSE Absent]
  BY DEF Acted, DemoInv, DemoShapes, RunRecord
<1>2. run \in [Runs -> RunRecord]
  BY DEF DemoInv, DemoShapes
<1> QED
  BY <1>1, <1>2 DEF Acted, RunRecord

\* A handler that acts on something else leaves the stack.
LEMMA OtherActStacks ==
    ASSUME DemoInv, StackInv, NEW r \in Runs, RestartService(r) \/ TerminateProcess(r)
    PROVE  StackInv'
<1>0. PICK b \in Boxes : b = run[r].box
  BY DEF DemoInv, DemoShapes, RunRecord
<1>1. /\ run[r].pc = "consumed" /\ UNCHANGED <<box, file, temp, backup, token, astray>>
      /\ Uses(r, "service_restart") \/ Uses(r, "terminate_process")
      /\ Acted(r) \/ Errs(r)
  BY DEF RestartService, TerminateProcess
<1>2. CASE Errs(r)
  BY <1>1, <1>2, ErrsStacks DEF Errs, TempKept
<1>3. CASE Acted(r)
  <2>1. /\ run'[r].token = run[r].token /\ run'[r].box = b
        /\ \A q \in Runs \ {r} : run'[q] = run[q]
        /\ run'[r].pc \in {"undo", "acted"} /\ (run'[r].pc = "undo" => run'[r].undo = r)
        /\ changes' = [changes EXCEPT ![b] = @ \cup {r}]
    BY <1>0, <1>3, ActedIs
  <2>2. stack' = stack
    <3>1. ~Uses(r, "safe_log_cleanup") /\ ~Uses(r, "config_safe_update")
      BY <1>1, TokenOfRun
    <3> QED
      BY <1>3, <3>1 DEF Acted
  <2>3. ToolsKept
    BY <1>1, <2>1 DEF ToolsKept
  <2>4. /\ changes'[b] = changes[b] \cup {r} /\ \A v \in Boxes \ {b} : changes'[v] = changes[v]
        /\ StackShapes'
    BY <1>1, <2>1, <2>2 DEF StackInv, StackShapes
  <2>5. RunStands(r)'
    <3>1. RunStands(r)
      BY DEF StackInv
    <3> QED
      BY <1>0, <1>1, <2>1, <2>4, <3>1 DEF RunStands, Before
  <2>6. ChangesStand(b)'
    BY <1>0, <1>1, <2>1, <2>4, ChangesGoOn DEF After
  <2>7. ASSUME b \in Boxes \ astray'
        PROVE  Stacked(b)' /\ Handled(b)'
    <3>1. Handling(r) /\ b \in Boxes \ astray /\ backup[r] = Absent
      BY <1>1, <2>7 DEF Handling, StackInv, RunStands, Before
    <3>2. HandlerStands(r, b) /\ Stacked(b)
      BY <1>0, <3>1, HandlerIs DEF StackInv
    <3>3. \A i \in Nat : Content(b, i)' = Content(b, i)
      BY <2>2, <2>3, <3>1, ContentStays
    <3>4. \A i \in DOMAIN stack[b] : i + 1 \in Nat
      BY <3>1 DEF StackInv, StackShapes
    <3>5. Stacked(b)'
      BY <1>1, <2>2, <2>4, <3>1, <3>2, <3>3, <3>4 DEF Stacked
    <3>6. Content(b, 1)' = Content(b, 1)
      BY <3>3
    <3>7. HandlerStands(r, b)'
      BY <1>1, <2>1, <3>2, <3>6 DEF HandlerStands
    <3> QED
      BY <1>0, <2>1, <3>1, <3>5, <3>7, HandledGoesOn
  <2> QED
    BY <1>0, <1>1, <2>1, <2>2, <2>3, <2>4, <2>5, <2>6, <2>7, OwnBox
<1> QED
  BY <1>1, <1>2, <1>3

\* A change of the file that is backed up goes on top of the stack.
LEMMA PushStacks ==
    ASSUME DemoInv, StackInv, NEW r \in Runs, NEW b \in Boxes, run[r].box = b, Handling(r),
           Acted(r), run[r].pc \in {"consumed", "written"},
           Uses(r, "safe_log_cleanup") \/ Uses(r, "config_safe_update"),
           UNCHANGED <<box, token, astray>>,
           \A d \in Runs \ {r} : backup'[d] = backup[d],
           \A v \in Boxes \ {b} : file'[v] = file[v] /\ temp'[v] = temp[v],
           file' \in [Boxes -> Files], temp' \in [Boxes -> Files], backup' \in [Runs -> Files],
           b \notin astray =>
                /\ backup'[r] = Content(b, 1) /\ Content(b, 1) # Absent
                /\ file'[b] = IF Cleans(r) THEN Absent ELSE r
    PROVE  StackInv'
<1>1. /\ run'[r].token = run[r].token /\ run'[r].box = b
      /\ \A q \in Runs \ {r} : run'[q] = run[q]
      /\ run'[r].pc \in {"undo", "acted"} /\ (run'[r].pc = "undo" => run'[r].undo = r)
      /\ changes' = [changes EXCEPT ![b] = @ \cup {r}]
  BY ActedIs
<1>2. stack' = [stack EXCEPT ![b] = <<r>> \o @]
  BY DEF Acted
<1>3. ToolsKept
  BY <1>1 DEF ToolsKept
<1>4. /\ changes'[b] = changes[b] \cup {r} /\ \A v \in Boxes \ {b} : changes'[v] = changes[v]
      /\ \A v \in Boxes \ {b} : stack'[v] = stack[v]
      /\ stack'[b] = <<r>> \o stack[b]
  BY <1>1, <1>2 DEF StackInv, StackShapes
<1>5. StackShapes'
  <2>1. \A v \in Boxes \ astray' : stack'[v] \in Seq(Runs)
    <3>1. \A v \in Boxes \ astray' : stack[v] \in Seq(Runs)
      BY DEF StackInv, StackShapes
    <3>2. b \notin astray' => <<r>> \o stack[b] \in Seq(Runs)
      BY <3>1
    <3> QED
      BY <1>4, <3>1, <3>2
  <2>2. DOMAIN stack' = Boxes /\ changes' \in [Boxes -> SUBSET Runs]
    BY <1>1, <1>2 DEF StackInv, StackShapes
  <2> QED
    BY <2>1, <2>2 DEF StackShapes
<1>6. RunStands(r)'
  <2>1. RunStands(r)
    BY DEF StackInv
  <2> QED
    BY <1>1, <1>4, <2>1 DEF RunStands, Before
<1>7. r \notin changes[b] /\ changes[b] \subseteq Runs
  BY DEF StackInv, StackShapes, ChangesStand, After
<1>8. ChangesStand(b)'
  BY <1>1, <1>4, ChangesGoOn DEF After
<1>9. ASSUME b \in Boxes \ astray'
      PROVE  Stacked(b)' /\ Handled(b)'
  <2>1. b \in Boxes \ astray /\ stack[b] \in Seq(Runs) /\ Stacked(b)
    BY <1>9 DEF StackInv, StackShapes
  <2> DEFINE s == stack[b]
  <2>2. /\ Len(s) \in Nat /\ DOMAIN s = 1..Len(s) /\ DOMAIN stack'[b] = 1..(Len(s) + 1)
        /\ stack'[b][1] = r /\ \A i \in 1..Len(s) : stack'[b][i + 1] = s[i]
    BY <1>4, <2>1
  <2>3. \A i \in 1..Len(s) : s[i] \in Runs /\ run[s[i]].pc # "idle" /\ s[i] # r
    <3>1. \A i \in 1..Len(s) : s[i] \in changes[b]
      BY <2>1, <2>2 DEF Stacked
    <3>2. \A d \in changes[b] : d \in Runs /\ run[d].pc # "idle" /\ d # r
      BY <1>7 DEF StackInv, ChangesStand, After
    <3> QED
      BY <3>1, <3>2
  <2>4. \A d \in Runs : run[d].pc # "idle" =>
            ((\E t \in run'[d].token : token'[t].tool = "safe_log_cleanup")
              <=> \E t \in run[d].token : token[t].tool = "safe_log_cleanup")
    <3> TAKE d \in Runs
    <3>1. run[d].pc # "idle" => (Uses(d, "safe_log_cleanup")' <=> Uses(d, "safe_log_cleanup"))
      BY <1>3, UsesStay DEF Tools
    <3> QED
      BY <3>1 DEF Uses
  <2>5. \A i \in 1..(Len(s) + 1) : Content(b, i + 1)' = Content(b, i)
    <3> SUFFICES ASSUME NEW i \in 1..(Len(s) + 1)
                 PROVE  Content(b, i + 1)' = Content(b, i)
      OBVIOUS
    <3>1. CASE i = Len(s) + 1
      <4>1. i \notin DOMAIN s /\ i + 1 \notin DOMAIN stack'[b]
        BY <2>2, <3>1
      <4> QED
        BY <4>1 DEF Content
    <3>2. CASE i # Len(s) + 1
      <4>1. i \in 1..Len(s) /\ i + 1 \in 1..(Len(s) + 1)
        BY <2>2, <3>2
      <4>2. stack'[b][i + 1] = s[i] /\ i \in DOMAIN s /\ i + 1 \in DOMAIN stack'[b]
        BY <2>2, <4>1
      <4> QED
        BY <2>3, <2>4, <4>1, <4>2 DEF Content, Cleans, Uses
    <3> QED
      BY <3>1, <3>2
  <2>6. \A i \in 1..Len(s) : /\ s[i] \in changes[b]
                             /\ backup[s[i]] = Content(b, i + 1) /\ Content(b, i + 1) # Absent
    BY <2>1, <2>2 DEF Stacked
  <2>7. \A i, j \in 1..Len(s) : s[i] = s[j] => i = j
    BY <2>1, <2>2 DEF Stacked
  <2>8. \A d \in changes[b] : backup[d] # Absent => \E i \in 1..Len(s) : s[i] = d
    BY <2>1, <2>2 DEF Stacked
  <2>9. Content(b, 1)' = IF Cleans(r) THEN Absent ELSE r
    <3>1. 1 \in DOMAIN stack'[b] /\ stack'[b][1] = r /\ run[r].pc # "idle"
      BY <2>2
    <3> QED
      BY <2>4, <3>1 DEF Content, Cleans, Uses
  <2>20. backup'[r] = Content(b, 1) /\ Content(b, 1) # Absent
         /\ file'[b] = IF Cleans(r) THEN Absent ELSE r
    BY <2>1
  <2> HIDE DEF s
  <2>10. ASSUME NEW i \in 1..(Len(s) + 1)
         PROVE  /\ stack'[b][i] \in changes'[b]
                /\ backup'[stack'[b][i]] = Content(b, i + 1)' /\ Content(b, i + 1)' # Absent
    <3>1. CASE i = 1
      BY <1>4, <2>2, <2>5, <2>20, <3>1
    <3>2. CASE i # 1
      <4>1. PICK j \in 1..Len(s) : i = j + 1
        <5>1. i - 1 \in 1..Len(s) /\ i = (i - 1) + 1
          BY <2>2, <3>2
        <5> QED
          BY <5>1
      <4>2. stack'[b][i] = s[j] /\ s[j] \in Runs \ {r}
        BY <2>2, <2>3, <4>1
      <4> QED
        <5>1. backup'[s[j]] = backup[s[j]] /\ s[j] \in changes'[b]
          BY <1>4, <2>6, <4>2
        <5>2. backup[s[j]] = Content(b, i) /\ Content(b, i) # Absent
          BY <2>6, <4>1
        <5> QED
          BY <2>5, <4>2, <5>1, <5>2
    <3> QED
      BY <3>1, <3>2
  <2>11. ASSUME NEW i \in 1..(Len(s) + 1), i # 1
         PROVE  \E j \in 1..Len(s) : i = j + 1 /\ stack'[b][i] = s[j]
    <3>1. i - 1 \in 1..Len(s) /\ i = (i - 1) + 1
      BY <2>2, <2>11
    <3> QED
      BY <2>2, <3>1
  <2>12. ASSUME NEW i \in 1..(Len(s) + 1), NEW j \in 1..(Len(s) + 1), stack'[b][i] = stack'[b][j]
         PROVE  i = j
    BY <2>2, <2>3, <2>7, <2>11, <2>12
  <2>13. ASSUME NEW d \in changes'[b], backup'[d] # Absent
         PROVE  \E i \in 1..(Len(s) + 1) : stack'[b][i] = d
    <3>1. CASE d = r
      <4>1. 1 \in 1..(Len(s) + 1)
        BY <2>2
      <4> QED
        BY <2>2, <3>1, <4>1
    <3>2. CASE d # r
      <4>1. d \in changes[b] /\ backup[d] # Absent
        BY <1>4, <1>7, <2>13, <3>2
      <4>2. PICK i \in 1..Len(s) : s[i] = d
        BY <2>8, <4>1
      <4>3. i + 1 \in 1..(Len(s) + 1)
        BY <2>2
      <4> QED
        BY <2>2, <4>2, <4>3
    <3> QED
      BY <3>1, <3>2
  <2>14. Stacked(b)'
    BY <2>2, <2>10, <2>12, <2>13 DEF Stacked
  <2>15. HandlerStands(r, b)'
    BY <1>1, <2>9, <2>20 DEF HandlerStands
  <2> QED
    BY <1>1, <2>1, <2>14, <2>15, HandledGoesOn
<1> QED
  BY <1>1, <1>3, <1>4, <1>5, <1>6, <1>8, <1>9, OwnBox

LEMMA FileActStacks ==
    ASSUME DemoInv, StackInv, NEW r \in Runs, CleanLog(r) \/ ReplaceConfig(r)
    PROVE  StackInv'
<1>0. PICK b \in Boxes : b = run[r].box
  BY DEF DemoInv, DemoShapes, RunRecord
<1>t. /\ StackShapes /\ b \in 1..box /\ file[b] \in Files /\ temp[b] \in Files
      /\ Absent \in Files /\ RunStands(r)
  BY <1>0 DEF StackInv, StackShapes, RunStands, Files
<1>1. CASE CleanLog(r)
  <2>1. /\ run[r].pc = "consumed" /\ Uses(r, "safe_log_cleanup")
        /\ UNCHANGED <<box, temp, token, astray>>
    BY <1>1 DEF CleanLog
  <2>2. CASE file[b] = Absent
    BY <1>0, <1>1, <2>1, <2>2, ErrsStacks DEF CleanLog, Errs, TempKept
  <2>3. CASE file[b] # Absent
    <3>1. /\ backup' = [backup EXCEPT ![r] = file[b]]
          /\ file' = [file EXCEPT ![b] = Absent] /\ Acted(r)
      BY <1>0, <1>1, <2>3 DEF CleanLog
    <3>2. /\ backup'[r] = file[b] /\ (\A d \in Runs \ {r} : backup'[d] = backup[d])
          /\ file'[b] = Absent /\ (\A v \in Boxes \ {b} : file'[v] = file[v])
          /\ file' \in [Boxes -> Files] /\ backup' \in [Runs -> Files] /\ temp' \in [Boxes -> Files]
      BY <1>t, <2>1, <3>1 DEF StackShapes
    <3>3. Handling(r)
      BY <2>1 DEF Handling
    <3>4. b \notin astray => file[b] = Content(b, 1)
      BY <1>0, <2>1, <3>3, HandlerIs DEF HandlerStands
    <3> QED
      BY <1>0, <2>1, <2>3, <3>1, <3>2, <3>3, <3>4, PushStacks DEF Cleans
  <2> QED
    BY <2>2, <2>3
<1>2. CASE ReplaceConfig(r)
  <2>1. /\ run[r].pc = "written" /\ temp' = [temp EXCEPT ![b] = Absent]
        /\ UNCHANGED <<box, backup, token, astray>>
    BY <1>0, <1>2 DEF ReplaceConfig
  <2>2. \/ run' = [run EXCEPT ![r].pc = "rejected"] /\ UNCHANGED <<file, changes, stack>>
        \/ run' = [run EXCEPT ![r].pc = "error"] /\ UNCHANGED <<file, changes, stack>>
        \/ temp[b] # Absent /\ file' = [file EXCEPT ![b] = temp[b]] /\ Acted(r)
    BY <1>0, <1>2 DEF ReplaceConfig, Errs
  <2>3. TempKept(r)
    BY <1>0, <2>1 DEF TempKept
  <2>4. CASE run' = [run EXCEPT ![r].pc = "rejected"] /\ UNCHANGED <<file, changes, stack>>
    BY <2>1, <2>3, <2>4, ErrsStacks
  <2>5. CASE run' = [run EXCEPT ![r].pc = "error"] /\ UNCHANGED <<file, changes, stack>>
    BY <2>1, <2>3, <2>5, ErrsStacks
  <2>6. CASE temp[b] # Absent /\ file' = [file EXCEPT ![b] = temp[b]] /\ Acted(r)
    <3>1. /\ file'[b] = temp[b]
          /\ \A v \in Boxes \ {b} : file'[v] = file[v] /\ temp'[v] = temp[v]
          /\ file' \in [Boxes -> Files] /\ temp' \in [Boxes -> Files] /\ backup' \in [Runs -> Files]
      BY <1>t, <2>1, <2>6 DEF StackShapes
    <3>2. Handling(r)
      BY <2>1 DEF Handling
    <3>3. Uses(r, "config_safe_update") /\ ~Cleans(r)
      BY <1>t, <2>1, TokenOfRun DEF RunStands, Cleans
    <3>4. b \notin astray => temp[b] = r /\ backup[r] = Content(b, 1) /\ Content(b, 1) # Absent
      BY <1>0, <2>1, <3>2, HandlerIs DEF HandlerStands
    <3> QED
      BY <1>0, <2>1, <2>6, <3>1, <3>2, <3>3, <3>4, PushStacks
  <2> QED
    BY <2>2, <2>4, <2>5, <2>6
<1> QED
  BY <1>1, <1>2

-----------------------------------------------------------------------------
LEMMA RequestStacks ==
    ASSUME DemoInv, StackInv,
           \/ Reset \/ (\E t \in Tokens : Approve(t)) \/ \E r \in Runs : Select(r)
    PROVE  StackInv'
<1>1. \A r \in Runs : run[r].box \in Boxes /\ run[r].token \subseteq Tokens
  BY DEF DemoInv, DemoShapes, RunRecord
<1>2. CASE Reset
  <2>1. /\ box <= MaxResets /\ box' = box + 1 /\ box \in Boxes
        /\ file' = [file EXCEPT ![box + 1] = Original]
        /\ UNCHANGED <<temp, backup, changes, stack, token, run, astray>>
    BY <1>2 DEF Reset, history, DemoInv, DemoShapes
  <2>2. /\ box + 1 \in Boxes /\ box + 1 \notin 1..box /\ 1..box' = 1..box \cup {box + 1}
        /\ 1..box \subseteq Boxes
    BY <2>1, DemoAssumption DEF Boxes
  <2>3. file'[box + 1] = Original /\ (\A v \in Boxes \ {box + 1} : file'[v] = file[v]) /\ StackShapes'
    BY <2>1, <2>2 DEF StackInv, StackShapes, Files
  <2>4. ToolsKept
    BY <2>1 DEF ToolsKept
  <2>5. ASSUME NEW r \in Runs PROVE RunStands(r)'
    BY <2>1, <2>2 DEF StackInv, RunStands, Uses
  <2>6. ASSUME NEW b \in Boxes PROVE ChangesStand(b)'
    BY <2>1, <2>2 DEF StackInv, ChangesStand
  <2>7. ASSUME NEW b \in Boxes \ astray' PROVE Stacked(b)' /\ Handled(b)'
    <3>1. Stacked(b)' /\ Content(b, 1)' = Content(b, 1)
      BY <2>1, <2>4, <2>7, StackedStays
    <3>2. Handled(b) /\ ChangesStand(b)
      BY <2>1, <2>7 DEF StackInv
    <3>3. b = box + 1 => file'[b] = Content(b, 1)
      BY <2>2, <2>3, <3>2 DEF ChangesStand, Content
    <3>4. b \in 1..box' /\ b # box + 1 => b \in 1..box
      BY <2>2
    <3>5. \A q \in Runs : Handling(q)' <=> Handling(q)
      BY <2>1 DEF Handling
    <3> QED
      BY <2>1, <2>3, <3>1, <3>2, <3>3, <3>4, <3>5 DEF Handled
  <2> QED
    BY <2>3, <2>5, <2>6, <2>7 DEF StackInv
<1>3. ASSUME NEW t \in Tokens, Approve(t) PROVE StackInv'
  <2>1. /\ token[t].status = "none" /\ UNCHANGED <<box, file, temp, backup, changes, stack, run, astray>>
        /\ \A u \in Tokens \ {t} : token'[u] = token[u]
        /\ token'[t].status = "APPROVED"
    BY <1>3 DEF Approve, sandbox, history, DemoInv, DemoShapes
  <2>2. ToolsKept
    BY <2>1 DEF ToolsKept
  <2>3. ASSUME NEW r \in Runs PROVE RunStands(r)'
    <3>1. \A u \in run[r].token : u # t /\ token'[u] = token[u]
      BY <1>1, <2>1 DEF StackInv, RunStands
    <3> QED
      BY <2>1, <3>1 DEF StackInv, RunStands, Uses
  <2>4. ASSUME NEW b \in Boxes PROVE ChangesStand(b)'
    BY <2>1 DEF StackInv, ChangesStand
  <2>5. ASSUME NEW b \in Boxes \ astray' PROVE Stacked(b)' /\ Handled(b)'
    <3>1. Stacked(b)' /\ Content(b, 1)' = Content(b, 1)
      BY <2>1, <2>2, <2>5, StackedStays
    <3>2. \A q \in Runs : Handling(q)' <=> Handling(q)
      BY <2>1 DEF Handling
    <3> QED
      BY <2>1, <2>5, <3>1, <3>2 DEF StackInv, Handled
  <2> QED
    BY <2>1, <2>3, <2>4, <2>5 DEF StackInv, StackShapes
<1>4. ASSUME NEW r \in Runs, Select(r) PROVE StackInv'
  <2>1. PICK t \in Tokens, to \in {"selected", "rejected"}, fault \in BOOLEAN :
          /\ token[t].status = "APPROVED" /\ run[r].pc = "idle"
          /\ run' = [run EXCEPT ![r] = [pc |-> to, token |-> {t}, box |-> box, undo |-> Absent,
                                        fault |-> fault]]
          /\ UNCHANGED <<box, file, temp, backup, changes, stack, token, astray>>
    BY <1>4 DEF Select, sandbox, history
  <2>2. /\ run'[r].pc = to /\ run'[r].token = {t} /\ run'[r].box = box
        /\ \A q \in Runs \ {r} : run'[q] = run[q]
    BY <2>1 DEF DemoInv, DemoShapes
  <2>3. ToolsKept
    BY <2>1, <2>2 DEF ToolsKept
  <2>4. box \in 1..box
    BY DemoAssumption DEF DemoInv, DemoShapes, Boxes
  <2>5. ASSUME NEW q \in Runs PROVE RunStands(q)'
    <3>1. CASE q = r
      BY <2>1, <2>2, <2>4, <3>1 DEF StackInv, RunStands, Before
    <3>2. CASE q # r
      BY <2>1, <2>2, <3>2 DEF StackInv, RunStands, Uses
    <3> QED
      BY <3>1, <3>2
  <2>6. \A b \in Boxes : \A c \in changes[b] : c \in Runs /\ c # r
    BY <2>1 DEF StackInv, StackShapes, ChangesStand, After
  <2>7. ASSUME NEW b \in Boxes PROVE ChangesStand(b)'
    BY <2>1, <2>2, <2>6 DEF StackInv, ChangesStand
  <2>8. ASSUME NEW b \in Boxes \ astray' PROVE Stacked(b)' /\ Handled(b)'
    <3>1. Stacked(b)' /\ Content(b, 1)' = Content(b, 1)
      BY <2>1, <2>3, <2>8, StackedStays
    <3>2. /\ ~Handling(r) /\ ~Handling(r)' /\ \A q \in Runs \ {r} : Handling(q)' <=> Handling(q)
          /\ run[r].pc \notin {"copied", "written", "unlinked"}
          /\ run'[r].pc \notin {"copied", "written", "unlinked"}
      BY <2>1, <2>2 DEF Handling
    <3>3. Handled(b)
      BY <2>1, <2>8 DEF StackInv
    <3>4. \A p, q \in Runs : Handling(p)' /\ Handling(q)' /\ run'[p].box = b /\ run'[q].box = b => p = q
      BY <2>2, <3>2, <3>3 DEF Handled
    <3>5. \A q \in Runs : run'[q].pc \in {"copied", "written", "unlinked"} => run'[q] = run[q]
      BY <2>2, <3>2
    <3>6. (\A q \in Runs : run'[q].box = b => run'[q].pc # "unlinked")
            => \A q \in Runs : run[q].box = b => run[q].pc # "unlinked"
      BY <2>2, <3>2
    <3>7. \A q \in Runs : run'[q].box = b =>
            /\ run'[q].pc \in {"copied", "written"} => backup[q] = Content(b, 1) /\ Content(b, 1) # Absent
            /\ run'[q].pc = "written" => temp[b] = q
            /\ run'[q].pc = "unlinked" => backup[run'[q].undo] # Absent
      BY <3>3, <3>5 DEF Handled
    <3> QED
      BY <2>1, <3>1, <3>3, <3>4, <3>6, <3>7 DEF Handled
  <2> QED
    BY <2>1, <2>5, <2>7, <2>8 DEF StackInv, StackShapes
<1> QED
  BY <1>2, <1>3, <1>4

LEMMA StackInductive ==
    ASSUME DemoInv, StackInv, [DemoNext]_demoVars
    PROVE  StackInv'
<1>1. CASE Reset \/ (\E t \in Tokens : Approve(t)) \/ \E r \in Runs : Select(r)
  BY <1>1, RequestStacks
<1>2. ASSUME NEW r \in Runs, CheckNonce(r) \/ AddNonce(r)
      PROVE  StackInv'
  BY <1>2, NonceStacks
<1>3. ASSUME NEW r \in Runs,
             \/ RestartService(r) \/ TerminateProcess(r) \/ CleanLog(r)
             \/ CopyConfig(r) \/ WriteConfig(r) \/ ReplaceConfig(r)
      PROVE  StackInv'
  BY <1>3, OtherActStacks, FileActStacks, CopyStacks, WriteStacks
<1>4. ASSUME NEW r \in Runs, FindChange(r) \/ ClearTarget(r) \/ MoveBack(r)
      PROVE  StackInv'
  BY <1>4, FindStacks, ClearStacks, MoveStacks
<1>5. ASSUME NEW r \in Runs, Succeed(r) \/ Reject(r) \/ Crash(r)
      PROVE  StackInv'
  BY <1>5, EndStacks
<1>6. ASSUME UNCHANGED demoVars
      PROVE  StackInv'
  <2>1. /\ UNCHANGED <<box, file, temp, backup, changes, token, run, stack, astray>>
        /\ \A q \in Runs : Handling(q)' <=> Handling(q)
    BY <1>6 DEF demoVars, Handling
  <2>2. ToolsKept
    BY <2>1 DEF ToolsKept
  <2>3. ASSUME NEW b \in Boxes \ astray' PROVE Stacked(b)' /\ Handled(b)'
    <3>1. Stacked(b)' /\ Content(b, 1)' = Content(b, 1)
      BY <2>1, <2>2, <2>3, StackedStays
    <3> QED
      BY <2>1, <2>3, <3>1 DEF StackInv, Handled
  <2>4. \A r \in Runs : RunStands(r)'
    BY <2>1 DEF StackInv, RunStands, Uses
  <2> QED
    BY <2>1, <2>3, <2>4 DEF StackInv, StackShapes, ChangesStand
<1> QED
  BY <1>1, <1>2, <1>3, <1>4, <1>5, <1>6 DEF DemoNext

\* As long as handlers do not overlap and the latest change is undone first, the changes of a
\* sandbox's file are a stack, whatever faults, rejections, undone transactions and resets come
\* between: the file is what the latest change in effect made of it (controlled.py:83-103,
\* 105-137).
THEOREM ChangesAreStack == DemoSpec => []ChangesStack
<1>1. DemoInit => StackInv
  <2> SUFFICES ASSUME DemoInit PROVE StackInv
    OBVIOUS
  <2>1. 1 \in Boxes /\ box = 1 /\ 1..box = {1}
    BY DemoAssumption DEF DemoInit, Boxes
  <2>2. /\ \A r \in Runs : run[r].pc = "idle" /\ run[r].token = {} /\ run[r].box = 1
        /\ \A r \in Runs : backup[r] = Absent
        /\ \A b \in Boxes : changes[b] = {} /\ stack[b] = <<>>
        /\ file[1] = Original
    BY <2>1 DEF DemoInit
  <2>3. StackShapes
    BY DEF DemoInit, StackShapes, Files
  <2>4. ASSUME NEW b \in Boxes
        PROVE  ChangesStand(b) /\ Stacked(b) /\ Handled(b)
    <3>1. ChangesStand(b) /\ Stacked(b) /\ Content(b, 1) = Original
      BY <2>2 DEF ChangesStand, Stacked, Content
    <3> QED
      BY <2>1, <2>2, <3>1 DEF Handled, Handling
  <2> QED
    BY <2>1, <2>2, <2>3, <2>4 DEF StackInv, RunStands
<1>2. DemoInv /\ StackInv => ChangesStack
  <2> SUFFICES ASSUME DemoInv, StackInv, NEW b \in 1..box \ astray,
                      \A r \in Runs : run[r].box = b => ~Handling(r)
               PROVE  IF stack[b] = <<>> THEN file[b] = Original
                      ELSE file[b] = IF Uses(Head(stack[b]), "safe_log_cleanup") THEN Absent
                                                                                ELSE Head(stack[b])
    BY DEF ChangesStack
  <2>1. b \in Boxes
    BY DemoAssumption DEF DemoInv, DemoShapes, Boxes
  <2>2. file[b] = Content(b, 1)
    BY <2>1 DEF StackInv, Handled, Handling
  <2>3. stack[b] \in Seq(Runs)
    BY <2>1 DEF StackInv, StackShapes
  <2> QED
    BY <2>2, <2>3 DEF Content, Cleans
<1> QED
  BY <1>1, <1>2, DemoStart, DemoInductive, StackInductive, PTL DEF DemoSpec

=============================================================================
