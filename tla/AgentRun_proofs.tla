-------------------------- MODULE AgentRun_proofs --------------------------
(***************************************************************************)
(* Proofs about AgentRun and Planning for any goals, any plans a model may *)
(* answer, any files and any readings.                                     *)
(***************************************************************************)
EXTENDS AgentRun, SequenceTheorems, FiniteSetTheorems, TLAPS

-----------------------------------------------------------------------------
(* The plan of the rules.                                                  *)

\* The tools the rules plan with.
RuleTools == {"disk_usage_scan", "large_file_scan", "service_status", "memory_snapshot",
              "filesystem_inventory", "port_owner_lookup", "network_config_snapshot",
              "package_inventory", "scheduled_task_inventory", "login_audit", "kernel_log_query",
              "process_list", "system_snapshot", "network_socket_list", "journal_query"}

\* A goal is routed by one of the rows, the last of which every goal fits.
LEMMA RouteIsRow ==
    ASSUME NEW g \in Goal
    PROVE  \E i \in 1..14 : Route(g) = RouteTable[i]
<1> DEFINE hits == {i \in DOMAIN RouteTable : RouteTable[i].topics \subseteq g.topics}
<1>1. DOMAIN RouteTable = 1..14
  BY DEF RouteTable
<1>2. RouteTable[14].topics = {}
  BY DEF RouteTable
<1>3. hits \subseteq 1..14 /\ 14 \in hits
  BY <1>1, <1>2
<1> HIDE DEF hits
<1>4. \E i \in hits : \A j \in hits : i <= j
  BY <1>3
<1>5. (CHOOSE i \in hits : \A j \in hits : i <= j) \in hits
  BY <1>4
<1>6. Route(g) = RouteTable[CHOOSE i \in hits : \A j \in hits : i <= j]
  BY DEF Route, hits
<1> QED
  BY <1>3, <1>5, <1>6

LEMMA RowsUseRuleTools ==
    ASSUME NEW i \in 1..14
    PROVE  RouteTable[i].tool \in RuleTools
  BY DEF RouteTable, RuleTools

\* Of these, those the registry rates 2 are on the planner's list.
LEMMA RuleToolsRated ==
    ASSUME NEW t \in RuleTools
    PROVE  /\ t \in Tools /\ Authorized(t)
           /\ InherentRisk(t) \in {1, 2} /\ (InherentRisk(t) = 2 => IsL2Tool(t))
  BY DEF RuleTools, Tools, L1Tools, L2Tools, Authorized, InherentRisk, IsL2Tool

LEMMA RequiredAreRuleTools ==
    ASSUME NEW g \in Goal
    PROVE  RequiredTools(g) \in Seq(RuleTools)
<1>1. Route(g).tool \in RuleTools
  BY RouteIsRow, RowsUseRuleTools
<1>2. /\ <<"disk_usage_scan">> \in Seq(RuleTools) /\ <<"large_file_scan">> \in Seq(RuleTools)
      /\ <<"disk_usage_scan">> \o <<"large_file_scan">> \in Seq(RuleTools)
      /\ <<>> \in Seq(RuleTools)
      /\ <<"network_config_snapshot", "network_socket_list">> \in Seq(RuleTools)
  BY DEF RuleTools
<1>3. <<Route(g).tool>> \in Seq(RuleTools)
  BY <1>1
<1> DEFINE disk == IF "disk" \in g.topics THEN <<"disk_usage_scan">> ELSE <<>>
           cleanup == IF "cleanup" \in g.topics THEN <<"large_file_scan">> ELSE <<>>
<1>4. disk \in Seq(RuleTools) /\ cleanup \in Seq(RuleTools)
  BY <1>2
<1> HIDE DEF disk, cleanup
<1>5. disk \o cleanup \in Seq(RuleTools)
  BY <1>4
<1>6. RequiredTools(g) \in {disk \o cleanup, <<"network_config_snapshot", "network_socket_list">>,
                            <<Route(g).tool>>}
  BY DEF RequiredTools, disk, cleanup
<1> QED
  BY <1>2, <1>3, <1>5, <1>6

\* What the rules plan: fit steps for the required tools and perhaps the journal.
LEMMA FallbackShape ==
    ASSUME NEW g \in Goal
    PROVE  \E tools \in Seq(RuleTools) :
              /\ RuleFallback(g).steps = [i \in DOMAIN tools |-> Step(tools[i])]
              /\ SetOf(RequiredTools(g)) \subseteq SetOf(tools)
              /\ RuleFallback(g).risk = 2 \/ (RuleFallback(g).risk = 1
                                                /\ \A t \in SetOf(tools) : ~IsL2Tool(t))
              /\ RuleFallback(g).goalKept /\ RuleFallback(g).by = "rules"
<1> DEFINE required == RequiredTools(g)
           tools == IF Route(g).tool = "service_status" THEN Append(required, "journal_query") ELSE required
           risk == IF Route(g).intent = "CLEANUP" \/ \E t \in SetOf(tools) : IsL2Tool(t) THEN 2 ELSE 1
<1>1. required \in Seq(RuleTools)
  BY RequiredAreRuleTools
<1>2. Append(required, "journal_query") \in Seq(RuleTools)
        /\ SetOf(required) \subseteq SetOf(Append(required, "journal_query"))
  BY <1>1 DEF RuleTools, SetOf
<1>3. tools \in Seq(RuleTools) /\ SetOf(required) \subseteq SetOf(tools)
  BY <1>1, <1>2
<1>4. risk = 2 \/ (risk = 1 /\ \A t \in SetOf(tools) : ~IsL2Tool(t))
  OBVIOUS
<1>5. RuleFallback(g) =
        [by |-> "rules", goalKept |-> TRUE, intent |-> Route(g).intent, risk |-> risk,
         steps |-> [i \in DOMAIN tools |-> Step(tools[i])]]
  BY DEF RuleFallback
<1> HIDE DEF required, tools, risk
<1>6. SetOf(RequiredTools(g)) \subseteq SetOf(tools)
  BY <1>3 DEF required
<1> QED
  BY <1>3, <1>4, <1>5, <1>6

\* The rules' plan passes the validation, and all its arguments fit.
LEMMA FallbackIsValid ==
    ASSUME NEW g \in Goal
    PROVE  LET p == Normalized(RuleFallback(g), g)
           IN  /\ Valid(p, g) /\ p.by = "rules"
               /\ \A i \in DOMAIN p.steps : p.steps[i].arguments = "fit"
<1> DEFINE q == RuleFallback(g)
           p == Normalized(q, g)
<1>1. PICK tools \in Seq(RuleTools) :
        /\ q.steps = [i \in DOMAIN tools |-> Step(tools[i])]
        /\ SetOf(RequiredTools(g)) \subseteq SetOf(tools)
        /\ q.risk = 2 \/ (q.risk = 1 /\ \A t \in SetOf(tools) : ~IsL2Tool(t))
        /\ q.goalKept /\ q.by = "rules"
  BY FallbackShape
<1>2. DOMAIN q = {"by", "goalKept", "intent", "risk", "steps"}
  BY DEF RuleFallback
<1> HIDE DEF q
<1> DEFINE steps == [i \in DOMAIN tools |-> Step(tools[i])]
           normal == [i \in DOMAIN steps |->
                        IF FilledIn(steps[i].tool, g) THEN Step(steps[i].tool) ELSE steps[i]]
<1>3. p = [q EXCEPT !.steps = normal]
  BY <1>1 DEF Normalized
<1>4. DOMAIN normal = DOMAIN tools
        /\ \A i \in DOMAIN tools : normal[i].tool = tools[i] /\ normal[i].arguments = "fit"
  BY DEF Step
<1> HIDE DEF normal, steps
<1>5. /\ p.steps = normal /\ p.risk = q.risk /\ p.goalKept = q.goalKept /\ p.by = q.by
  BY <1>2, <1>3
<1> HIDE DEF p
<1>6. ASSUME NEW i \in DOMAIN tools
      PROVE  tools[i] \in Tools /\ Authorized(tools[i]) /\ InherentRisk(tools[i]) <= p.risk
  <2>1. tools[i] \in RuleTools
    OBVIOUS
  <2>2. tools[i] \in SetOf(tools)
    BY DEF SetOf
  <2>3. InherentRisk(tools[i]) \in {1, 2} /\ (InherentRisk(tools[i]) = 2 => IsL2Tool(tools[i]))
    BY <2>1, RuleToolsRated
  <2>4. InherentRisk(tools[i]) <= p.risk
    <3>1. CASE q.risk = 2
      BY <1>5, <2>3, <3>1
    <3>2. CASE q.risk = 1 /\ \A t \in SetOf(tools) : ~IsL2Tool(t)
      BY <1>5, <2>2, <2>3, <3>2
    <3> QED
      BY <1>1, <3>1, <3>2
  <2> QED
    BY <2>1, <2>4, RuleToolsRated
<1>7. SetOf(tools) \subseteq {p.steps[i].tool : i \in DOMAIN p.steps}
  BY <1>4, <1>5 DEF SetOf
<1>8. Valid(p, g)
  BY <1>1, <1>4, <1>5, <1>6, <1>7 DEF Valid
<1>9. p.by = "rules" /\ \A i \in DOMAIN p.steps : p.steps[i].arguments = "fit"
  BY <1>1, <1>4, <1>5
<1> QED
  BY <1>8, <1>9 DEF p, q

-----------------------------------------------------------------------------
(* What ends a run with an exception.                                      *)

StepRecord == [tool : Tools \cup {"run_command"}, arguments : Arguments]

AnyReading == UNION {Readings(t) \cup {Default(t)} : t \in Tools \cup {"run_command"}}

EvidenceRecord == [tool : Tools \cup {"run_command"}, ok : BOOLEAN, reading : AnyReading]

Shapes ==
    /\ goal \in Goal
    /\ evidence \in Seq(EvidenceRecord)
    /\ pc \in {"running", "raised"} => plan.by \in {"model", "rules"} /\ plan.steps \in Seq(StepRecord)

\* Arguments fit unless the model chose them: the rules' do, and those that are filled in.
Fitting(p) ==
    \A i \in DOMAIN p.steps :
        p.by = "rules" \/ FilledIn(p.steps[i].tool, goal) => p.steps[i].arguments = "fit"

OthersFit == pc = "running" => Fitting(plan)

RaiseInv == Shapes /\ OthersFit /\ RaisesOnlyOverModelsArguments

LEMMA NormalizedShape ==
    ASSUME NEW q, NEW g, "steps" \in DOMAIN q, "by" \in DOMAIN q, q.steps \in Seq(StepRecord)
    PROVE  LET p == Normalized(q, g)
           IN  /\ p.steps \in Seq(StepRecord) /\ p.by = q.by
               /\ \A i \in DOMAIN p.steps : FilledIn(p.steps[i].tool, g) => p.steps[i].arguments = "fit"
<1> DEFINE normal == [i \in DOMAIN q.steps |->
                        IF FilledIn(q.steps[i].tool, g) THEN Step(q.steps[i].tool) ELSE q.steps[i]]
<1>1. Normalized(q, g) = [q EXCEPT !.steps = normal]
  BY DEF Normalized
<1>2. \A s \in StepRecord : Step(s.tool) \in StepRecord
  BY DEF StepRecord, Step, Arguments
<1>3. \A i \in DOMAIN q.steps : normal[i] \in StepRecord
  BY <1>2
<1>4. DOMAIN q.steps = 1..Len(q.steps) /\ Len(q.steps) \in Nat
  OBVIOUS
<1>5. normal \in [1..Len(q.steps) -> StepRecord]
  BY <1>3, <1>4
<1>7. \A i \in DOMAIN normal : FilledIn(normal[i].tool, g) => normal[i].arguments = "fit"
  <2>1. \A t : Step(t).tool = t /\ Step(t).arguments = "fit"
    BY DEF Step
  <2> QED
    BY <2>1
<1> HIDE DEF normal
<1>6. normal \in Seq(StepRecord)
  BY <1>4, <1>5
<1>8. Normalized(q, g).steps = normal /\ Normalized(q, g).by = q.by
  BY <1>1
<1> QED
  BY <1>6, <1>7, <1>8

LEMMA FallbackSteps ==
    ASSUME NEW g \in Goal
    PROVE  Normalized(RuleFallback(g), g).steps \in Seq(StepRecord)
<1>1. PICK tools \in Seq(RuleTools) : RuleFallback(g).steps = [i \in DOMAIN tools |-> Step(tools[i])]
  BY FallbackShape
<1>2. \A t \in RuleTools : Step(t) \in StepRecord
  BY RuleToolsRated DEF StepRecord, Step, Arguments
<1>3. DOMAIN tools = 1..Len(tools) /\ Len(tools) \in Nat
  OBVIOUS
<1>4. \A i \in DOMAIN tools : Step(tools[i]) \in StepRecord
  BY <1>2
<1>5. RuleFallback(g).steps \in Seq(StepRecord)
  BY <1>1, <1>3, <1>4
<1>6. "steps" \in DOMAIN RuleFallback(g) /\ "by" \in DOMAIN RuleFallback(g)
  BY DEF RuleFallback
<1> QED
  BY <1>5, <1>6, NormalizedShape

\* The step that is next is one of the plan's.
LEMMA NextStepOfPlan ==
    ASSUME Shapes, pc = "running", Len(evidence) < Len(Steps)
    PROVE  /\ Len(evidence) + 1 \in DOMAIN plan.steps /\ Len(evidence) + 1 \in DOMAIN Steps
           /\ Steps[Len(evidence) + 1] = plan.steps[Len(evidence) + 1]
<1> DEFINE n == IF Len(plan.steps) < MaxSteps THEN Len(plan.steps) ELSE MaxSteps
<1>1. plan.steps \in Seq(StepRecord) /\ Len(plan.steps) \in Nat /\ Len(evidence) \in Nat
        /\ DOMAIN plan.steps = 1..Len(plan.steps)
  BY DEF Shapes
<1>2. MaxSteps \in 1..10
  BY RunAssumption
<1>3. n \in Nat /\ n <= Len(plan.steps)
  BY <1>1, <1>2
<1>4. Steps = SubSeq(plan.steps, 1, n)
  BY DEF Steps
<1> HIDE DEF n
<1>5. Len(Steps) = n /\ DOMAIN Steps = 1..n /\ \A i \in 1..n : Steps[i] = plan.steps[i]
  BY <1>1, <1>3, <1>4
<1> QED
  BY <1>1, <1>3, <1>5

\* Planning ends a run or adopts a plan of known shape.
LEMMA AdoptKeeps ==
    ASSUME RaiseInv, NEW p, Adopt(p), p.by \in {"model", "rules"}, p.steps \in Seq(StepRecord),
           Fitting(p), UNCHANGED <<goal, evidence>>
    PROVE  RaiseInv'
<1>1. plan' = p /\ pc' \in {"ended", "running"}
  BY DEF Adopt
<1>2. Fitting(plan)'
  BY <1>1 DEF Fitting
<1> QED
  BY <1>1, <1>2 DEF RaiseInv, Shapes, OthersFit, RaisesOnlyOverModelsArguments

\* Steps after which no plan is run and none is blamed.
LEMMA NotRunning ==
    ASSUME RaiseInv, pc' \notin {"running", "raised"}, UNCHANGED goal, evidence' \in Seq(EvidenceRecord)
    PROVE  RaiseInv'
  BY DEF RaiseInv, Shapes, OthersFit, RaisesOnlyOverModelsArguments

LEMMA PostAnswersKeeps ==
    ASSUME RaiseInv, PostAnswers
    PROVE  RaiseInv'
<1>1. PICK offer \in Offers :
        /\ IF Valid(Normalized(offer, goal), goal)
             THEN Adopt(Normalized(offer, goal))
             ELSE pc' = "fallback"
        /\ UNCHANGED <<goal, evidence>>
  BY DEF PostAnswers
<1>2. offer \in PlanRecord /\ offer.by = "model"
  BY RunAssumption
<1>3. offer.steps \in Seq(StepRecord) /\ "steps" \in DOMAIN offer /\ "by" \in DOMAIN offer
  BY <1>2 DEF PlanRecord, StepRecord
<1>4. /\ Normalized(offer, goal).steps \in Seq(StepRecord) /\ Normalized(offer, goal).by = "model"
      /\ Fitting(Normalized(offer, goal))
  BY <1>2, <1>3, NormalizedShape DEF Fitting
<1>5. CASE Valid(Normalized(offer, goal), goal)
  BY <1>1, <1>4, <1>5, AdoptKeeps
<1>6. CASE ~Valid(Normalized(offer, goal), goal)
  BY <1>1, <1>6, NotRunning DEF RaiseInv, Shapes
<1> QED
  BY <1>5, <1>6

LEMMA FallbackKeeps ==
    ASSUME RaiseInv, Fallback
    PROVE  RaiseInv'
<1> DEFINE p == Normalized(RuleFallback(goal), goal)
<1>1. Valid(p, goal) /\ p.by = "rules" /\ \A i \in DOMAIN p.steps : p.steps[i].arguments = "fit"
  BY FallbackIsValid DEF RaiseInv, Shapes
<1>2. p.steps \in Seq(StepRecord)
  BY FallbackSteps DEF RaiseInv, Shapes
<1>3. (IF Valid(p, goal) THEN Adopt(p) ELSE pc' = "raised") /\ UNCHANGED <<goal, evidence>>
  BY DEF Fallback
<1>4. Fitting(p)
  BY <1>1 DEF Fitting
<1> HIDE DEF p
<1> QED
  BY <1>1, <1>2, <1>3, <1>4, AdoptKeeps

LEMMA CallToolKeeps ==
    ASSUME RaiseInv, CallTool
    PROVE  RaiseInv'
<1> DEFINE i == Len(evidence) + 1
           step == Steps[i]
<1>1. /\ pc = "running" /\ Len(evidence) < Len(Steps)
      /\ \/ Unfit(step) /\ pc' = "raised" /\ UNCHANGED evidence
         \/ Collect(step.tool, FALSE, Default(step.tool)) /\ pc' = "scanned"
         \/ /\ \E reading \in Readings(step.tool) : Collect(step.tool, TRUE, reading)
            /\ UNCHANGED pc
      /\ UNCHANGED <<goal, plan>>
  BY DEF CallTool
<1>2. i \in DOMAIN plan.steps /\ step = plan.steps[i] /\ i \in DOMAIN Steps
  BY <1>1, NextStepOfPlan DEF RaiseInv
<1>3. plan.steps \in Seq(StepRecord)
  BY <1>1 DEF RaiseInv, Shapes
<1>4. step \in StepRecord
  BY <1>2, <1>3
<1>5. UNCHANGED Steps
  BY <1>1 DEF Steps
<1>6. CASE Unfit(step) /\ pc' = "raised" /\ UNCHANGED evidence
  <2>1. step.arguments # "fit"
    BY <1>6 DEF Unfit
  <2>2. plan.by = "model" /\ ~FilledIn(step.tool, goal)
    BY <1>1, <1>2, <2>1 DEF RaiseInv, Shapes, OthersFit, Fitting
  <2>3. RaisesOnlyOverModelsArguments'
    BY <1>1, <1>2, <1>5, <1>6, <2>2 DEF RaisesOnlyOverModelsArguments
  <2> QED
    BY <1>1, <1>6, <2>3 DEF RaiseInv, Shapes, OthersFit
<1> HIDE DEF i, step
<1>7. ASSUME NEW ok \in BOOLEAN, NEW reading \in Readings(step.tool) \cup {Default(step.tool)},
             Collect(step.tool, ok, reading)
      PROVE  evidence' \in Seq(EvidenceRecord)
  <2>0. step.tool \in Tools \cup {"run_command"}
    BY <1>4 DEF StepRecord
  <2>1. [tool |-> step.tool, ok |-> ok, reading |-> reading] \in EvidenceRecord
    BY <2>0 DEF EvidenceRecord, AnyReading
  <2>2. evidence \in Seq(EvidenceRecord)
    BY DEF RaiseInv, Shapes
  <2> QED
    BY <1>7, <2>1, <2>2 DEF Collect
<1>8. CASE Collect(step.tool, FALSE, Default(step.tool)) /\ pc' = "scanned"
  <2>1. evidence' \in Seq(EvidenceRecord)
    BY <1>7, <1>8
  <2> QED
    BY <1>1, <1>8, <2>1, NotRunning
<1>9. CASE (\E reading \in Readings(step.tool) : Collect(step.tool, TRUE, reading)) /\ UNCHANGED pc
  <2>1. evidence' \in Seq(EvidenceRecord)
    BY <1>7, <1>9
  <2>2. Fitting(plan)'
    BY <1>1 DEF RaiseInv, OthersFit, Fitting
  <2> QED
    BY <1>1, <1>9, <2>1, <2>2 DEF RaiseInv, Shapes, OthersFit, RaisesOnlyOverModelsArguments
<1> QED
  BY <1>1, <1>6, <1>8, <1>9

LEMMA RaiseStart == Init => RaiseInv
  BY RunAssumption DEF Init, RaiseInv, Shapes, OthersFit, RaisesOnlyOverModelsArguments

LEMMA RaiseInductive == RaiseInv /\ [Next]_vars => RaiseInv'
<1> SUFFICES ASSUME RaiseInv, [Next]_vars
             PROVE  RaiseInv'
  OBVIOUS
<1>0. evidence \in Seq(EvidenceRecord)
  BY DEF RaiseInv, Shapes
<1>1. CASE Receive \/ PostFails \/ Finish \/ Lookup \/ Classify \/ Compose
  <2>1. pc' \notin {"running", "raised"} /\ UNCHANGED <<goal, evidence>>
    BY <1>1 DEF Receive, PostFails, Finish, Lookup, Classify, Compose
  <2> QED
    BY <1>0, <2>1, NotRunning
<1>2. CASE UNCHANGED vars
  <2>1. UNCHANGED <<goal, pc, plan, evidence>> /\ UNCHANGED Steps
    BY <1>2 DEF vars, Steps
  <2>2. Fitting(plan) => Fitting(plan)'
    BY <2>1 DEF Fitting
  <2> QED
    BY <2>1, <2>2 DEF RaiseInv, Shapes, OthersFit, RaisesOnlyOverModelsArguments
<1> QED
  BY <1>1, <1>2, PostAnswersKeeps, FallbackKeeps, CallToolKeeps DEF Next

\* A run ends with an exception only at a step whose arguments the model chose and
\* that do not fit the tool: the rules' plan is valid for every goal, and what is
\* filled in fits (planning.py:149, 244-252, 276-278, 297-312; registry.py:81-91).
THEOREM RaisesOverModelsArguments == Spec => []RaisesOnlyOverModelsArguments
<1>1. RaiseInv => RaisesOnlyOverModelsArguments
  BY DEF RaiseInv
<1> QED
  BY <1>1, RaiseStart, RaiseInductive, PTL DEF Spec

-----------------------------------------------------------------------------
(* What a success has read.                                                *)

Planned == {"received", "asking", "fallback"}

\* While the plan is run, and after a success, the plan is a valid one and the evidence that of
\* its first steps, all of which went well.
EvidenceOfPlan ==
    /\ pc \in Planned => evidence = <<>>
    /\ pc \in Planned \cup {"running"} => status # "SUCCEEDED"
    /\ pc = "running" \/ status = "SUCCEEDED" =>
         /\ plan.steps \in Seq(StepRecord) /\ Valid(plan, goal)
         /\ Len(evidence) <= Len(Steps)
         /\ \A i \in DOMAIN evidence : evidence[i].ok /\ evidence[i].tool = plan.steps[i].tool
    /\ status = "SUCCEEDED" => Len(evidence) = Len(Steps)

\* A forbidden goal ends where it is received.
ForbiddenEnds ==
    goal.forbidden => /\ posts = 0 /\ evidence = <<>>
                      /\ pc \in {"received", "ended"} /\ status # "SUCCEEDED"

EvidenceInv == RaiseInv /\ EvidenceOfPlan /\ ForbiddenEnds

\* The steps that are run are the first of the plan.
LEMMA FirstSteps ==
    ASSUME NEW s \in Seq(StepRecord)
    PROVE  LET n == IF Len(s) < MaxSteps THEN Len(s) ELSE MaxSteps
           IN  /\ n \in Nat /\ n <= Len(s) /\ (Len(s) <= MaxSteps => n = Len(s))
               /\ Len(SubSeq(s, 1, n)) = n
               /\ \A i \in 1..n : i \in DOMAIN s /\ SubSeq(s, 1, n)[i] = s[i]
<1> DEFINE n == IF Len(s) < MaxSteps THEN Len(s) ELSE MaxSteps
<1>1. Len(s) \in Nat /\ DOMAIN s = 1..Len(s) /\ MaxSteps \in 1..10
  BY RunAssumption
<1>0. Len(s) \in Nat /\ MaxSteps \in Nat
  BY <1>1
<1>2. n \in Nat /\ n <= Len(s) /\ (Len(s) <= MaxSteps => n = Len(s))
  BY <1>0
<1> HIDE DEF n
<1>4. \A i \in 1..Len(s) : i \in DOMAIN s /\ s[i] \in StepRecord
  OBVIOUS
<1>3. Len(SubSeq(s, 1, n)) = n /\ \A i \in 1..n : i \in DOMAIN s /\ SubSeq(s, 1, n)[i] = s[i]
  <2>1. \A i \in 1..n : i \in DOMAIN s /\ s[i] \in StepRecord /\ 1 + i - 1 = i
    <3>1. \A i \in 1..n : i \in 1..Len(s) /\ 1 + i - 1 = i
      BY <1>0, <1>2
    <3> QED
      BY <1>4, <3>1
  <2>2. /\ Len(SubSeq(s, 1, n)) = IF 1 <= n THEN n - 1 + 1 ELSE 0
        /\ \A i \in 1..(n - 1 + 1) : SubSeq(s, 1, n)[i] = s[1 + i - 1]
    BY <1>2, <2>1, SubSeqProperties
  <2>3. n - 1 + 1 = n /\ (~(1 <= n) => n = 0)
    BY <1>2
  <2> QED
    BY <2>1, <2>2, <2>3
<1> QED
  BY <1>2, <1>3 DEF n

LEMMA StepsArePlans ==
    ASSUME plan.steps \in Seq(StepRecord)
    PROVE  /\ Len(Steps) \in Nat /\ Len(Steps) <= Len(plan.steps)
           /\ Len(plan.steps) <= MaxSteps => Len(Steps) = Len(plan.steps)
           /\ \A i \in 1..Len(Steps) : i \in DOMAIN plan.steps /\ Steps[i] = plan.steps[i]
  BY FirstSteps DEF Steps

\* A plan that is adopted was validated, and nothing is read of it yet.
LEMMA AdoptedIsUnread ==
    ASSUME EvidenceInv, NEW p, p.steps \in Seq(StepRecord), Valid(p, goal), Adopt(p),
           pc \in Planned, UNCHANGED <<goal, evidence>>
    PROVE  EvidenceOfPlan'
<1>1. /\ plan' = p /\ evidence' = <<>> /\ goal' = goal
      /\ (pc' = "running" /\ status' = status) \/ (pc' = "ended" /\ status' = "BLOCKED")
      /\ status # "SUCCEEDED"
  BY DEF Adopt, EvidenceInv, EvidenceOfPlan
<1>2. Len(Steps)' \in Nat
  BY <1>1, FirstSteps DEF Steps
<1>3. Valid(plan, goal)'
  BY <1>1
<1> QED
  BY <1>1, <1>2, <1>3 DEF EvidenceOfPlan, Planned

LEMMA PlanningKeepsEvidence ==
    ASSUME EvidenceInv, Receive \/ PostFails \/ PostAnswers \/ Fallback
    PROVE  EvidenceOfPlan' /\ ForbiddenEnds'
<1>1. pc \in Planned /\ UNCHANGED <<goal, evidence>> /\ evidence = <<>> /\ status # "SUCCEEDED"
  BY DEF Receive, PostFails, PostAnswers, Fallback, Planned, EvidenceInv, EvidenceOfPlan
<1>2. CASE Receive \/ PostFails
  <2>1. /\ pc' \in Planned \cup {"ended"} /\ status' # "SUCCEEDED"
        /\ goal.forbidden => pc' = "ended" /\ posts' = 0
    BY <1>1, <1>2 DEF Receive, PostFails, Planned, EvidenceInv, ForbiddenEnds
  <2> QED
    BY <1>1, <2>1 DEF EvidenceOfPlan, ForbiddenEnds, Planned
<1>3. CASE PostAnswers \/ Fallback
  <2>1. ~goal.forbidden
    BY <1>3 DEF PostAnswers, Fallback, EvidenceInv, ForbiddenEnds
  <2>2. CASE pc' \in {"fallback", "raised"} /\ UNCHANGED status
    BY <1>1, <2>1, <2>2 DEF EvidenceOfPlan, ForbiddenEnds, Planned
  <2>3. ASSUME NEW p, p.steps \in Seq(StepRecord), Valid(p, goal), Adopt(p) PROVE EvidenceOfPlan'
    BY <1>1, <2>3, AdoptedIsUnread
  <2>4. Normalized(RuleFallback(goal), goal).steps \in Seq(StepRecord)
    BY FallbackSteps DEF EvidenceInv, RaiseInv, Shapes
  <2>5. \A offer \in Offers : Normalized(offer, goal).steps \in Seq(StepRecord)
    BY RunAssumption, NormalizedShape DEF PlanRecord, StepRecord
  <2> QED
    BY <1>1, <1>3, <2>1, <2>2, <2>3, <2>4, <2>5 DEF PostAnswers, Fallback, ForbiddenEnds
<1> QED
  BY <1>2, <1>3

\* A step that went well adds its record; any other one ends the run without success.
LEMMA CallToolKeepsEvidence ==
    ASSUME EvidenceInv, CallTool
    PROVE  EvidenceOfPlan' /\ ForbiddenEnds'
<1> DEFINE n == Len(evidence) + 1
           step == Steps[n]
           Read(reading) == /\ UNCHANGED <<pc, status>>
                            /\ evidence' = Append(evidence, [tool |-> step.tool, ok |-> TRUE,
                                                             reading |-> reading])
<1>1. /\ pc = "running" /\ Len(evidence) < Len(Steps) /\ status # "SUCCEEDED"
      /\ UNCHANGED <<goal, posts, plan>> /\ ~goal.forbidden
  BY DEF CallTool, EvidenceInv, EvidenceOfPlan, ForbiddenEnds
<1>2. \/ pc' = "raised" /\ UNCHANGED status
      \/ pc' = "scanned" /\ status' = "FAILED"
      \/ \E reading : Read(reading)
  BY DEF CallTool, Collect
<1>3. ForbiddenEnds'
  BY <1>1 DEF ForbiddenEnds
<1>4. CASE (pc' = "raised" /\ UNCHANGED status) \/ (pc' = "scanned" /\ status' = "FAILED")
  BY <1>1, <1>3, <1>4 DEF EvidenceOfPlan, Planned
<1>5. ASSUME NEW reading, Read(reading) PROVE EvidenceOfPlan'
  <2>1. /\ plan.steps \in Seq(StepRecord) /\ Valid(plan, goal)
        /\ \A i \in DOMAIN evidence : evidence[i].ok /\ evidence[i].tool = plan.steps[i].tool
        /\ evidence \in Seq(EvidenceRecord)
    BY <1>1 DEF EvidenceInv, EvidenceOfPlan, RaiseInv, Shapes
  <2>2. /\ Len(evidence) \in Nat /\ DOMAIN evidence = 1..Len(evidence)
        /\ Len(Steps) \in Nat /\ n \in 1..Len(Steps) /\ step = plan.steps[n]
    BY <1>1, <2>1, StepsArePlans
  <2> HIDE DEF step
  <2>3. /\ Len(evidence') = n /\ DOMAIN evidence' = 1..n
        /\ evidence'[n].ok /\ evidence'[n].tool = step.tool
        /\ \A i \in DOMAIN evidence : evidence'[i] = evidence[i]
    BY <1>5, <2>1, <2>2
  <2>4. \A i \in DOMAIN evidence' : evidence'[i].ok /\ evidence'[i].tool = plan.steps[i].tool
    BY <2>1, <2>2, <2>3
  <2>5. Valid(plan, goal)' /\ Steps' = Steps
    BY <1>1, <2>1 DEF Steps
  <2> QED
    BY <1>1, <1>5, <2>1, <2>2, <2>3, <2>4, <2>5 DEF EvidenceOfPlan, Planned
<1> HIDE DEF Read
<1> QED
  BY <1>2, <1>3, <1>4, <1>5

LEMMA EvidenceInductive == EvidenceInv /\ [Next]_vars => EvidenceInv'
<1> SUFFICES ASSUME EvidenceInv, [Next]_vars
             PROVE  EvidenceOfPlan' /\ ForbiddenEnds'
  BY RaiseInductive DEF EvidenceInv
<1>1. CASE Receive \/ PostFails \/ PostAnswers \/ Fallback
  BY <1>1, PlanningKeepsEvidence
<1>2. CASE CallTool
  BY <1>2, CallToolKeepsEvidence
<1>3. ASSUME UNCHANGED <<goal, posts, plan, evidence>>, pc' \notin Planned \cup {"running"},
             pc \notin Planned, pc' = "ended" \/ ~goal.forbidden,
             \/ UNCHANGED status
             \/ pc = "running" /\ Len(evidence) = Len(Steps) /\ status' = "SUCCEEDED"
                               /\ ~goal.forbidden
      PROVE  EvidenceOfPlan' /\ ForbiddenEnds'
  <2>1. UNCHANGED Steps /\ (Valid(plan, goal) => Valid(plan, goal)')
    BY <1>3 DEF Steps
  <2> QED
    BY <1>3, <2>1 DEF EvidenceInv, EvidenceOfPlan, ForbiddenEnds
<1>4. CASE Finish \/ Lookup \/ Classify \/ Compose
  BY <1>3, <1>4 DEF Finish, Lookup, Classify, Compose, Planned, EvidenceInv, ForbiddenEnds
<1>5. CASE UNCHANGED vars
  <2>1. UNCHANGED Steps /\ (Valid(plan, goal) => Valid(plan, goal)')
    BY <1>5 DEF Steps, vars
  <2> QED
    BY <1>5, <2>1 DEF vars, EvidenceInv, EvidenceOfPlan, ForbiddenEnds
<1> QED
  BY <1>1, <1>2, <1>4, <1>5 DEF Next

\* A success has read what its goal requires, with tools of its plan's risk that all went well,
\* and a forbidden goal reaches neither model nor tool (planning.py:172-175, runners.py:42).
THEOREM SuccessesHaveEvidence == Spec => []SuccessHasItsEvidence
<1>1. Init => EvidenceInv
  <2>1. Init => EvidenceOfPlan /\ ForbiddenEnds
    BY DEF Init, EvidenceOfPlan, ForbiddenEnds
  <2> QED
    BY <2>1, RaiseStart DEF EvidenceInv
<1>2. EvidenceInv => SuccessHasItsEvidence
  <2> SUFFICES ASSUME EvidenceInv
               PROVE  SuccessHasItsEvidence
    OBVIOUS
  <2>1. ASSUME status = "SUCCEEDED"
        PROVE  /\ \A i \in DOMAIN evidence :
                    evidence[i].ok /\ InherentRisk(evidence[i].tool) <= plan.risk
               /\ Len(plan.steps) <= MaxSteps => SetOf(RequiredTools(goal)) \subseteq Used
    <3>1. /\ plan.steps \in Seq(StepRecord) /\ Valid(plan, goal) /\ Len(evidence) = Len(Steps)
          /\ \A i \in DOMAIN evidence : evidence[i].ok /\ evidence[i].tool = plan.steps[i].tool
          /\ DOMAIN evidence = 1..Len(evidence)
      BY <2>1 DEF EvidenceInv, EvidenceOfPlan, RaiseInv, Shapes
    <3>2. \A i \in DOMAIN evidence : i \in DOMAIN plan.steps
      BY <3>1, StepsArePlans
    <3>3. \A i \in DOMAIN evidence :
            evidence[i].ok /\ InherentRisk(evidence[i].tool) <= plan.risk
      BY <3>1, <3>2 DEF Valid
    <3>4. ASSUME Len(plan.steps) <= MaxSteps
          PROVE  SetOf(RequiredTools(goal)) \subseteq Used
      <4>1. DOMAIN evidence = DOMAIN plan.steps
        BY <3>1, <3>4, StepsArePlans
      <4>2. {plan.steps[i].tool : i \in DOMAIN plan.steps} \subseteq Used
        BY <3>1, <4>1 DEF Used
      <4> QED
        BY <3>1, <4>2 DEF Valid
    <3> QED
      BY <3>3, <3>4
  <2> QED
    BY <2>1 DEF EvidenceInv, ForbiddenEnds, SuccessHasItsEvidence
<1> QED
  BY <1>1, <1>2, EvidenceInductive, PTL DEF Spec

-----------------------------------------------------------------------------
(* What is offered for cleanup.                                            *)

\* Nothing is offered before the classification, and then what it lets pass.
OffersClassified ==
    /\ pc \notin {"analysed", "ended"} => eligible = {}
    /\ \A f \in eligible : f \in FileKinds /\ Eligible(f, looked)

\* The two sets of rules: what the service offers the root helper would remove.
LEMMA OfferedIsAccepted ==
    ASSUME NEW f \in FileKinds, NEW state, Eligible(f, state)
    PROVE  state # "OPEN" /\ (f.where # "configured" => HelperAccepts(f))
  BY DEF FileKinds, Places, Eligible, PathGuard, CleanupRoots, HelperAccepts, HelperRoots

\* A file that is offered was not seen open, and in a root both know the helper would
\* remove it (cleanup.py:146-164, kylin_guard_privileged.py:189-221).
THEOREM OffersAreAccepted == Spec => []EligibleIsAcceptedByHelper
<1>1. Init => OffersClassified
  BY DEF Init, OffersClassified
<1>2. OffersClassified /\ [Next]_vars => OffersClassified'
  <2> SUFFICES ASSUME OffersClassified, [Next]_vars
               PROVE  OffersClassified'
    OBVIOUS
  <2>1. CASE Classify
    <3>1. PICK F \in {{}} \cup {{f} : f \in {g \in Files : Eligible(g, looked)}} : eligible' = F
      BY <2>1 DEF Classify
    <3>2. \A f \in F : f \in FileKinds /\ Eligible(f, looked)
      BY RunAssumption
    <3> QED
      BY <2>1, <3>1, <3>2 DEF Classify, OffersClassified
  <2>2. CASE Lookup
    BY <2>2 DEF Lookup, OffersClassified
  <2>3. CASE Receive \/ PostFails \/ PostAnswers \/ Fallback \/ CallTool \/ Finish \/ Compose
    <3>1. UNCHANGED <<looked, eligible>> /\ (pc \in {"analysed", "ended"} => pc' = "ended")
      BY <2>3 DEF Receive, PostFails, PostAnswers, Fallback, CallTool, Finish, Compose
    <3> QED
      BY <3>1 DEF OffersClassified
  <2>4. CASE UNCHANGED vars
    BY <2>4 DEF vars, OffersClassified
  <2> QED
    BY <2>1, <2>2, <2>3, <2>4 DEF Next
<1>3. OffersClassified => EligibleIsAcceptedByHelper
  BY OfferedIsAccepted DEF OffersClassified, EligibleIsAcceptedByHelper
<1> QED
  BY <1>1, <1>2, <1>3, PTL DEF Spec

-----------------------------------------------------------------------------
(* The numbers of the analysis.  The provers slow down with the size of a  *)
(* literal, so that these stay names wherever they can.                    *)

\* The anomaly of a failed service.
FailedAnomaly == 9 * (Whole \div 10)

LEMMA WholeIsNat == Whole \in Nat /\ Whole \div 10 \in Int /\ Whole \div 10 <= Whole /\ FailedAnomaly \in Int
  BY DEF Whole, FailedAnomaly

LEMMA RatioScores ==
    ASSUME NEW v \in Nat
    PROVE  /\ RatioScore(v, 70, 95) \in Int /\ RatioScore(v, 60, 150) \in Int
           /\ v >= 95 => RatioScore(v, 70, 95) = Whole
<1>1. RatioScore(v, 70, 95) \in Int
  BY DEF RatioScore, Whole
<1>2. RatioScore(v, 60, 150) \in Int
  BY DEF RatioScore, Whole
<1>3. v >= 95 => RatioScore(v, 70, 95) = Whole
  BY DEF RatioScore, Whole
<1> QED
  BY <1>1, <1>2, <1>3

LEMMA ShareScores ==
    ASSUME NEW v \in Nat
    PROVE  /\ ShareScore(v, 5) \in Int /\ ShareScore(v, 5) <= Whole
           /\ ShareScore(v, 100) \in Int /\ ShareScore(v, 1000) \in Int
<1>1. ShareScore(v, 5) \in Int /\ ShareScore(v, 5) <= Whole
  BY DEF ShareScore, Whole
<1>2. ShareScore(v, 100) \in Int
  BY DEF ShareScore, Whole
<1>3. ShareScore(v, 1000) \in Int
  BY DEF ShareScore, Whole
<1> QED
  BY <1>1, <1>2, <1>3

\* What one item of this anomaly gives a cause of this weight.
AloneScore(weight, anomaly) ==
    LET score == Points(weight, anomaly, 1) + 80 IN IF score > 1000 THEN 1000 ELSE score

\* A failed service is worth 0.841, a full disk 0.935 and a list of processes at most 0.840.
LEMMA AloneScores ==
    /\ AloneScore(85, FailedAnomaly) = 841 /\ AloneScore(90, Whole) = 935
    /\ \A a \in Int : a <= Whole => AloneScore(80, a) \in Int /\ AloneScore(80, a) <= 840
<1>1. AloneScore(85, FailedAnomaly) = 841
  BY DEF AloneScore, FailedAnomaly, Points, Whole
<1>2. AloneScore(90, Whole) = 935
  BY DEF AloneScore, Points, Whole
<1>3. ASSUME NEW a \in Int, a <= Whole PROVE AloneScore(80, a) \in Int /\ AloneScore(80, a) <= 840
  <2>1. Points(80, a, 1) \in Int /\ Points(80, a, 1) <= 760
    BY <1>3 DEF Points, Whole
  <2> QED
    BY <2>1 DEF AloneScore
<1> QED
  BY <1>1, <1>2, <1>3

\* The sum over one item is the item's own.
LEMMA SumAlone ==
    ASSUME NEW items, NEW at, items[at].anomaly \in Int
    PROVE  AnomalySum(items, {at}) = items[at].anomaly
<1> DEFINE body(f) == [S \in SUBSET {at} |->
                         IF S = {} THEN 0 ELSE LET i == CHOOSE i \in S : TRUE IN items[i].anomaly + f[S \ {i}]]
           g == [S \in SUBSET {at} |-> IF S = {} THEN 0 ELSE items[at].anomaly]
           sum == CHOOSE f : f = body(f)
<1>1. AnomalySum(items, {at}) = sum[{at}]
  BY DEF AnomalySum
<1>2. SUBSET {at} = {{}, {at}} /\ (CHOOSE i \in {at} : TRUE) = at /\ {at} \ {at} = {} /\ {at} # {}
  OBVIOUS
<1>3. items[at].anomaly + 0 = items[at].anomaly
  OBVIOUS
<1>4. g = body(g)
  <2>1. g[{}] = 0
    BY <1>2
  <2>2. g[{at}] = items[at].anomaly
    BY <1>2
  <2>3. body(g)[{}] = 0
    BY <1>2
  <2>4. body(g)[{at}] = items[at].anomaly + g[{}]
    BY <1>2, Zenon
  <2>5. g = [S \in SUBSET {at} |-> g[S]] /\ body(g) = [S \in SUBSET {at} |-> body(g)[S]]
    OBVIOUS
  <2> HIDE DEF g, body
  <2>6. \A S \in SUBSET {at} : g[S] = body(g)[S]
    BY <1>2, <1>3, <2>1, <2>2, <2>3, <2>4
  <2> QED
    BY <2>5, <2>6
<1>5. sum = body(sum)
  <2> HIDE DEF g, body
  <2> QED
    BY <1>4, Zenon
<1> HIDE DEF sum, g
<1> DEFINE pick(S) == CHOOSE i \in S : TRUE
<1>6. \A S \in SUBSET {at} : sum[S] = IF S = {} THEN 0 ELSE items[pick(S)].anomaly + sum[S \ {pick(S)}]
  BY <1>5, Zenon
<1>7. pick({at}) = at
  BY <1>2
<1> HIDE DEF body, pick
<1>8. sum[{}] = 0
  BY <1>2, <1>6
<1>9. sum[{at}] = items[at].anomaly + sum[{}]
  BY <1>2, <1>6, <1>7
<1> QED
  BY <1>1, <1>3, <1>8, <1>9

\* There is a function that appends up to three items in turn.
LEMMA AppendingExists ==
    ASSUME NEW n \in 0..3, NEW item
    PROVE  \E f : f = [i \in 0..n |-> IF i = 0 THEN <<>> ELSE f[i - 1] \o item[i]]
<1> DEFINE one == <<>> \o item[1]
           two == one \o item[2]
           three == two \o item[3]
           g == [i \in 0..n |-> IF i = 0 THEN <<>> ELSE IF i = 1 THEN one ELSE IF i = 2 THEN two ELSE three]
<1>2. one = <<>> \o item[1] /\ two = one \o item[2] /\ three = two \o item[3]
  OBVIOUS
<1>0. 1 - 1 = 0 /\ 2 - 1 = 1 /\ 3 - 1 = 2
  OBVIOUS
<1> HIDE DEF one, two, three
<1>1. ASSUME NEW i \in 0..n
      PROVE  g[i] = IF i = 0 THEN <<>> ELSE g[i - 1] \o item[i]
  <2>1. i \in {0, 1, 2, 3} /\ 0 \in 0..n /\ (i = 2 => 1 \in 0..n) /\ (i = 3 => 2 \in 0..n)
          /\ 1 # 0 /\ 2 # 0 /\ 3 # 0 /\ 2 # 1 /\ 3 # 1 /\ 3 # 2
    OBVIOUS
  <2>2. CASE i = 0
    BY <2>2
  <2>3. CASE i = 1
    <3>1. g[0] = <<>> /\ g[1] = one
      BY <2>1, <2>3, Zenon
    <3> QED
      BY <1>0, <1>2, <2>1, <2>3, <3>1, Zenon
  <2>4. CASE i = 2
    <3>1. g[1] = one /\ g[2] = two
      BY <2>1, <2>4, Zenon
    <3> QED
      BY <1>0, <1>2, <2>1, <2>4, <3>1, Zenon
  <2>5. CASE i = 3
    <3>1. g[2] = two /\ g[3] = three
      BY <2>1, <2>5, Zenon
    <3> QED
      BY <1>0, <1>2, <2>1, <2>5, <3>1, Zenon
  <2> QED
    BY <2>1, <2>2, <2>3, <2>4, <2>5
<1>3. g = [i \in 0..n |-> IF i = 0 THEN <<>> ELSE g[i - 1] \o item[i]]
  BY <1>1
<1> HIDE DEF g
<1> QED
  BY <1>3

\* The items of up to three records are those of the first, the second and the third in turn.
LEMMA AllUpToThree ==
    ASSUME NEW n \in 0..3, Len(evidence) = n
    PROVE  AllItems =
             LET one   == <<>> \o Items(evidence[1])
                 two   == one \o Items(evidence[2])
                 three == two \o Items(evidence[3])
             IN  IF n = 0 THEN <<>> ELSE IF n = 1 THEN one ELSE IF n = 2 THEN two ELSE three
<1> DEFINE item == [i \in 1..3 |-> Items(evidence[i])]
           body(f) == [i \in 0..n |-> IF i = 0 THEN <<>> ELSE f[i - 1] \o Items(evidence[i])]
           upTo == CHOOSE f : f = body(f)
<1>1. AllItems = upTo[n]
  BY DEF AllItems
<1>2. PICK h : h = [i \in 0..n |-> IF i = 0 THEN <<>> ELSE h[i - 1] \o item[i]]
  BY AppendingExists
<1>3. h = body(h)
  <2>1. \A i \in 0..n : i = 0 \/ item[i] = Items(evidence[i])
    OBVIOUS
  <2> HIDE DEF item
  <2> QED
    BY <1>2, <2>1
<1> HIDE DEF body
<1>4. upTo = body(upTo)
  BY <1>3, Zenon
<1> HIDE DEF upTo
<1>5. \A i \in 0..n : upTo[i] = IF i = 0 THEN <<>> ELSE upTo[i - 1] \o Items(evidence[i])
  BY <1>4, Zenon DEF body
<1>6. /\ 0 \in 0..n /\ (1 <= n => 1 \in 0..n) /\ (2 <= n => 2 \in 0..n) /\ (3 <= n => 3 \in 0..n)
      /\ (2 <= n => 1 <= n) /\ (3 <= n => 2 <= n) /\ 1 # 0 /\ 2 # 0 /\ 3 # 0
      /\ 1 - 1 = 0 /\ 2 - 1 = 1 /\ 3 - 1 = 2
  OBVIOUS
<1> DEFINE one == <<>> \o Items(evidence[1])
           two == one \o Items(evidence[2])
           three == two \o Items(evidence[3])
<1>7. upTo[0] = <<>>
  BY <1>5, <1>6, Zenon
<1>8. 1 <= n => upTo[1] = one
  BY <1>5, <1>6, <1>7, Zenon
<1>9. 2 <= n => upTo[2] = two
  <2>1. 2 <= n => upTo[2] = upTo[2 - 1] \o Items(evidence[2])
    BY <1>5, <1>6, Zenon
  <2> QED
    BY <1>6, <1>8, <2>1, Zenon
<1>10. 3 <= n => upTo[3] = three
  <2>1. 3 <= n => upTo[3] = upTo[3 - 1] \o Items(evidence[3])
    BY <1>5, <1>6, Zenon
  <2> QED
    BY <1>6, <1>9, <2>1, Zenon
<1>11. /\ n \in {0, 1, 2, 3} /\ 2 # 1 /\ 3 # 1 /\ 3 # 2
       /\ (n = 1 => 1 <= n) /\ (n = 2 => 2 <= n) /\ (n = 3 => 3 <= n)
  OBVIOUS
<1> QED
  BY <1>1, <1>6, <1>7, <1>8, <1>9, <1>10, <1>11, Zenon

-----------------------------------------------------------------------------
(* What the items of a record speak for.                                   *)

Types == {"METRIC", "LOG", "PROCESS", "SERVICE"}

Word == Tools \cup {"run_command", "disk", "space", "large", "file", "large_file", "zombie", "process",
                     "inventory", "service", "status", "failed", "journal", "evidence", "usage", "cpu", "load"}

ItemRecord == [type : Types, words : SUBSET Word, anomaly : Int]

DiskTools == {"disk_usage_scan", "large_file_scan", "system_snapshot"}
ProcessTools == {"zombie_process_scan", "process_list"}
ServiceTools == {"service_status", "journal_query"}

\* Does an item speak for a cause.
Speaks(item, rule) == \E w \in item.words : w \in Rules[rule].keywords

\* Only certain tools speak for a full disk, for zombies, for a service.
FromTool(item, tool) ==
    /\ item \in ItemRecord
    /\ Speaks(item, "disk_pressure") => tool \in DiskTools
    /\ Speaks(item, "zombie_process") => tool \in ProcessTools
    /\ Speaks(item, "service_failure") => tool \in ServiceTools

ItemsFrom(items, tool) == items \in Seq(ItemRecord) /\ \A m \in DOMAIN items : FromTool(items[m], tool)

\* A record a tool can have left.
IsReading(record) ==
    /\ record.tool \in Tools \cup {"run_command"}
    /\ record.reading \in Readings(record.tool) \cup {Default(record.tool)}

LEMMA KeywordsAre ==
    /\ Rules["disk_pressure"].keywords = {"disk", "space", "large_file"}
    /\ Rules["zombie_process"].keywords = {"zombie", "process"}
    /\ Rules["service_failure"].keywords = {"service", "failed", "journal"}
  BY DEF Rules

LEMMA OneItem ==
    ASSUME NEW item, NEW tool, FromTool(item, tool)
    PROVE  ItemsFrom(<<item>>, tool) /\ Len(<<item>>) = 1
<1>1. item \in ItemRecord
  BY DEF FromTool
<1>2. <<item>> \in Seq(ItemRecord) /\ DOMAIN <<item>> = {1} /\ <<item>>[1] = item /\ Len(<<item>>) = 1
  BY <1>1
<1> QED
  BY <1>2 DEF ItemsFrom

LEMMA ManyItems ==
    ASSUME NEW k \in Nat, NEW list, list = [i \in 1..k |-> list[i]], NEW tool, \A i \in 1..k : FromTool(list[i], tool)
    PROVE  ItemsFrom(list, tool) /\ Len(list) = k
<1>1. \A i \in 1..k : list[i] \in ItemRecord
  BY DEF FromTool
<1>2. list \in [1..k -> ItemRecord]
  BY <1>1
<1>3. list \in Seq(ItemRecord) /\ DOMAIN list = 1..k /\ Len(list) = k
  BY <1>2
<1> QED
  BY <1>3 DEF ItemsFrom

LEMMA ItemsAfterItems ==
    ASSUME NEW s, NEW t, NEW tool, ItemsFrom(s, tool), ItemsFrom(t, tool)
    PROVE  ItemsFrom(s \o t, tool) /\ Len(s \o t) = Len(s) + Len(t)
<1>1. s \in Seq(ItemRecord) /\ t \in Seq(ItemRecord)
  BY DEF ItemsFrom
<1>2. /\ s \o t \in Seq(ItemRecord) /\ Len(s \o t) = Len(s) + Len(t)
      /\ Len(s) \in Nat /\ Len(t) \in Nat
      /\ DOMAIN s = 1..Len(s) /\ DOMAIN t = 1..Len(t) /\ DOMAIN (s \o t) = 1..Len(s) + Len(t)
      /\ \A m \in 1..Len(s) + Len(t) : (s \o t)[m] = IF m <= Len(s) THEN s[m] ELSE t[m - Len(s)]
  BY <1>1
<1>3. ASSUME NEW m \in DOMAIN (s \o t) PROVE FromTool((s \o t)[m], tool)
  <2>1. CASE m <= Len(s)
    BY <1>2, <2>1 DEF ItemsFrom
  <2>2. CASE ~(m <= Len(s))
    <3>1. m - Len(s) \in DOMAIN t /\ (s \o t)[m] = t[m - Len(s)]
      BY <1>2, <2>2
    <3> QED
      BY <3>1 DEF ItemsFrom
  <2> QED
    BY <2>1, <2>2
<1> QED
  BY <1>2, <1>3 DEF ItemsFrom

\* The tools that may use these words.
WordsOf(w, tool) ==
    /\ w \in SUBSET Word
    /\ (\E x \in w : x \in {"disk", "space", "large_file"}) => tool \in DiskTools
    /\ (\E x \in w : x \in {"zombie", "process"}) => tool \in ProcessTools
    /\ (\E x \in w : x \in {"service", "failed", "journal"}) => tool \in ServiceTools

LEMMA ItemFromTool ==
    ASSUME NEW tool, NEW t \in Types, NEW w, WordsOf(w, tool), NEW a \in Int
    PROVE  FromTool([type |-> t, words |-> w, anomaly |-> a], tool)
<1> DEFINE item == [type |-> t, words |-> w, anomaly |-> a]
<1>1. item \in ItemRecord /\ item.words = w
  BY DEF ItemRecord, WordsOf
<1> HIDE DEF item
<1>2. FromTool(item, tool)
  BY <1>1, KeywordsAre DEF FromTool, Speaks, WordsOf
<1> QED
  BY <1>2 DEF item

\* A list of at most one reading.
LEMMA OneAtMost ==
    ASSUME NEW S, NEW s, s \in AtMostOne(S) \/ s = <<>>
    PROVE  \E k \in 0..1 : DOMAIN s = 1..k /\ \A i \in 1..k : s[i] \in S
<1>1. CASE s = <<>>
  <2>1. DOMAIN s = 1..0 /\ \A i \in 1..0 : s[i] \in S
    BY <1>1
  <2> QED
    BY <2>1
<1>2. CASE \E x \in S : s = <<x>>
  <2>1. DOMAIN s = 1..1 /\ \A i \in 1..1 : s[i] \in S
    BY <1>2
  <2> QED
    BY <2>1
<1> QED
  BY <1>1, <1>2 DEF AtMostOne

\* The most items a record can have.
Share(tool) == IF tool = "large_file_scan" THEN MaxFiles ELSE 2

\* Every item has the words of its tool, and there are as many as said.
LEMMA ItemsFromTools ==
    ASSUME NEW r, IsReading(r)
    PROVE  ItemsFrom(Items(r), r.tool) /\ Len(Items(r)) \in Nat /\ Len(Items(r)) <= Share(r.tool)
<1> DEFINE n == r.reading
<1>0. \A t, w, a : Item(t, w, a) = [type |-> t, words |-> w, anomaly |-> a]
  BY DEF Item
<1>9. ASSUME NEW t \in Types, NEW w, WordsOf(w, r.tool), NEW a \in Int PROVE FromTool(Item(t, w, a), r.tool)
  BY <1>0, <1>9, ItemFromTool, Zenon
<1>10. ASSUME NEW x, FromTool(x, r.tool), Items(r) = <<x>>, r.tool # "large_file_scan"
       PROVE  ItemsFrom(Items(r), r.tool) /\ Len(Items(r)) \in Nat /\ Len(Items(r)) <= Share(r.tool)
  <2>1. ItemsFrom(<<x>>, r.tool) /\ Len(<<x>>) = 1
    BY <1>10, OneItem
  <2> QED
    BY <1>10, <2>1 DEF Share
<1>11. "METRIC" \in Types /\ "LOG" \in Types /\ "PROCESS" \in Types /\ "SERVICE" \in Types
  BY DEF Types
<1>1. CASE r.tool = "disk_usage_scan"
  <2>1. n \in Nat
    BY <1>1, ReadingAssumption DEF IsReading, Readings, Default
  <2>2. Items(r) = <<Item("METRIC", {"disk", "space"}, RatioScore(n, 70, 95))>>
    BY <1>1 DEF Items
  <2>3. WordsOf({"disk", "space"}, r.tool)
    BY <1>1 DEF WordsOf, Word, DiskTools
  <2>4. RatioScore(n, 70, 95) \in Int
    BY <2>1, RatioScores
  <2> QED
    BY <1>1, <1>9, <1>10, <1>11, <2>2, <2>3, <2>4
<1>2. CASE r.tool = "large_file_scan"
  <2> DEFINE w == {"large", "file", "disk", "space", "large_file"}
  <2>1. PICK k \in 0..MaxFiles : DOMAIN n = 1..k /\ \A i \in 1..k : n[i] \in Nat
    <3>1. CASE n = <<>>
      <4>1. DOMAIN n = 1..0 /\ \A i \in 1..0 : n[i] \in Nat
        BY <3>1
      <4> QED
        BY <4>1, ReadingAssumption
    <3>2. CASE n \in FileLists
      BY <3>2, ReadingAssumption DEF FileLists
    <3> QED
      BY <1>2, <3>1, <3>2 DEF IsReading, Readings, Default
  <2>2. Items(r) = [i \in 1..k |-> Item("LOG", w, ShareScore(n[i], 1000))]
    BY <1>2, <2>1 DEF Items
  <2>3. WordsOf(w, r.tool)
    BY <1>2 DEF WordsOf, Word, DiskTools
  <2> HIDE DEF n, w
  <2>4. \A i \in 1..k : Items(r)[i] = Item("LOG", w, ShareScore(n[i], 1000)) /\ ShareScore(n[i], 1000) \in Int
    BY <2>1, <2>2, ShareScores
  <2>5. \A i \in 1..k : FromTool(Items(r)[i], r.tool)
    BY <1>9, <1>11, <2>3, <2>4
  <2>6. Items(r) = [i \in 1..k |-> Items(r)[i]] /\ k \in Nat /\ k <= MaxFiles
    BY <2>2, ReadingAssumption
  <2>7. ItemsFrom(Items(r), r.tool) /\ Len(Items(r)) = k
    BY <2>5, <2>6, ManyItems
  <2> QED
    BY <1>2, <2>6, <2>7 DEF Share
<1>3. CASE r.tool = "zombie_process_scan"
  <2>1. n \in Nat
    BY <1>3, ReadingAssumption DEF IsReading, Readings, Default
  <2>2. Items(r) = <<Item("PROCESS", {"zombie", "process"}, ShareScore(n, 5))>>
    BY <1>3 DEF Items
  <2>3. WordsOf({"zombie", "process"}, r.tool)
    BY <1>3 DEF WordsOf, Word, ProcessTools
  <2>4. ShareScore(n, 5) \in Int
    BY <2>1, ShareScores
  <2> QED
    BY <1>3, <1>9, <1>10, <1>11, <2>2, <2>3, <2>4
<1>4. CASE r.tool = "process_list"
  <2>1. Items(r) = <<Item("PROCESS", {"process", "inventory"}, Whole \div 10)>>
    BY <1>4 DEF Items
  <2>2. WordsOf({"process", "inventory"}, r.tool)
    BY <1>4 DEF WordsOf, Word, ProcessTools
  <2> QED
    BY <1>4, <1>9, <1>10, <1>11, <2>1, <2>2, WholeIsNat
<1>5. CASE r.tool = "service_status"
  <2>1. \/ Items(r) = <<Item("SERVICE", {"service", "status", "failed"}, FailedAnomaly)>>
        \/ Items(r) = <<Item("SERVICE", {"service", "status"}, Whole \div 10)>>
    BY <1>5 DEF Items, FailedAnomaly
  <2>2. WordsOf({"service", "status", "failed"}, r.tool) /\ WordsOf({"service", "status"}, r.tool)
    BY <1>5 DEF WordsOf, Word, ServiceTools
  <2> QED
    BY <1>5, <1>9, <1>10, <1>11, <2>1, <2>2, WholeIsNat
<1>6. CASE r.tool = "journal_query"
  <2>1. n \in Nat
    BY <1>6, ReadingAssumption DEF IsReading, Readings, Default
  <2>2. Items(r) = <<Item("LOG", {"journal", "evidence", "service"}, ShareScore(n, 100))>>
    BY <1>6 DEF Items
  <2>3. WordsOf({"journal", "evidence", "service"}, r.tool)
    BY <1>6 DEF WordsOf, Word, ServiceTools
  <2>4. ShareScore(n, 100) \in Int
    BY <2>1, ShareScores
  <2> QED
    BY <1>6, <1>9, <1>10, <1>11, <2>2, <2>3, <2>4
<1>7. CASE r.tool = "system_snapshot"
  <2> DEFINE disk == [i \in DOMAIN n.disk |-> Item("METRIC", {"disk", "space", "usage"}, RatioScore(n.disk[i], 70, 95))]
             load == [i \in DOMAIN n.load |-> Item("METRIC", {"cpu", "load"}, RatioScore(n.load[i], 60, 150))]
  <2>1. Items(r) = disk \o load
    BY <1>7 DEF Items
  <2>2. /\ n.disk \in AtMostOne(DiskLevels) \/ n.disk = <<>>
        /\ n.load \in AtMostOne(LoadLevels) \/ n.load = <<>>
    BY <1>7 DEF IsReading, Readings, Default
  <2>12. DiskLevels \subseteq Nat /\ LoadLevels \subseteq Nat
    BY ReadingAssumption
  <2>13. \E k \in 0..1 : DOMAIN n.disk = 1..k /\ \A i \in 1..k : n.disk[i] \in DiskLevels
    BY <2>2, OneAtMost
  <2>3. PICK k \in 0..1 : DOMAIN n.disk = 1..k /\ \A i \in 1..k : n.disk[i] \in Nat
    BY <2>12, <2>13
  <2>14. \E m \in 0..1 : DOMAIN n.load = 1..m /\ \A i \in 1..m : n.load[i] \in LoadLevels
    BY <2>2, OneAtMost
  <2>4. PICK m \in 0..1 : DOMAIN n.load = 1..m /\ \A i \in 1..m : n.load[i] \in Nat
    BY <2>12, <2>14
  <2>5. WordsOf({"disk", "space", "usage"}, r.tool) /\ WordsOf({"cpu", "load"}, r.tool)
    BY <1>7 DEF WordsOf, Word, DiskTools
  <2>6. \A i \in 1..k : FromTool(disk[i], r.tool)
    <3>1. \A i \in 1..k : RatioScore(n.disk[i], 70, 95) \in Int
      BY <2>3, RatioScores
    <3> QED
      BY <1>9, <1>11, <2>3, <2>5, <3>1
  <2>7. \A i \in 1..m : FromTool(load[i], r.tool)
    <3>1. \A i \in 1..m : RatioScore(n.load[i], 60, 150) \in Int
      BY <2>4, RatioScores
    <3> QED
      BY <1>9, <1>11, <2>4, <2>5, <3>1
  <2>8. disk = [i \in 1..k |-> disk[i]] /\ load = [i \in 1..m |-> load[i]] /\ k \in Nat /\ m \in Nat
    BY <2>3, <2>4
  <2> HIDE DEF disk, load
  <2>9. ItemsFrom(disk, r.tool) /\ Len(disk) = k
    BY <2>6, <2>8, ManyItems
  <2>10. ItemsFrom(load, r.tool) /\ Len(load) = m
    BY <2>7, <2>8, ManyItems
  <2>11. ItemsFrom(Items(r), r.tool) /\ Len(Items(r)) = k + m
    BY <2>1, <2>9, <2>10, ItemsAfterItems
  <2> QED
    BY <1>7, <2>11 DEF Share
<1>8. CASE r.tool \notin DiskTools \cup ProcessTools \cup ServiceTools
  <2>1. Items(r) = <<Item("METRIC", {r.tool, "evidence"}, Whole \div 10)>>
    BY <1>8 DEF Items, DiskTools, ProcessTools, ServiceTools
  <2>2. \A t \in Tools \cup {"run_command"} :
          t \notin {"disk", "space", "large_file", "zombie", "process", "service", "failed", "journal"}
    BY DEF Tools, L1Tools, L2Tools
  <2>3. r.tool \in Word
          /\ r.tool \notin {"disk", "space", "large_file", "zombie", "process", "service", "failed", "journal"}
    BY <2>2 DEF IsReading, Word
  <2>4. WordsOf({r.tool, "evidence"}, r.tool)
    <3>1. {r.tool, "evidence"} \in SUBSET Word
      BY <2>3 DEF Word
    <3> QED
      BY <2>3, <3>1 DEF WordsOf
  <2>5. r.tool # "large_file_scan"
    BY <1>8 DEF DiskTools
  <2> QED
    BY <1>9, <1>10, <1>11, <2>1, <2>4, <2>5, WholeIsNat
<1> QED
  BY <1>1, <1>2, <1>3, <1>4, <1>5, <1>6, <1>7, <1>8 DEF DiskTools, ProcessTools, ServiceTools

\* The one item of a failed service, of a full disk, of a list of processes.
LEMMA WhatSpeaks ==
    ASSUME NEW r, IsReading(r)
    PROVE  /\ r.tool = "service_status" /\ r.reading = "failed" =>
                \E x : Items(r) = <<x>> /\ x.anomaly = FailedAnomaly /\ Speaks(x, "service_failure")
           /\ r.tool = "disk_usage_scan" /\ r.reading >= 95 =>
                \E x : Items(r) = <<x>> /\ x.anomaly = Whole /\ Speaks(x, "disk_pressure")
           /\ r.tool \in ProcessTools =>
                \E x : /\ Items(r) = <<x>> /\ Speaks(x, "zombie_process")
                       /\ x.anomaly \in Int /\ x.anomaly <= Whole
<1>1. ASSUME NEW t, NEW a, NEW w
      PROVE  /\ Item(t, w, a).anomaly = a
             /\ "service" \in w => Speaks(Item(t, w, a), "service_failure")
             /\ "disk" \in w => Speaks(Item(t, w, a), "disk_pressure")
             /\ "process" \in w => Speaks(Item(t, w, a), "zombie_process")
  BY KeywordsAre DEF Speaks, Item
<1>2. ASSUME r.tool = "service_status", r.reading = "failed"
      PROVE  \E x : Items(r) = <<x>> /\ x.anomaly = FailedAnomaly /\ Speaks(x, "service_failure")
  <2>1. Items(r) = <<Item("SERVICE", {"service", "status", "failed"}, FailedAnomaly)>>
    BY <1>2 DEF Items, FailedAnomaly
  <2> QED
    BY <1>1, <2>1
<1>3. ASSUME r.tool = "disk_usage_scan", r.reading >= 95
      PROVE  \E x : Items(r) = <<x>> /\ x.anomaly = Whole /\ Speaks(x, "disk_pressure")
  <2>1. r.reading \in Nat
    BY <1>3, ReadingAssumption DEF IsReading, Readings, Default
  <2>2. Items(r) = <<Item("METRIC", {"disk", "space"}, RatioScore(r.reading, 70, 95))>>
    BY <1>3 DEF Items
  <2>3. RatioScore(r.reading, 70, 95) = Whole
    BY <1>3, <2>1, RatioScores
  <2> QED
    BY <1>1, <2>2, <2>3
<1>4. ASSUME r.tool \in ProcessTools
      PROVE  \E x : /\ Items(r) = <<x>> /\ Speaks(x, "zombie_process")
                    /\ x.anomaly \in Int /\ x.anomaly <= Whole
  <2>1. CASE r.tool = "process_list"
    <3>1. Items(r) = <<Item("PROCESS", {"process", "inventory"}, Whole \div 10)>>
      BY <2>1 DEF Items
    <3> QED
      BY <1>1, <3>1, WholeIsNat
  <2>2. CASE r.tool = "zombie_process_scan"
    <3>1. r.reading \in Nat
      BY <2>2, ReadingAssumption DEF IsReading, Readings, Default
    <3>2. Items(r) = <<Item("PROCESS", {"zombie", "process"}, ShareScore(r.reading, 5))>>
      BY <2>2 DEF Items
    <3>3. ShareScore(r.reading, 5) \in Int /\ ShareScore(r.reading, 5) <= Whole
      BY <3>1, ShareScores
    <3> QED
      BY <1>1, <3>2, <3>3
  <2> QED
    BY <1>4, <2>1, <2>2 DEF ProcessTools
<1> QED
  BY <1>2, <1>3, <1>4

-----------------------------------------------------------------------------
(* Where an item comes from.                                               *)

\* A sequence of items of the first n records: each item has the number of its record, and the
\* only item of a record is the only one with that number.
Traced(items, at, n) ==
    /\ items \in Seq(ItemRecord) /\ at \in [DOMAIN items -> 1..n]
    /\ \A j \in DOMAIN items : FromTool(items[j], evidence[at[j]].tool)
    /\ \A k \in 1..n : \A x :
         Items(evidence[k]) = <<x>> =>
           \E i \in DOMAIN items : items[i] = x /\ \A j \in DOMAIN items : at[j] = k <=> j = i

LEMMA TraceGrows ==
    ASSUME NEW n \in Nat, NEW items, NEW at, Traced(items, at, n), IsReading(evidence[n + 1])
    PROVE  \E to : Traced(items \o Items(evidence[n + 1]), to, n + 1)
<1> DEFINE new == Items(evidence[n + 1])
           all == items \o new
           to == [j \in DOMAIN all |-> IF j <= Len(items) THEN at[j] ELSE n + 1]
<1>1. /\ items \in Seq(ItemRecord) /\ at \in [DOMAIN items -> 1..n]
      /\ \A j \in DOMAIN items : FromTool(items[j], evidence[at[j]].tool)
  BY DEF Traced
<1>2. new \in Seq(ItemRecord) /\ \A m \in DOMAIN new : FromTool(new[m], evidence[n + 1].tool)
  BY ItemsFromTools DEF ItemsFrom
<1> HIDE DEF new
<1>3. /\ all \in Seq(ItemRecord) /\ DOMAIN all = 1..Len(items) + Len(new)
      /\ Len(items) \in Nat /\ Len(new) \in Nat
      /\ DOMAIN items = 1..Len(items) /\ DOMAIN new = 1..Len(new)
      /\ \A j \in DOMAIN items : all[j] = items[j]
      /\ \A m \in DOMAIN new : all[Len(items) + m] = new[m]
  BY <1>1, <1>2
<1> HIDE DEF all
<1>4. /\ \A j \in DOMAIN items : j \in DOMAIN all /\ to[j] = at[j] /\ to[j] \in 1..n
      /\ \A m \in DOMAIN new : Len(items) + m \in DOMAIN all /\ to[Len(items) + m] = n + 1
  BY <1>1, <1>3
<1>5. \A j \in DOMAIN all : j \in DOMAIN items \/ \E m \in DOMAIN new : j = Len(items) + m
  <2> SUFFICES ASSUME NEW j \in DOMAIN all, j \notin DOMAIN items
               PROVE  \E m \in DOMAIN new : j = Len(items) + m
    OBVIOUS
  <2>1. j - Len(items) \in DOMAIN new /\ j = Len(items) + (j - Len(items))
    BY <1>3
  <2> QED
    BY <2>1
<1>6. to \in [DOMAIN all -> 1..n + 1]
  <2>1. to = [j \in DOMAIN all |-> to[j]]
    OBVIOUS
  <2> HIDE DEF to
  <2>2. \A j \in DOMAIN all : to[j] \in 1..n + 1
    <3>1. 1..n \subseteq 1..n + 1 /\ n + 1 \in 1..n + 1
      OBVIOUS
    <3> QED
      BY <1>4, <1>5, <3>1
  <2> QED
    BY <2>1, <2>2
<1>7. \A j \in DOMAIN all : FromTool(all[j], evidence[to[j]].tool)
  <2> HIDE DEF to
  <2> SUFFICES ASSUME NEW j \in DOMAIN all PROVE FromTool(all[j], evidence[to[j]].tool)
    OBVIOUS
  <2>1. CASE j \in DOMAIN items
    BY <1>1, <1>3, <1>4, <2>1
  <2>2. CASE \E m \in DOMAIN new : j = Len(items) + m
    BY <1>2, <1>3, <1>4, <2>2
  <2> QED
    BY <1>5, <2>1, <2>2
<1>8. ASSUME NEW k \in 1..n + 1, NEW x, Items(evidence[k]) = <<x>>
      PROVE  \E i \in DOMAIN all : all[i] = x /\ \A j \in DOMAIN all : to[j] = k <=> j = i
  <2> HIDE DEF to
  <2>1. CASE k \in 1..n
    <3>1. PICK i \in DOMAIN items : items[i] = x /\ \A j \in DOMAIN items : at[j] = k <=> j = i
      BY <1>8, <2>1 DEF Traced
    <3>2. k # n + 1
      BY <2>1
    <3>3. \A m \in DOMAIN new : Len(items) + m \notin DOMAIN items
      BY <1>3
    <3> QED
      BY <1>3, <1>4, <1>5, <3>1, <3>2, <3>3
  <2>2. CASE k = n + 1
    <3>1. new = <<x>>
      BY <1>8, <2>2 DEF new
    <3>2. DOMAIN new = {1} /\ new[1] = x
      BY <3>1
    <3>3. \A j \in DOMAIN items : at[j] # n + 1 /\ j # Len(items) + 1
      BY <1>1, <1>3
    <3>4. /\ Len(items) + 1 \in DOMAIN all /\ all[Len(items) + 1] = x
          /\ to[Len(items) + 1] = n + 1
      BY <1>3, <1>4, <3>2
    <3>5. ASSUME NEW j \in DOMAIN all PROVE to[j] = n + 1 <=> j = Len(items) + 1
      <4>1. CASE j \in DOMAIN items
        BY <1>4, <3>3, <4>1
      <4>2. CASE \E m \in DOMAIN new : j = Len(items) + m
        BY <3>2, <3>4, <4>2
      <4> QED
        BY <1>5, <4>1, <4>2
    <3> QED
      BY <2>2, <3>4, <3>5
  <2> QED
    BY <2>1, <2>2
<1>9. Traced(all, to, n + 1)
  <2> HIDE DEF to
  <2> QED
    BY <1>3, <1>6, <1>7, <1>8 DEF Traced
<1> QED
  BY <1>9 DEF all, new

\* The items of up to three records can be traced.
LEMMA EvidenceIsTraced ==
    ASSUME NEW n \in 0..3, Len(evidence) = n, \A k \in 1..n : IsReading(evidence[k])
    PROVE  \E at : Traced(AllItems, at, n)
<1> DEFINE one == <<>> \o Items(evidence[1])
           two == one \o Items(evidence[2])
           three == two \o Items(evidence[3])
<1>1. AllItems = IF n = 0 THEN <<>> ELSE IF n = 1 THEN one ELSE IF n = 2 THEN two ELSE three
  BY AllUpToThree
<1>2. Traced(<<>>, <<>>, 0)
  BY DEF Traced
<1>3. 0 + 1 = 1 /\ 1 + 1 = 2 /\ 2 + 1 = 3 /\ 0 \in Nat /\ 1 \in Nat /\ 2 \in Nat
  OBVIOUS
<1>4. 1 <= n => \E at : Traced(one, at, 1)
  <2>1. 1 <= n => IsReading(evidence[1])
    OBVIOUS
  <2> QED
    BY <1>2, <1>3, <2>1, TraceGrows, Zenon
<1>5. 2 <= n => \E at : Traced(two, at, 2)
  <2>1. 2 <= n => IsReading(evidence[2]) /\ 1 <= n
    OBVIOUS
  <2> HIDE DEF one
  <2> QED
    BY <1>3, <1>4, <2>1, TraceGrows, Zenon
<1>6. 3 <= n => \E at : Traced(three, at, 3)
  <2>1. 3 <= n => IsReading(evidence[3]) /\ 2 <= n
    OBVIOUS
  <2> HIDE DEF two
  <2> QED
    BY <1>3, <1>5, <2>1, TraceGrows, Zenon
<1> HIDE DEF one, two, three
<1>7. \/ n = 0 /\ AllItems = <<>>
      \/ n = 1 /\ AllItems = one /\ 1 <= n
      \/ n = 2 /\ AllItems = two /\ 2 <= n
      \/ n = 3 /\ AllItems = three /\ 3 <= n
  BY <1>1
<1> QED
  BY <1>2, <1>4, <1>5, <1>6, <1>7, Zenon

\* Three records, at most one of a scan of files, leave no more items than are kept.
LEMMA AllAreKept ==
    ASSUME NEW n \in 0..3, Len(evidence) = n, \A k \in 1..n : IsReading(evidence[k]),
           \A i, j \in 1..n :
             evidence[i].tool = "large_file_scan" /\ evidence[j].tool = "large_file_scan" => i = j
    PROVE  NormalizedEvidence = AllItems
<1> DEFINE items(k) == Items(evidence[k])
           one == <<>> \o items(1)
           two == one \o items(2)
           three == two \o items(3)
<1>1. AllItems = IF n = 0 THEN <<>> ELSE IF n = 1 THEN one ELSE IF n = 2 THEN two ELSE three
  BY AllUpToThree
<1>2. \A k \in 1..n : /\ items(k) \in Seq(ItemRecord) /\ Len(items(k)) \in Nat
                     /\ Len(items(k)) <= Share(evidence[k].tool)
  BY ItemsFromTools DEF ItemsFrom
<1> HIDE DEF items
<1>3. 1 <= n => one \in Seq(ItemRecord) /\ Len(one) = Len(items(1))
  BY <1>2
<1>4. 2 <= n => two \in Seq(ItemRecord) /\ Len(two) = Len(items(1)) + Len(items(2))
  <2>1. 2 <= n => 1 <= n /\ 2 \in 1..n
    OBVIOUS
  <2> HIDE DEF one
  <2> QED
    BY <1>2, <1>3, <2>1
<1>5. 3 <= n => Len(three) = Len(items(1)) + Len(items(2)) + Len(items(3))
  <2>1. 3 <= n => 2 <= n /\ 3 \in 1..n
    OBVIOUS
  <2> HIDE DEF two
  <2> QED
    BY <1>2, <1>4, <2>1
<1> HIDE DEF one, two, three
<1>6. Len(AllItems) <= MaxItems
  <2>1. /\ MaxFiles \in Nat /\ MaxItems \in Nat /\ 6 <= MaxItems /\ MaxFiles + 4 <= MaxItems
    BY ReadingAssumption
  <2>2. \A k \in 1..n : Len(items(k)) <= MaxFiles \/ Len(items(k)) <= 2
    BY <1>2 DEF Share
  <2>3. \A i, j \in 1..n : i # j => Len(items(i)) <= 2 \/ Len(items(j)) <= 2
    <3>1. \A i \in 1..n : evidence[i].tool = "large_file_scan" \/ Len(items(i)) <= 2
      BY <1>2 DEF Share
    <3> QED
      BY <3>1
  <2>4. CASE n = 0
    <3>1. Len(<<>>) = 0
      OBVIOUS
    <3> QED
      BY <1>1, <2>1, <2>4, <3>1
  <2>5. CASE n = 1
    BY <1>1, <1>2, <1>3, <2>1, <2>2, <2>5
  <2>6. CASE n = 2
    <3>1. 1 \in 1..n /\ 2 \in 1..n /\ AllItems = two
      BY <1>1, <2>6
    <3>2. PICK a \in Nat, b \in Nat : a = Len(items(1)) /\ b = Len(items(2))
      BY <1>2, <3>1
    <3>3. (a <= MaxFiles \/ a <= 2) /\ (b <= MaxFiles \/ b <= 2) /\ (a <= 2 \/ b <= 2)
      BY <2>2, <2>3, <3>1, <3>2
    <3>4. a + b <= MaxItems
      BY <2>1, <3>3
    <3> QED
      BY <1>4, <2>6, <3>1, <3>2, <3>4
  <2>7. CASE n = 3
    <3>1. 1 \in 1..n /\ 2 \in 1..n /\ 3 \in 1..n /\ AllItems = three
      BY <1>1, <2>7
    <3>2. PICK a \in Nat, b \in Nat, c \in Nat : a = Len(items(1)) /\ b = Len(items(2)) /\ c = Len(items(3))
      BY <1>2, <3>1
    <3>3. /\ (a <= MaxFiles \/ a <= 2) /\ (b <= MaxFiles \/ b <= 2) /\ (c <= MaxFiles \/ c <= 2)
          /\ (a <= 2 \/ b <= 2) /\ (a <= 2 \/ c <= 2) /\ (b <= 2 \/ c <= 2)
      BY <2>2, <2>3, <3>1, <3>2
    <3>4. a + b + c <= MaxItems
      BY <2>1, <3>3
    <3> QED
      BY <1>5, <2>7, <3>1, <3>2, <3>4
  <2> QED
    BY <2>4, <2>5, <2>6, <2>7
<1> QED
  BY <1>6 DEF NormalizedEvidence

-----------------------------------------------------------------------------
(* The confidence of the causes.                                           *)

LEMMA HitsSpeak ==
    ASSUME NEW items, NEW rule
    PROVE  Hits(items, rule) = {i \in DOMAIN items : Speaks(items[i], rule)}
  BY DEF Hits, Speaks

LEMMA WeightsAre ==
    /\ DOMAIN Rules = {"disk_pressure", "high_cpu", "zombie_process", "service_failure"}
    /\ Rules["disk_pressure"].weight = 90 /\ Rules["zombie_process"].weight = 80
    /\ Rules["service_failure"].weight = 85
  BY DEF Rules

\* One item alone.
LEMMA ConfidenceAlone ==
    ASSUME NEW items, NEW rule, NEW at, Hits(items, rule) = {at}, items[at].anomaly \in Int
    PROVE  Confidence(items, rule) = AloneScore(Rules[rule].weight, items[at].anomaly)
<1> DEFINE hits == Hits(items, rule)
           sum == AnomalySum(items, hits)
           size == Cardinality(hits)
           types == Cardinality({items[i].type : i \in hits})
           weight == Rules[rule].weight
           score == Points(weight, sum, size) + Bonus(types)
<1>1. Confidence(items, rule) = IF score > 1000 THEN 1000 ELSE score
  BY DEF Confidence
<1>2. hits = {at}
  OBVIOUS
<1> HIDE DEF hits
<1>3. sum = items[at].anomaly
  BY <1>2, SumAlone
<1>4. size = 1
  BY <1>2, FS_Singleton
<1>5. types = 1
  <2>1. {items[i].type : i \in hits} = {items[at].type}
    BY <1>2
  <2> QED
    BY <2>1, FS_Singleton
<1> HIDE DEF sum, size, types, weight
<1>6. Bonus(types) = 80
  BY <1>5 DEF Bonus
<1>7. score = Points(weight, items[at].anomaly, 1) + 80
  BY <1>3, <1>4, <1>6
<1> HIDE DEF score
<1>8. Confidence(items, rule) = AloneScore(weight, items[at].anomaly)
  BY <1>1, <1>7 DEF AloneScore
<1> QED
  BY <1>8 DEF weight

-----------------------------------------------------------------------------
(* A critical diagnosis and its cause.                                     *)

\* If only record k can speak for a cause, and its only item does, the cause has that item alone.
LEMMA SpeaksAlone ==
    ASSUME NEW items, NEW at, NEW n, Traced(items, at, n), NEW k \in 1..n, NEW x, NEW rule,
           Items(evidence[k]) = <<x>>, Speaks(x, rule),
           \A j \in DOMAIN items : Speaks(items[j], rule) => at[j] = k
    PROVE  \E i : Hits(items, rule) = {i} /\ items[i] = x
<1>1. PICK i \in DOMAIN items : items[i] = x /\ \A j \in DOMAIN items : at[j] = k <=> j = i
  BY DEF Traced
<1>2. Hits(items, rule) = {j \in DOMAIN items : Speaks(items[j], rule)}
  BY HitsSpeak
<1>3. {j \in DOMAIN items : Speaks(items[j], rule)} = {i}
  BY <1>1
<1> QED
  BY <1>1, <1>2, <1>3

\* Among the three best is who is beaten by two at most.
LEMMA RankedByTwo ==
    ASSUME NEW items, NEW rule \in DOMAIN Rules, Hits(items, rule) # {}, NEW p, NEW q,
           \A r \in DOMAIN Rules \ {rule, p, q} : Hits(items, r) # {} => ~RanksBefore(items, r, rule)
    PROVE  rule \in RootCauses(items)
<1> DEFINE named == {r \in DOMAIN Rules : Hits(items, r) # {}}
           better == {r \in named \ {rule} : RanksBefore(items, r, rule)}
<1>1. better \in SUBSET {p, q}
  OBVIOUS
<1>2. IsFiniteSet({p, q}) /\ Cardinality({p, q}) <= 2 /\ Cardinality({p, q}) \in Nat
  <2>1. IsFiniteSet({p}) /\ Cardinality({p}) = 1
    BY FS_Singleton
  <2>2. /\ IsFiniteSet({p} \cup {q})
        /\ q \in {p} => Cardinality({p} \cup {q}) = Cardinality({p})
        /\ q \notin {p} => Cardinality({p} \cup {q}) = Cardinality({p}) + 1
    BY <2>1, FS_AddElement
  <2>3. {p, q} = {p} \cup {q}
    OBVIOUS
  <2> QED
    BY <2>1, <2>2, <2>3
<1> HIDE DEF better
<1>3. IsFiniteSet(better) /\ Cardinality(better) <= Cardinality({p, q})
  BY <1>1, <1>2, FS_Subset
<1>4. Cardinality(better) < 3
  BY <1>2, <1>3, FS_CardinalityType
<1> QED
  BY <1>4 DEF RootCauses, better

\* A lower confidence ranks behind.
LEMMA LowerIsBehind ==
    ASSUME NEW items, NEW q, NEW r, Confidence(items, q) \in Int, Confidence(items, r) \in Int,
           Confidence(items, q) < Confidence(items, r)
    PROVE  ~RanksBefore(items, q, r)
<1>1. PICK a \in Int, b \in Int : a = Confidence(items, q) /\ b = Confidence(items, r)
  OBVIOUS
<1>2. ~(a > b) /\ a # b
  BY <1>1
<1> QED
  BY <1>1, <1>2 DEF RanksBefore

LEMMA ItemIsThere ==
    ASSUME NEW items, NEW at, NEW n, Traced(items, at, n), NEW k \in 1..n, NEW x, Items(evidence[k]) = <<x>>
    PROVE  \E i \in DOMAIN items : items[i] = x
  BY DEF Traced

LEMMA ThreeAtMost ==
    ASSUME NEW n \in 0..3, NEW k \in 1..n, NEW k1 \in 1..n, NEW k2 \in 1..n, k # k1, k # k2, k1 # k2
    PROVE  \A m \in 1..n : m \in {k, k1, k2}
  OBVIOUS

\* A cause with a hit has a record of a tool that speaks for it.
LEMMA HitHasRecord ==
    ASSUME NEW n, NEW items, NEW at, Traced(items, at, n)
    PROVE  /\ items \in Seq(ItemRecord)
           /\ \A j \in DOMAIN items :
                /\ at[j] \in 1..n
                /\ Speaks(items[j], "disk_pressure") => evidence[at[j]].tool \in DiskTools
                /\ Speaks(items[j], "zombie_process") => evidence[at[j]].tool \in ProcessTools
                /\ Speaks(items[j], "service_failure") => evidence[at[j]].tool \in ServiceTools
           /\ Hits(items, "disk_pressure") # {} => \E k \in 1..n : evidence[k].tool \in DiskTools
           /\ Hits(items, "zombie_process") # {} => \E k \in 1..n : evidence[k].tool \in ProcessTools
           /\ Hits(items, "service_failure") # {} => \E k \in 1..n : evidence[k].tool \in ServiceTools
<1>1. items \in Seq(ItemRecord) /\ \A j \in DOMAIN items : at[j] \in 1..n /\ FromTool(items[j], evidence[at[j]].tool)
  BY DEF Traced
<1>2. \A j \in DOMAIN items :
        /\ at[j] \in 1..n
        /\ Speaks(items[j], "disk_pressure") => evidence[at[j]].tool \in DiskTools
        /\ Speaks(items[j], "zombie_process") => evidence[at[j]].tool \in ProcessTools
        /\ Speaks(items[j], "service_failure") => evidence[at[j]].tool \in ServiceTools
  BY <1>1 DEF FromTool
<1> QED
  BY <1>1, <1>2, HitsSpeak

LEMMA ToolsApart ==
    /\ DiskTools \cap ProcessTools = {} /\ DiskTools \cap ServiceTools = {}
    /\ ProcessTools \cap ServiceTools = {}
    /\ "service_status" \in ServiceTools /\ "disk_usage_scan" \in DiskTools
  BY DEF DiskTools, ProcessTools, ServiceTools

\* A list of processes alone has at most 0.840.
LEMMA ProcessesAlone ==
    ASSUME NEW n \in 0..3, NEW items, NEW at, Traced(items, at, n),
           NEW k \in 1..n, NEW k1 \in 1..n, NEW k2 \in 1..n, k # k1, k # k2, k1 # k2,
           evidence[k].tool \in ProcessTools, IsReading(evidence[k]),
           evidence[k1].tool \notin ProcessTools, evidence[k2].tool \notin ProcessTools
    PROVE  Confidence(items, "zombie_process") \in Int /\ Confidence(items, "zombie_process") <= 840
<1>1. PICK x : /\ Items(evidence[k]) = <<x>> /\ Speaks(x, "zombie_process")
               /\ x.anomaly \in Int /\ x.anomaly <= Whole
  BY WhatSpeaks
<1>2. \A j \in DOMAIN items : Speaks(items[j], "zombie_process") => evidence[at[j]].tool \in ProcessTools
  BY HitHasRecord
<1>3. PICK i : Hits(items, "zombie_process") = {i} /\ items[i] = x
  <2>1. Items(evidence[k]) = <<x>> /\ Speaks(x, "zombie_process")
    BY <1>1
  <2>2. \A j \in DOMAIN items : Speaks(items[j], "zombie_process") => at[j] = k
    BY <1>2, ThreeAtMost, HitHasRecord
  <2> QED
    BY <2>1, <2>2, SpeaksAlone
<1>4. Confidence(items, "zombie_process") = AloneScore(80, x.anomaly)
  BY <1>1, <1>3, WeightsAre, ConfidenceAlone
<1> QED
  BY <1>1, <1>4, AloneScores

\* The argument for both causes.  All four are named only if each of the three records
\* speaks for one of its own, and then the list of processes is worth the least.
ToolsOf(rule) == IF rule = "service_failure" THEN ServiceTools ELSE DiskTools

LEMMA OneOfThree ==
    ASSUME NEW n \in 0..3, NEW items, NEW at, Traced(items, at, n), \A k \in 1..n : IsReading(evidence[k]),
           NEW k \in 1..n, NEW x, NEW rule \in {"service_failure", "disk_pressure"},
           evidence[k].tool \in ToolsOf(rule), Items(evidence[k]) = <<x>>, Speaks(x, rule), x.anomaly \in Int,
           AloneScore(Rules[rule].weight, x.anomaly) \in Int,
           840 < AloneScore(Rules[rule].weight, x.anomaly)
    PROVE  rule \in RootCauses(items)
<1>0. PICK other, own, others :
        /\ \/ rule = "service_failure" /\ other = "disk_pressure" /\ own = ServiceTools /\ others = DiskTools
           \/ rule = "disk_pressure" /\ other = "service_failure" /\ own = DiskTools /\ others = ServiceTools
        /\ evidence[k].tool \in own
  BY DEF ToolsOf
<1>1. DOMAIN Rules = {"disk_pressure", "high_cpu", "zombie_process", "service_failure"}
        /\ rule \in DOMAIN Rules
  BY WeightsAre
<1>2. Hits(items, rule) # {}
  <2>1. \E i \in DOMAIN items : items[i] = x
    BY ItemIsThere
  <2> QED
    BY <2>1, HitsSpeak
<1>3. CASE Hits(items, other) = {}
  <2>1. \A r \in DOMAIN Rules \ {rule, "high_cpu", "zombie_process"} :
          Hits(items, r) # {} => ~RanksBefore(items, r, rule)
    BY <1>0, <1>1, <1>3
  <2> QED
    BY <1>1, <1>2, <2>1, RankedByTwo
<1>4. CASE Hits(items, "zombie_process") = {}
  <2>1. \A r \in DOMAIN Rules \ {rule, "high_cpu", other} :
          Hits(items, r) # {} => ~RanksBefore(items, r, rule)
    BY <1>0, <1>1, <1>4
  <2> QED
    BY <1>1, <1>2, <2>1, RankedByTwo
<1>5. CASE Hits(items, other) # {} /\ Hits(items, "zombie_process") # {}
  <2>1. PICK k1 \in 1..n, k2 \in 1..n : evidence[k1].tool \in others /\ evidence[k2].tool \in ProcessTools
    BY <1>0, <1>5, HitHasRecord
  <2>2. /\ k # k1 /\ k # k2 /\ k1 # k2
        /\ evidence[k1].tool \notin own /\ evidence[k2].tool \notin own
        /\ evidence[k].tool \notin ProcessTools /\ evidence[k1].tool \notin ProcessTools
    BY <1>0, <2>1, ToolsApart
  <2>3. \A j \in DOMAIN items : Speaks(items[j], rule) => at[j] = k
    <3>1. \A m \in 1..n : m \in {k, k1, k2}
      BY <2>2, ThreeAtMost
    <3>2. \A j \in DOMAIN items : at[j] \in 1..n /\ (Speaks(items[j], rule) => evidence[at[j]].tool \in own)
      BY <1>0, HitHasRecord
    <3> QED
      BY <2>2, <3>1, <3>2
  <2>4. PICK i : Hits(items, rule) = {i} /\ items[i] = x
    BY <2>3, SpeaksAlone
  <2>5. Confidence(items, rule) = AloneScore(Rules[rule].weight, x.anomaly)
    BY <2>4, ConfidenceAlone
  <2>6. Confidence(items, "zombie_process") \in Int /\ Confidence(items, "zombie_process") <= 840
    BY <2>1, <2>2, ProcessesAlone
  <2>7. ~RanksBefore(items, "zombie_process", rule)
    <3>1. PICK a \in Int, b \in Int : a = Confidence(items, "zombie_process") /\ b = Confidence(items, rule)
      BY <2>5, <2>6
    <3>2. a < b
      BY <2>5, <2>6, <3>1
    <3> QED
      BY <3>1, <3>2, LowerIsBehind
  <2>8. \A r \in DOMAIN Rules \ {rule, "high_cpu", other} :
          Hits(items, r) # {} => ~RanksBefore(items, r, rule)
    BY <1>0, <1>1, <2>7
  <2> QED
    BY <1>1, <1>2, <2>8, RankedByTwo
<1> QED
  BY <1>3, <1>4, <1>5

\* A failed service among at most three readings is one of the three best causes.
LEMMA FailedServiceIsCause ==
    ASSUME NEW n \in 0..3, NEW items, NEW at, Traced(items, at, n), \A k \in 1..n : IsReading(evidence[k]),
           NEW k \in 1..n, evidence[k].tool = "service_status", evidence[k].reading = "failed"
    PROVE  "service_failure" \in RootCauses(items)
<1>1. PICK x : Items(evidence[k]) = <<x>> /\ x.anomaly = FailedAnomaly /\ Speaks(x, "service_failure")
  BY WhatSpeaks
<1>2. x.anomaly \in Int
  BY <1>1, WholeIsNat
<1>3. AloneScore(Rules["service_failure"].weight, x.anomaly) = 841
  BY <1>1, WeightsAre, AloneScores
<1>4. AloneScore(Rules["service_failure"].weight, x.anomaly) \in Int
        /\ 840 < AloneScore(Rules["service_failure"].weight, x.anomaly)
  BY <1>3
<1>5. evidence[k].tool \in ToolsOf("service_failure")
  BY ToolsApart DEF ToolsOf
<1> QED
  BY <1>1, <1>2, <1>4, <1>5, OneOfThree

\* So is a disk that is full.
LEMMA FullDiskIsCause ==
    ASSUME NEW n \in 0..3, NEW items, NEW at, Traced(items, at, n), \A k \in 1..n : IsReading(evidence[k]),
           NEW k \in 1..n, evidence[k].tool = "disk_usage_scan", evidence[k].reading >= 95
    PROVE  "disk_pressure" \in RootCauses(items)
<1>1. PICK x : Items(evidence[k]) = <<x>> /\ x.anomaly = Whole /\ Speaks(x, "disk_pressure")
  BY WhatSpeaks
<1>2. x.anomaly \in Int
  BY <1>1, WholeIsNat
<1>3. AloneScore(Rules["disk_pressure"].weight, x.anomaly) = 935
  BY <1>1, WeightsAre, AloneScores
<1>4. AloneScore(Rules["disk_pressure"].weight, x.anomaly) \in Int
        /\ 840 < AloneScore(Rules["disk_pressure"].weight, x.anomaly)
  BY <1>3
<1>5. evidence[k].tool \in ToolsOf("disk_pressure")
  BY ToolsApart DEF ToolsOf
<1> QED
  BY <1>1, <1>2, <1>4, <1>5, OneOfThree

\* The reading a diagnosis goes by is that of a record.
LEMMA LastIsReading ==
    ASSUME NEW n \in 0..3, evidence \in Seq(EvidenceRecord), Len(evidence) = n, NEW tool \in Used
    PROVE  \E k \in 1..n : evidence[k].tool = tool /\ evidence[k].reading = Last(tool)
<1> DEFINE at == {i \in DOMAIN evidence : evidence[i].tool = tool}
<1>1. at \subseteq 1..n /\ at # {}
  BY DEF Used
<1>2. \A i \in at : i \in 1..n /\ evidence[i].tool = tool
  BY <1>1
<1>3. Last(tool) = evidence[CHOOSE i \in at : \A j \in at : j <= i].reading
  BY DEF Last
<1> HIDE DEF at
<1>4. \E i \in at : \A j \in at : j <= i
  <2>1. at \subseteq {1, 2, 3}
    BY <1>1
  <2>2. CASE 3 \in at
    BY <2>1, <2>2
  <2>3. CASE 3 \notin at /\ 2 \in at
    BY <2>1, <2>3
  <2>4. CASE at = {1}
    BY <2>4
  <2> QED
    BY <1>1, <2>1, <2>2, <2>3, <2>4
<1> QED
  BY <1>2, <1>3, <1>4

\* At most one record is of large files.
OneFileScan ==
    \A i, j \in DOMAIN evidence :
        evidence[i].tool = "large_file_scan" /\ evidence[j].tool = "large_file_scan" => i = j

\* The two analyses agree on evidence of at most three readings.
LEMMA CriticalHasCause ==
    ASSUME evidence \in Seq(EvidenceRecord), \A i \in DOMAIN evidence : IsReading(evidence[i]),
           Len(evidence) <= 3, Level = "critical", OneFileScan
    PROVE  (IF "service_status" \in Used THEN "service_failure" ELSE "disk_pressure")
             \in RootCauses(NormalizedEvidence)
<1>1. PICK n \in 0..3 : Len(evidence) = n /\ \A k \in 1..n : IsReading(evidence[k])
  <2>1. Len(evidence) \in Nat /\ DOMAIN evidence = 1..Len(evidence)
    OBVIOUS
  <2>2. Len(evidence) \in 0..3
    BY <2>1
  <2> QED
    BY <2>1, <2>2
<1>2. PICK at : Traced(NormalizedEvidence, at, n)
  <2>1. DOMAIN evidence = 1..n
    BY <1>1
  <2>2. NormalizedEvidence = AllItems
    BY <1>1, <2>1, AllAreKept DEF OneFileScan
  <2> QED
    BY <1>1, <2>2, EvidenceIsTraced
<1>3. CASE "service_status" \in Used
  <2>1. Last("service_status") = "failed"
    BY <1>3 DEF Level
  <2>2. PICK k \in 1..n : evidence[k].tool = "service_status" /\ evidence[k].reading = Last("service_status")
    BY <1>1, <1>3, LastIsReading
  <2>3. "service_failure" \in RootCauses(NormalizedEvidence)
    BY <1>1, <1>2, <2>1, <2>2, FailedServiceIsCause
  <2> QED
    BY <1>3, <2>3
<1>4. CASE "service_status" \notin Used
  <2>1. "disk_usage_scan" \in Used /\ Last("disk_usage_scan") >= 95
    BY <1>4 DEF Level
  <2>2. PICK k \in 1..n : evidence[k].tool = "disk_usage_scan" /\ evidence[k].reading = Last("disk_usage_scan")
    BY <1>1, <2>1, LastIsReading
  <2>3. "disk_pressure" \in RootCauses(NormalizedEvidence)
    BY <1>1, <1>2, <2>1, <2>2, FullDiskIsCause
  <2> QED
    BY <1>4, <2>3
<1> QED
  BY <1>3, <1>4

\* Every record is one a tool can have left, and only a run that has ended has an answer.
CauseInv ==
    /\ RaiseInv
    /\ \A i \in DOMAIN evidence : IsReading(evidence[i])
    /\ pc # "ended" => answer = {}
    /\ CriticalAnswerHasItsCause

LEMMA CallToolReads ==
    ASSUME CauseInv, CallTool
    PROVE  \A i \in DOMAIN evidence' : IsReading(evidence'[i])
<1> DEFINE n == Len(evidence) + 1
           step == Steps[n]
<1>1. /\ pc = "running" /\ Len(evidence) < Len(Steps)
      /\ \/ UNCHANGED evidence
         \/ Collect(step.tool, FALSE, Default(step.tool))
         \/ \E reading \in Readings(step.tool) : Collect(step.tool, TRUE, reading)
  BY DEF CallTool
<1>2. n \in DOMAIN plan.steps /\ step = plan.steps[n] /\ plan.steps \in Seq(StepRecord)
  BY <1>1, NextStepOfPlan DEF CauseInv, RaiseInv, Shapes
<1>3. step.tool \in Tools \cup {"run_command"}
  <2>1. plan.steps[n] \in StepRecord
    BY <1>2
  <2> HIDE DEF step
  <2> QED
    BY <1>2, <2>1 DEF StepRecord
<1>4. evidence \in Seq(EvidenceRecord) /\ \A i \in DOMAIN evidence : IsReading(evidence[i])
  BY DEF CauseInv, RaiseInv, Shapes
<1> HIDE DEF n, step
<1>5. ASSUME NEW ok, NEW reading \in Readings(step.tool) \cup {Default(step.tool)},
             Collect(step.tool, ok, reading)
      PROVE  \A i \in DOMAIN evidence' : IsReading(evidence'[i])
  <2> DEFINE record == [tool |-> step.tool, ok |-> ok, reading |-> reading]
  <2>1. IsReading(record)
    BY <1>3 DEF IsReading
  <2>2. evidence' = Append(evidence, record)
    BY <1>5 DEF Collect
  <2> HIDE DEF record
  <2>3. \A i \in DOMAIN evidence' : evidence'[i] = record \/ (i \in DOMAIN evidence /\ evidence'[i] = evidence[i])
    BY <1>4, <2>2
  <2> QED
    BY <1>4, <2>1, <2>3
<1> QED
  BY <1>1, <1>4, <1>5

LEMMA CauseInductive == CauseInv /\ [Next]_vars => CauseInv'
<1> SUFFICES ASSUME CauseInv, [Next]_vars
             PROVE  CauseInv'
  OBVIOUS
<1>1. RaiseInv'
  BY RaiseInductive DEF CauseInv
<1>2. \A i \in DOMAIN evidence' : IsReading(evidence'[i])
  <2>1. CASE CallTool
    BY <2>1, CallToolReads
  <2>2. CASE ~CallTool
    <3>1. UNCHANGED evidence
      BY <2>2 DEF Next, vars, Receive, PostFails, PostAnswers, Fallback, Finish, Lookup, Classify, Compose
    <3> QED
      BY <3>1 DEF CauseInv
  <2> QED
    BY <2>1, <2>2
<1>3. CASE Compose
  <2>1. /\ answer' = {[level |-> Level, causes |-> RootCauses(NormalizedEvidence)]}
        /\ pc' = "ended" /\ UNCHANGED evidence
    BY <1>3 DEF Compose
  <2>2. Used' = Used
    BY <2>1 DEF Used
  <2>3. evidence \in Seq(EvidenceRecord) /\ \A i \in DOMAIN evidence : IsReading(evidence[i])
    BY DEF CauseInv, RaiseInv, Shapes
  <2>4. CriticalAnswerHasItsCause'
    <3>1. SUFFICES ASSUME Level = "critical", Len(evidence) <= 3, OneFileScan
                   PROVE  (IF "service_status" \in Used THEN "service_failure" ELSE "disk_pressure")
                            \in RootCauses(NormalizedEvidence)
      BY <2>1, <2>2 DEF CriticalAnswerHasItsCause, OneFileScan
    <3> QED
      BY <2>3, <3>1, CriticalHasCause
  <2> QED
    BY <1>1, <1>2, <2>1, <2>4 DEF CauseInv
<1>4. CASE Receive \/ PostAnswers \/ Fallback
  <2>1. pc # "ended" /\ ((pc' # "ended" /\ UNCHANGED answer) \/ (pc' = "ended" /\ status' = "BLOCKED"))
    BY <1>4 DEF Receive, PostAnswers, Fallback, Adopt
  <2> QED
    BY <1>1, <1>2, <2>1 DEF CauseInv, CriticalAnswerHasItsCause
<1>5. CASE PostFails \/ CallTool \/ Finish \/ Lookup \/ Classify
  <2>1. pc # "ended" /\ pc' # "ended" /\ UNCHANGED answer
    BY <1>5 DEF PostFails, CallTool, Finish, Lookup, Classify
  <2> QED
    BY <1>1, <1>2, <2>1 DEF CauseInv, CriticalAnswerHasItsCause
<1>6. CASE UNCHANGED vars
  BY <1>1, <1>2, <1>6 DEF vars, CauseInv, CriticalAnswerHasItsCause, Used
<1> QED
  BY <1>3, <1>4, <1>5, <1>6 DEF Next

\* When the diagnosis of at most three readings, at most one of large files, is critical, the
\* three root causes hold the matching one, for any plan and whatever percentages, counts and
\* sizes were read (orchestrator.py:180-203, normalization.py:33, rca.py:18-24, 46-60).
THEOREM CriticalAnswersHaveCause == Spec => []CriticalAnswerHasItsCause
<1>1. Init => CauseInv
  <2>1. Init => answer = {} /\ evidence = <<>>
    BY DEF Init
  <2> QED
    BY <2>1, RaiseStart DEF CauseInv, CriticalAnswerHasItsCause
<1>2. CauseInv => CriticalAnswerHasItsCause
  BY DEF CauseInv
<1> QED
  BY <1>1, <1>2, CauseInductive, PTL DEF Spec

=============================================================================
