------------------------------ MODULE AgentRun ------------------------------
(***************************************************************************)
(* One run of the agent on a goal: AgentOrchestrator.run                   *)
(* (agent/orchestrator.py) with the model provider (llm/provider.py), the  *)
(* runner of the plan (agent/runners.py), the tools (mcp_server), evidence *)
(* normalisation, root cause analysis and the classification of cleanup    *)
(* candidates.                                                             *)
(*                                                                         *)
(* The machine may change between any two steps, so that every tool reads  *)
(* what it likes.  A reading keeps what the answer depends on: percentages *)
(* to the whole number, counts, sizes.  What a model may answer is Offers. *)
(***************************************************************************)
EXTENDS Planning, CleanupRules, FiniteSets

CONSTANTS
    Goals,          \* goals a task may have
    Offers,         \* plans the model may answer that fit the schema
    Files,          \* kinds of file a scan may come upon
    DiskLevels,     \* percent of a disk in use
    LoadLevels,     \* load in percent of the CPUs
    ZombieCounts,   \* zombies among the processes listed
    LineCounts,     \* lines of the journal, none without journalctl
    FileSizes,      \* sizes of large files, in millions of bytes
    MaxFiles,       \* files of a scan that become evidence (100 in the code)
    MaxItems,       \* items of evidence that are kept (200 in the code)
    MaxSteps,       \* steps of a plan that are run (5 in the code)
    MaxRetries      \* further requests to the model after a failed one

ASSUME RunAssumption ==
    /\ Goals \subseteq Goal /\ Files \subseteq FileKinds
    /\ Offers \subseteq {p \in PlanRecord : p.by = "model"}
    /\ MaxSteps \in 1..10 /\ MaxRetries \in Nat

ASSUME ReadingAssumption ==
    /\ DiskLevels \subseteq 0..100 /\ LoadLevels \subseteq Nat
    /\ ZombieCounts \subseteq Nat /\ LineCounts \subseteq Nat /\ FileSizes \subseteq Nat
    /\ MaxFiles \in Nat /\ MaxItems \in Nat /\ 6 <= MaxItems /\ MaxFiles + 4 <= MaxItems

\* ActiveState: failed stands for inactive too, activating for every other state
\* systemd knows, unknown for an answer without one.
ServiceReadings == {"active", "failed", "activating", "unknown"}

AtMostOne(S) == {<<>>} \cup {<<x>> : x \in S}

FileLists == UNION {[1..k -> FileSizes] : k \in 0..MaxFiles}

\* Of the other tools no answer depends on what they read.
Readings(tool) ==
    CASE tool = "disk_usage_scan" -> DiskLevels
      [] tool = "system_snapshot" -> [disk : AtMostOne(DiskLevels), load : AtMostOne(LoadLevels)]
      [] tool = "large_file_scan" -> FileLists
      [] tool = "zombie_process_scan" -> ZombieCounts
      [] tool = "journal_query" -> LineCounts
      [] tool = "service_status" -> ServiceReadings
      [] OTHER -> {0}

\* What the code takes for the reading when the data of a failed result, {}, has none.
Default(tool) ==
    CASE tool = "service_status" -> "unknown"
      [] tool = "large_file_scan" -> <<>>
      [] tool = "system_snapshot" -> [disk |-> <<>>, load |-> <<>>]
      [] OTHER -> 0

NoPlan == [by |-> "none"]

VARIABLES
    goal,
    pc,
    posts,          \* requests sent to the model
    plan,
    evidence,       \* what the steps returned, in order
    status,         \* "none", then SUCCEEDED, FAILED or BLOCKED
    looked,         \* the occupancy lookup of the file under analysis
    eligible,       \* candidates offered: the file as it was classified
    answer          \* the diagnosis and the root causes, in a set once there

vars == <<goal, pc, posts, plan, evidence, status, looked, eligible, answer>>

Init ==
    /\ goal \in Goals
    /\ pc = "received" /\ posts = 0 /\ plan = NoPlan /\ evidence = <<>>
    /\ status = "none" /\ looked = "none" /\ eligible = {} /\ answer = {}

-----------------------------------------------------------------------------
(* Planning *)

\* The input policy is asked before the model and before any tool.
Receive ==
    /\ pc = "received"
    /\ IF goal.forbidden
         THEN pc' = "ended" /\ status' = "BLOCKED" /\ answer' = {[level |-> "critical", causes |-> {}]}
         ELSE pc' \in {"asking", "fallback"} /\ UNCHANGED <<status, answer>>    \* fallback: no model is set up
    /\ UNCHANGED <<goal, posts, plan, evidence, looked, eligible>>

\* A request fails, or its answer does not fit the schema.  The circuit that the
\* last failure opens belongs to a provider made for this run alone.
PostFails ==
    /\ pc = "asking"
    /\ posts' = posts + 1
    /\ pc' = IF posts < MaxRetries THEN "asking" ELSE "fallback"
    /\ UNCHANGED <<goal, plan, evidence, status, looked, eligible, answer>>

\* A plan whose intent is FORBIDDEN blocks the run although the policy allowed the goal.
Adopt(p) ==
    /\ plan' = p
    /\ IF p.intent = "FORBIDDEN"
         THEN pc' = "ended" /\ status' = "BLOCKED" /\ answer' = {[level |-> "critical", causes |-> {}]}
         ELSE pc' = "running" /\ UNCHANGED <<status, answer>>

PostAnswers == \E offer \in Offers :
    /\ pc = "asking"
    /\ posts' = posts + 1
    /\ IF Valid(Normalized(offer, goal), goal)
         THEN Adopt(Normalized(offer, goal))
         ELSE pc' = "fallback" /\ UNCHANGED <<plan, status, answer>>
    /\ UNCHANGED <<goal, evidence, looked, eligible>>

\* The rules' own plan is validated as well, outside the try block.
Fallback ==
    /\ pc = "fallback"
    /\ LET p == Normalized(RuleFallback(goal), goal) IN
         IF Valid(p, goal) THEN Adopt(p)
         ELSE pc' = "raised" /\ plan' = p /\ UNCHANGED <<status, answer>>
    /\ UNCHANGED <<goal, posts, evidence, looked, eligible>>

-----------------------------------------------------------------------------
(* Running *)

\* plan.steps[: self.max_steps]
Steps == SubSeq(plan.steps, 1, IF Len(plan.steps) < MaxSteps THEN Len(plan.steps) ELSE MaxSteps)

Collect(tool, ok, reading) ==
    evidence' = Append(evidence, [tool |-> tool, ok |-> ok, reading |-> reading])

\* Mutant: the loop goes on after a tool that failed.
CallTool_GoOn ==
    /\ pc = "running" /\ Len(evidence) < Len(Steps)
    /\ LET step == Steps[Len(evidence) + 1] IN
         \/ Collect(step.tool, FALSE, Default(step.tool))
         \/ /\ ~Unfit(step) /\ step.arguments # "refused"
            /\ \E reading \in Readings(step.tool) : Collect(step.tool, TRUE, reading)
    /\ UNCHANGED <<goal, pc, posts, plan, status, looked, eligible, answer>>

\* ToolRegistry.call: nothing catches TypeError, every other error is a FAILED
\* result.  A value of the wrong type may go unnoticed, as a limit where there is
\* nothing to list, or be refused, as a service that is no name.
CallTool ==
    /\ pc = "running" /\ Len(evidence) < Len(Steps)
    /\ LET step == Steps[Len(evidence) + 1] IN
         \/ /\ Unfit(step)
            /\ pc' = "raised" /\ UNCHANGED <<evidence, status>>
         \/ /\ ~Unfit(step) \/ step.arguments = "mistyped"
            /\ Collect(step.tool, FALSE, Default(step.tool))
            /\ pc' = "scanned" /\ status' = "FAILED"
         \/ /\ ~Unfit(step) \/ step.arguments = "mistyped"
            /\ step.arguments # "refused"
            /\ \E reading \in Readings(step.tool) : Collect(step.tool, TRUE, reading)
            /\ UNCHANGED <<pc, status>>
    /\ UNCHANGED <<goal, posts, plan, looked, eligible, answer>>

Finish ==
    /\ pc = "running" /\ Len(evidence) = Len(Steps)
    /\ pc' = "scanned" /\ status' = "SUCCEEDED"
    /\ UNCHANGED <<goal, posts, plan, evidence, looked, eligible, answer>>

-----------------------------------------------------------------------------
(* CleanupAnalysisService.analyze_large_file_result: the first scan's files *)

\* By now the path the scan found may hold any file, or none.
Found == \E i \in DOMAIN evidence :
    /\ evidence[i].tool = "large_file_scan" /\ evidence[i].reading # <<>>
    /\ \A j \in 1..i - 1 : evidence[j].tool # "large_file_scan"

Lookup ==
    /\ pc = "scanned" /\ Found
    /\ \E f \in Files : looked' \in LookupStates(f)
    /\ pc' = "looked"
    /\ UNCHANGED <<goal, posts, plan, evidence, status, eligible, answer>>

Classify ==
    /\ pc = "looked"
    /\ eligible' \in {{}} \cup {{f} : f \in {g \in Files : Eligible(g, looked)}}
    /\ pc' = "analysed"
    /\ UNCHANGED <<goal, posts, plan, evidence, status, looked, answer>>

-----------------------------------------------------------------------------
(* EvidenceNormalizer *)

\* The anomaly 1.0.  The others come out as whole numbers: they are hundredths,
\* or percentages over 700, 250, 200 or 900.
Whole == 63000

\* From 0 to 0.3 up to the warning, from there to 1 at the critical value.
RatioScore(value, warning, critical) ==
    IF value <= warning THEN value * ((3 * Whole) \div (10 * warning))
    ELSE LET score == (3 * Whole) \div 10 + (value - warning) * ((7 * Whole) \div (10 * (critical - warning)))
         IN  IF score > Whole THEN Whole ELSE score

\* min(1.0, value / most)
ShareScore(value, most) == IF value >= most THEN Whole ELSE value * (Whole \div most)

Item(type, words, anomaly) == [type |-> type, words |-> words, anomaly |-> anomaly]

\* Items of one evidence record.  Words are those of the title, the source and the tags.
Items(record) ==
    LET n == record.reading IN
    CASE record.tool = "disk_usage_scan" ->
            <<Item("METRIC", {"disk", "space"}, RatioScore(n, 70, 95))>>
      [] record.tool = "system_snapshot" ->
            [i \in DOMAIN n.disk |-> Item("METRIC", {"disk", "space", "usage"}, RatioScore(n.disk[i], 70, 95))]
              \o [i \in DOMAIN n.load |-> Item("METRIC", {"cpu", "load"}, RatioScore(n.load[i], 60, 150))]
      [] record.tool = "large_file_scan" ->
            [i \in DOMAIN n |-> Item("LOG", {"large", "file", "disk", "space", "large_file"}, ShareScore(n[i], 1000))]
      [] record.tool = "zombie_process_scan" ->
            <<Item("PROCESS", {"zombie", "process"}, ShareScore(n, 5))>>
      [] record.tool = "process_list" ->
            <<Item("PROCESS", {"process", "inventory"}, Whole \div 10)>>
      [] record.tool = "service_status" ->
            IF n \in {"active", "unknown"} THEN <<Item("SERVICE", {"service", "status"}, Whole \div 10)>>
            ELSE <<Item("SERVICE", {"service", "status", "failed"}, 9 * (Whole \div 10))>>
      [] record.tool = "journal_query" ->
            <<Item("LOG", {"journal", "evidence", "service"}, ShareScore(n, 100))>>
      [] OTHER -> <<Item("METRIC", {record.tool, "evidence"}, Whole \div 10)>>

AllItems ==
    LET upTo[i \in 0..Len(evidence)] == IF i = 0 THEN <<>> ELSE upTo[i - 1] \o Items(evidence[i])
    IN  upTo[Len(evidence)]

\* EvidenceNormalizer.normalize
NormalizedEvidence == IF Len(AllItems) <= MaxItems THEN AllItems ELSE SubSeq(AllItems, 1, MaxItems)

-----------------------------------------------------------------------------
(* RCAEngine *)

\* RULES: the keywords and the weight in percent of each cause, and its place in
\* the table.  Evidence of configuration drift has no keyword of its rule.
Rules == [disk_pressure   |-> [keywords |-> {"disk", "space", "large_file"},  weight |-> 90, place |-> 1],
          high_cpu        |-> [keywords |-> {"cpu", "load", "process"},       weight |-> 85, place |-> 2],
          zombie_process  |-> [keywords |-> {"zombie", "process"},            weight |-> 80, place |-> 3],
          service_failure |-> [keywords |-> {"service", "failed", "journal"}, weight |-> 85, place |-> 4]]

Hits(items, rule) == {i \in DOMAIN items : items[i].words \cap Rules[rule].keywords # {}}

\* sum(item.anomaly_score for item in hits)
AnomalySum(items, hits) ==
    LET sum[S \in SUBSET hits] ==
            IF S = {} THEN 0 ELSE LET i == CHOOSE i \in S : TRUE IN items[i].anomaly + sum[S \ {i}]
    IN  sum[hits]

\* round(weight * (0.55 * sum / n + 0.25 * 0.8 + 0.2), 3), in thousandths.  Of an
\* exact half, where floating point decides, the next one is taken.
Points(weight, sum, n) == (weight * (11 * sum + 8 * Whole * n) + Whole * n) \div (2 * Whole * n)

\* min(0.08 * types, 0.24)
Bonus(types) == IF types > 3 THEN 240 ELSE 80 * types

\* Mutant: rounded to two digits, a failed service and five zombies are both 0.84.
Confidence_Coarse(items, rule) ==
    LET hits  == Hits(items, rule)
        score == Points(Rules[rule].weight, AnomalySum(items, hits), Cardinality(hits))
                   + Bonus(Cardinality({items[i].type : i \in hits}))
    IN  IF score > 1000 THEN 1000 ELSE 10 * ((score + 5) \div 10)

Confidence(items, rule) ==
    LET hits  == Hits(items, rule)
        score == Points(Rules[rule].weight, AnomalySum(items, hits), Cardinality(hits))
                   + Bonus(Cardinality({items[i].type : i \in hits}))
    IN  IF score > 1000 THEN 1000 ELSE score

\* grouped names a cause when its first item comes, several in the order of the table.
NamedBefore(items, q, r) ==
    LET first(rule) == CHOOSE i \in Hits(items, rule) : \A j \in Hits(items, rule) : i <= j
    IN  first(q) < first(r) \/ (first(q) = first(r) /\ Rules[q].place < Rules[r].place)

\* sorted(candidates, reverse=True) keeps that order among equals.
RanksBefore(items, q, r) ==
    \/ Confidence(items, q) > Confidence(items, r)
    \/ Confidence(items, q) = Confidence(items, r) /\ NamedBefore(items, q, r)

\* RCAEngine.analyze: the first three.
RootCauses(items) ==
    LET named == {r \in DOMAIN Rules : Hits(items, r) # {}}
    IN  {r \in named : Cardinality({q \in named \ {r} : RanksBefore(items, q, r)}) < 3}

-----------------------------------------------------------------------------
(* AgentOrchestrator._diagnosis: by_tool keeps the last record of a tool *)

Used == {evidence[i].tool : i \in DOMAIN evidence}

Last(tool) ==
    LET at == {i \in DOMAIN evidence : evidence[i].tool = tool}
    IN  evidence[CHOOSE i \in at : \A j \in at : j <= i].reading

\* A disk scan that failed counts as a disk that is 0 % full.
Level ==
    IF "service_status" \in Used
      THEN CASE Last("service_status") = "active" -> "ok"
             [] Last("service_status") = "failed" -> "critical"
             [] OTHER -> "warning"
      ELSE IF "disk_usage_scan" \in Used
        THEN LET percent == Last("disk_usage_scan") IN
             IF percent >= 95 THEN "critical" ELSE IF percent >= 80 THEN "warning" ELSE "ok"
        ELSE IF "large_file_scan" \in Used THEN IF eligible # {} THEN "warning" ELSE "ok"
        ELSE IF Used \cap {"process_list", "port_owner_lookup"} = {}
                /\ Used \cap {"network_config_snapshot", "network_socket_list"} # {} THEN "ok"
        ELSE IF status = "SUCCEEDED" THEN "ok" ELSE "warning"

Compose ==
    /\ pc = "analysed" \/ (pc = "scanned" /\ ~Found)
    /\ pc' = "ended"
    /\ answer' = {[level |-> Level, causes |-> RootCauses(NormalizedEvidence)]}
    /\ UNCHANGED <<goal, posts, plan, evidence, status, looked, eligible>>

-----------------------------------------------------------------------------
Next == Receive \/ PostFails \/ PostAnswers \/ Fallback \/ CallTool \/ Finish \/ Lookup \/ Classify \/ Compose

Spec == Init /\ [][Next]_vars

-----------------------------------------------------------------------------
(* Properties                                                              *)

\* A run ends with an exception only in the middle of the model's plan, at a step
\* whose arguments are the model's own and do not fit the tool's parameters.  In
\* particular the rules' plan passes the validation that the model's plan failed,
\* for every goal (its risk, guessed from a list of tools of its own, is never
\* below the registry's), and no step that normalisation fills in raises
\* (planning.py:149, 244-252, 276-278, 297-312; registry.py:81-91).
RaisesOnlyOverModelsArguments ==
    pc = "raised" =>
        LET i == Len(evidence) + 1 IN
        /\ plan.by = "model" /\ i \in DOMAIN Steps
        /\ Unfit(Steps[i]) /\ ~FilledIn(Steps[i].tool, goal)

\* A run that reports success called nothing outside its plan's risk, had no
\* failed tool and, unless the model's plan is longer than the runner goes
\* (runners.py:42), holds a reading of every tool the goal requires
\* (planning.py:172-175); a forbidden goal reaches neither model nor tool.
SuccessHasItsEvidence ==
    /\ status = "SUCCEEDED" =>
         /\ \A i \in DOMAIN evidence :
              evidence[i].ok /\ InherentRisk(evidence[i].tool) <= plan.risk
         /\ Len(plan.steps) <= MaxSteps => SetOf(RequiredTools(goal)) \subseteq Used
    /\ goal.forbidden => posts = 0 /\ evidence = <<>>

\* The two analyses of the same evidence agree on what is critical: when the
\* diagnosis of at most three readings, at most one of large files, is critical,
\* the three causes that are kept, ranked by weights of their own, hold the matching
\* one.  It is close: with four causes named, a failed service, 0.841, keeps the third
\* place before five zombies, 0.840.  It fails with a fourth reading, an empty journal,
\* and where two scans of large files fill the 200 items that are kept
\* (orchestrator.py:180-203, normalization.py:33, rca.py:18-24, 46-60).
CriticalAnswerHasItsCause ==
    \A a \in answer :
        /\ a.level = "critical" /\ status # "BLOCKED" /\ Len(evidence) <= 3
        /\ \A i, j \in DOMAIN evidence :
             evidence[i].tool = "large_file_scan" /\ evidence[j].tool = "large_file_scan" => i = j
        => (IF "service_status" \in Used THEN "service_failure" ELSE "disk_pressure") \in a.causes

\* What the service offers for cleanup the root helper would remove, as long as
\* the file stays as it was classified and lies in a root both know; and it was
\* not seen open (cleanup.py:146-164, kylin_guard_privileged.py:189-221).
EligibleIsAcceptedByHelper ==
    \A f \in eligible :
        /\ looked # "OPEN"
        /\ f.where # "configured" => HelperAccepts(f)

=============================================================================
