------------------------------ MODULE Planning ------------------------------
(***************************************************************************)
(* From a goal to a validated plan: Planner (agent/planning.py), the tool  *)
(* registry it plans with (mcp_server/registry.py) and the policy it asks  *)
(* (guardrails/policy.py).                                                 *)
(*                                                                         *)
(* A goal is what routing reads in its text: the topics whose terms occur  *)
(* in it (a number is one of them), and whether the input policy forbids   *)
(* it.                                                                     *)
(***************************************************************************)
EXTENDS Integers, Sequences

Topics == {"disk", "cleanup", "service", "memory", "filesystem", "network", "number",
           "package", "schedule", "login", "kernel", "process"}

Goal == [topics : SUBSET Topics, forbidden : BOOLEAN]

\* TOOL_DESCRIPTIONS by inherent risk.  Every tool is read-only.
L1Tools == {"capability_probe", "system_snapshot", "memory_snapshot", "process_list",
            "disk_usage_scan", "service_status"}
L2Tools == {"zombie_process_scan", "network_socket_list", "port_owner_lookup",
            "filesystem_inventory", "large_file_scan", "open_file_lookup", "journal_query",
            "config_drift_check", "io_diagnose", "network_config_snapshot", "package_inventory",
            "scheduled_task_inventory", "login_audit", "kernel_log_query", "security_baseline_scan"}
Tools == L1Tools \cup L2Tools

InherentRisk(tool) == IF tool \in L1Tools THEN 1 ELSE 2

\* Arguments of a step: what the tool takes, none, a value it refuses, a value of
\* another type than it works with, a name it does not know.
Arguments == {"fit", "none", "refused", "mistyped", "unknown"}

\* Tools with a parameter that has no default.
NeedArguments == {"port_owner_lookup", "open_file_lookup", "service_status", "config_drift_check"}

\* Arguments over which Python may raise TypeError.
Unfit(step) ==
    step.arguments \in {"mistyped", "unknown"} \/ (step.arguments = "none" /\ step.tool \in NeedArguments)

Step(tool) == [tool |-> tool, arguments |-> "fit"]

-----------------------------------------------------------------------------
(* Routing *)

\* Planner.route: the first row all of whose topics occur.
RouteTable == <<
    [topics |-> {"disk", "cleanup"},    intent |-> "CLEANUP",    tool |-> "disk_usage_scan"],
    [topics |-> {"cleanup"},            intent |-> "CLEANUP",    tool |-> "large_file_scan"],
    [topics |-> {"service"},            intent |-> "DIAGNOSIS",  tool |-> "service_status"],
    [topics |-> {"disk"},               intent |-> "DIAGNOSIS",  tool |-> "disk_usage_scan"],
    [topics |-> {"memory"},             intent |-> "DIAGNOSIS",  tool |-> "memory_snapshot"],
    [topics |-> {"filesystem"},         intent |-> "DIAGNOSIS",  tool |-> "filesystem_inventory"],
    [topics |-> {"network", "number"},  intent |-> "QUERY",      tool |-> "port_owner_lookup"],
    [topics |-> {"network"},            intent |-> "DIAGNOSIS",  tool |-> "network_config_snapshot"],
    [topics |-> {"package"},            intent |-> "QUERY",      tool |-> "package_inventory"],
    [topics |-> {"schedule"},           intent |-> "INSPECTION", tool |-> "scheduled_task_inventory"],
    [topics |-> {"login"},              intent |-> "INSPECTION", tool |-> "login_audit"],
    [topics |-> {"kernel"},             intent |-> "DIAGNOSIS",  tool |-> "kernel_log_query"],
    [topics |-> {"process"},            intent |-> "DIAGNOSIS",  tool |-> "process_list"],
    [topics |-> {},                     intent |-> "QUERY",      tool |-> "system_snapshot"] >>

Route(goal) ==
    LET hits == {i \in DOMAIN RouteTable : RouteTable[i].topics \subseteq goal.topics}
    IN  RouteTable[CHOOSE i \in hits : \A j \in hits : i <= j]

\* Planner.required_tools
RequiredTools(goal) ==
    LET evidence == (IF "disk" \in goal.topics THEN <<"disk_usage_scan">> ELSE <<>>)
                    \o (IF "cleanup" \in goal.topics THEN <<"large_file_scan">> ELSE <<>>)
    IN  IF evidence # <<>> THEN evidence
        ELSE IF "network" \in goal.topics /\ "number" \notin goal.topics
          THEN <<"network_config_snapshot", "network_socket_list">>
          ELSE <<Route(goal).tool>>

SetOf(s) == {s[i] : i \in DOMAIN s}

-----------------------------------------------------------------------------
(* Plans: what the model answers, or the rules when it does not *)

PlanRecord == [by : {"model", "rules"}, goalKept : BOOLEAN, risk : 0..4,
               intent : {"CLEANUP", "DIAGNOSIS", "QUERY", "INSPECTION", "FORBIDDEN"},
               steps : Seq([tool : Tools \cup {"run_command"}, arguments : Arguments])]

\* Mutant: journal_query is missing from the list.
IsL2Tool_NoJournal(tool) ==
    tool \in L2Tools \ {"zombie_process_scan", "open_file_lookup", "config_drift_check", "journal_query"}

\* Planner._is_l2_tool: a list of its own, shorter than the registry's.
IsL2Tool(tool) ==
    tool \in L2Tools \ {"zombie_process_scan", "open_file_lookup", "config_drift_check"}

\* Planner._rule_fallback.  The journal of the service is read although, beside
\* a disk or cleanup term, its status is not.
RuleFallback(goal) ==
    LET required == RequiredTools(goal)
        tools == IF Route(goal).tool = "service_status" THEN Append(required, "journal_query") ELSE required
    IN  [by |-> "rules", goalKept |-> TRUE, intent |-> Route(goal).intent,
         risk |-> IF Route(goal).intent = "CLEANUP" \/ \E t \in SetOf(tools) : IsL2Tool(t) THEN 2 ELSE 1,
         steps |-> [i \in DOMAIN tools |-> Step(tools[i])]]

\* Tools whose arguments are put in place of what the plan says.
FilledIn(tool, goal) ==
    \/ tool = "disk_usage_scan" /\ "disk" \in goal.topics
    \/ tool = "large_file_scan" /\ "cleanup" \in goal.topics
    \/ tool = "port_owner_lookup"

\* Planner._normalize_plan_arguments
Normalized(plan, goal) ==
    [plan EXCEPT !.steps = [i \in DOMAIN @ |-> IF FilledIn(@[i].tool, goal) THEN Step(@[i].tool) ELSE @[i]]]

\* PolicyEngine.authorize_tool: no tool that is named for a shell; the goal was
\* classified before, and a read-only tool is allowed in every mode.
Authorized(tool) == tool # "run_command"

\* Planner._validate_plan
Valid(plan, goal) ==
    /\ plan.goalKept
    /\ \A i \in DOMAIN plan.steps :
         /\ plan.steps[i].tool \in Tools
         /\ InherentRisk(plan.steps[i].tool) <= plan.risk
         /\ Authorized(plan.steps[i].tool)
    /\ SetOf(RequiredTools(goal)) \subseteq {plan.steps[i].tool : i \in DOMAIN plan.steps}

=============================================================================
