----------------------------- MODULE MCAgentRun -----------------------------
(***************************************************************************)
(* Small instances of AgentRun for TLC.                                    *)
(***************************************************************************)
EXTENDS AgentRun

\* Every goal of at most one topic, those of two that routing or the required tools
\* tell from one of them, and one the policy forbids.
SmallGoals ==
    [topics : {{s} : s \in Topics}
              \cup {{}, {"disk", "cleanup"}, {"service", "disk"}, {"service", "cleanup"},
                    {"network", "number"}, {"network", "disk"}, {"network", "service"}, {"network", "memory"}},
     forbidden : {FALSE}]
        \cup {[topics |-> {"disk"}, forbidden |-> TRUE]}

\* Plans of the model, right and wrong.
SomeSteps ==
    {Step(t) : t \in {"disk_usage_scan", "large_file_scan", "service_status", "zombie_process_scan"}}
        \cup {[tool |-> "journal_query", arguments |-> "refused"],
              [tool |-> "process_list", arguments |-> "unknown"],
              [tool |-> "service_status", arguments |-> "none"],
              [tool |-> "disk_usage_scan", arguments |-> "mistyped"],
              [tool |-> "large_file_scan", arguments |-> "none"]}

\* Plans longer than the runner goes: the required tools among the first five, or not.
LongPlans ==
    {<<Step(s), Step(t), Step("zombie_process_scan"), Step("journal_query"), Step("process_list"),
      Step("large_file_scan")>> :
        s, t \in {"disk_usage_scan", "service_status"}}
      \cup {<<Step("zombie_process_scan"), Step("system_snapshot"), Step("memory_snapshot"),
              Step("process_list"), Step("large_file_scan"), Step("disk_usage_scan")>>}

\* Plans whose readings may name all four causes, or give more items than are kept.
ReadingPlans ==
    {s \in [1..3 -> {Step(t) : t \in {"service_status", "zombie_process_scan", "large_file_scan",
                                     "system_snapshot", "disk_usage_scan", "journal_query"}}] :
        \E i \in 1..3 : s[i].tool \in {"service_status", "disk_usage_scan"}}

SmallOffers ==
    [by : {"model"}, goalKept : {TRUE}, risk : {2}, intent : {"DIAGNOSIS"},
     steps : ReadingPlans \cup LongPlans]
        \cup [by : {"model"}, goalKept : BOOLEAN, risk : {1, 2}, intent : {"DIAGNOSIS", "FORBIDDEN"},
             steps : UNION {[1..k -> SomeSteps] : k \in 0..2}]
        \cup {[by |-> "model", goalKept |-> TRUE, risk |-> 4, intent |-> "QUERY",
              steps |-> <<Step("system_snapshot"), [tool |-> "run_command", arguments |-> "fit"]>>]}

\* Files that differ in one way from an old log or from a young temporary file.
OldLog == [where |-> "log", suffix |-> "rotated", critical |-> FALSE, big |-> TRUE, old |-> TRUE,
           regular |-> TRUE, link |-> FALSE, use |-> "closed"]

YoungTemporary == [OldLog EXCEPT !.where = "tmp", !.old = FALSE]

FileRanges == [where |-> Places, suffix |-> Suffixes, critical |-> BOOLEAN, big |-> BOOLEAN,
               old |-> BOOLEAN, regular |-> BOOLEAN, link |-> BOOLEAN, use |-> Uses]

Near(file) == UNION {{[file EXCEPT ![k] = value] : value \in FileRanges[k]} : k \in DOMAIN file}

NearFiles == Near(OldLog) \cup Near(YoungTemporary)

=============================================================================
