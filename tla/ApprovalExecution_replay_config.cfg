SPECIFICATION Spec
CONSTANTS
    None = None
    a1 = a1
    a2 = a2
    target1 = target1
    oper = oper
    admin1 = admin1
    admin2 = admin2
    Approvals = {a1}
    DecisionReqs = {d1}
    ClaimReqs = {c1}
    RunReqs = {r1, r2}
    Targets <- MCTargets
    TargetOf <- MCTargetOf
    Operators <- MCOperators
    Approvers <- MCApprovers
    ToolOf <- ConfigTool
INVARIANT AtMostOneMutation
