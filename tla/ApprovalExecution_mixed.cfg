SPECIFICATION Spec
CONSTANTS
    None = None
    a1 = a1
    a2 = a2
    target1 = target1
    oper = oper
    admin1 = admin1
    admin2 = admin2
    Approvals = {a1, a2, a3, a4}
    DecisionReqs = {d1, d2}
    ClaimReqs = {c1, c2}
    RunReqs = {r1, r2}
    Targets <- MCTargets
    TargetOf <- MCTargetOf
    Operators = {oper}
    Approvers = {admin2}
    ToolOf <- MixedTools
CONSTRAINT OneTarget
SYMMETRY RequestSymmetry
INVARIANTS TypeOK GrantsCoverHelperRuns RestartsGranted AnsweredOnce SuccessIsReal CandidateSpentBySuccess SuccessSpendsApproval
