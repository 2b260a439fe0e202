SPECIFICATION Spec
CONSTANTS
    Cancels = {c1}
    Transitions = {t1, t2}
    Runs = {r1, r2}
SYMMETRY RequestSymmetry
INVARIANTS StepsNumbered StepsAudited StateAudited ChangesFromVisited
CHECK_DEADLOCK FALSE
