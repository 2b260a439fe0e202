SPECIFICATION Spec
CONSTANTS
    Restarts = {s1, s2}
    Terminations = {t1}
    Rollbacks = {r1}
    Pids = {p1, p2}
    MaxStarts = 2
SYMMETRY JobSymmetry
INVARIANTS SignalsHitCandidateOrNewcomer RecordedIsTrue
CHECK_DEADLOCK FALSE
