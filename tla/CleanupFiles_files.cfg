SPECIFICATION Spec
CONSTANTS
    Cleanups = {c1, c2}
    Rollbacks = {r1}
    Nobody = Nobody
    MaxWrites = 2
SYMMETRY JobSymmetry
INVARIANTS TypeOK OnlyLateWritesLost RowsTellTruth RemovedAsApproved
CHECK_DEADLOCK FALSE
