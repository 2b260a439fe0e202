SPECIFICATION Spec
CONSTANTS
    Updates = {u1, u2}
    Rollbacks = {r1, r2}
    Edits = {e1}
    Original = Original
    Absent = Absent
SYMMETRY JobSymmetry
INVARIANTS TypeOK OnlyVettedContent UndisturbedIsAtomic
CHECK_DEADLOCK FALSE
