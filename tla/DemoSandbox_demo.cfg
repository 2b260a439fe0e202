SPECIFICATION DemoSpec
CONSTANTS
    Runs = {r1, r2, r3}
    Tokens = {t1, t2}
    MaxResets = 1
    Original = Original
    Absent = Absent
SYMMETRY RequestSymmetry
INVARIANTS TokenActsOncePerSandbox ChangesStack
CHECK_DEADLOCK FALSE
