SPECIFICATION RecordsSpec
CONSTANTS
    SettingsUpdates = {s1, s2}
    BaselineCreates = {b1, b2}
    DriftChecks = {d1}
    Adds = {a1}
    Reviews = {r1}
    Paths = {p1}
    Documents = {doc1}
    Values = {1, 2}
    Nobody = Nobody
SYMMETRY RequestSymmetry
INVARIANTS DriftAnswersStand KnowledgeAuditIsTrue
PROPERTIES UndisturbedUpdateIsWhole
CHECK_DEADLOCK FALSE
