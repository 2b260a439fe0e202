SPECIFICATION FairSpec
CONSTANTS
    Disks = {d1}
    Levels <- TwoLevels
    Checks = {k1}
    ServiceChecks = {k1}
    Threads = {t1, t2}
    Requests = {q1}
    Updates = {v1}
    Nobody = Nobody
    MaxFaults = 1
    MaxStarts = 2
INVARIANTS TypeOK OneOpenIncident
PROPERTIES SymptomIsReported
CHECK_DEADLOCK FALSE
