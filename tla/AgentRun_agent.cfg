SPECIFICATION Spec
CONSTANTS
    Goals <- SmallGoals
    Offers <- SmallOffers
    Files <- NearFiles
    DiskLevels = {50, 85, 95}
    LoadLevels = {30, 200}
    ZombieCounts = {0, 5}
    LineCounts = {0, 100}
    FileSizes = {1000}
    MaxFiles = 4
    MaxItems = 8
    MaxSteps = 5
    MaxRetries = 1
INVARIANTS  SuccessHasItsEvidence CriticalAnswerHasItsCause EligibleIsAcceptedByHelper
CHECK_DEADLOCK FALSE
