SPECIFICATION Spec
CONSTANTS
    Interval = 2
    Early = 1
    Apart = 1
    MaxCrashes = 2
    Scenarios <- MCScenarios
INVARIANTS
    TypeOK
    CostIsExact
    ErrorIsExact
    UpdatesAreWhole
    ResumeIsExact
    NoPoisonedCheckpoint
    BestIsLowest
    RanksAgree
    CacheIsWhole
PROPERTIES
    AllFinish
CHECK_DEADLOCK FALSE
