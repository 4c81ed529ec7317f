SPECIFICATION Spec
CONSTANTS
    Graphs <- MCGraphs
    MaxCalls = 3
INVARIANTS
    GradientIsExact
    ConsumersFirst
    RecomputeIsArmed
PROPERTIES
    ResultsKept
    ClearBufferReleases
    PersistentKept
    EveryCallReturns
CHECK_DEADLOCK FALSE
