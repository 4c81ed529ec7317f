SPECIFICATION Spec
CONSTANTS
    Graphs <- MCGrown
    MaxCalls = 2
INVARIANTS
    GradientIsExact
CHECK_DEADLOCK FALSE
