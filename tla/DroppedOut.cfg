SPECIFICATION Spec
CONSTANTS
    Graphs <- MCDroppedOut
    MaxCalls = 3
INVARIANTS
    GradientIsExact
CHECK_DEADLOCK FALSE
