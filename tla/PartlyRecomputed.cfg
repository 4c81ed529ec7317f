SPECIFICATION Spec
CONSTANTS
    Graphs <- MCPartlyRecomputed
    MaxCalls = 2
INVARIANTS
    GradientIsExact
CHECK_DEADLOCK FALSE
