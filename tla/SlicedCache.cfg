SPECIFICATION Spec
CONSTANTS
    Kept = 4
    FileSize = 2
    Draws <- MCDraws
    Scenarios <- MCCached
INVARIANTS
    WithinSlice
CHECK_DEADLOCK FALSE
