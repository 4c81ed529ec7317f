SPECIFICATION Spec
CONSTANTS
    Kept = 4
    FileSize = 2
    Draws <- MCDraws
    Scenarios <- MCScenarios
INVARIANTS
    LossIsBounded
    EveryPassIsComplete
    SlicesAreDisjoint
    FailsOnlyOutOfStep
    BlocksOnlyWhenEnded
    ClosedIsQuiet
PROPERTIES
    CallsReturn
    ImplementsBatchStream
CHECK_DEADLOCK FALSE
