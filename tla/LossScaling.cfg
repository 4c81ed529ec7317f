SPECIFICATION Spec
CONSTANTS
    Keys <- MCKeys
    MaxExp = 3
    Programs <- MCPrograms
    Batches <- MCBatches
    Scale = 1
    N = 2
    MaxRecursiveCount = 1
INVARIANTS
    LearnsUnscaled
    RanksAgree
    ScaleIsEarned
PROPERTIES
    ProgramsEnd
CHECK_DEADLOCK FALSE
