SPECIFICATION Spec
CONSTANTS
    Interval = 2
    Early = 1
    Apart = 1
    MaxCrashes = 1
    Scenarios <- MCOneProcess
PROPERTIES
    ResumesFromLastSaved
CHECK_DEADLOCK FALSE
