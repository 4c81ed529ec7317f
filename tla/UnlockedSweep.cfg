SPECIFICATION Spec
CONSTANTS
    Block = {b1, b2}
SYMMETRY Symmetric
INVARIANTS
    UsedIsLive
CHECK_DEADLOCK FALSE
