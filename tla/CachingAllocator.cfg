SPECIFICATION Spec
CONSTANTS
    Block = {b1, b2, b3, b4, b5}
    Segment = {s1, s2, s3}
    Device = {d1, d2}
    NULL = NULL
    Request <- MCRequest
    round_small = 2
    round_large = 4
    small_alloc = 8
SYMMETRY Symmetric
INVARIANTS
    TypeOK
    Tiling
    CacheIsExact
    Coalesced
    UsedIsExact
    IdleDeviceIsReclaimable
PROPERTIES
    ExhaustionIsReal
    ImplementsDeviceHeap
CHECK_DEADLOCK FALSE
