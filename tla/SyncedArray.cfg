SPECIFICATION Spec
CONSTANTS
    base = base
    left = left
    right = right
    tail = tail
    wide = wide
    float = float
    half = half
    Arrays <- MCArrays
    Parent <- MCParent
    At <- MCAt
    Lineage <- MCLineage
    Size <- MCSize
    Root = base
    Keys <- MCKeys
    Values = {1}
    MaxViews = 2
    MaxBufs = 2
SYMMETRY MCSymmetry
INVARIANTS
    ReadsLastWrite
    SharesMemory
    ZeroingIsZero
