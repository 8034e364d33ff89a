SPECIFICATION Spec
CONSTANTS
    NWords = 6
    Programs <- RecompiledPrograms
    Segs = {s1, s2, s3, s4}
    NULL = NULL
    Entry = 0
    RegTargets = {2}
    DebugTargets = {0, 2, 4}
    GlobalSlots = {2, 3}
    MaxBlocks = 6
    MaxCalls = 1
SYMMETRY SegSymmetry
\* The process really stops: see halted.
CHECK_DEADLOCK FALSE
INVARIANTS
    MapSound
    ChainSound
    MappedTranslated
    FallsIntoContinuation
    JumpsLandInSegment
