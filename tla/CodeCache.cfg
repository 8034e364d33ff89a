SPECIFICATION Spec
CONSTANTS
    NWords = 10
    Programs <- CachePrograms
    Segs = {s1, s2, s3, s4, s5}
    NULL = NULL
    Entry = 0
    RegTargets = {0, 1, 2, 3}
    DebugTargets = {}
    GlobalSlots = {2, 3}
    MaxBlocks = 8
    MaxCalls = 2
SYMMETRY SegSymmetry
INVARIANTS
    TypeOK
    MapSound
    MapComplete
    ChainSound
    MappedTranslated
    EntryFaithful
    FallsIntoContinuation
    JumpsLandInSegment
    SelfLoopsAtHead
\* The process really stops: see halted.
CHECK_DEADLOCK FALSE
PROPERTIES
    ImplementsTable
