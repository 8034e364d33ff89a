SPECIFICATION FairSpec
CONSTANTS
    NWords = 5
    Programs <- DebuggerPrograms
    Segs = {s1, s2, s3, s4, s5}
    NULL = NULL
    Entry = 0
    RegTargets = {0, 1, 2}
    DebugTargets = {1}
    GlobalSlots = {2, 3}
    MaxBlocks = 4
    MaxCalls = 2
CHECK_DEADLOCK FALSE
PROPERTIES
    RecompilerReturns
