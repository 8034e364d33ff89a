SPECIFICATION Spec
CONSTANTS
    NWords = 6
    Programs <- FindingPrograms
    Segs = {s1, s2, s3, s4, s5}
    NULL = NULL
    Entry = 0
    RegTargets = {0}
    DebugTargets = {}
    GlobalSlots = {2}
    MaxBlocks = 8
    MaxCalls = 2
INVARIANTS
    CallerSurvives
\* The process really stops: see halted.
CHECK_DEADLOCK FALSE
