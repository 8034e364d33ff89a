SPECIFICATION Spec
CONSTANTS
    Values = {v1, v2, v3, v4, v5}
    Unused = zero
    Field = 4
    MaxCode = 5
    MaxOut = 5
INVARIANTS TypeOK GlobalsFetch GlobalsDistinct NewLocalsFetch
PROPERTIES GlobalsKept
SYMMETRY Symmetry
\* The bounds end the search, and so do the slots.
CHECK_DEADLOCK FALSE
