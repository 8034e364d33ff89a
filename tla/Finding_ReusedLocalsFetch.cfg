SPECIFICATION Spec
CONSTANTS
    Values = {v1, v2, v3}
    Unused = zero
    Field = 16
    MaxCode = 6
    MaxOut = 4
INVARIANT ReusedLocalsFetch
SYMMETRY Symmetry
CHECK_DEADLOCK FALSE
