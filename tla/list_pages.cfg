CONSTANTS
    Rows = {x1, x2, x3, x4}
    Limit = 1
    MaxTime = 4
SPECIFICATION ListSpec
SYMMETRY Symmetry
INVARIANT ListInv
INVARIANT SkippedOnlyIfOneLeft
INVARIANT RepeatedOnlyIfOneEntered
