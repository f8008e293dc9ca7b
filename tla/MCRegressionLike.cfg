SPECIFICATION Spec
CONSTANTS
    OptionSpace <- MCOptionSpace
    Times = {0, 5, 6, 7}
    WarnPercent = 20
INVARIANTS
    ComparesLikeWithLike
CHECK_DEADLOCK FALSE
