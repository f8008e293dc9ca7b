SPECIFICATION SessionSpec
CONSTANTS
    Warmup = 2
    Timed = 3
    MaxRebalances = 2
    Tests <- MCTests
INVARIANTS
    ResultIsComplete
    ResultReadEveryRecord
    WindowIsTheTimedSends
    CaseCleansUp
    BlockIsWhole
PROPERTIES
    SessionEnds
CHECK_DEADLOCK FALSE
