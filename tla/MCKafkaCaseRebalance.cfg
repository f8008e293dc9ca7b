SPECIFICATION SessionSpec
CONSTANTS
    Warmup = 2
    Timed = 3
    MaxRebalances = 1
    Tests <- MCTests
INVARIANTS
    ResultAlwaysReadEveryRecord
CHECK_DEADLOCK FALSE
