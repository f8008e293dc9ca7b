SPECIFICATION Spec
CONSTANTS
    Timeout = 9
    Interval = 1
    Patience <- MCPatience
INVARIANTS
    ZeroMeansAnswered
    WaitIsBounded
    ReadyInTimeIsSeen
PROPERTIES
    WaitEnds
CHECK_DEADLOCK FALSE
