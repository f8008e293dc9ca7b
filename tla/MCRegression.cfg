SPECIFICATION Spec
CONSTANTS
    OptionSpace <- MCOptionSpace
    Times = {0, 5, 6, 7}
    WarnPercent = 20
INVARIANTS
    FiguresAreOrdered
    SlowerLooksSlower
    WarningsAreExact
    EveryRowHasABaseline
CHECK_DEADLOCK FALSE
