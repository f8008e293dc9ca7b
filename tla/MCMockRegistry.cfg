SPECIFICATION Spec
CONSTANTS
    Rows <- MCRows
    Iterations <- MCIterations
INVARIANTS
    StoppedIsQuiet
    
    OneConnectionPerGet
PROPERTIES
    RowsMatchGets
    RunEnds
    FaultFreeRunSucceeds
    
CHECK_DEADLOCK FALSE
