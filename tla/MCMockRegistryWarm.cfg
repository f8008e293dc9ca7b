SPECIFICATION Spec
CONSTANTS
    Rows <- MCRows
    Iterations <- MCIterations
PROPERTIES
    WarmPathIsOneConnection
CHECK_DEADLOCK FALSE
