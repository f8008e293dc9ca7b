CONSTANTS
    None = None
    MaxHops = 3
SPECIFICATION RecordSpec
CHECK_DEADLOCK FALSE
INVARIANTS SampledRecordsSurvive OnlyEmptinessIsLost
