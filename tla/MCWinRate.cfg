CONSTANTS
    CodecOrder <- MCCodecOrder
    Codecs <- MCCodecs
    Reports <- MCReports
    Unit = 6
SPECIFICATION Spec
CHECK_DEADLOCK FALSE
INVARIANTS PointsSumToComparisons 
PROPERTIES WinnersAreFastest
