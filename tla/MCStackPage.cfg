CONSTANT Reports <- MCReports
SPECIFICATION Spec
INVARIANTS  EveryRowHasItsPanel LongerBarsAreSlower
