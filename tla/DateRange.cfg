CONSTANTS
  Ranges <- MCRanges
  MaxPeriods = 130
SPECIFICATION Spec
INVARIANT VisitsRange
PROPERTY LoopEnds
CHECK_DEADLOCK FALSE
