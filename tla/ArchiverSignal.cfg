CONSTANTS
  BatchSize = 2
  MaxEvents = 1
SPECIFICATION Spec
INVARIANT StopStops
CHECK_DEADLOCK FALSE
