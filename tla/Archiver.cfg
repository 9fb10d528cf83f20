CONSTANTS
  BatchSize = 2
  MaxEvents = 6
SPECIFICATION Spec
INVARIANTS SignalKept RaceNeedsDirectStop ClosedLast DestroyedFlushed LossBounded
PROPERTIES UsesBuilder LogSpec StopReturns SignalEnds
CHECK_DEADLOCK FALSE
