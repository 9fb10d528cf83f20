CONSTANTS
  BatchSize = 2
  SymbolCount = 2
  MaxEvents = 8
SPECIFICATION Spec
INVARIANTS TypeOK FlushedBeforeReturn LossBounded
PROPERTIES LogSpec ProcessReturns
CHECK_DEADLOCK FALSE
