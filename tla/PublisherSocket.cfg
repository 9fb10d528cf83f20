CONSTANTS
  Descriptors = {0, 3}
  MaxCandidates = 1
  Symbols = {btcusdt, ethusdt}
  MaxEvents = 1
SPECIFICATION Spec
INVARIANT NoSocketNoLoop
CHECK_DEADLOCK FALSE
