CONSTANTS
  Descriptors = {0, 3}
  MaxCandidates = 2
  Symbols = {btcusdt, ethusdt}
  MaxEvents = 2
SPECIFICATION Spec
INVARIANTS TypeOK DestroyedQuiet NoDescriptorLost PacketsTell
PROPERTIES StreamSpec UsesBuilder EventsOffered StopReturns
CHECK_DEADLOCK FALSE
