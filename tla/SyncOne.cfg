CONSTANTS
  Prices <- MCPrices
  MaxQuantity = 1
  Absent = Absent
  Depth = 1
  Symbols = {btcusdt}
  Payloads <- OnePayload
  MaxId = 6
SPECIFICATION Spec
INVARIANTS TypeOK GapFree PublishedInOrder StoppedMeansJoined
PROPERTIES AppliedAtMostOnce ResyncOnlyOnGap EventsConsumed StopReturns
CHECK_DEADLOCK FALSE
