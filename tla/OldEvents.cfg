CONSTANTS
  Prices <- MCPrices
  MaxQuantity = 1
  Absent = Absent
  Depth = 1
  Symbols = {btcusdt}
  Payloads <- OnePayload
  MaxId = 5
SPECIFICATION Spec
INVARIANT OldEventsDropped
CHECK_DEADLOCK FALSE
