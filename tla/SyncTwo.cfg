CONSTANTS
  Prices <- MCPrices
  MaxQuantity = 1
  Absent = Absent
  Depth = 1
  Symbols = {btcusdt, ethusdt}
  Payloads <- OnePayload
  MaxId = 3
SPECIFICATION Spec
INVARIANT SynchronisedBeforeUse
PROPERTY BuilderSpec
CHECK_DEADLOCK FALSE
