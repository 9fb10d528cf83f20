CONSTANTS
  Prices <- MCPrices
  MaxQuantity = 1
  Absent = Absent
  Depth = 1
  Nothing = Nothing
  MaxListed = 2
SPECIFICATION Spec
INVARIANTS TypeOK WalkedSoFar PresentIffLastPositive SnapshotShowsBest
PROPERTY AtomicSpec
