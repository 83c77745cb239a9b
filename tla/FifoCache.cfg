SPECIFICATION FairSpec
CONSTANTS
  Key = {k1, k2, k3}
  Capacity = 3
  MaxFootprint = 4
  MaxInserted = 8
  None = None
INVARIANTS
  FifoInv
  AgeDecidesResidency
  HitDistanceWithinCapacity
PROPERTIES
  OldestLeavesFirst
  ImplementsWindow
  BlockMissReturns
CHECK_DEADLOCK FALSE
