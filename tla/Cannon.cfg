SPECIFICATION CannonSpec
CONSTANTS
  Q = 3
  Extent = {1, 2, 4, 5}
INVARIANTS
  OperandsAtHand
  ProductExact
  ShardsTile
  SkewRestored
CHECK_DEADLOCK FALSE
