SPECIFICATION SessionSpec
CONSTANTS
  Cluster <- ThreeClusters
  Capacity <- OneLineEach
  OutputPressure <- NoPressure
  Epochs <- Nothing
  BulkEpochs <- CrossedReads
  Writes <- Nothing
  Policies <- OnlyBothFill
  Unhashable = Unhashable
  None = None
INVARIANTS
  BulkLeavesDetailedCaches
CHECK_DEADLOCK FALSE
