SPECIFICATION SessionSpec
CONSTANTS
  Cluster <- TwoClusters
  Capacity <- TwoCapacities
  OutputPressure <- AllPressure
  Epochs <- Nothing
  BulkEpochs <- TwoNames
  Writes <- Nothing
  Policies <- OnlyHomeOnly
  Unhashable = Unhashable
  None = None
INVARIANTS
  OneMissPerColdLine
CHECK_DEADLOCK FALSE
