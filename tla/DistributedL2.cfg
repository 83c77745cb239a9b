SPECIFICATION SessionSpec
CONSTANTS
  Cluster <- TwoClusters
  Capacity <- TwoCapacities
  OutputPressure <- AllPressure
  Epochs <- MCEpochs
  BulkEpochs <- MCBulkEpochs
  Writes <- MCWrites
  Policies <- BothPolicies
  Unhashable = Unhashable
  None = None
INVARIANTS
  NoSectorAliasing
  WritesFindNoCopies
  CopiesRecorded
PROPERTIES
  ImplementsEpochReplay
CHECK_DEADLOCK FALSE
