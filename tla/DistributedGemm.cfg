SPECIFICATION Spec
CONSTANTS
  Cluster <- MCCluster
  Capacity <- MCCapacity
  OutputPressure <- MCPressure
  Epochs <- Nothing
  BulkEpochs <- Nothing
  Writes <- Nothing
  Policies <- BothPolicies
  Unhashable = Unhashable
  None = None
  Plans <- MCPlans
  PerLine = 2
INVARIANTS
  RefusedStagesLeaveSession
  RefusedForOthersOnly
  RefusedForGood
