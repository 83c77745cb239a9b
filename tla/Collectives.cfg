SPECIFICATION Spec
CONSTANTS
  Nets <- MCNets
  Calls <- MCCalls
  ByteTime <- MCByteTime
  Latency <- MCLatency
CHECK_DEADLOCK FALSE
INVARIANTS
  MovesOverLinks
  RoutesAreDirect
  CollectiveCompletes
  BytesMatchCargo
  EndpointsCharged
  NoFreeReduce
