SPECIFICATION Spec
CONSTANTS
  Nets <- RowNets
  Calls <- RowCalls
  ByteTime <- MCByteTime
  Latency <- MCLatency
CHECK_DEADLOCK FALSE
INVARIANTS
  MovesOverLinks
