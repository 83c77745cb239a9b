SPECIFICATION MemoSpec
CONSTANTS
  Key <- MCKey
  Request <- MCRequest
  Sectors <- MCSectors
  Capacity = 3
  MaxFootprint = 0
  MaxInserted = 12
  None = None
INVARIANTS
  MemoSound
  MemoInv
  MemoComplete
  AnswerExact
PROPERTIES
  AccessesFill
CHECK_DEADLOCK FALSE
