SPECIFICATION Spec
CONSTANTS
  MaxCalls = 2
  Size = 1
  RECVSIZE = 2
  Queued = TRUE
  Overlap = TRUE
INVARIANT WireInOrder
CHECK_DEADLOCK FALSE
