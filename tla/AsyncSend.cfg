SPECIFICATION Spec
CONSTANTS
  MaxCalls = 1
  Size = 2
  RECVSIZE = 2
  Queued = TRUE
  Overlap = FALSE
INVARIANT WholeIfAlone
CHECK_DEADLOCK FALSE
