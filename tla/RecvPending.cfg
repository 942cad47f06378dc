SPECIFICATION Spec
CONSTANTS
  RECVSIZE = 2
  MaxNodes = 2
  All = FALSE
INVARIANT PendingMeansReceiving
CHECK_DEADLOCK FALSE
