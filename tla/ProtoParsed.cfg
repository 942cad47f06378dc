SPECIFICATION Spec
CONSTANTS
  c1 = c1
  nobody = nobody
  Sessions = {c1}
  NoSession = nobody
  HEAD_LENGTH = 2
  MAX_LENGTH = 3
  SHRT_MAX = 5
  MAX_SENDQUE = 1
  Streams <- Bodies
INVARIANT UnfinishedIfParsed
CHECK_DEADLOCK FALSE
