SPECIFICATION Spec
CONSTANTS
  HEAD_TOTAL_LEN = 2
  MAX_LENGTH = 4
  SHRT_MAX = 5
  MaxPosts = 5
  Streams <- Single
INVARIANT InvalidLengthIsRefused
CHECK_DEADLOCK FALSE
