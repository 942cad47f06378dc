SPECIFICATION HandOffsSpec
CONSTANTS
  p1 = p1
  p2 = p2
  hello1 = hello1
  hello2 = hello2
  unknown = unknown
  nobody = nobody
  s1 = s1
  t1 = t1
  t2 = t2
  SHRT_MAX = 5
  MAX_LENGTH = 1
  MaxFrames = 4
  Frames <- SessionFrames
  Posters = {p1, p2}
  Nodes = {hello1, hello2, unknown}
  Registered = {hello1, hello2}
  LogicWorker = t1
  Free = nobody
  SENDQUE_LIMIT = 2
  MaxSends = 6
  Sessions = {s1}
  Threads = {t1, t2}
  MaxRequests = 2
  None = nobody
INVARIANTS
  AtMostOneWrite
  RepliesInOrder
  NoDeadEntry
  LogicNoLostWakeup
  SendAtMostOneWrite
  SendWritesIffBacklog
PROPERTIES
  RequestsAreTaken
  RepliesAreWritten
  CoroutineEnds
  LogicImplementsFifoHandOff
  PostedIsTaken
  PostReturns
  SendImplementsFifoHandOff
  AcceptedIsWritten
  LostIsDestroyed
CHECK_DEADLOCK FALSE
