SPECIFICATION StreamsSpec
CONSTANTS
  s1 = s1
  s2 = s2
  t1 = t1
  t2 = t2
  c1 = c1
  c2 = c2
  nobody = nobody
  HEAD_TOTAL_LEN = 2
  MAX_LENGTH = 4
  SHRT_MAX = 5
  MaxPosts = 5
  Streams <- SingleOrPipelined
  ServerSessions = {s1, s2}
  ServerThreads = {t1, t2}
  MaxPerSession = 1
  Sessions = {c1}
  NoSession = nobody
  HEAD_LENGTH = 2
  DATA_LENGTH = 3
  MAX_SENDQUE = 1
  Bodies <- BodyLengths
  MaxMsgs = 5
  Conns = {c1, c2}
  MaxCalls = 3
  Size = 4
  OverlapSize = 2
  RECVSIZE = 4
  MaxNodes = 4
  ClassPairs <- Classes
  FieldStrings <- Texts
  Ints <- Numbers
  Floats <- Zeros
  MaxWritten = 2
INVARIANTS
  ZombieOnlyIfOvertaken
  AlwaysAccepting
  AlwaysReading
  BytesAccounted
  OnlyRepeats
  SinglePostedOnce
  ProtoRepliesInOrder
  ProtoAlwaysReading
  EchoInOrder
  StallHasDuplicate
  CutExplained
  ShutMeansWhole
  AsycWriteLoss
  AsycReadLoss
  CodecSizeIsExact
  CodecRestored
CHECK_DEADLOCK FALSE
