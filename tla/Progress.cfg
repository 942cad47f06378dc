SPECIFICATION ProgressSpec
CONSTANTS
  c1 = c1
  c2 = c2
  t1 = t1
  t2 = t2
  t3 = t3
  nobody = nobody
  Clients = {c1, c2}
  SyncClients = {c2}
  Lengths = {0, 1, 2}
  max_length = 3
  Coroutines = FALSE
  Entered <- Lines
  HEAD_TOTAL_LEN = 2
  MAX_LENGTH = 4
  SHRT_MAX = 5
  Streams <- OneRequest
  MaxPosts = 2
  Sessions = {c1, c2}
  NoSession = nobody
  HEAD_LENGTH = 1
  DATA_LENGTH = 2
  MAX_SENDQUE = 0
  Bodies <- BodyLengths
  StreamOf <- BodiesSent
  MaxMsgs = 4
  Conns = {c1}
  PoolThreads = {t1, t2, t3}
  PoolConns = {c1, c2}
  ServiceThreads = {t1, t2}
  MaxRequests = 3
INVARIANTS
  EchoIsWhole
  ServiceEnds
PROPERTIES
  ConnectedIsServed
  RequestIsPosted
  ProtosAreServed
  WebEndsWithConnection
  HttpReleased
  ConnectionIsServed
  SignalStopsPool
CHECK_DEADLOCK FALSE
