SPECIFICATION Spec
CONSTANTS
  t1 = t1
  t2 = t2
  c1 = c1
  Threads <- TwoThreads
  Conns <- OneConn
PROPERTIES
  SignalEndsMain
CHECK_DEADLOCK FALSE
