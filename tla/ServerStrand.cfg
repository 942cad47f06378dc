SPECIFICATION Spec
CONSTANTS
  s1 = s1
  t1 = t1
  t2 = t2
  None = None
  Sessions <- OneSession
  Threads <- TwoThreads
  MaxRequests = 1
INVARIANT OneThreadInSession
CHECK_DEADLOCK FALSE
