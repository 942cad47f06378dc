SPECIFICATION Spec
CONSTANTS
  p1 = p1
  p2 = p2
  hello1 = hello1
  hello2 = hello2
  unknown = unknown
  Worker = Worker
  Free = Free
  Posters <- MCPosters
  Nodes <- MCNodes
  Registered <- MCRegistered
INVARIANT GracefulStop
