SPECIFICATION Spec
CONSTANTS
  CallIds = {k1, k2}
  FirstPort = 20001
  PairCount = 1
  FdLimit = 9
  QueueLimit = 1
CHECK_DEADLOCK FALSE
INVARIANT SocketsReleased
