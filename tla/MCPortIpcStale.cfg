SPECIFICATION SpecIpc
CONSTANTS
  CallIds = {k1, k2}
  FirstPort = 20001
  PairCount = 2
  FdLimit = 9
  QueueLimit = 1
  MaxKills = 1
CHECK_DEADLOCK FALSE

PROPERTY PortIsTheCalls
