SPECIFICATION FairSpec
CONSTANTS
  CallIds = {k1, k2, k3}
  FirstPort = 20001
  PairCount = 2
  FdLimit = 11
  QueueLimit = 1
CHECK_DEADLOCK FALSE
INVARIANTS TypeOK PortsExclusive PortsComplete PairsStay AnswerIsRight OneThreadPerCall
PROPERTIES CallKeepsItsPorts ServerComesBack
