SPECIFICATION FairSpecIpc
CONSTANTS
  CallIds = {k1, k2}
  FirstPort = 20001
  PairCount = 1
  FdLimit = 6
  QueueLimit = 2
  MaxKills = 2
CHECK_DEADLOCK FALSE
INVARIANTS StrayAnswersBounded AnswerOwed
PROPERTIES ImplementsService OwnAnswer CallerReturns
