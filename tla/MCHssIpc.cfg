SPECIFICATION FairSpec
CONSTANTS
  Users = {"ann", "bob"}
  Places = {"here", "there"}
  Registers <- MCRegisters
  QueueLimit = 2
  MaxKills = 1
CHECK_DEADLOCK FALSE
INVARIANTS TypeOK AnsweredIsStored LookupIsTheUsers StrayAnswersBounded
PROPERTIES ExitEnds
