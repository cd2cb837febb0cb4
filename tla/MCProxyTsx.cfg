SPECIFICATION FairSpec
CONSTANTS
  Methods = {"INVITE", "OTHER"}
  Provisionals = {100, 180}
  Finals = {200, 487}
  Faults = {"transport", "late_ack", "rejection"}
CHECK_DEADLOCK FALSE
INVARIANTS TypeOK NoDanglingPeer OneFinal FinalIsTrue NoCrash
PROPERTIES CancelOnlyPending CallerIsAnswered BothDestroyed
