SPECIFICATION FairSpec
CONSTANTS
  Addrs = {a1, a2}
  NoAddr = NoAddr
  MaxPackets <- MCMaxPackets
CHECK_DEADLOCK FALSE
INVARIANTS TypeOK ForwardsARun AtMostOneLateDrop AtMostOneLateSend
PROPERTIES BothConnect KillReturns EndsUnlessWaiting
