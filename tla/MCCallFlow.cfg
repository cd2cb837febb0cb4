SPECIFICATION FairSpec
CONSTANTS
  Pairs = {p1, p2}
  NoPair = NoPair
  Faults = {{"reinvite"}, {"retransmit", "refusal", "reinvite"}, {"late_offer", "expiry"}}
CHECK_DEADLOCK FALSE
INVARIANTS TypeOK EndedCallsHoldNothing TalkersShareARelay
PROPERTIES HangsUpBoth
