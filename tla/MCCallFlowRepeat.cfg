SPECIFICATION Spec
CONSTANTS
  Pairs = {p1, p2}
  NoPair = NoPair
  Faults = {{"retransmit"}, {"reinvite"}}
CHECK_DEADLOCK FALSE
INVARIANT HangUpReleases
