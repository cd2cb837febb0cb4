SPECIFICATION Spec
CONSTANTS
  OwnPorts = {9170}
  Public = "public"
  Interfaces <- MCInterfaces
  Edge = "edge"
  Places <- MCPlaces
  MaxForwards = {2}
  Schemes = {"sip"}
CHECK_DEADLOCK FALSE
INVARIANT AckNotAnswered
