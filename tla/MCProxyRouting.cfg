SPECIFICATION Spec
CONSTANTS
  OwnPorts = {9170, 5060}
  Public = "public"
  Interfaces <- MCInterfaces
  Edge = "edge"
  Places <- MCPlaces
  MaxForwards = {1, 2, 3}
  Schemes = {"sip", "tel"}
CHECK_DEADLOCK FALSE
INVARIANTS TypeOK EndsWhereItShould DialogStaysOnPath
