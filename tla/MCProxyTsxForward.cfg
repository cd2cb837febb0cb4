SPECIFICATION Spec
CONSTANTS
  Methods = {"INVITE"}
  Provisionals = {100, 180}
  Finals = {200, 487}
  Faults = {"transport"}
CHECK_DEADLOCK FALSE
PROPERTY ResponseForwarded
