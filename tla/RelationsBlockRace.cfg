SPECIFICATION Spec
CONSTANTS
  Agents = {a1, a2}
  Calls = {c1, c2}
  MaxCalls = 2
  MaxFaults = 0
PROPERTIES
  BlockEnforced
CHECK_DEADLOCK FALSE
