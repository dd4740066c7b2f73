SPECIFICATION Spec
CONSTANTS
  Agents = {a1, a2}
  Calls = {c1, c2}
  MaxCalls = 5
  MaxFaults = 0
INVARIANTS
  AcceptedAreFriends
CHECK_DEADLOCK FALSE
