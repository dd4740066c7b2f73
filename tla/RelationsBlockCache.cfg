SPECIFICATION FairSpec
CONSTANTS
  Agents = {a1, a2}
  Calls = {c1, c2}
  MaxCalls = 2
  MaxFaults = 0
PROPERTIES
  BlockSetsHeal
CHECK_DEADLOCK FALSE
