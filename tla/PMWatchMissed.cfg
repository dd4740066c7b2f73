SPECIFICATION FairSpec
CONSTANTS
  Msgs = {1}
  Jobs = {1}
  Earlier = {}
  PushLimit = 1
  MaxFaults = 1
  MaxPending = 1
  MaxUpdates = 0
PROPERTIES
  PollComplements
