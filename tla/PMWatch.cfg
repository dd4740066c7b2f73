SPECIFICATION FairSpec
CONSTANTS
  Msgs = {1, 2}
  Jobs = {1, 2}
  Earlier = {2}
  PushLimit = 2
  MaxFaults = 1
  MaxPending = 1
  MaxUpdates = 1
INVARIANTS
  WatchInv
  ReadIsCarried
  AdoptionDrains
PROPERTIES
  EventuallyTaken
