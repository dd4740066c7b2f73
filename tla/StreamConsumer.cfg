SPECIFICATION FairSpec
CONSTANTS
  Replicas = {r1, r2}
  Msgs = {1}
  MaxRetries = 2
  Batch = 1
  Workers = 1
  QueueSize = 0
  DeadLetter = TRUE
  MaxFaults = 2
  Gone = Gone
INVARIANTS
  StreamInv
  OneLiveHandler
  AckedIsSettled
  AttemptsBounded
CHECK_DEADLOCK FALSE
PROPERTIES
  EventuallySettled
