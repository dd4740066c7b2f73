SPECIFICATION FairSpec
CONSTANTS
  Items = {1, 2}
  Workers = {w1, w2}
  Batch = 1
  MaxLate = 1
  NoWorker = NoWorker
INVARIANTS
  OutboxInv
  NothingLost
  DispatchOwnsRow
  DeduplicatedUntilAck
PROPERTIES
  ExactlyOnce
  AckedNeverReplayed
  EventuallyDelivered
  EventuallyRetired
