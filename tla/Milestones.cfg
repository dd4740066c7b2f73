SPECIFICATION FairSpec
CONSTANTS
  Counters <- MCCounters
  RulesOf <- MCRulesOf
  Msgs <- MCMsgs
  Streams <- MCStreams
  CounterOf <- MCCounterOf
  Feedback <- MCFeedback
  MaxRetries = 2
  Replicas = {p1}
  Batch = 1
  MaxStamp = 2
  Acks = {a1}
INVARIANTS
  MilestoneInv
  ReachedIsTriggered
  ReturnsBounded
PROPERTIES
  EventuallyShown
