SPECIFICATION FairJournalSpec
CONSTANTS
  Messages = {1, 2}
  Hints = {11}
  MaxPending = 2
  MaxCompleted = 1
  MaxCommands = 1
  MaxAgain = 1
INVARIANTS
  JournalInv
  RepliedOnce
  RunOnce
  Woken
PROPERTIES
  PromiseKept
  EventuallyDone
