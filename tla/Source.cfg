SPECIFICATION SourceFairSpec
CONSTANTS
  t1 = t1
  t2 = t2
  NoThread = NoThread
  Threads = {t1, t2}
  Calls <- PolledReads
  Budget <- TwoOthers
  MainContextOf <- OwnContexts
  DefaultOwner = t1
  Cancellable = {}
  Rehandshakes = FALSE
  Poller = t1
  Condition = "IN"
  Keeps = FALSE
INVARIANTS
  SleepersAreWoken
PROPERTIES
  PolledCallsEnd
CHECK_DEADLOCK FALSE
