SPECIFICATION FairSpec
CONSTANTS
  t1 = t1
  t2 = t2
  t3 = t3
  NoThread = NoThread
  Threads = {t1, t2, t3}
  Calls <- ClosingCalls
  Budget <- TwoCalls
  MainContextOf <- OwnContexts
  DefaultOwner = NoThread
  Cancellable = {}
  Rehandshakes = FALSE
INVARIANTS
  SomebodyMoves
  DataNeedsHandshake
PROPERTIES
  CallsReturn
CHECK_DEADLOCK FALSE
