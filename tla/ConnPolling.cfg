SPECIFICATION Spec
CONSTANTS
  t1 = t1
  t2 = t2
  t3 = t3
  NoThread = NoThread
  Threads = {t1, t2}
  Calls <- PollingCalls
  Budget <- Unbounded
  MainContextOf <- OwnContexts
  DefaultOwner = t1
  Cancellable = {}
  Rehandshakes = FALSE
INVARIANTS
  AssertionsHold
