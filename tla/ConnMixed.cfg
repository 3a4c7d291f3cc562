SPECIFICATION Spec
CONSTANTS
  t1 = t1
  t2 = t2
  t3 = t3
  NoThread = NoThread
  Threads = {t1, t2, t3}
  Calls <- MixedCalls
  Budget <- Unbounded
  MainContextOf <- OwnContexts
  DefaultOwner = t1
  Cancellable = {t1}
  Rehandshakes = TRUE
INVARIANTS
  ClaimsExcludeEachOther
  FlagsMatchClaims
  RunningHandshakeHasContext
  OneHandshakeAtATime
PROPERTIES
  FailureIsRecorded
  ImplementsClaims
CHECK_DEADLOCK FALSE
