SPECIFICATION FairSpec
CONSTANTS
  Modes <- MCModes
  NwErrors <- MCErrors
  Timeouts <- MCTimeouts
  Cancellable = {"read"}
INVARIANTS
  ReadyIsVerified
  ReadsAreWhole
  CloseLosesNothing
  SleepersAreServed
PROPERTIES
  CloseReturns
CHECK_DEADLOCK FALSE
