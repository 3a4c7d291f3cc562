SPECIFICATION Spec
CONSTANTS
  MaxUnits = 2
  MaxMessages = 2
  Faults = {"broken_pipe"}
  Timeouts <- OneOfEach
  Cancellable = {"reader"}
INVARIANTS
  ErrorTellsStatus
  BlocksAsAsked
  NoTruncation
  NothingLost
  OwnParameters
CHECK_DEADLOCK FALSE
