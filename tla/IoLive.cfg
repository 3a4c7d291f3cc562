SPECIFICATION FairSpec
CONSTANTS
  MaxUnits = 1
  MaxMessages = 1
  Faults = {"broken_pipe"}
  Timeouts <- NoWriter
  Cancellable = {"reader", "both"}
PROPERTIES
  CancelEnds
CHECK_DEADLOCK FALSE
