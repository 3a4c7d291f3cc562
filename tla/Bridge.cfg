SPECIFICATION FairSpec
CONSTANTS
  Transports <- Transport
  MaxAttempts = 2
  Pumps <- EveryPump
  MaxLength = 3
INVARIANTS
  DescriptorsAccounted
  PumpedInOrder
  PumpsAreServed
PROPERTIES
  ClosedPumpsAreFreed
CHECK_DEADLOCK FALSE
