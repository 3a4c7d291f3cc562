SPECIFICATION Spec
CONSTANTS
  k1 = k1
  k2 = k2
  k3 = k3
  k4 = k4
  i1 = i1
  i2 = i2
  i3 = i3
  NoTicket = NoTicket
  Ids = {i1, i2, i3}
  Tickets = {k1, k2, k3, k4}
  Version <- VersionOf
  MaxSize = 2
  MaxAge = 2
  IntMax = 4
  MaxTime = 5
INVARIANTS
  UsedOnce
  TicketsAreFresh
SYMMETRY Symmetry
CHECK_DEADLOCK FALSE
