\* a client deleted while its dial is in flight.
SPECIFICATION Spec
CONSTANTS
  Client = {d1}
  Dialer = {d1}
  Pcb = {p1}
  Async = async
  AppTask = {loop}
  None = none
  MayFail = FALSE
  MaxQueue = 2
  MaxDepth = 4
INVARIANTS
  LwipHoldsImpl
CHECK_DEADLOCK FALSE
