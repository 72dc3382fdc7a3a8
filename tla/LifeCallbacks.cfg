\* Two server connections, used from their callbacks only.
SPECIFICATION FairSpec
CONSTANTS
  Client = {a1, a2}
  Dialer = {}
  Pcb = {p1, p2}
  Async = async
  AppTask = {}
  None = none
  MayFail = FALSE
  MaxQueue = 2
  MaxDepth = 5
INVARIANTS
  QuietAfterDisconnect
PROPERTIES
  EndIsReported
CHECK_DEADLOCK FALSE
