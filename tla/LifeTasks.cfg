\* Two server connections; the loop task calls close(), abort() and delete
\* while the service task dispatches and lwIP's callbacks run.
SPECIFICATION Spec
CONSTANTS
  Client = {a1, a2}
  Dialer = {}
  Pcb = {p1, p2}
  Async = async
  AppTask = {loop}
  None = none
  MayFail = TRUE
  MaxQueue = 2
  MaxDepth = 5
INVARIANTS
  EndInv
  OwnedPcbIsLive
  CallbackReachesOwner
  AtMostOneDisconnect
  NothingAfterDisconnect
SYMMETRY Symmetry
CHECK_DEADLOCK FALSE
PROPERTIES
  ContractHolds
