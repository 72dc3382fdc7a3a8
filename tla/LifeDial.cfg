\* One outgoing client dialled, redialled, closed, aborted and deleted by the
\* loop task while the service task dispatches; its callbacks only return.
SPECIFICATION FairSpec
CONSTANTS
  Client = {d1}
  Dialer = {d1}
  Pcb = {p1, p2}
  Async = async
  AppTask = {loop}
  None = none
  MayFail = FALSE
  MaxQueue = 1
  MaxDepth = 1
INVARIANTS
  TypeOK
  NeverDispatchDead
PROPERTIES
  DialAnswered
CHECK_DEADLOCK FALSE
