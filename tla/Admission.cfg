\* One TLS listener, a budget of one session, two slots, four connections.
SPECIFICATION FairSpec
CONSTANTS
  Conn = {c1, c2, c3, c4}
  Server = {s1}
  Slot = {i1, i2}
  MaxLive = 1
  MayFail = TRUE
  None = none
  MaxSession = 3
INVARIANTS
  TypeOK
  SlotsMatch
  ParkAllocHits
PROPERTIES
  ParkedLeaves
  NoStaleAccept
\* Every connection may be gone and every session used.
CHECK_DEADLOCK FALSE
