SPECIFICATION Spec
CONSTANTS
  Conn = {1, 2, 3}
  Server = {1, 2}
  Slots = 2
  FeedLoops = 2
  PendMax = 2
  Window = 3
  SndBuf = 3
  HsPolls = 1
  StallPolls = 1
  IdlePolls = 2
  Apps = 1
  Writes = 2
  Losses = 2
INVARIANTS
  TypeOK
  RingMatchesWire
  WindowConserved
  ConnectBeforeData
  PumpArmed
PROPERTIES
  AllFed
  RecordLeaves
CHECK_DEADLOCK FALSE
