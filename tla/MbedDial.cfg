SPECIFICATION FairSpec
CONSTANTS
  Roles = {"client"}
  BufSize = 2
  BufMax = 3
  Window = 4
  Timeout = 1
  Apps = 2
  MaxWire = 3
CHECK_DEADLOCK FALSE
PROPERTIES HandshakeStarts
