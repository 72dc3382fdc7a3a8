SPECIFICATION Spec
CONSTANTS
  Roles = {"server", "client"}
  BufSize = 2
  BufMax = 3
  Window = 4
  Timeout = 1
  Apps = 2
  MaxWire = 5
CHECK_DEADLOCK FALSE
INVARIANTS WireOrder CreditMatches RecordsInOrder
PROPERTIES HandshakeEnds
