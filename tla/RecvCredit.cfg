SPECIFICATION Spec
CONSTANTS
  Modes = {"data", "packet"}
  Window = 4
  Sizes = {1, 2}
  Dials = 2
CHECK_DEADLOCK FALSE
INVARIANTS TypeOK CreditConserved CloseIsGraceful
PROPERTIES WindowReopens
