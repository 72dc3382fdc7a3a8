SPECIFICATION Spec
CONSTANTS
  Platforms = {"task", "coop"}
  Wrap = 6
  Day = 2
  AckTimeout = 2
  RxTimeout = 2
  PollEvery = 2
CHECK_DEADLOCK FALSE
INVARIANTS TypeOK SilenceIsClosed
PROPERTIES OnlySilenceCloses TimeoutIsRight
