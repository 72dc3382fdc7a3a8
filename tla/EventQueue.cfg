SPECIFICATION Spec
CONSTANTS
  Platforms = {"task", "coop"}
  Client = {a, b}
  Node = {n1, n2, n3, n4}
  Null = Null
  HeadLink = HeadLink
  QueueSize = 3
  FnMax = 3
  FnOthers = 1
  Sends = 3
CHECK_DEADLOCK FALSE
INVARIANTS ListSound NoLostWakeup AcceptFirst
PROPERTIES OrderKept Drained
