SPECIFICATION Spec
CONSTANTS
  Ids = {1}
  Conns = {c1}
  Eps = {e1}
  NULL = NULL
  AliveTime = 1
  MaxPending = 2
  MaxCommands = 5
INVARIANT NegoResultAsserted
CHECK_DEADLOCK FALSE
