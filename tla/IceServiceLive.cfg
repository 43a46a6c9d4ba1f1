SPECIFICATION FairSpec
CONSTANTS
  Ids = {1, 2}
  Conns = {c1}
  Eps = {e1}
  NULL = NULL
  AliveTime = 1
  MaxPending = 1
  MaxCommands = 4
PROPERTIES SessionsDrain ResultReported
CHECK_DEADLOCK FALSE
