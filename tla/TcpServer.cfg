SPECIFICATION TcpSpec
CONSTANTS
  Conns = {c1, c2}
  NULL = NULL
INVARIANTS HaveConnectionIsUp
CHECK_DEADLOCK FALSE
