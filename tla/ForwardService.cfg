SPECIFICATION FairSpec
CONSTANTS
  Ports = {p1, p2}
  Fds = {f1, f2}
  NULL = NULL
  AliveTime = 1
INVARIANTS OwnSocket
PROPERTIES ClosedWithForward RoutedAcross SilentEnds
CHECK_DEADLOCK FALSE
