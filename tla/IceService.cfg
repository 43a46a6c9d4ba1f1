SPECIFICATION Spec
CONSTANTS
  Ids = {1, 2}
  Conns = {c1}
  Eps = {e1, e2}
  NULL = NULL
  AliveTime = 1
  MaxPending = 2
  MaxCommands = 4
INVARIANTS OneOwner StartsOnce AbortHasAReason ResultBacked
PROPERTIES ForwardNeedsOutcome
SYMMETRY EpSymmetry
CHECK_DEADLOCK FALSE
