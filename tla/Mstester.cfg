SPECIFICATION FairSpec
CONSTANTS
  MaxSeq = 2
  MaxRuns = 2
  WarmUps = 1
  MaxDelay = 1
  Word = 64
INVARIANTS LossNotUnderstated LostWithinSent FreedIsQuiet
PROPERTIES FreeReturns TestFinishes
CHECK_DEADLOCK FALSE
