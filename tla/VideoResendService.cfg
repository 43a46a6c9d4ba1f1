SPECIFICATION FairSpec
CONSTANTS
  SeqMod = 6
  CacheSize = 3
  None = None
  MaxPacket = 8
INVARIANTS RecentKept
PROPERTIES RecentResent ReturnsBelowTop
CHECK_DEADLOCK FALSE
