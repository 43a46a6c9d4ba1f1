SPECIFICATION FairSpec
CONSTANTS
  HeaderLen = 2
  MaxChunk = 4
  LengthMod = 3
  MaxContent = 3
  MaxCommands = 4
INVARIANTS InOrder BufferBounded
PROPERTIES PushedOut
CHECK_DEADLOCK FALSE
