SPECIFICATION FairSpec
CONSTANTS
  Workers = {w1, w2}
  SocketRoom = 1
  MaxCalls = 2
INVARIANTS NoLostWakeup
PROPERTIES ImplementsCallQueue EveryCallRuns FreeReturns
CHECK_DEADLOCK FALSE
