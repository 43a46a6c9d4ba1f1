SPECIFICATION FairSpec
INVARIANTS PairsKept CleanFreeIsSafe
PROPERTIES FreeReturns ImplementsEndpoint
CHECK_DEADLOCK FALSE
