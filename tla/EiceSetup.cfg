SPECIFICATION SetupSpec
INVARIANTS RelayReachesBoth PathsAgree
CHECK_DEADLOCK FALSE
