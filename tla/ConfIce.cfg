SPECIFICATION FairSpec
CONSTANTS
  ChannelCount = 2
  MaxTicks = 1
INVARIANTS ReportedIsFinal CallerOkCalleeTook CalleeOkCallerFailed NoSocketLeft
PROPERTIES FinalStays CallerFinishes
CHECK_DEADLOCK FALSE
