SPECIFICATION FairSpec
CONSTANTS
  FlagSets <- MCFlagSets
  MaxCalls = 2
INVARIANT CleanExit
PROPERTY SignalEndsAgent
CHECK_DEADLOCK FALSE
