SPECIFICATION FairSpec
CONSTANTS
  Runs = {r1, r2}
  Ids = {a, bad}
  BadIds = {bad}
  NoRun = NoRun
  Writers = {r1}
  MaxChunks = 1
INVARIANT RegistryIsExact
INVARIANT ExitFrameAuthoritative
INVARIANT FinishedHoldsNothing
PROPERTY CancelledSessionEnds
PROPERTY ChildDeathReported
CHECK_DEADLOCK FALSE
