SPECIFICATION StatusSpec
CONSTANTS
  MaxDrops = 3
  MaxRebuilds = 3
  MaxFailures = 2
INVARIANT NeverOvercounts
INVARIANT ExactWithoutRebuild
CHECK_DEADLOCK FALSE
