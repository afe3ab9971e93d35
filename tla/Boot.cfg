SPECIFICATION BootAlone
CONSTANTS
  Above <- NoDirs
  Trees <- FlatTrees
  MaxStarts = 2
INVARIANT SentinelMeansProvisioned
PROPERTY NothingAfterSentinel
