SPECIFICATION FairSpec
CONSTANTS
  Nodes <- BootNodes
  Keys <- UsedKeys
  Order <- BootOrder
  Above <- BootAbove
  Trees <- SyncTrees
  TmpOf <- BootTmpOf
  TmpNodes <- BootTmps
  Values <- BootValues
  IOFaults = FALSE
  RootKey = FALSE
  Published <- GitScript
  MaxStarts = 2
INVARIANT ReadsPublishedValues
PROPERTY WatcherEnds
PROPERTY ImplementsBoot
