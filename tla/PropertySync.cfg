SPECIFICATION Spec
CONSTANTS
  Nodes <- DeepNodes
  Keys <- DeepKeys
  Order <- DeepOrder
  Above <- NodeAbove
  TmpOf <- TmpPath
  TmpNodes <- TmpPaths
  Values = {"v1", "v2"}
  IOFaults = TRUE
INVARIANT AppliedTreeIsDesired
PROPERTY ImplementsReplaceSet
