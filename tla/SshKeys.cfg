SPECIFICATION KeysSpec
CONSTANTS
  k1 = k1
  k2 = k2
  Lines <- TwoLines
  Unparseable <- BadLine
  Malformed = Malformed
  Absent = Absent
  Partial = Partial
  MaxPublished = 2
  MaxStarts = 3
INVARIANT FileIsAPush
INVARIANT SuccessMeansBoth
INVARIANT HostKeyStable
PROPERTY HostKeyKept
CHECK_DEADLOCK FALSE
