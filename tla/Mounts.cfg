SPECIFICATION FairSpec
CONSTANTS
  a = a
  b = b
  p = p
  q = q
  NoSpec = NoSpec
  Ids = {a, b}
  Points = {p, q}
  Specs <- OnePoint
  BootSpecs <- BootA
  MaxClients = 3
  MaxPublishes = 2
  MaxStarts = 2
INVARIANT NoClientLeaks
INVARIANT OneClientPerShare
INVARIANT RegistryAgrees
INVARIANT ShutdownLeavesAtMostOne
PROPERTY ShutdownEnds
CHECK_DEADLOCK FALSE
