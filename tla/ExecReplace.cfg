SPECIFICATION Spec
CONSTANTS
  Runs = {r1, r2}
  Ids = {a}
  BadIds = {}
  NoRun = NoRun
  Writers = {}
  MaxChunks = 0
PROPERTY ReplacementOutlivesStale
CHECK_DEADLOCK FALSE
SYMMETRY RunSymmetry
