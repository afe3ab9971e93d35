SPECIFICATION FairSpec
CONSTANTS
  Names = {1, 2}
  Images = {"i1", "i2"}
  EnvKeys = {"K", "L"}
  EnvValues = {"x", ""}
  None = None
  Invalid = Invalid
  ContainerSets <- SmallSets
  MaxPublished = 3
  MaxRedelivered = 1
  MaxRestarts = 1
INVARIANT DropsFirst
PROPERTY ImplementsReplaceSet
PROPERTY ConvergesToLatest
CHECK_DEADLOCK FALSE
