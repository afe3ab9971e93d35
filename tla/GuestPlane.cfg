SPECIFICATION FairSpec
CONSTANTS
  MaxStreams = 2
  MaxRequests = 2
  MaxBeats = 1
  HostOps = {"known", "other"}
  Wired = TRUE
  HeartbeatTick = 10
INVARIANT AnswersInOrder
INVARIANT AckMeansEffect
INVARIANT OneEffectInDoubt
PROPERTY GoroutinesEnd
PROPERTY RedialsAfterLoss
PROPERTY StopsWhenCancelled
CHECK_DEADLOCK FALSE
