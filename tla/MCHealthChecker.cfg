SPECIFICATION FairSpec
CONSTANTS
  Char <- MCChar
  Url <- MCUrl
  Model = {"m1", "m2"}
  Endpoints <- MCEndpoints
  CounterRange = 2
  Sweep <- MCSweep
  Request = {r1}
  MaxFailures = 1
  BanDuration = 1
  ErrorThreshold = 50
  FailPatterns <- MCFailPatterns
  Status = {404}
  MayStream = {TRUE, FALSE}
  MaxNow = 1
  MaxChanges = 1
INVARIANTS TypeOK StoreWithinBreaker
PROPERTIES EarlyUnbanIsHealthy RecoveryNoticed OutageNoticed
