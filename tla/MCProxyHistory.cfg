SPECIFICATION HSpec
CONSTANTS
  Char <- MCChar
  Url <- MCUrl
  Model = {"m1", "m2"}
  Endpoints <- ShortKeyed
  CounterRange = 4
  Request = {r1, r2}
  Session = {s1}
  MaxFailures = 1
  BanDuration = 1
  ErrorThreshold = 50
  FailPatterns <- MCFailPatterns
  Status <- MCStatus
  MayRetry = {TRUE}
  StickyTtl = 1
  SyncEnabled = TRUE
  SyncFaults = TRUE
  SyncBanTtl = 1
  MayStream = {FALSE}
  MaxNow = 1
  MaxRequests = 3
  MaxOthers = 1
INVARIANTS TypeOK NeverSentToExcluded EndpointInModel GivesUpOnlyWhenExhausted
  BannedThroughoutIsAvoided HandlerBansReachRedis
PROPERTY RequestsLiftNoBan
SYMMETRY Symmetry
VIEW View
\* All requests may be done.
CHECK_DEADLOCK FALSE
