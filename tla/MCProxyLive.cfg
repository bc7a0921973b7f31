SPECIFICATION HFairSpec
CONSTANTS
  Char <- MCChar
  Url <- MCUrl
  Model = {"m1"}
  Endpoints <- ShortKeyed
  CounterRange = 2
  Request = {r1, r2}
  Session = {}
  MaxFailures = 1
  BanDuration = 1
  ErrorThreshold = 50
  FailPatterns <- MCFailPatterns
  Status <- MCStatus
  MayRetry = {TRUE, FALSE}
  StickyTtl = 1
  SyncEnabled = FALSE
  SyncFaults = FALSE
  SyncBanTtl = 1
  MayStream = {TRUE, FALSE}
  MaxNow = 1
  MaxRequests = 2
  MaxOthers = 0
PROPERTIES EveryRequestAnswered
\* All requests may be done.
CHECK_DEADLOCK FALSE
