SPECIFICATION Spec
CONSTANTS
  Char <- MCChar
  Url <- MCUrl
  Model = {"m1"}
  Endpoints <- ShortKeyed
  CounterRange = 4
  Request = {r1, r2}
  Session = {s1}
  MaxFailures = 1
  BanDuration = 1
  ErrorThreshold = 50
  FailPatterns <- MCFailPatterns
  Status <- MCStatus
  MayRetry = {TRUE}
  StickyTtl = 1
  SyncEnabled = FALSE
  SyncFaults = FALSE
  SyncBanTtl = 1
  MayStream = {TRUE}
  MaxNow = 0
  MaxRequests = 3
  MaxOthers = 0
INVARIANT GivesUpOnlyWhenExhausted
\* All requests may be done.
CHECK_DEADLOCK FALSE
