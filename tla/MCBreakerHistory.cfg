\* One endpoint, long enough for the error rate (ten results) to ban it too.
SPECIFICATION HSpec
CONSTANTS
  EndpointKey = {e1}
  MaxFailures = 4
  BanDuration = 2
  ErrorThreshold = 50
  FailPatterns <- MCFailPatterns
  Status <- MCStatus
  MaxNow = 6
  MaxRequests = 13
INVARIANTS HTypeOK ThresholdHasBan CountersNest BanFollowsAFailure CountWithinStreak
PROPERTIES OnlyResetLiftsABan BanJustified ImplementsCircuitBreaker
