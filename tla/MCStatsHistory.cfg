SPECIFICATION HFairSpec
CONSTANTS
  Instance = {i1}
  Caller <- MCCaller
  GenericCaller <- MCGenericCaller
  HourTicks = 2
  Retention = 2
  MaxRequests = 2
  MaxNow = 6
  MaxFaults = 2
INVARIANTS HTypeOK CountedOnce PassedIsCounted TablesAgree
PROPERTY HoursAreAggregated
CHECK_DEADLOCK FALSE
