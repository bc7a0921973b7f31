SPECIFICATION HSpec
CONSTANTS
  Instance = {i1, i2}
  Caller <- MCCaller
  GenericCaller <- MCGenericCaller
  HourTicks = 2
  Retention = 2
  MaxRequests = 1
  MaxNow = 4
  MaxFaults = 0
INVARIANT NoDoubleCounting
CHECK_DEADLOCK FALSE
