\* The dashboard may ask for the balance before the first request.
SPECIFICATION HSpec
CONSTANTS
  Request = {r1, r2}
  Minute = 4
  IdleLimit = 40
  Limits <- TwoAndThree
  Usage = {0}
  StatsPolled = TRUE
  Elapses = {1}
  MaxNow = 2
  MaxPairs = 1
PROPERTIES RpmRefusalJustified
\* All requests may be done.
CHECK_DEADLOCK FALSE
