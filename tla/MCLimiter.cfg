SPECIFICATION HSpec
CONSTANTS
  Request = {r1, r2, r3}
  Minute = 2
  IdleLimit = 3
  Limits <- MCLimits
  Usage = {3}
  StatsPolled = TRUE
  Elapses = {1, 3}
  MaxNow = 4
  MaxPairs = 2
INVARIANTS HTypeOK PairAdmissionBound RefillNeverAhead
PROPERTIES PairRefusalJustified
SYMMETRY Symmetry
VIEW View
\* All requests may be done.
CHECK_DEADLOCK FALSE
