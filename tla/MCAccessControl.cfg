SPECIFICATION FairSpec
CONSTANTS
  Token = {"t1", "t2"}
  Name = {"a", "b", "n"}
  Team = {"team", "gone"}
  Endpoint = {"ea", "ea2", "eb"}
  Contents <- MCContents
  Broken = Broken
  Request = {r1}
  MaxEdits = 2
INVARIANTS TypeOK ServedModelGranted RefusalExplained
PROPERTIES ReloadSettles
\* The file may stay as it is and the request be done.
CHECK_DEADLOCK FALSE
