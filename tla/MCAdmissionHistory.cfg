SPECIFICATION HFairSpec
CONSTANTS
  Model = {"m", "none"}
  Char <- MCChar
  Url = {"u1", "u2"}
  Endpoints <- MCEndpoints
  CounterRange = 2
  Handler = {h1, h2}
  Token = {"t"}
  Team = {"team"}
  TeamOf <- MCTeamOf
  TeamLimits <- MCTeamLimits
  TokenLimits <- MCTokenLimits
  EndpointLimits <- MCEndpointLimits
  Unset = Unset
  Retries = TRUE
  RedisFaults = TRUE
INVARIANTS HTypeOK ForwardedIsCounted NoStarvation
PROPERTY LockoutEnds
