SPECIFICATION PowerSpec
CONSTANTS
  Observations <- TwoObservations
  NoKey = NoKey
  OpenPolls = 3
  ResolvePolls = 2
  QueueLimit = 2
  MaxIssues = 2
  MaxFailures = 2
  MaxBackoff = 2
  MaxRetryAhead = 2
  MaxCycle = 1
  RestartUnits = 1
  StartLimit = 2
  StartInterval = 3
  MaxFlips = 2
  MaxCrashes = 0
  MaxLosses = 1
  MaxOutages = 1
CHECK_DEADLOCK FALSE
INVARIANT RepeatsKeepTheirId
