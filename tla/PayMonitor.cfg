SPECIFICATION FairSpec
CONSTANTS
  Observations <- MCObservations
  NoKey = NoKey
  OpenPolls = 3
  ResolvePolls = 2
  QueueLimit = 2
  MaxIssues = 2
  MaxFailures = 2
  MaxBackoff = 2
  MaxRetryAhead = 2
  MaxCycle = 2
  RestartUnits = 1
  StartLimit = 2
  StartInterval = 3
  MaxFlips = 3
  MaxCrashes = 1
  MaxLosses = 1
CHECK_DEADLOCK FALSE
INVARIANTS PersistedStateIsAccepted NothingDropped NewestAlertIsConfirmed HaltsOnlyWhenFull
PROPERTIES Hysteresis ImplementsAlertLog ViewConverges BacklogDrains
