SPECIFICATION FairSpec
CONSTANTS
  gateway = gateway
  worker = worker
  target = target
  Roles <- MCRoles
  Target <- MCTarget
  MaxFaults = 3
INVARIANTS OnlyWholeRuns RunningBackupIsCoherent RestMatchesPhase
PROPERTIES EventuallyWhole TakenDownIsGivenBack
CHECK_DEADLOCK FALSE
