SPECIFICATION FairSpec
CONSTANTS
  facade = facade
  gateway = gateway
  public = public
  worker = worker
  Roles <- MCRoles
  MaxDeaths = 4
  MaxReboots = 2
INVARIANTS RestIsConsistent AcceptedIsProven BackupPredatesCandidate MixedOnlyAfterReboot StuckOnlyAfterFault
PROPERTIES ImplementsReversibleChange RecoverResolves
