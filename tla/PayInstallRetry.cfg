SPECIFICATION Spec
CONSTANTS
  gateway = gateway
  worker = worker
  target = target
  Roles <- MCRoles
  Target <- MCTarget
  MaxFaults = 1
INVARIANT PublicationMayBeRetried
CHECK_DEADLOCK FALSE
