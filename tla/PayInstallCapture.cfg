SPECIFICATION Spec
CONSTANTS
  gateway = gateway
  worker = worker
  target = target
  Roles <- MCRoles
  Target <- MCTarget
  MaxFaults = 2
INVARIANT StoppedWhileCaptured
CHECK_DEADLOCK FALSE
