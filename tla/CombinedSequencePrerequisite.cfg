SPECIFICATION Spec
CONSTANTS
  MaxRuns = 1
  MaxFaults = 1
CHECK_DEADLOCK FALSE
INVARIANTS RecoverySparesPrerequisite
