SPECIFICATION FairSpec
CONSTANTS
  MaxRuns = 2
  MaxFaults = 3
CHECK_DEADLOCK FALSE
INVARIANTS PauseIsMarked PrerequisiteUndisturbed
PROPERTIES ImplementsStackLoan MarkerNeverGoesBack EventuallyGivenBack
