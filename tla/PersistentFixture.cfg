SPECIFICATION MCSpec
CONSTANTS
  runA = runA
  runB = runB
  Fixtures <- MCFixtures
  Target = 2
  MaxFaults = 2
  MaxBoots = 2
SYMMETRY Symmetry
\* Stopped, cleaned, or refused for good, nothing is left to do.
CHECK_DEADLOCK FALSE
INVARIANTS
  RebootTestsQualified CleanedLeavesNothing OriginalRetained
  CloneIsTheOriginal RecordIsTrue
PROPERTIES ImplementsBootQualification
