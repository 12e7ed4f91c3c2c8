SPECIFICATION FairSpec
CONSTANT MaxFaults = 4
CHECK_DEADLOCK FALSE
INVARIANTS AdmittedIsVetted InstalledIsWhole
PROPERTY TakenBackIsResumed
