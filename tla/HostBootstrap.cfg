SPECIFICATION FairSpec
CONSTANT MaxFaults = 5
INVARIANTS NeverLockedOut MarkerMeansFinal DeadEndIsFinal ChecksPass
PROPERTIES EventuallyFinal ImplementsAccessHandover
