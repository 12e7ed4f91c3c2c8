SPECIFICATION Spec
CONSTANT MaxFaults = 3
INVARIANT RestoredMeansRestored
