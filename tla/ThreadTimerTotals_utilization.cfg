CONSTANTS
    Workers = {w1, w2}
    MaxTicks = 3
    MaxRounds = 2
SPECIFICATION Spec
SYMMETRY WorkerSymmetry
INVARIANT UtilizationInRange
CHECK_DEADLOCK FALSE
