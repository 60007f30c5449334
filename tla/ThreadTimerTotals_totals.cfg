CONSTANTS
    Workers = {w1, w2}
    MaxTicks = 3
    MaxRounds = 2
SPECIFICATION Spec
SYMMETRY WorkerSymmetry
INVARIANT TypeOK
 
CHECK_DEADLOCK FALSE
