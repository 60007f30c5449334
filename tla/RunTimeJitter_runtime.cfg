CONSTANTS
    Workers = {w1, w2}
    RunTimes = {1, 2}
    JitterParams = {0, 2}
SPECIFICATION Spec
SYMMETRY WorkerSymmetry
INVARIANT RunTimePositive
