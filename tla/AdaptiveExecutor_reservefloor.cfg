\* Two idle workers above the reserve decide to retire at once.
CONSTANTS
    Workers = {w1, w2}
    Reserved = 1
    RecursionLimit = 2
    MaxSchedules = 2
    MaxFaults = 0
SPECIFICATION Spec
SYMMETRY WorkerSymmetry
PROPERTY ReserveFloor
CHECK_DEADLOCK FALSE
