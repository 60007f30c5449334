\* An idle pool left below reservedThreads() = 2 (3 worker slots), in
\* behaviours without shutdown().
CONSTANTS
    Workers = {w1, w2, w3}
    Reserved = 2
    RecursionLimit = 1
    MaxSchedules = 2
    MaxFaults = 0
SPECIFICATION Spec
PROPERTY ReserveRestored
CHECK_DEADLOCK FALSE
CONSTRAINT NoShutdownCall
