\* Shutdown under weak fairness only: the reserve-refill loop keeps
\* launching workers that exit at once.
CONSTANTS
    Workers = {w1, w2}
    Reserved = 1
    RecursionLimit = 2
    MaxSchedules = 0
    MaxFaults = 0
SPECIFICATION WeakSpec
PROPERTY ShutdownDrains
CHECK_DEADLOCK FALSE
