\* Safety of the pool and queue accounting: 2 worker slots, the source's
\* default reservedThreads() = 1, recursionLimit 3, up to 3 schedule() calls
\* (one posted, two nested inline) and no escaped exception.
CONSTANTS
    Workers = {w1, w2}
    Reserved = 1
    RecursionLimit = 3
    MaxSchedules = 3
    MaxFaults = 0
SPECIFICATION Spec
SYMMETRY WorkerSymmetry
INVARIANT TypeOK
INVARIANT PoolCountersAccurate
INVARIANT QueuedCountersAccurate
CHECK_DEADLOCK FALSE
