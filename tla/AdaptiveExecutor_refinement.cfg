\* The executor implements TaskService (safety part), and the thread counters
\* stay accurate across an escaped exception (from asio, or thrown by a
\* task body and unwound through its frames): 2 worker slots,
\* reservedThreads() = 1, recursionLimit 3 so that a task dispatches one
\* inline, up to 2 schedule() calls and one escaped exception.
CONSTANTS
    Workers = {w1, w2}
    Reserved = 1
    RecursionLimit = 3
    MaxSchedules = 2
    MaxFaults = 1
SPECIFICATION Spec
SYMMETRY WorkerSymmetry
INVARIANT PoolCountersAccurate
PROPERTY ImplementsTaskServiceSafety
CHECK_DEADLOCK FALSE
