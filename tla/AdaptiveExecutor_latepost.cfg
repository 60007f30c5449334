\* A schedule() call racing shutdown(): one worker slot, reservedThreads() = 1,
\* one schedule() call.
CONSTANTS
    Workers = {w1}
    Reserved = 1
    RecursionLimit = 1
    MaxSchedules = 1
    MaxFaults = 0
SPECIFICATION Spec
INVARIANT NoScheduleOutlivesShutdown
CHECK_DEADLOCK FALSE
