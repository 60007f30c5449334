\* Progress under the fairness of worker, controller and shutdown threads:
\* 2 worker slots, reservedThreads() = 1, 2 schedule() calls, no exception.
CONSTANTS
    Workers = {w1, w2}
    Reserved = 1
    RecursionLimit = 2
    MaxSchedules = 2
    MaxFaults = 0
SPECIFICATION Spec
PROPERTY ImplementsTaskService
PROPERTY ShutdownDrains
CHECK_DEADLOCK FALSE
