\* The starvation spawn against a replacement spawn: 2 worker slots,
\* reservedThreads() = 1, no inline dispatch, 2 schedule() calls and one
\* exception escaping a worker, whose catch block starts a replacement.
CONSTANTS
    Workers = {w1, w2}
    Reserved = 1
    RecursionLimit = 1
    MaxSchedules = 2
    MaxFaults = 1
SPECIFICATION Spec
SYMMETRY WorkerSymmetry
PROPERTY StarvationSpawnNotInFlight
CHECK_DEADLOCK FALSE
