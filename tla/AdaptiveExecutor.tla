-------------------------- MODULE AdaptiveExecutor --------------------------
(***************************************************************************)
(* ServiceExecutorAdaptive of src/mongo/src/mongo/transport/               *)
(* service_executor_adaptive.cpp: schedule() and its task wrapper, the    *)
(* worker loop (_workerThreadRoutine), the controller loop                 *)
(* (_controllerThreadRoutine), _startWorkerThread, start() and shutdown(). *)
(*                                                                         *)
(* Time is abstracted away.  A run slice that executed no task is idle    *)
(* (pctExecuting = 0 < idlePctThreshold); one that did may be either.     *)
(* A controller wake is "timed out" unless _scheduleCondition was          *)
(* notified while it waited (a spurious early wake is also allowed).       *)
(* "No schedule for stuckThreadTimeout" is "no schedule since the wait     *)
(* began".  Utilization can reach idlePctThreshold only if some task was  *)
(* executing since the last sample.                                       *)
(***************************************************************************)
EXTENDS Integers, Sequences, FiniteSets

CONSTANTS
    Workers,         \* slots for worker threads; with none free, a launch fails
    Reserved,        \* _config->reservedThreads()
    RecursionLimit,  \* _config->recursionLimit()
    MaxSchedules,    \* bound: number of schedule() calls in a behaviour
    MaxFaults        \* bound: number of exceptions escaping a run slice

ASSUME /\ Reserved \in 1..Cardinality(Workers)
       /\ RecursionLimit \in Nat \ {0}
       /\ MaxSchedules \in Nat
       /\ MaxFaults \in Nat

\* A task is scheduled with or without kDeferredTask.
Kinds == {"normal", "deferred"}

VARIABLES
    isRunning,        \* _isRunning
    ioStopped,        \* _ioContext->stopped()
    queue,            \* wrapped tasks posted to the io_context, FIFO
    wpc,              \* worker thread: where it is in _workerThreadRoutine
    stillPending,     \* worker's stillPending
    frames,           \* kinds of the wrapped tasks on a worker's stack;
                      \* Len(frames[t]) is its recursionDepth
    execCurRun,       \* executingCurRun > 0 for the current run slice
    threadsRunning,   \* _threadsRunning
    threadsPending,   \* _threadsPending
    threadsInUse,     \* _threadsInUse
    tasksQueued,      \* [Kinds -> Nat]: _tasksQueued, _deferredTasksQueued
    totalQueued,      \* _totalQueued
    totalExecuted,    \* _totalExecuted
    cpc,              \* controller thread: where it is in its loop
    toSpawn,          \* stuck detection: reserve threads still to start
    saturated,        \* this round's utilizationPct >= idlePctThreshold
    notified,         \* _scheduleCondition notified while the controller waits
    scheduledDuringWait, \* _lastScheduleTimer reset since the wait began
    execSinceSample,  \* a task body ran since the controller's last sample
    seenQueued,       \* step 8: the _tasksQueued value _isStarved() loaded
    seenFirst,        \* step 8: the operand of `running - inUse` loaded first
    spc,              \* shutdown(): where the caller is
    calls,            \* schedule() calls so far (bounded)
    posting,          \* [Kinds -> Nat]: calls past the _isRunning check, not yet posted
    returning,        \* [Kinds -> Nat]: calls that posted, tail not yet run
    dispatching,      \* dispatching[t]: the kind a task on t is dispatching inline,
                      \* past the _isRunning check, or "none"
    rejected,         \* [Kinds -> Nat]: calls refused with ShutdownInProgress
    faults            \* exceptions that escaped a run slice so far (bounded)

workerVars == <<wpc, stillPending, frames, execCurRun, dispatching>>
counterVars == <<threadsRunning, threadsPending, threadsInUse, tasksQueued,
                 totalQueued, totalExecuted>>
starveVars == <<seenQueued, seenFirst>>
ctrlVars == <<cpc, toSpawn, saturated, notified, scheduledDuringWait,
              execSinceSample, starveVars>>
clientVars == <<calls, posting, returning>>
vars == <<isRunning, ioStopped, queue, workerVars, counterVars, ctrlVars,
          spc, clientVars, rejected, faults>>

WorkerPcs == {"free", "top", "run", "unwind", "exit", "retire", "erase"}
ControllerPcs == {"idle", "wait", "stuck", "refill", "sleep", "queuedLoad",
                  "availLoad", "availLoad2", "done"}
ShutdownPcs == {"none", "joining", "waiting", "ok", "timedOut"}

\* _threads: the ThreadState list; an entry lives from insertion in
\* _startWorkerThread until the worker's exit guard erases it.
threads == {t \in Workers : wpc[t] # "free"}

FreeSlots == Workers \ threads

\* seenFirst while the controller is not inside _isStarved().
NoLoad == [which |-> "none", value |-> 0]

-----------------------------------------------------------------------------
(* Helpers                                                                 *)

\* _isStarved(), on the counter values it loads.
IsStarved(pending, queued, running, inUse) ==
    /\ pending = 0
    /\ queued # 0
    /\ queued > running - inUse

\* Variant: a failed launch does not take back the two counter increments.
StartWorkerThreadNoRollback(w) ==
    \/ \E n \in FreeSlots :
          /\ wpc' = [w EXCEPT ![n] = "top"]
          /\ stillPending' = [stillPending EXCEPT ![n] = TRUE]
          /\ threadsPending' = threadsPending + 1
          /\ threadsRunning' = threadsRunning + 1
    \/ /\ FreeSlots = {}
       /\ wpc' = w
       /\ threadsPending' = threadsPending + 1
       /\ threadsRunning' = threadsRunning + 1
       /\ UNCHANGED stillPending

\* _startWorkerThread(): insert a ThreadState and count the thread as
\* pending and running, then launch it.  A failed launch rolls all of that
\* back, so it leaves the state as it was.  w is the caller's own update of
\* wpc made in the same step.
StartWorkerThread(w) ==
    \/ \E n \in FreeSlots :
          /\ wpc' = [w EXCEPT ![n] = "top"]
          /\ stillPending' = [stillPending EXCEPT ![n] = TRUE]
          /\ threadsPending' = threadsPending + 1
          /\ threadsRunning' = threadsRunning + 1
    \/ /\ FreeSlots = {}
       /\ wpc' = w
       /\ UNCHANGED <<stillPending, threadsPending, threadsRunning>>

\* Tail of schedule() once dispatch/post returned: reset _lastScheduleTimer,
\* count the task in _totalQueued, and notify the controller when starved
\* unless the task is deferred.  tq is _tasksQueued as loaded there.
ScheduleTail(k, tq) ==
    /\ scheduledDuringWait' = TRUE
    /\ totalQueued' = totalQueued + 1
    /\ notified' = \/ notified
                   \/ /\ cpc = "wait"
                      /\ IsStarved(threadsPending, tq, threadsRunning, threadsInUse)
                      /\ k # "deferred"

\* The controller's loop test `while (_isRunning.load())`.
LoopHead == IF isRunning THEN "wait" ELSE "done"

\* The sinceLastControlRound timer restarts as a new wait begins.
EnterLoopHead ==
    /\ cpc' = LoopHead
    /\ scheduledDuringWait' = IF LoopHead = "wait" THEN FALSE ELSE scheduledDuringWait

-----------------------------------------------------------------------------
Init ==
    /\ isRunning = FALSE
    /\ ioStopped = FALSE
    /\ queue = <<>>
    /\ wpc = [t \in Workers |-> "free"]
    /\ stillPending = [t \in Workers |-> FALSE]
    /\ frames = [t \in Workers |-> <<>>]
    /\ execCurRun = [t \in Workers |-> FALSE]
    /\ threadsRunning = 0
    /\ threadsPending = 0
    /\ threadsInUse = 0
    /\ tasksQueued = [k \in Kinds |-> 0]
    /\ totalQueued = 0
    /\ totalExecuted = 0
    /\ cpc = "idle"
    /\ toSpawn = 0
    /\ saturated = FALSE
    /\ notified = FALSE
    /\ scheduledDuringWait = FALSE
    /\ execSinceSample = FALSE
    /\ seenQueued = 0
    /\ seenFirst = NoLoad
    /\ spc = "none"
    /\ calls = 0
    /\ posting = [k \in Kinds |-> 0]
    /\ returning = [k \in Kinds |-> 0]
    /\ dispatching = [t \in Workers |-> "none"]
    /\ rejected = [k \in Kinds |-> 0]
    /\ faults = 0

-----------------------------------------------------------------------------
(* start() and schedule()                                                  *)

\* start(): set _isRunning, launch the controller, start reservedThreads()
\* workers (every slot is free, so every launch succeeds).
Start ==
    /\ cpc = "idle"
    /\ isRunning' = TRUE
    /\ cpc' = "wait"
    /\ \E S \in SUBSET Workers :
          /\ Cardinality(S) = Reserved
          /\ wpc' = [t \in Workers |-> IF t \in S THEN "top" ELSE "free"]
          /\ stillPending' = [t \in Workers |-> t \in S]
    /\ threadsPending' = Reserved
    /\ threadsRunning' = Reserved
    /\ UNCHANGED <<dispatching, ioStopped, queue, frames, execCurRun, threadsInUse,
                   tasksQueued, totalQueued, totalExecuted, toSpawn, saturated, starveVars,
                   notified, scheduledDuringWait, execSinceSample, spc, clientVars,
                   rejected, faults>>

\* schedule() while _isRunning is false: the pending counter was already
\* incremented and is never decremented; ShutdownInProgress is returned.
ScheduleRejected(k) ==
    /\ ~isRunning
    /\ calls < MaxSchedules
    /\ calls' = calls + 1
    /\ tasksQueued' = [tasksQueued EXCEPT ![k] = @ + 1]
    /\ rejected' = [rejected EXCEPT ![k] = @ + 1]
    /\ UNCHANGED <<isRunning, ioStopped, queue, workerVars, threadsRunning,
                   threadsPending, threadsInUse, totalQueued, totalExecuted,
                   ctrlVars, posting, returning, spc, faults>>

\* schedule() that will post: the pending counter is incremented and
\* _isRunning is found true.  Called from any thread, or from a task without
\* kMayRecurse or at the recursion limit.
ScheduleAdmit(k) ==
    /\ isRunning
    /\ calls < MaxSchedules
    /\ calls' = calls + 1
    /\ tasksQueued' = [tasksQueued EXCEPT ![k] = @ + 1]
    /\ posting' = [posting EXCEPT ![k] = @ + 1]
    /\ UNCHANGED <<isRunning, ioStopped, queue, workerVars, threadsRunning,
                   threadsPending, threadsInUse, totalQueued, totalExecuted,
                   ctrlVars, returning, spc, rejected, faults>>

\* The same schedule() posts the wrapped task, whatever shutdown() did since
\* the check.  A worker may run it before the call goes on.
SchedulePost(k) ==
    /\ posting[k] > 0
    /\ posting' = [posting EXCEPT ![k] = @ - 1]
    /\ returning' = [returning EXCEPT ![k] = @ + 1]
    /\ queue' = Append(queue, k)
    /\ UNCHANGED <<isRunning, ioStopped, workerVars, counterVars, ctrlVars, spc,
                   calls, rejected, faults>>

\* post() has returned: the tail of that schedule(), on the counters as
\* they are now.
ScheduleReturn(k) ==
    /\ returning[k] > 0
    /\ returning' = [returning EXCEPT ![k] = @ - 1]
    /\ ScheduleTail(k, tasksQueued["normal"])
    /\ UNCHANGED <<isRunning, ioStopped, queue, workerVars, threadsRunning,
                   threadsPending, threadsInUse, tasksQueued, totalExecuted, cpc,
                   toSpawn, saturated, starveVars, execSinceSample, spc, calls, posting,
                   rejected, faults>>

\* schedule() with kMayRecurse from the task running on worker t: the
\* pending counter is incremented, _isRunning is found true and the depth
\* is below recursionLimit, so the wrapper will be dispatched.
DispatchAdmit(t, k) ==
    /\ isRunning
    /\ calls < MaxSchedules
    /\ wpc[t] = "run"
    /\ frames[t] # <<>>
    /\ dispatching[t] = "none"
    /\ Len(frames[t]) + 1 < RecursionLimit
    /\ calls' = calls + 1
    /\ tasksQueued' = [tasksQueued EXCEPT ![k] = @ + 1]
    /\ dispatching' = [dispatching EXCEPT ![t] = k]
    /\ UNCHANGED <<isRunning, ioStopped, queue, wpc, stillPending, frames,
                   execCurRun, threadsRunning, threadsPending, threadsInUse,
                   totalQueued, totalExecuted, ctrlVars, posting, returning, spc, rejected,
                   faults>>

\* dispatch() on the thread running the io_context runs the wrapper inline
\* on t: it takes the pending count back and pushes a frame (not outermost:
\* _threadsInUse unchanged).  The tail of this schedule() runs when the
\* inline task returns.
DispatchInline(t) ==
    /\ dispatching[t] # "none"
    /\ LET k == dispatching[t] IN
       /\ tasksQueued' = [tasksQueued EXCEPT ![k] = @ - 1]
       /\ frames' = [frames EXCEPT ![t] = Append(@, k)]
    /\ dispatching' = [dispatching EXCEPT ![t] = "none"]
    /\ UNCHANGED <<isRunning, ioStopped, queue, wpc, stillPending, execCurRun,
                   threadsRunning, threadsPending, threadsInUse, totalQueued,
                   totalExecuted, ctrlVars, clientVars, spc, rejected, faults>>

-----------------------------------------------------------------------------
(* The task wrapper, run by a worker inside its run slice                  *)

\* Variant: the wrapper always decrements _tasksQueued, ignoring the
\* pendingCounterPtr chosen for a deferred task.
RunTaskFixedCounter(t) ==
    /\ wpc[t] = "run"
    /\ frames[t] = <<>>
    /\ queue # <<>>
    /\ ~ioStopped
    /\ ~(stillPending[t] /\ execCurRun[t])
    /\ queue' = Tail(queue)
    /\ tasksQueued' = [tasksQueued EXCEPT !["normal"] = @ - 1]
    /\ frames' = [frames EXCEPT ![t] = <<Head(queue)>>]
    /\ threadsInUse' = threadsInUse + 1
    /\ UNCHANGED <<dispatching, isRunning, ioStopped, wpc, stillPending, execCurRun,
                   threadsRunning, threadsPending, totalQueued, totalExecuted,
                   ctrlVars, spc, clientVars, rejected, faults>>

\* The io_context hands the oldest posted wrapper to idle worker t: it
\* decrements its pending counter and, being outermost, marks t executing.
\* A pending worker (run_one_for) runs a single handler per slice.
RunTask(t) ==
    /\ wpc[t] = "run"
    /\ frames[t] = <<>>
    /\ queue # <<>>
    /\ ~ioStopped
    /\ ~(stillPending[t] /\ execCurRun[t])
    /\ queue' = Tail(queue)
    /\ tasksQueued' = [tasksQueued EXCEPT ![Head(queue)] = @ - 1]
    /\ frames' = [frames EXCEPT ![t] = <<Head(queue)>>]
    /\ threadsInUse' = threadsInUse + 1
    /\ UNCHANGED <<dispatching, isRunning, ioStopped, wpc, stillPending, execCurRun,
                   threadsRunning, threadsPending, totalQueued, totalExecuted,
                   ctrlVars, spc, clientVars, rejected, faults>>

\* Variant: _totalExecuted counted inside the `--recursionDepth == 0`
\* branch, for outermost tasks only.
TaskFinishOuterCountOnly(t) ==
    /\ wpc[t] = "run"
    /\ frames[t] # <<>>
    /\ dispatching[t] = "none"
    /\ LET k == frames[t][Len(frames[t])] IN
       /\ frames' = [frames EXCEPT ![t] = SubSeq(@, 1, Len(@) - 1)]
       /\ IF Len(frames[t]) = 1
            THEN /\ totalExecuted' = totalExecuted + 1
                 /\ threadsInUse' = threadsInUse - 1
                 /\ execCurRun' = [execCurRun EXCEPT ![t] = TRUE]
                 /\ execSinceSample' = TRUE
                 /\ UNCHANGED <<totalQueued, scheduledDuringWait, notified>>
            ELSE /\ ScheduleTail(k, tasksQueued["normal"])
                 /\ UNCHANGED <<totalExecuted, threadsInUse, execCurRun,
                                execSinceSample>>
    /\ UNCHANGED <<isRunning, ioStopped, queue, wpc, stillPending, dispatching,
                   threadsRunning, threadsPending, tasksQueued, cpc, toSpawn,
                   saturated, starveVars, spc, clientVars, rejected, faults>>

\* The innermost task on t returns and the wrapper's guard runs: back at
\* depth 0 it adds to executingCurRun and leaves _threadsInUse; otherwise
\* the enclosing schedule() that dispatched it runs its tail.
TaskFinish(t) ==
    /\ wpc[t] = "run"
    /\ frames[t] # <<>>
    /\ dispatching[t] = "none"
    /\ LET k == frames[t][Len(frames[t])] IN
       /\ frames' = [frames EXCEPT ![t] = SubSeq(@, 1, Len(@) - 1)]
       /\ totalExecuted' = totalExecuted + 1
       /\ IF Len(frames[t]) = 1
            THEN /\ threadsInUse' = threadsInUse - 1
                 /\ execCurRun' = [execCurRun EXCEPT ![t] = TRUE]
                 /\ execSinceSample' = TRUE
                 /\ UNCHANGED <<totalQueued, scheduledDuringWait, notified>>
            ELSE /\ ScheduleTail(k, tasksQueued["normal"])
                 /\ UNCHANGED <<threadsInUse, execCurRun, execSinceSample>>
    /\ UNCHANGED <<isRunning, ioStopped, queue, wpc, stillPending, dispatching,
                   threadsRunning, threadsPending, tasksQueued, cpc, toSpawn,
                   saturated, starveVars, spc, clientVars, rejected, faults>>

-----------------------------------------------------------------------------
(* The worker loop, _workerThreadRoutine                                   *)

\* Variant: the worker loop does not test _isRunning.
WorkerTopNoRunningTest(t) ==
    /\ wpc[t] = "top"
    /\ wpc' = [wpc EXCEPT ![t] = "run"]
    /\ execCurRun' = [execCurRun EXCEPT ![t] = FALSE]
    /\ UNCHANGED <<dispatching, isRunning, ioStopped, queue, stillPending, frames,
                   counterVars, ctrlVars, spc, clientVars, rejected, faults>>

\* Loop test `while (_isRunning.load())`: start a run slice (reset
\* executingCurRun, take a work guard, mark running) or leave the loop.
WorkerTop(t) ==
    /\ wpc[t] = "top"
    /\ wpc' = [wpc EXCEPT ![t] = IF isRunning THEN "run" ELSE "exit"]
    /\ execCurRun' = [execCurRun EXCEPT ![t] = IF isRunning THEN FALSE ELSE @]
    /\ UNCHANGED <<dispatching, isRunning, ioStopped, queue, stillPending, frames,
                   counterVars, ctrlVars, spc, clientVars, rejected, faults>>

\* A slice with no task executed is idle: pctExecuting is 0, below
\* idlePctThreshold().  After executing tasks it may be either.
IdleSlice(t) == IF execCurRun[t] THEN BOOLEAN ELSE {TRUE}

\* run_one_for / run_for returns with no task on t's stack: the io_context
\* was stopped, or the slice's time ran out (only with the queue empty,
\* or after a task ran, since time passes only in task bodies).  A stopped
\* io_context is restarted.  A pending worker leaves pending; otherwise,
\* above the reserve, an idle slice makes the worker retire.
SliceEnd(t) ==
    /\ wpc[t] = "run"
    /\ frames[t] = <<>>
    /\ queue = <<>> \/ ioStopped \/ execCurRun[t]
    /\ ioStopped' = FALSE
    /\ IF stillPending[t]
         THEN /\ threadsPending' = threadsPending - 1
              /\ stillPending' = [stillPending EXCEPT ![t] = FALSE]
              /\ wpc' = [wpc EXCEPT ![t] = "top"]
         ELSE /\ \E idle \in IdleSlice(t) :
                   wpc' = [wpc EXCEPT ![t] =
                             IF threadsRunning > Reserved /\ idle
                               THEN "retire" ELSE "top"]
              /\ UNCHANGED <<threadsPending, stillPending>>
    /\ UNCHANGED <<dispatching, isRunning, queue, frames, execCurRun, threadsRunning,
                   threadsInUse, tasksQueued, totalQueued, totalExecuted,
                   ctrlVars, spc, clientVars, rejected, faults>>

\* The innermost task body on t throws.  The exception leaves task() and
\* the wrapper's scope guard runs as it unwinds.
TaskThrows(t) ==
    /\ wpc[t] = "run"
    /\ frames[t] # <<>>
    /\ dispatching[t] = "none"
    /\ faults < MaxFaults
    /\ faults' = faults + 1
    /\ wpc' = [wpc EXCEPT ![t] = "unwind"]
    /\ UNCHANGED <<dispatching, isRunning, ioStopped, queue, stillPending, frames,
                   execCurRun, counterVars, ctrlVars, spc, clientVars, rejected>>

\* Variant: the accounting done after task() returns instead of in a scope
\* guard, so an exception skips it.
GuardUnwindsNoGuard(t) ==
    /\ wpc[t] = "unwind"
    /\ frames[t] # <<>>
    /\ frames' = [frames EXCEPT ![t] = SubSeq(@, 1, Len(@) - 1)]
    /\ UNCHANGED <<isRunning, ioStopped, queue, wpc, stillPending, dispatching,
                   counterVars, ctrlVars, spc, clientVars, rejected, faults, execCurRun>>

\* The guard of the innermost wrapper on t runs during unwinding, as in
\* TaskFinish; the exception then leaves the enclosing schedule()'s
\* dispatch() before its tail, and that task's body, in turn.
GuardUnwinds(t) ==
    /\ wpc[t] = "unwind"
    /\ frames[t] # <<>>
    /\ frames' = [frames EXCEPT ![t] = SubSeq(@, 1, Len(@) - 1)]
    /\ totalExecuted' = totalExecuted + 1
    /\ IF Len(frames[t]) = 1
         THEN /\ threadsInUse' = threadsInUse - 1
              /\ execCurRun' = [execCurRun EXCEPT ![t] = TRUE]
              /\ execSinceSample' = TRUE
         ELSE UNCHANGED <<threadsInUse, execCurRun, execSinceSample>>
    /\ UNCHANGED <<isRunning, ioStopped, queue, wpc, stillPending, dispatching,
                   threadsRunning, threadsPending, tasksQueued, totalQueued, cpc,
                   toSpawn, saturated, notified, scheduledDuringWait, starveVars,
                   spc, clientVars, rejected, faults>>

\* An exception escapes the io_context on worker t, thrown by asio itself
\* while t is idle or by a task body whose frames have all unwound: start
\* a replacement worker, then break out of the loop.
WorkerException(t) ==
    /\ frames[t] = <<>>
    /\ \/ wpc[t] = "unwind" /\ UNCHANGED faults
       \/ wpc[t] = "run" /\ faults < MaxFaults /\ faults' = faults + 1
    /\ StartWorkerThread([wpc EXCEPT ![t] = "exit"])
    /\ UNCHANGED <<dispatching, isRunning, ioStopped, queue, frames, execCurRun,
                   threadsInUse, tasksQueued, totalQueued, totalExecuted,
                   ctrlVars, spc, clientVars, rejected>>

\* Variant: the exit guard leaves pending without testing stillPending.
ExitGuardNoPendingTest(t) ==
    /\ wpc[t] \in {"exit", "retire"}
    /\ threadsPending' = threadsPending - 1
    /\ threadsRunning' = threadsRunning - 1
    /\ wpc' = [wpc EXCEPT ![t] = "erase"]
    /\ UNCHANGED <<dispatching, isRunning, ioStopped, queue, stillPending, frames,
                   execCurRun, threadsInUse, tasksQueued, totalQueued,
                   totalExecuted, ctrlVars, spc, clientVars, rejected, faults>>

\* The exit guard, first part: leave pending and running (and fold the
\* timers into the past totals), outside _threadsMutex.
ExitGuard(t) ==
    /\ wpc[t] \in {"exit", "retire"}
    /\ threadsPending' = IF stillPending[t] THEN threadsPending - 1
                                           ELSE threadsPending
    /\ threadsRunning' = threadsRunning - 1
    /\ wpc' = [wpc EXCEPT ![t] = "erase"]
    /\ UNCHANGED <<dispatching, isRunning, ioStopped, queue, stillPending, frames,
                   execCurRun, threadsInUse, tasksQueued, totalQueued,
                   totalExecuted, ctrlVars, spc, clientVars, rejected, faults>>

\* The exit guard, second part: erase the ThreadState from _threads under
\* _threadsMutex and notify _deathCondition.  The slot becomes free.
Erase(t) ==
    /\ wpc[t] = "erase"
    /\ wpc' = [wpc EXCEPT ![t] = "free"]
    /\ stillPending' = [stillPending EXCEPT ![t] = FALSE]
    /\ execCurRun' = [execCurRun EXCEPT ![t] = FALSE]
    /\ UNCHANGED <<dispatching, isRunning, ioStopped, queue, frames, counterVars, ctrlVars,
                   spc, clientVars, rejected, faults>>

-----------------------------------------------------------------------------
(* The controller loop, _controllerThreadRoutine                           *)

\* The wait ends and _isRunning is false: the controller exits.
ControllerExit ==
    /\ cpc = "wait"
    /\ ~isRunning
    /\ cpc' = "done"
    /\ notified' = FALSE
    /\ UNCHANGED <<isRunning, ioStopped, queue, workerVars, counterVars,
                   toSpawn, saturated, starveVars, scheduledDuringWait, execSinceSample,
                   spc, clientVars, rejected, faults>>

\* Variant: a timed-out round without the stuck-detection spawn.
ControllerTimedOutNoStuckSpawn ==
    /\ cpc = "wait"
    /\ isRunning
    /\ ~notified
    /\ execSinceSample' = FALSE
    /\ cpc' = "wait"
    /\ toSpawn' = 0
    /\ scheduledDuringWait' = FALSE
    /\ UNCHANGED <<isRunning, ioStopped, queue, workerVars, counterVars,
                   saturated, starveVars, notified, spc, clientVars, rejected, faults>>

\* wait_for times out (no notify came).  After sampling the timers, stuck
\* detection: every running thread in use and no schedule() for the whole
\* wait means reservedThreads() new workers; either way `continue`.
ControllerTimedOut ==
    /\ cpc = "wait"
    /\ isRunning
    /\ ~notified
    /\ execSinceSample' = FALSE
    /\ LET stuck == threadsInUse = threadsRunning /\ ~scheduledDuringWait IN
       /\ cpc' = IF stuck THEN "stuck" ELSE "wait"
       /\ toSpawn' = IF stuck THEN Reserved ELSE 0
       /\ scheduledDuringWait' = FALSE
    /\ UNCHANGED <<isRunning, ioStopped, queue, workerVars, counterVars,
                   saturated, starveVars, notified, spc, clientVars, rejected, faults>>

\* wait_for returns before the timeout.  Sample the timers: utilization
\* can reach the idle threshold only if some task executed.
ControllerWokenEarly ==
    /\ cpc = "wait"
    /\ isRunning
    /\ notified' = FALSE
    /\ saturated' \in IF threadsInUse > 0 \/ execSinceSample
                        THEN BOOLEAN ELSE {FALSE}
    /\ execSinceSample' = FALSE
    /\ cpc' = "refill"
    /\ UNCHANGED <<isRunning, ioStopped, queue, workerVars, counterVars,
                   toSpawn, scheduledDuringWait, starveVars, spc, clientVars, rejected, faults>>

\* Woken by schedule()'s notify_one.
ControllerNotified == notified /\ ControllerWokenEarly

\* A spurious wakeup: early although nobody notified.
ControllerSpuriousWake == ~notified /\ ControllerWokenEarly

\* Variant: the `for` loop written with `i <= reservedThreads()`.
ControllerStuckSpawnOffByOne ==
    /\ cpc = "stuck"
    /\ toSpawn >= 0
    /\ toSpawn' = toSpawn - 1
    /\ StartWorkerThread(wpc)
    /\ UNCHANGED <<dispatching, isRunning, ioStopped, queue, frames, execCurRun,
                   threadsInUse, tasksQueued, totalQueued, totalExecuted, cpc,
                   saturated, starveVars, notified, scheduledDuringWait, execSinceSample,
                   spc, clientVars, rejected, faults>>

\* One iteration of the stuck-detection `for` loop.
ControllerStuckSpawn ==
    /\ cpc = "stuck"
    /\ toSpawn > 0
    /\ toSpawn' = toSpawn - 1
    /\ StartWorkerThread(wpc)
    /\ UNCHANGED <<dispatching, isRunning, ioStopped, queue, frames, execCurRun,
                   threadsInUse, tasksQueued, totalQueued, totalExecuted, cpc,
                   saturated, starveVars, notified, scheduledDuringWait, execSinceSample,
                   spc, clientVars, rejected, faults>>

ControllerStuckDone ==
    /\ cpc = "stuck"
    /\ toSpawn = 0
    /\ EnterLoopHead
    /\ UNCHANGED <<isRunning, ioStopped, queue, workerVars, counterVars,
                   toSpawn, saturated, starveVars, notified, execSinceSample, spc, clientVars,
                   rejected, faults>>

\* One iteration of `while (_threadsRunning.load() < reservedThreads())`.
ControllerRefillSpawn ==
    /\ cpc = "refill"
    /\ threadsRunning < Reserved
    /\ StartWorkerThread(wpc)
    /\ UNCHANGED <<dispatching, isRunning, ioStopped, queue, frames, execCurRun,
                   threadsInUse, tasksQueued, totalQueued, totalExecuted,
                   ctrlVars, spc, clientVars, rejected, faults>>

\* The reserve is met: below the idle threshold `continue`, else go and
\* wait for pending threads.
ControllerRefillDone ==
    /\ cpc = "refill"
    /\ threadsRunning >= Reserved
    /\ IF saturated
         THEN cpc' = "sleep" /\ UNCHANGED scheduledDuringWait
         ELSE EnterLoopHead
    /\ UNCHANGED <<isRunning, ioStopped, queue, workerVars, counterVars,
                   toSpawn, saturated, starveVars, notified, execSinceSample, spc, clientVars,
                   rejected, faults>>

\* Everything but the controller's pc and _isStarved()'s loads.
StarveLoadFrame ==
    UNCHANGED <<isRunning, ioStopped, queue, workerVars, counterVars, toSpawn,
                saturated, notified, scheduledDuringWait, execSinceSample, spc,
                clientVars, rejected, faults>>

\* The do-while sleep ends (no thread pending, or the round used up
\* stuckThreadTimeout) and step 8 calls _isStarved(), which loads
\* _threadsPending first: a pending thread means "not starved".
ControllerSleepDone ==
    /\ cpc = "sleep"
    /\ \/ threadsPending > 0 /\ EnterLoopHead
       \/ threadsPending = 0 /\ cpc' = "queuedLoad" /\ UNCHANGED scheduledDuringWait
    /\ UNCHANGED starveVars
    /\ UNCHANGED <<isRunning, ioStopped, queue, workerVars, counterVars, toSpawn,
                   saturated, notified, execSinceSample, spc, clientVars,
                   rejected, faults>>

\* _isStarved() loads _tasksQueued: none queued means "not starved".
ControllerQueuedLoad ==
    /\ cpc = "queuedLoad"
    /\ \/ tasksQueued["normal"] = 0 /\ EnterLoopHead /\ UNCHANGED seenQueued
       \/ /\ tasksQueued["normal"] # 0
          /\ cpc' = "availLoad"
          /\ seenQueued' = tasksQueued["normal"]
          /\ UNCHANGED scheduledDuringWait
    /\ UNCHANGED <<isRunning, ioStopped, queue, workerVars, counterVars, toSpawn,
                   saturated, notified, execSinceSample, seenFirst, spc,
                   clientVars, rejected, faults>>

\* `_threadsRunning.load() - _threadsInUse.load()`: C++ leaves the order in
\* which the two operands are evaluated unspecified; either load is first.
ControllerAvailFirstLoad ==
    /\ cpc = "availLoad"
    /\ \E f \in {"running", "inUse"} :
          seenFirst' = [which |-> f,
                        value |-> IF f = "running" THEN threadsRunning ELSE threadsInUse]
    /\ cpc' = "availLoad2"
    /\ UNCHANGED seenQueued
    /\ StarveLoadFrame

\* The other operand is loaded, `tasksQueued > available` decides, and a
\* starved pool gets one new worker.
ControllerStarvedDecide ==
    /\ cpc = "availLoad2"
    /\ LET running == IF seenFirst.which = "running" THEN seenFirst.value
                                                    ELSE threadsRunning
           inUse   == IF seenFirst.which = "inUse" THEN seenFirst.value
                                                  ELSE threadsInUse
       IN IF seenQueued > running - inUse
            THEN StartWorkerThread(wpc)
            ELSE UNCHANGED <<wpc, stillPending, threadsPending, threadsRunning>>
    /\ EnterLoopHead
    /\ seenQueued' = 0
    /\ seenFirst' = NoLoad
    /\ UNCHANGED <<dispatching, isRunning, ioStopped, queue, frames, execCurRun,
                   threadsInUse, tasksQueued, totalQueued, totalExecuted,
                   toSpawn, saturated, notified, execSinceSample, spc, clientVars,
                   rejected, faults>>

-----------------------------------------------------------------------------
(* shutdown()                                                              *)

\* Clear _isRunning and notify the controller (lost unless it waits).
ShutdownBegin ==
    /\ spc = "none"
    /\ cpc # "idle"
    /\ isRunning' = FALSE
    /\ notified' = (notified \/ cpc = "wait")
    /\ spc' = "joining"
    /\ UNCHANGED <<ioStopped, queue, workerVars, counterVars, cpc, toSpawn,
                   saturated, starveVars, scheduledDuringWait, execSinceSample, clientVars,
                   rejected, faults>>

\* The controller joined: stop the io_context under _threadsMutex.
ShutdownStop ==
    /\ spc = "joining"
    /\ cpc = "done"
    /\ ioStopped' = TRUE
    /\ spc' = "waiting"
    /\ UNCHANGED <<isRunning, queue, workerVars, counterVars, ctrlVars, clientVars,
                   rejected, faults>>

\* _deathCondition.wait_for: OK once _threads is empty, or
\* ExceededTimeLimit when the timeout passes first.
ShutdownReturn ==
    /\ spc = "waiting"
    /\ spc' = IF threads = {} THEN "ok" ELSE "timedOut"
    /\ UNCHANGED <<isRunning, ioStopped, queue, workerVars, counterVars,
                   ctrlVars, clientVars, rejected, faults>>

-----------------------------------------------------------------------------
WorkerProgress(t) ==
    \/ WorkerTop(t) \/ RunTask(t) \/ DispatchInline(t) \/ TaskFinish(t)
    \/ SliceEnd(t) \/ GuardUnwinds(t) \/ (wpc[t] = "unwind" /\ WorkerException(t))
    \/ ExitGuard(t) \/ Erase(t)

ControllerStep ==
    \/ ControllerExit \/ ControllerTimedOut \/ ControllerNotified
    \/ ControllerStuckSpawn \/ ControllerStuckDone
    \/ ControllerRefillSpawn \/ ControllerRefillDone \/ ControllerSleepDone
    \/ ControllerQueuedLoad \/ ControllerAvailFirstLoad \/ ControllerStarvedDecide

Next ==
    \/ Start
    \/ \E k \in Kinds : ScheduleRejected(k) \/ ScheduleAdmit(k)
    \/ \E k \in Kinds : SchedulePost(k) \/ ScheduleReturn(k)
    \/ \E t \in Workers, k \in Kinds : DispatchAdmit(t, k)
    \/ \E t \in Workers : WorkerProgress(t) \/ TaskThrows(t) \/ WorkerException(t)
    \/ ControllerStep \/ ControllerSpuriousWake
    \/ ShutdownBegin \/ ShutdownStop \/ ShutdownReturn

\* Workers, the controller and a shutdown() caller are threads that keep
\* running; task bodies complete; an exception once thrown unwinds to the
\* worker's catch; a schedule() call past its check goes on to post and to
\* return.  Clients need not call schedule(), shutdown() need not be
\* called, and neither exceptions nor spurious wakeups need happen.
WeakFairness ==
    /\ \A t \in Workers : WF_vars(WorkerProgress(t))
    /\ WF_vars(ControllerStep)
    /\ WF_vars(\E k \in Kinds : SchedulePost(k) \/ ScheduleReturn(k))
    /\ WF_vars(ShutdownStop \/ ShutdownReturn)

\* The refill loop re-reads _threadsRunning right after each launch; a new
\* worker that exits at once (executor stopping) can make that read see the
\* reserve unmet again.  The controller is assumed not to lose that race
\* forever: its exit from the loop is strongly fair.
Fairness == WeakFairness /\ SF_vars(ControllerRefillDone)

Spec == Init /\ [][Next]_vars /\ Fairness

WeakSpec == Init /\ [][Next]_vars /\ WeakFairness

-----------------------------------------------------------------------------
(* Properties                                                              *)

\* Every variable keeps its type; in particular the stuck-detection loop's
\* counter stays within 0..reservedThreads().
TypeOK ==
    /\ isRunning \in BOOLEAN
    /\ ioStopped \in BOOLEAN
    /\ queue \in Seq(Kinds)
    /\ wpc \in [Workers -> WorkerPcs]
    /\ stillPending \in [Workers -> BOOLEAN]
    /\ frames \in [Workers -> Seq(Kinds)]
    /\ execCurRun \in [Workers -> BOOLEAN]
    /\ threadsRunning \in Int
    /\ threadsPending \in Int
    /\ threadsInUse \in Int
    /\ tasksQueued \in [Kinds -> Int]
    /\ totalQueued \in Nat
    /\ totalExecuted \in Nat
    /\ cpc \in ControllerPcs
    /\ toSpawn \in 0..Reserved
    /\ saturated \in BOOLEAN
    /\ notified \in BOOLEAN
    /\ scheduledDuringWait \in BOOLEAN
    /\ execSinceSample \in BOOLEAN
    /\ seenQueued \in Int
    /\ seenFirst \in [which : {"none", "running", "inUse"}, value : Int]
    /\ spc \in ShutdownPcs
    /\ calls \in 0..MaxSchedules
    /\ posting \in [Kinds -> Nat]
    /\ returning \in [Kinds -> Nat]
    /\ dispatching \in [Workers -> Kinds \cup {"none"}]
    /\ rejected \in [Kinds -> Nat]
    /\ faults \in 0..MaxFaults

\* The three thread counters the controller and _isStarved() decide on
\* agree with the workers: _threadsRunning counts the live workers (not yet
\* through the first part of their exit guard), _threadsPending those that
\* have not finished a slice, _threadsInUse those with a task on their
\* stack, whatever the spawns, launch failures, exits, exceptions and
\* recursive tasks in between.
LiveWorkers == {t \in Workers : wpc[t] \in {"top", "run", "unwind", "exit", "retire"}}

PoolCountersAccurate ==
    /\ threadsRunning = Cardinality(LiveWorkers)
    /\ threadsPending = Cardinality({t \in LiveWorkers : stillPending[t]})
    /\ threadsInUse = Cardinality({t \in Workers : frames[t] # <<>>})

\* Each pending counter (_tasksQueued, _deferredTasksQueued) equals the
\* wrappers of its kind still in the io_context queue plus the schedule()
\* calls refused after shutdown (the documented drift): incremented once on
\* submission, decremented once by the wrapper that was submitted.
QueuedCountersAccurate ==
    \A k \in Kinds :
        tasksQueued[k] =
            Cardinality({i \in DOMAIN queue : queue[i] = k}) + rejected[k]
            + posting[k] + Cardinality({t \in Workers : dispatching[t] = k})

\* Spec 4.F step 8 with the glossary's "no spawn is already in flight":
\* the controller's starvation spawn starts a worker only while no other
\* worker is pending.  _isStarved() tests _threadsPending first and then
\* loads _tasksQueued and the two thread counters; the controller is not
\* the only thread that starts workers (the catch blocks of
\* _workerThreadRoutine start a replacement), so the pending test can be
\* stale by the time _startWorkerThread() runs.
StarvationSpawnNotInFlight ==
    [][cpc = "availLoad2" /\ threadsPending' > threadsPending
         => threadsPending = 0]_vars

\* Once shutdown() starts, it eventually returns and every worker thread
\* has left _threads, which stays empty from then on: the controller exits
\* its loop, each worker's run slice ends, and nothing starts a worker
\* after the controller is joined.
ShutdownDrains ==
    <>[](spc # "none" => spc \in {"ok", "timedOut"} /\ threads = {})

\* Spec 8.5 with the ShutdownInProgress rule of schedule(): once shutdown()
\* has returned OK, no schedule() call is still on its way to post.  The
\* `_isRunning` load and the post are not atomic with respect to
\* shutdown(), so a call that loaded true can post into the stopped
\* io_context afterwards and return OK for a task no worker will run.
NoScheduleOutlivesShutdown ==
    spc = "ok" => \A k \in Kinds : posting[k] = 0

\* Spec 4.C step 10: voluntary exit preserves the reserved pool.  While
\* the executor runs, the exit guard of a worker that retired for idleness
\* leaves at least reservedThreads() workers running.
ReserveFloor ==
    [][\A t \in Workers :
         (isRunning /\ wpc[t] = "retire" /\ wpc'[t] = "erase")
            => threadsRunning' >= Reserved
      ]_vars

\* Spec 8.4: a pool below reservedThreads() is refilled by the controller
\* while the executor runs.
ReserveRestored ==
    (isRunning /\ threadsRunning < Reserved)
        ~> (threadsRunning >= Reserved \/ ~isRunning)

-----------------------------------------------------------------------------
(* Refinement of TaskService                                               *)

\* Wrapped tasks on the workers' stacks: begun, or dispatched inline, and
\* not yet returned: the pairs of a worker and a depth its stack reaches.
InExecution ==
    Cardinality({f \in Workers \X (1..RecursionLimit) : f[2] <= Len(frames[f[1]])})

TS == INSTANCE TaskService WITH
        started <- cpc # "idle",
        running <- isRunning,
        waiting <- queue,
        admitted <- posting["normal"] + posting["deferred"]
                     + Cardinality({t \in Workers : dispatching[t] # "none"}),
        executing <- InExecution,
        executed <- totalExecuted

\* Every step of the executor is a step of TaskService: schedule() accepts
\* only while _isRunning, posted wrappers begin in the io_context's order,
\* an inline dispatch nests in a running task, and _totalExecuted counts
\* exactly the wrappers whose guard ran, inline ones included.
ImplementsTaskServiceSafety == TS!Init /\ [][TS!Next]_TS!vars

\* The whole of TaskService, its fairness included: while the executor
\* runs, a posted wrapper is eventually taken by a worker, whatever the
\* pool went through (retirements, exceptions, failed launches); stuck
\* detection and the starvation wake must bring a worker.
ImplementsTaskService == TS!Spec

=============================================================================
