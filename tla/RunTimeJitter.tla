--------------------------- MODULE RunTimeJitter ---------------------------
(***************************************************************************)
(* The run-slice length of a worker of ServiceExecutorAdaptive             *)
(* (service_executor_adaptive.cpp) and the retirement ratio computed from *)
(* it: _getThreadJitter draws a worker's jitter once, from                 *)
(* runTimeJitter() and workerThreadRunTime() as they are then; every loop *)
(* iteration re-reads workerThreadRunTime(), adds the jitter, runs a slice *)
(* of that length and, when the worker is no longer pending and the pool  *)
(* is above the reserve, divides executingCurRun by the slice's running   *)
(* time.                                                                   *)
(*                                                                         *)
(* Server parameters can be changed at any time (setParameter); their      *)
(* values are small integer sets.  Milliseconds and ticks are the same     *)
(* unit here.  A slice of positive length lasts its length (run_one_for    *)
(* may return sooner); run_for with a non-positive length returns at once, *)
(* running no handler, after 0 or 1 ticks of the tick source.  Shutdown,   *)
(* exceptions and the thread counters are those of AdaptiveExecutor.       *)
(***************************************************************************)
EXTENDS Integers

CONSTANTS
    Workers,       \* worker threads
    RunTimes,      \* values adaptiveServiceExecutorRunTimeMillis takes
    JitterParams   \* values adaptiveServiceExecutorRunTimeJitterMillis takes

\* A negative runTimeJitter makes uniform_int_distribution(-p, p) undefined;
\* only non-negative values are enumerated.
ASSUME RunTimes \subseteq Int /\ JitterParams \subseteq Nat

VARIABLES
    runTimeParam,  \* _config->workerThreadRunTime()
    jitterParam,   \* _config->runTimeJitter()
    drawn,         \* the worker has called _getThreadJitter
    jitter,        \* jitter[t]: the worker's jitter, once drawn
    pending,       \* the worker's stillPending
    execCur,       \* state->executingCurRun
    slice          \* the worker's last slice: runTime, ticks spent running,
                   \* executingCurRun, and whether the ratio was computed

vars == <<runTimeParam, jitterParam, drawn, jitter, pending, execCur, slice>>

NoSlice == [runTime |-> 1, spent |-> 1, executing |-> 0, ratio |-> FALSE]

\* _getThreadJitter(): 0 when runTimeJitter is 0; else a value drawn from
\* [-p, p], replaced by 0 when above workerThreadRunTime.
GetThreadJitter(p, runTime) ==
    IF p = 0 THEN {0}
    ELSE {IF j > runTime THEN 0 ELSE j : j \in -p..p}

\* Ticks state->running accumulates over one run_one_for (pending) or
\* run_for call.
SliceTicks(runTime, stillPending) ==
    IF runTime <= 0 THEN {0, 1}
    ELSE IF stillPending THEN 1..runTime ELSE {runTime}

Init ==
    /\ runTimeParam \in RunTimes
    /\ jitterParam \in JitterParams
    /\ drawn = [t \in Workers |-> FALSE]
    /\ jitter = [t \in Workers |-> 0]
    /\ pending = [t \in Workers |-> TRUE]
    /\ execCur = [t \in Workers |-> 0]
    /\ slice = [t \in Workers |-> NoSlice]

\* setParameter of either option, seen by the next load.
SetRunTime ==
    /\ \E v \in RunTimes \ {runTimeParam} : runTimeParam' = v
    /\ UNCHANGED <<jitterParam, drawn, jitter, pending, execCur, slice>>

SetJitter ==
    /\ \E v \in JitterParams \ {jitterParam} : jitterParam' = v
    /\ UNCHANGED <<runTimeParam, drawn, jitter, pending, execCur, slice>>

\* `auto jitter = _getThreadJitter();` before the loop.
DrawJitter(t) ==
    /\ ~drawn[t]
    /\ drawn' = [drawn EXCEPT ![t] = TRUE]
    /\ \E j \in GetThreadJitter(jitterParam, runTimeParam) :
          jitter' = [jitter EXCEPT ![t] = j]
    /\ UNCHANGED <<runTimeParam, jitterParam, pending, execCur, slice>>

\* One loop iteration: runTime = workerThreadRunTime() + jitter; reset
\* executingCurRun; run a slice, in which tasks execute for e ticks at most
\* the slice's running time; then leave pending, or, when _threadsRunning
\* is above the reserve (`above`), compute executingToRunning.
RunSlice(t) ==
    /\ drawn[t]
    /\ LET runTime == runTimeParam + jitter[t] IN
       \E spent \in SliceTicks(runTime, pending[t]), above \in BOOLEAN :
       \E e \in 0..(IF runTime <= 0 THEN 0 ELSE spent) :
          /\ execCur' = [execCur EXCEPT ![t] = e]
          /\ slice' = [slice EXCEPT ![t] =
                         [runTime |-> runTime, spent |-> spent,
                          executing |-> e,
                          ratio |-> ~pending[t] /\ above]]
    /\ pending' = [pending EXCEPT ![t] = FALSE]
    /\ UNCHANGED <<runTimeParam, jitterParam, drawn, jitter>>

Next ==
    \/ SetRunTime
    \/ SetJitter
    \/ \E t \in Workers : DrawJitter(t) \/ RunSlice(t)

Spec == Init /\ [][Next]_vars

-----------------------------------------------------------------------------
(* Properties                                                              *)

\* dassert(runTime.count() > 0) in _workerThreadRoutine: every slice a
\* worker runs has a positive length, whatever jitter it drew and however
\* workerThreadRunTime was changed since.
RunTimePositive ==
    \A t \in Workers : slice[t].runTime > 0

=============================================================================
