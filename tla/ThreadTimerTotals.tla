------------------------- MODULE ThreadTimerTotals -------------------------
(***************************************************************************)
(* The pool-wide timer totals of ServiceExecutorAdaptive                   *)
(* (service_executor_adaptive.cpp): every worker's ThreadState carries a  *)
(* running and an executing ThreadTimer; the exit guard of                 *)
(* _workerThreadRoutine folds a dying worker's totals into                 *)
(* _pastThreadsSpentRunning/Executing and then erases its ThreadState      *)
(* under _threadsMutex; the controller's _getThreadTimerTotal loads the    *)
(* past accumulator without the mutex and then sums the live threads       *)
(* under it, first for Executing and then for Running, and turns the two   *)
(* deltas into utilizationPct.                                             *)
(*                                                                         *)
(* A tick is one unit of time a worker spends with its running timer open, *)
(* with or without its executing timer open too (a task runs only inside a *)
(* run slice).  Thread counters, scheduling and spawning are those of      *)
(* AdaptiveExecutor and are left out here.                                 *)
(***************************************************************************)
EXTENDS Integers, FiniteSetsExt

CONSTANTS
    Workers,     \* the ThreadStates in _threads when the controller starts
    MaxTicks,    \* bound: ticks in a behaviour
    MaxRounds    \* bound: controller samples in a behaviour

ASSUME MaxTicks \in Nat /\ MaxRounds \in Nat

\* enum class ThreadTimer { Running, Executing }
Timers == {"Running", "Executing"}

VARIABLES
    timer,      \* timer[t][which]: state->running/executing.totalTime()
    open,       \* the worker left its loop with state->running still marked running
    wpc,        \* live, then the exit guard: foldRun, foldExec, erase; gone
    past,       \* past[which]: _pastThreadsSpentRunning/Executing
    cpc,        \* controller: where it is in its two _getThreadTimerTotal calls
    acc,        \* the accumulator of the _getThreadTimerTotal call under way
    lo,         \* the true total when that call loaded the past accumulator
    sample,     \* [which |-> <<lo, value, hi>>] of this round's two totals
    last,       \* lastSpentRunning/lastSpentExecuting
    util,       \* the last round's [diffExecuting, diffRunning], if computed
    ticks,      \* ticks so far (bounded)
    rounds      \* samples so far (bounded)

vars == <<timer, open, wpc, past, cpc, acc, lo, sample, last, util, ticks,
          rounds>>

\* _threads: a ThreadState stays in the list until the exit guard erases it.
InList == {t \in Workers : wpc[t] # "gone"}

\* The time every worker has really spent, exited or not.
Truth(which) == MapThenSumSet(LAMBDA t : timer[t][which], Workers)

\* The loop over _threads in _getThreadTimerTotal.
ListTotal(which) == MapThenSumSet(LAMBDA t : timer[t][which], InList)

NoRound == [diffExecuting |-> 0, diffRunning |-> 0, computed |-> FALSE]

\* The controller at the head of its loop, after its two initial
\* _getThreadTimerTotal calls: every listed worker has spent no time yet,
\* so lastSpentExecuting and lastSpentRunning are both 0.
Init ==
    /\ timer = [t \in Workers |-> [w \in Timers |-> 0]]
    /\ open = [t \in Workers |-> FALSE]
    /\ wpc = [t \in Workers |-> "live"]
    /\ past = [w \in Timers |-> 0]
    /\ cpc = "loadExec"
    /\ acc = 0
    /\ lo = 0
    /\ sample = [w \in Timers |-> <<0, 0, 0>>]
    /\ last = [w \in Timers |-> 0]
    /\ util = NoRound
    /\ ticks = 0
    /\ rounds = 0

-----------------------------------------------------------------------------
(* Workers                                                                 *)

\* Time passes for a worker inside a run slice, with or without a task
\* executing; a worker that left through the exception path keeps its
\* running timer open (markStopped() is skipped by the `break` in the catch
\* blocks) until its ThreadState is gone.
Tick(t) ==
    /\ ticks < MaxTicks
    /\ \/ /\ wpc[t] = "live"
          /\ \E busy \in BOOLEAN :
                timer' = [timer EXCEPT ![t]["Running"] = @ + 1,
                                       ![t]["Executing"] = IF busy THEN @ + 1 ELSE @]
       \/ /\ wpc[t] \in {"foldRun", "foldExec", "erase"}
          /\ open[t]
          /\ timer' = [timer EXCEPT ![t]["Running"] = @ + 1]
    /\ ticks' = ticks + 1
    /\ UNCHANGED <<open, wpc, past, cpc, acc, lo, sample, last, util, rounds>>

\* The worker leaves its loop: after markStopped() (shutdown, or retirement
\* after an idle slice), or from a catch block with the timer still open.
\* The guard's counter decrements come first; they do not touch timers.
LeaveLoop(t) ==
    /\ wpc[t] = "live"
    /\ wpc' = [wpc EXCEPT ![t] = "foldRun"]
    /\ \E exc \in BOOLEAN : open' = [open EXCEPT ![t] = exc]
    /\ UNCHANGED <<timer, past, cpc, acc, lo, sample, last, util, ticks, rounds>>

\* Variant: subtractAndFetch where addAndFetch was meant.
FoldRunningSubtract(t) ==
    /\ wpc[t] = "foldRun"
    /\ past' = [past EXCEPT !["Running"] = @ - timer[t]["Running"]]
    /\ wpc' = [wpc EXCEPT ![t] = "foldExec"]
    /\ UNCHANGED <<timer, open, cpc, acc, lo, sample, last, util, ticks, rounds>>

\* _pastThreadsSpentRunning.addAndFetch(state->running.totalTime())
FoldRunning(t) ==
    /\ wpc[t] = "foldRun"
    /\ past' = [past EXCEPT !["Running"] = @ + timer[t]["Running"]]
    /\ wpc' = [wpc EXCEPT ![t] = "foldExec"]
    /\ UNCHANGED <<timer, open, cpc, acc, lo, sample, last, util, ticks, rounds>>

FoldExecuting(t) ==
    /\ wpc[t] = "foldExec"
    /\ past' = [past EXCEPT !["Executing"] = @ + timer[t]["Executing"]]
    /\ wpc' = [wpc EXCEPT ![t] = "erase"]
    /\ UNCHANGED <<timer, open, cpc, acc, lo, sample, last, util, ticks, rounds>>

\* _threads.erase(state) under _threadsMutex.
Erase(t) ==
    /\ wpc[t] = "erase"
    /\ wpc' = [wpc EXCEPT ![t] = "gone"]
    /\ UNCHANGED <<timer, open, past, cpc, acc, lo, sample, last, util, ticks,
                   rounds>>

-----------------------------------------------------------------------------
(* The controller's sample                                                 *)

\* The Executing or the Running call of _getThreadTimerTotal this step is in.
Which == IF cpc \in {"loadExec", "sumExec"} THEN "Executing" ELSE "Running"

\* accumulator = _pastThreadsSpent*.load(), without _threadsMutex.
LoadPast ==
    /\ cpc \in {"loadExec", "loadRun"}
    /\ rounds < MaxRounds
    /\ acc' = past[Which]
    /\ lo' = Truth(Which)
    /\ cpc' = IF cpc = "loadExec" THEN "sumExec" ELSE "sumRun"
    /\ UNCHANGED <<timer, open, wpc, past, sample, last, util, ticks, rounds>>

\* The deltas and utilizationPct of _controllerThreadRoutine: with no
\* running time yet, or none since the last sample, nothing is updated.
Utilization(spentExecuting, spentRunning) ==
    LET diffExecuting == spentExecuting - last["Executing"]
        diffRunning == spentRunning - last["Running"]
    IN  IF spentRunning = 0 \/ diffRunning = 0
          THEN <<last, NoRound>>
          ELSE <<[Executing |-> spentExecuting, Running |-> spentRunning],
                 [diffExecuting |-> diffExecuting, diffRunning |-> diffRunning,
                  computed |-> TRUE]>>

\* Under _threadsMutex add every listed thread's timer; after the Running
\* total, compute this round's utilization.
SumList ==
    /\ cpc \in {"sumExec", "sumRun"}
    /\ LET total == acc + ListTotal(Which)
           s == [sample EXCEPT ![Which] = <<lo, total, Truth(Which)>>]
       IN  /\ sample' = s
           /\ IF cpc = "sumExec"
                THEN /\ cpc' = "loadRun"
                     /\ UNCHANGED <<last, util, rounds>>
                ELSE LET u == Utilization(s["Executing"][2], total) IN
                     /\ cpc' = "loadExec"
                     /\ last' = u[1]
                     /\ util' = u[2]
                     /\ rounds' = rounds + 1
    /\ UNCHANGED <<timer, open, wpc, past, acc, lo, ticks>>

Next ==
    \/ \E t \in Workers : Tick(t) \/ LeaveLoop(t) \/ FoldRunning(t)
                          \/ FoldExecuting(t) \/ Erase(t)
    \/ LoadPast
    \/ SumList

Spec == Init /\ [][Next]_vars

-----------------------------------------------------------------------------
(* Properties                                                              *)

\* Every variable keeps its type.
TypeOK ==
    /\ timer \in [Workers -> [Timers -> 0..MaxTicks]]
    /\ open \in [Workers -> BOOLEAN]
    /\ wpc \in [Workers -> {"live", "foldRun", "foldExec", "erase", "gone"}]
    /\ past \in [Timers -> 0..MaxTicks]
    /\ cpc \in {"loadExec", "sumExec", "loadRun", "sumRun"}
    /\ rounds \in 0..MaxRounds

UtilizationInRange ==
    util.computed => 0 <= util.diffExecuting /\ util.diffExecuting <= util.diffRunning

=============================================================================
