---------------------------- MODULE TaskService ----------------------------
(***************************************************************************)
(* What ServiceExecutorAdaptive promises the callers of schedule()         *)
(* (service_executor_adaptive.cpp), with threads, counters and the        *)
(* controller left out: tasks are accepted only while the executor runs;  *)
(* a posted task waits in FIFO order until one begins, a task may schedule *)
(* another to run inline, inside itself; the check that the executor runs *)
(* and the posting of the task are two steps, with a Stop possible between *)
(* them; a task that finishes is counted   *)
(* as executed; while the executor runs, a waiting task eventually begins. *)
(* Shutdown may leave tasks waiting forever.                               *)
(***************************************************************************)
EXTENDS Naturals, Sequences

CONSTANT Kinds   \* a task is scheduled with or without kDeferredTask

VARIABLES
    started,     \* start() was called
    running,     \* the executor accepts tasks
    admitted,    \* schedule() calls that found it running, task not yet handed over
    waiting,     \* posted tasks not begun, oldest first
    executing,   \* tasks begun and not finished, inline ones included
    executed     \* tasks finished

vars == <<started, running, admitted, waiting, executing, executed>>

Init ==
    /\ started = FALSE
    /\ running = FALSE
    /\ admitted = 0
    /\ waiting = <<>>
    /\ executing = 0
    /\ executed = 0

Start ==
    /\ ~started
    /\ started' = TRUE
    /\ running' = TRUE
    /\ UNCHANGED <<admitted, waiting, executing, executed>>

Stop ==
    /\ running
    /\ running' = FALSE
    /\ UNCHANGED <<started, admitted, waiting, executing, executed>>

\* A call finds the executor running.
Admit ==
    /\ running
    /\ admitted' = admitted + 1
    /\ UNCHANGED <<started, running, waiting, executing, executed>>

\* An admitted task is posted.
Accept(k) ==
    /\ admitted > 0
    /\ admitted' = admitted - 1
    /\ waiting' = Append(waiting, k)
    /\ UNCHANGED <<started, running, executing, executed>>

\* An admitted task, scheduled by a running one, runs inside it at once.
AcceptInline ==
    /\ admitted > 0
    /\ executing > 0
    /\ admitted' = admitted - 1
    /\ executing' = executing + 1
    /\ UNCHANGED <<started, running, waiting, executed>>

\* The oldest waiting task begins.
Begin ==
    /\ waiting # <<>>
    /\ waiting' = Tail(waiting)
    /\ executing' = executing + 1
    /\ UNCHANGED <<started, running, admitted, executed>>

Finish ==
    /\ executing > 0
    /\ executing' = executing - 1
    /\ executed' = executed + 1
    /\ UNCHANGED <<started, running, admitted, waiting>>

Next ==
    \/ Start \/ Stop \/ Admit \/ (\E k \in Kinds : Accept(k))
    \/ AcceptInline \/ Begin \/ Finish

Spec == Init /\ [][Next]_vars /\ WF_vars(running /\ Begin)

=============================================================================
