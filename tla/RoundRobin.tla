----------------------------- MODULE RoundRobin -----------------------------
(***************************************************************************)
(* Time slicing of the worker threads (src/scheduler.c).                   *)
(*                                                                         *)
(* The EE kernel runs the ready thread of the highest priority and never   *)
(* slices time between threads of one priority.  All workers have priority *)
(* 100.  The scheduler thread lowers itself below them (110), is raised to *)
(* 64 by the vertical-blank interrupt, or by a worker that yields, rotates *)
(* the workers' ready queue, and lowers itself again.  This module is what *)
(* the fairness assumptions of the other modules rest on.                  *)
(***************************************************************************)
EXTENDS Naturals, Sequences, SequencesExt

CONSTANT Workers

VARIABLES
    queue,   \* the kernel's ready queue of priority 100; its head runs
             \* whenever the scheduler thread is below it
    prio,    \* priority of the scheduler thread
    next,    \* the call that the scheduler thread makes next
    fresh    \* the head of the queue has not executed since it was given the
             \* processor: a turn is far shorter than the 1/60 s between two
             \* vertical blanks

vars == <<queue, prio, next, fresh>>

TypeOK ==
    /\ queue \in Seq(Workers) /\ IsInjective(queue)
    /\ prio \in {"main", "below"}
    /\ next \in {"ChangeThreadPriority", "RotateThreadReadyQueue"}
    /\ fresh \in BOOLEAN

Init ==
    /\ queue = <<>>
    /\ prio = "main"
    /\ next = "ChangeThreadPriority"
    /\ fresh = TRUE

Ready(w) == w \in ToSet(queue)
WorkerRuns(w) == prio = "below" /\ queue # <<>> /\ Head(queue) = w
SchedulerRuns == prio = "main" \/ queue = <<>>

\* Kernel: the first thread of a ready queue goes to its end.
Rotated_Mutant(q) == IF q = <<>> THEN q ELSE Append(q, Head(q))
Rotated(q) == IF q = <<>> THEN q ELSE Append(Tail(q), Head(q))

------------------------------------------------------------------------------
(* Scheduler_Run *)

LowerSelf ==
    /\ SchedulerRuns
    /\ next = "ChangeThreadPriority"
    /\ prio' = "below"
    /\ next' = "RotateThreadReadyQueue"
    /\ fresh' = TRUE
    /\ UNCHANGED queue

RotateWorkers_Mutant ==
    /\ SchedulerRuns
    /\ next = "RotateThreadReadyQueue"
    /\ next' = "ChangeThreadPriority"
    /\ UNCHANGED <<queue, prio, fresh>>
RotateWorkers ==
    /\ SchedulerRuns
    /\ next = "RotateThreadReadyQueue"
    /\ queue' = Rotated(queue)
    /\ next' = "ChangeThreadPriority"
    /\ UNCHANGED <<prio, fresh>>

\* vblankHandler
Vblank ==
    /\ prio = "below"
    /\ queue # <<>> => ~fresh
    /\ prio' = "main"
    /\ UNCHANGED <<queue, next, fresh>>

------------------------------------------------------------------------------
(* What a worker can do while it has the processor. *)

Work(w) ==
    /\ WorkerRuns(w)
    /\ fresh' = FALSE
    /\ UNCHANGED <<queue, prio, next>>

\* Scheduler_YieldThread: the scheduler thread takes over at once; the rotation
\* of queue 64 that follows, when the worker is back, finds one thread there.
Yield(w) ==
    /\ WorkerRuns(w) /\ ~fresh
    /\ prio' = "main"
    /\ UNCHANGED <<queue, next, fresh>>

\* WaitSema or SifCallRpc blocks the worker; the next one goes on.
WaitFor(w) ==
    /\ WorkerRuns(w) /\ ~fresh
    /\ queue' = Tail(queue)
    /\ fresh' = TRUE
    /\ UNCHANGED <<prio, next>>

\* An interrupt, or another worker's SignalSema, makes it ready again.
Wake(w) ==
    /\ ~Ready(w)
    /\ queue' = Append(queue, w)
    /\ fresh' = (fresh \/ queue = <<>>)
    /\ UNCHANGED <<prio, next>>

SchedulerStep == LowerSelf \/ RotateWorkers
Next ==
    \/ SchedulerStep
    \/ Vblank
    \/ \E w \in Workers : Work(w) \/ Yield(w) \/ WaitFor(w) \/ Wake(w)

\* The processor executes the running thread, and vertical blanks keep coming.
\* Nothing makes a worker yield or block.
Spec ==
    /\ Init /\ [][Next]_vars
    /\ WF_vars(SchedulerStep)
    /\ WF_vars(Vblank)
    /\ \A w \in Workers : WF_vars(Work(w))

------------------------------------------------------------------------------
\* A worker that is ready executes again, whatever the other workers do, even
\* if they never yield and never block.
ReadyWorkerExecutes ==
    \A w \in Workers : Ready(w) ~> (queue # <<>> /\ Head(queue) = w /\ ~fresh)
==============================================================================
