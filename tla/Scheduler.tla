------------------------------ MODULE Scheduler ------------------------------
(***************************************************************************)
(* Thread creation and termination of myPS2 (src/scheduler.c).             *)
(*                                                                         *)
(* The boot thread (Main) creates the GUI thread, then loops for ever in   *)
(* Scheduler_Run.  The GUI thread never ends and creates workers (the MP3  *)
(* playback, stream and network threads); a worker never creates a thread  *)
(* and calls Scheduler_EndThread as its last act but one: after that call  *)
(* it still executes a few instructions, on the stack it has just given    *)
(* back, before it returns to the kernel.                                  *)
(*                                                                         *)
(* Every step of a function between two points where another thread can    *)
(* see a difference is an action; the order in which the threads' steps    *)
(* interleave is the vertical-blank interrupt's (module RoundRobin).       *)
(***************************************************************************)
EXTENDS Integers, FiniteSets

CONSTANTS
    Threads,      \* thread ids the kernel has to give; ids are not recycled,
                  \* as no thread of the program is ever deleted
    Main,         \* the boot thread, which CreateThread did not create
    NoThread,
    MaxThreads    \* SCHEDULER_MAX_THREADS

ASSUME SchedulerAssumption ==
    /\ MaxThreads \in Nat \ {0}
    /\ Main \notin Threads
    /\ NoThread \notin Threads \cup {Main}

Slots == 0 .. MaxThreads - 1
Callers == Threads \cup {Main}

VARIABLES
    sema,         \* count of scheduler_sema
    used,         \* threadStack[i].used
    thread,       \* threadStack[i].thread
    numThreads,
    pc,           \* where each thread is
    slot,         \* the local i of Scheduler_BeginThread
    created,      \* the local thread_id of Scheduler_BeginThread
    role,         \* the entry function the thread was created with
    stack         \* the stack each created thread runs on

vars == <<sema, used, thread, numThreads, pc, slot, created, role, stack>>
locals == <<slot, created>>
kernel == <<role, stack>>

InBegin == {"begin_wait", "begin_create", "begin_start", "begin_count"}
InEnd == {"end_wait", "end_free"}
Holding == {"begin_create", "begin_start", "begin_count", "end_free"}

TypeOK ==
    /\ sema \in {0, 1}
    /\ used \in [Slots -> BOOLEAN]
    /\ thread \in [Slots -> Threads \cup {NoThread}]
    /\ numThreads \in 0 .. MaxThreads
    /\ pc \in [Callers -> {"unborn", "created", "running", "tail", "dead", "rotating"}
                            \cup InBegin \cup InEnd]
    /\ slot \in [Callers -> 0 .. MaxThreads]
    /\ created \in [Callers -> Threads \cup {NoThread}]
    /\ role \in [Threads -> {"none", "gui", "worker"}]
    /\ stack \in [Threads -> 0 .. MaxThreads]

\* Scheduler_Init has run: the semaphore exists with count 1.
Init ==
    /\ sema = 1
    /\ used = [s \in Slots |-> FALSE]
    /\ thread = [s \in Slots |-> NoThread]
    /\ numThreads = 0
    /\ pc = [c \in Callers |-> IF c = Main THEN "running" ELSE "unborn"]
    /\ slot = [c \in Callers |-> 0]
    /\ created = [c \in Callers |-> NoThread]
    /\ role = [t \in Threads |-> "none"]
    /\ stack = [t \in Threads |-> MaxThreads]

------------------------------------------------------------------------------
(* scheduler_sema, a semaphore of the EE kernel.  Operators whose name ends   *)
(* in _Mutant change the definition after them the way a slip of the pen in   *)
(* the code would; they are part of no specification.                         *)

WaitSema_Mutant == sema' = 0
WaitSema == sema = 1 /\ sema' = 0
SignalSema == sema' = 1

(* Scheduler_BeginThread *)

\* Main returns from its only call into Scheduler_Run, the GUI to its loop.
Returned(c) == IF c = Main THEN "rotating" ELSE "running"
Goto(c, place) == pc' = [pc EXCEPT ![c] = place]

BeginCall(c) ==
    /\ pc[c] = "running"
    /\ c = Main \/ (c \in Threads /\ role[c] = "gui")
    /\ Goto(c, "begin_wait")
    /\ UNCHANGED <<sema, used, thread, numThreads, locals, kernel>>

LimitReached_Mutant == numThreads > MaxThreads
LimitReached == numThreads >= MaxThreads

\* The limit is reached: -1 is returned and the semaphore is not signalled.
BeginRefuse(c) ==
    /\ pc[c] = "begin_wait"
    /\ WaitSema
    /\ LimitReached
    /\ Goto(c, Returned(c))
    /\ UNCHANGED <<used, thread, numThreads, locals, kernel>>

\* The loop over threadStack stops at the first unused entry, or runs past
\* the end of the array when there is none.
FirstUnused_Mutant(s) == s = numThreads
FirstUnused(s) ==
    IF s = MaxThreads
    THEN \A r \in Slots : used[r]
    ELSE ~used[s] /\ \A r \in Slots : r < s => used[r]

BeginPick(c) ==
    /\ pc[c] = "begin_wait"
    /\ WaitSema
    /\ ~LimitReached
    /\ \E s \in 0 .. MaxThreads :
          /\ FirstUnused(s)
          /\ slot' = [slot EXCEPT ![c] = s]
    /\ Goto(c, "begin_create")
    /\ UNCHANGED <<used, thread, numThreads, created, kernel>>

BeginCreate(c) ==
    /\ pc[c] = "begin_create"
    /\ \E t \in Threads :
          /\ pc[t] = "unborn"
          /\ pc' = [pc EXCEPT ![c] = "begin_start", ![t] = "created"]
          /\ created' = [created EXCEPT ![c] = t]
          /\ stack' = [stack EXCEPT ![t] = slot[c]]
          /\ role' = [role EXCEPT ![t] = IF c = Main THEN "gui" ELSE "worker"]
    /\ UNCHANGED <<sema, used, thread, numThreads, slot>>

\* CreateThread fails.
BeginCreateFails_Mutant(c) ==
    /\ pc[c] = "begin_create"
    /\ Goto(c, Returned(c))
    /\ UNCHANGED <<sema, used, thread, numThreads, locals, kernel>>
BeginCreateFails(c) ==
    /\ pc[c] = "begin_create"
    /\ SignalSema
    /\ Goto(c, Returned(c))
    /\ UNCHANGED <<used, thread, numThreads, locals, kernel>>

\* From here on the new thread competes with its creator.
BeginStart(c) ==
    /\ pc[c] = "begin_start"
    /\ used' = [used EXCEPT ![slot[c]] = TRUE]
    /\ thread' = [thread EXCEPT ![slot[c]] = created[c]]
    /\ pc' = [pc EXCEPT ![c] = "begin_count", ![created[c]] = "running"]
    /\ UNCHANGED <<sema, numThreads, locals, kernel>>

BeginCount(c) ==
    /\ pc[c] = "begin_count"
    /\ numThreads' = numThreads + 1
    /\ SignalSema
    /\ Goto(c, Returned(c))
    /\ UNCHANGED <<used, thread, locals, kernel>>

------------------------------------------------------------------------------
(* Scheduler_EndThread *)

EndCall(t) ==
    /\ pc[t] = "running"
    /\ role[t] = "worker"
    /\ Goto(t, "end_wait")
    /\ UNCHANGED <<sema, used, thread, numThreads, locals, kernel>>

EndWait(t) ==
    /\ pc[t] = "end_wait"
    /\ WaitSema
    /\ Goto(t, "end_free")
    /\ UNCHANGED <<used, thread, numThreads, locals, kernel>>

UsedWithout_Mutant(t) == [used EXCEPT ![numThreads - 1] = FALSE]
UsedWithout(t) == [s \in Slots |-> used[s] /\ thread[s] # t]

EndFree_Mutant(t) ==
    /\ pc[t] = "end_free"
    /\ used' = UsedWithout(t)
    /\ SignalSema
    /\ Goto(t, "tail")
    /\ UNCHANGED <<thread, numThreads, locals, kernel>>
EndFree(t) ==
    /\ pc[t] = "end_free"
    /\ used' = UsedWithout(t)
    /\ numThreads' = numThreads - 1
    /\ SignalSema
    /\ Goto(t, "tail")
    /\ UNCHANGED <<thread, locals, kernel>>

\* The entry function returns: the kernel makes the thread dormant.
Exit(t) ==
    /\ pc[t] = "tail"
    /\ Goto(t, "dead")
    /\ UNCHANGED <<sema, used, thread, numThreads, locals, kernel>>

------------------------------------------------------------------------------
Begin(c) ==
    \/ BeginRefuse(c)
    \/ BeginPick(c)
    \/ BeginCreate(c)
    \/ BeginCreateFails(c)
    \/ BeginStart(c)
    \/ BeginCount(c)

End(t) == EndWait(t) \/ EndFree(t) \/ Exit(t)

Next ==
    \/ \E c \in Callers : BeginCall(c) \/ Begin(c)
    \/ \E t \in Threads : EndCall(t) \/ End(t)

\* The scheduler thread rotates the workers (module RoundRobin), so each gets
\* the processor again and again; the kernel wakes the waiters of a semaphore
\* in the order of their calls, so none of them is overtaken for ever.  When
\* the GUI creates a thread, and when a worker ends, is their own affair.
Fairness ==
    /\ \A c \in Callers : WF_vars(Begin(c)) /\ SF_vars(BeginRefuse(c) \/ BeginPick(c))
    /\ \A t \in Threads : WF_vars(End(t)) /\ SF_vars(EndWait(t))

Spec == Init /\ [][Next]_vars
FairSpec == Spec /\ Fairness

------------------------------------------------------------------------------
(* Properties *)

\* At most one thread is between WaitSema and SignalSema of the two functions,
\* and then the semaphore is taken: threadStack and numThreads are never
\* touched by two threads at once (scheduler.c:145-180 and 194-209).
MutualExclusion ==
    \A c, d \in Callers :
        pc[c] \in Holding => sema = 0 /\ (pc[d] \in Holding => c = d)

UsedSlots == {s \in Slots : used[s]}

\* numThreads, which the limit test reads, and the used flags, which the
\* search for a stack reads, tell the same story whenever nobody is half way
\* through an update, although they are changed at different places.
CountMatchesSlots == sema = 1 => numThreads = Cardinality(UsedSlots)

\* The search for a free entry never runs past the end of threadStack: the
\* limit test on numThreads alone guarantees that the loop finds one
\* (scheduler.c:157-174 writes threadStack[i] without looking at i again).
SlotFound == \A c \in Callers : pc[c] \in {"begin_create", "begin_start"} => slot[c] \in Slots

\* A used entry of threadStack becomes unused, or changes hands, only in the
\* Scheduler_EndThread call of the thread that owns it.
OnlyOwnerReleases ==
    [][\A s \in Slots :
          used[s] /\ (~used'[s] \/ thread'[s] # thread[s])
            => pc[thread[s]] = "end_free" /\ pc'[thread[s]] = "tail"]_vars

\* The inductive invariant behind the theorems of SchedulerProofs.  A thread
\* that is past StartThread and short of its release owns the used entry of the
\* stack it runs on, and no other; an entry being filled is still unused.
Started(t) == pc[t] \in {"running"} \cup InBegin \cup InEnd
OwnsStack(t) == Started(t) \/ pc[t] = "created"

EntryOfStarted ==
    /\ \A t \in Threads : Started(t) =>
          stack[t] \in Slots /\ used[stack[t]] /\ thread[stack[t]] = t
    /\ \A s \in Slots : used[s] =>
          thread[s] \in Threads /\ Started(thread[s]) /\ stack[thread[s]] = s

EntryBeingFilled ==
    /\ \A c \in Callers : pc[c] \in {"begin_create", "begin_start"} =>
          slot[c] \in Slots /\ ~used[slot[c]]
    /\ \A c \in Callers : pc[c] = "begin_start" =>
          created[c] \in Threads /\ pc[created[c]] = "created" /\ stack[created[c]] = slot[c]
    /\ \A t \in Threads : pc[t] = "created" =>
          \E c \in Callers : pc[c] = "begin_start" /\ created[c] = t

\* One started thread is missing from the count while its creator is between
\* StartThread and numThreads++.
CountInStep ==
    Cardinality(UsedSlots) =
        numThreads + (IF \E c \in Callers : pc[c] = "begin_count" THEN 1 ELSE 0)

IndInv ==
    /\ TypeOK
    /\ MutualExclusion
    /\ EntryOfStarted
    /\ EntryBeingFilled
    /\ CountInStep

\* A thread that has not yet given back its stack shares it with no other such
\* thread, even while a third one is being created.
StacksExclusive ==
    \A t, u \in Threads : OwnsStack(t) /\ OwnsStack(u) /\ stack[t] = stack[u] => t = u

\* The detailed bookkeeping implements the abstract pool of stacks.
Pool == INSTANCE StackPool WITH
            Stacks <- Slots,
            owner <- [s \in Slots |-> IF used[s] THEN thread[s] ELSE NoThread]
ImplementsPool == Pool!Spec

\* As long as fewer than MaxThreads threads run, every call of
\* Scheduler_BeginThread and of Scheduler_EndThread returns.
CallsReturn ==
    [](numThreads < MaxThreads) =>
        /\ \A c \in Callers : pc[c] \in InBegin ~> pc[c] \in {"running", "rotating"}
        /\ \A t \in Threads : pc[t] \in InEnd ~> pc[t] = "dead"

\* scheduler.c:186, "A thread should call this before it ends": a worker that
\* makes the call does get to its end.
EndedThreadsEnd == \A t \in Threads : pc[t] = "end_wait" ~> pc[t] = "dead"
==============================================================================
