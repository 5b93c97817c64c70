------------------------------ MODULE StackPool ------------------------------
(***************************************************************************)
(* What the thread module of myPS2 (scheduler.c) promises its callers: a   *)
(* fixed pool of stacks, each of which belongs to at most one thread from  *)
(* the moment a worker is started on it until that worker gives it back.   *)
(* Module Scheduler is shown to implement this specification.              *)
(***************************************************************************)
CONSTANTS
    Stacks,     \* the stacks of the pool
    Threads,    \* the kernel's thread ids
    NoThread    \* "this stack is free"

VARIABLE owner  \* owner[s]: the thread that stack s belongs to

TypeOK == owner \in [Stacks -> Threads \cup {NoThread}]

Init == owner = [s \in Stacks |-> NoThread]

\* A free stack goes to a thread that has none.
Grant(s, t) ==
    /\ owner[s] = NoThread
    /\ \A r \in Stacks : owner[r] # t
    /\ owner' = [owner EXCEPT ![s] = t]

\* A thread gives back the stack it runs on.
Release(s) ==
    /\ owner[s] # NoThread
    /\ owner' = [owner EXCEPT ![s] = NoThread]

Next == \E s \in Stacks : Release(s) \/ \E t \in Threads : Grant(s, t)

Spec == Init /\ [][Next]_owner
==============================================================================
