--------------------------- MODULE SchedulerProofs ---------------------------
(***************************************************************************)
(* Theorems about module Scheduler, for every number of threads and every  *)
(* limit: type correctness, mutual exclusion, the agreement of numThreads  *)
(* with the used flags, the existence of a free entry when one is looked   *)
(* for, exclusive stacks, and the refinement of StackPool.                 *)
(***************************************************************************)
EXTENDS Scheduler, FiniteSetTheorems, TLAPS

\* The array threadStack has exactly MaxThreads entries, so the used ones are
\* finitely many and at most MaxThreads.
LEMMA SlotsCounted ==
    ASSUME NEW S \in SUBSET Slots
    PROVE  /\ IsFiniteSet(S)
           /\ Cardinality(S) \in Nat
           /\ Cardinality(S) <= MaxThreads
           /\ Cardinality(S) = MaxThreads => S = Slots
<1>1. MaxThreads \in Nat /\ MaxThreads - 1 \in Int /\ 0 \in Int /\ MaxThreads - 1 - 0 + 1 = MaxThreads
  BY SchedulerAssumption
<1>2. IsFiniteSet(Slots) /\ Cardinality(Slots) = MaxThreads
  BY <1>1, FS_Interval, SchedulerAssumption DEF Slots
<1>3. IsFiniteSet(S) /\ Cardinality(S) <= MaxThreads /\ (Cardinality(S) = MaxThreads => S = Slots)
  BY <1>2, FS_Subset
<1>4. Cardinality(S) \in Nat
  BY <1>3, FS_CardinalityType
<1>. QED  BY <1>3, <1>4

\* The initial state satisfies the inductive invariant.
LEMMA InitIndInv == Init => IndInv
<1>. SUFFICES ASSUME Init PROVE IndInv
  OBVIOUS
<1>1. TypeOK
  BY SchedulerAssumption DEF Init, TypeOK, Callers, Slots, InBegin, InEnd
<1>2. MutualExclusion /\ EntryOfStarted /\ EntryBeingFilled
  BY SchedulerAssumption DEF Init, MutualExclusion, EntryOfStarted, EntryBeingFilled, Started,
     Callers, InBegin, InEnd, Holding
<1>3. UsedSlots = {} /\ \A c \in Callers : pc[c] # "begin_count"
  BY DEF Init, UsedSlots, Callers
<1>4. CountInStep
  BY <1>3, FS_EmptySet DEF Init, CountInStep
<1>. QED  BY <1>1, <1>2, <1>4 DEF IndInv

\* A step that leaves threadStack and numThreads alone, and moves no thread to
\* or from the place before numThreads++, leaves the count as it was.
LEMMA CountKept ==
    ASSUME CountInStep, UNCHANGED <<used, numThreads>>,
           \A c \in Callers : (pc[c] = "begin_count") <=> (pc'[c] = "begin_count")
    PROVE  CountInStep'
<1>1. UsedSlots' = UsedSlots
  BY DEF UsedSlots
<1>2. (\E c \in Callers : pc[c] = "begin_count") <=> (\E c \in Callers : pc'[c] = "begin_count")
  OBVIOUS
<1>. QED  BY <1>1, <1>2 DEF CountInStep

\* Every step of Scheduler_BeginThread and Scheduler_EndThread preserves the
\* inductive invariant.
LEMMA StepIndInv == IndInv /\ [Next]_vars => IndInv'
<1>. SUFFICES ASSUME IndInv, [Next]_vars PROVE IndInv'
  OBVIOUS
<1>. USE SchedulerAssumption
<1>. USE DEF InBegin, InEnd, Holding, Callers
<1>1. ASSUME NEW c \in Callers, BeginCall(c) PROVE IndInv'
  <2>. USE <1>1 DEF BeginCall, Goto, locals, kernel
  <2>1. TypeOK'
    BY DEF IndInv, TypeOK
  <2>2. MutualExclusion'
    BY DEF IndInv, TypeOK, MutualExclusion
  <2>3. EntryOfStarted'
    BY DEF IndInv, TypeOK, EntryOfStarted, Started
  <2>4. EntryBeingFilled'
    BY DEF IndInv, TypeOK, EntryBeingFilled
  <2>5. CountInStep'
    BY CountKept DEF IndInv, TypeOK
  <2>. QED  BY <2>1, <2>2, <2>3, <2>4, <2>5 DEF IndInv
<1>2. ASSUME NEW c \in Callers, BeginRefuse(c) PROVE IndInv'
  <2>. USE <1>2 DEF BeginRefuse, WaitSema, Goto, Returned, locals, kernel
  <2>1. TypeOK'
    BY DEF IndInv, TypeOK
  <2>2. MutualExclusion'
    BY DEF IndInv, TypeOK, MutualExclusion
  <2>3. EntryOfStarted'
    BY DEF IndInv, TypeOK, EntryOfStarted, Started
  <2>4. EntryBeingFilled'
    BY DEF IndInv, TypeOK, EntryBeingFilled
  <2>5. CountInStep'
    BY CountKept DEF IndInv, TypeOK
  <2>. QED  BY <2>1, <2>2, <2>3, <2>4, <2>5 DEF IndInv
<1>3. ASSUME NEW c \in Callers, BeginPick(c) PROVE IndInv'
  <2>. USE <1>3 DEF BeginPick, WaitSema, Goto, kernel
  <2>0. \A d \in Callers : pc[d] \notin Holding
    BY DEF IndInv, MutualExclusion
  <2>1. TypeOK'
    BY DEF IndInv, TypeOK
  <2>2. MutualExclusion'
    BY <2>0 DEF IndInv, TypeOK, MutualExclusion
  <2>3. EntryOfStarted'
    BY DEF IndInv, TypeOK, EntryOfStarted, Started
  <2>4. EntryBeingFilled'
    <3>1. PICK s \in 0 .. MaxThreads : FirstUnused(s) /\ slot' = [slot EXCEPT ![c] = s]
      OBVIOUS
    <3>2. Cardinality(UsedSlots) < MaxThreads
      BY <2>0 DEF IndInv, TypeOK, CountInStep, LimitReached
    <3>3. UsedSlots # Slots
      <4>1. Cardinality(Slots) = MaxThreads
        BY FS_Interval DEF Slots
      <4>. QED  BY <3>2, <4>1
    <3>4. s # MaxThreads
      BY <3>1, <3>3 DEF FirstUnused, UsedSlots
    <3>5. s \in Slots /\ ~used[s]
      BY <3>1, <3>4 DEF FirstUnused, Slots
    <3>6. slot'[c] = s /\ used' = used
      BY <3>1 DEF IndInv, TypeOK
    <3>7. \A d \in Callers \ {c} : pc'[d] \notin {"begin_create", "begin_start"}
      BY <2>0 DEF IndInv, TypeOK
    <3>8. pc'[c] = "begin_create" /\ \A t \in Threads : pc'[t] # "created"
      BY <2>0 DEF IndInv, TypeOK, EntryBeingFilled
    <3>. QED  BY <3>5, <3>6, <3>7, <3>8 DEF EntryBeingFilled
  <2>5. CountInStep'
    BY CountKept DEF IndInv, TypeOK
  <2>. QED  BY <2>1, <2>2, <2>3, <2>4, <2>5 DEF IndInv
<1>4. ASSUME NEW c \in Callers, BeginCreate(c) PROVE IndInv'
  <2>. PICK t \in Threads :
          /\ pc[t] = "unborn"
          /\ pc' = [pc EXCEPT ![c] = "begin_start", ![t] = "created"]
          /\ created' = [created EXCEPT ![c] = t]
          /\ stack' = [stack EXCEPT ![t] = slot[c]]
          /\ role' = [role EXCEPT ![t] = IF c = Main THEN "gui" ELSE "worker"]
    BY <1>4 DEF BeginCreate
  <2>0. /\ pc[c] = "begin_create" /\ t # c
        /\ UNCHANGED <<sema, used, thread, numThreads, slot>>
        /\ \A d \in Callers \ {c} : pc[d] \notin Holding
    BY <1>4 DEF BeginCreate, IndInv, MutualExclusion
  <2>1. TypeOK'
    BY <2>0 DEF IndInv, TypeOK
  <2>2. MutualExclusion'
    BY <2>0 DEF IndInv, TypeOK, MutualExclusion
  <2>3. EntryOfStarted'
    BY <2>0 DEF IndInv, TypeOK, EntryOfStarted, Started
  <2>4. EntryBeingFilled'
    <3>1. pc'[c] = "begin_start" /\ created'[c] = t /\ pc'[t] = "created" /\ stack'[t] = slot'[c]
      BY <2>0 DEF IndInv, TypeOK
    <3>2. slot'[c] \in Slots /\ ~used'[slot'[c]]
      BY <2>0 DEF IndInv, EntryBeingFilled
    <3>3. \A d \in Callers \ {c} : pc'[d] \notin {"begin_create", "begin_start"}
      BY <2>0 DEF IndInv, TypeOK
    <3>4. \A u \in Threads : pc'[u] = "created" => u = t
      BY <2>0 DEF IndInv, TypeOK, EntryBeingFilled
    <3>. QED  BY <3>1, <3>2, <3>3, <3>4 DEF EntryBeingFilled
  <2>5. CountInStep'
    BY <2>0, CountKept DEF IndInv, TypeOK
  <2>. QED  BY <2>1, <2>2, <2>3, <2>4, <2>5 DEF IndInv
<1>5. ASSUME NEW c \in Callers, BeginCreateFails(c) PROVE IndInv'
  <2>. USE <1>5 DEF BeginCreateFails, SignalSema, Goto, Returned, locals, kernel
  <2>1. TypeOK'
    BY DEF IndInv, TypeOK
  <2>2. MutualExclusion'
    BY DEF IndInv, TypeOK, MutualExclusion
  <2>3. EntryOfStarted'
    BY DEF IndInv, TypeOK, EntryOfStarted, Started
  <2>4. EntryBeingFilled'
    BY DEF IndInv, TypeOK, EntryBeingFilled, MutualExclusion
  <2>5. CountInStep'
    BY CountKept DEF IndInv, TypeOK
  <2>. QED  BY <2>1, <2>2, <2>3, <2>4, <2>5 DEF IndInv
<1>6. ASSUME NEW c \in Callers, BeginStart(c) PROVE IndInv'
  <2>. USE <1>6 DEF BeginStart, locals, kernel
  <2>0. /\ slot[c] \in Slots /\ ~used[slot[c]]
        /\ created[c] \in Threads /\ pc[created[c]] = "created"
        /\ stack[created[c]] = slot[c] /\ created[c] # c
        /\ \A d \in Callers \ {c} : pc[d] \notin Holding
    BY DEF IndInv, EntryBeingFilled, MutualExclusion
  <2>1. TypeOK'
    BY <2>0 DEF IndInv, TypeOK
  <2>2. MutualExclusion'
    BY <2>0 DEF IndInv, TypeOK, MutualExclusion
  <2>3. EntryOfStarted'
    BY <2>0 DEF IndInv, TypeOK, EntryOfStarted, Started
  <2>4. EntryBeingFilled'
    BY <2>0 DEF IndInv, TypeOK, EntryBeingFilled
  <2>5. CountInStep'
    <3>1. UsedSlots' = UsedSlots \cup {slot[c]} /\ slot[c] \notin UsedSlots
      BY <2>0 DEF IndInv, TypeOK, UsedSlots
    <3>2. Cardinality(UsedSlots') = Cardinality(UsedSlots) + 1
      BY <3>1, FS_AddElement, SlotsCounted DEF UsedSlots
    <3>3. (\A d \in Callers : pc[d] # "begin_count") /\ pc'[c] = "begin_count"
      BY <2>0 DEF IndInv, TypeOK
    <3>. QED  BY <3>2, <3>3 DEF IndInv, TypeOK, CountInStep
  <2>. QED  BY <2>1, <2>2, <2>3, <2>4, <2>5 DEF IndInv
<1>7. ASSUME NEW c \in Callers, BeginCount(c) PROVE IndInv'
  <2>. USE <1>7 DEF BeginCount, SignalSema, Goto, Returned, locals, kernel
  <2>0. \A d \in Callers \ {c} : pc[d] \notin Holding
    BY DEF IndInv, MutualExclusion
  <2>1. Cardinality(UsedSlots) = numThreads + 1 /\ Cardinality(UsedSlots) <= MaxThreads
    BY SlotsCounted DEF IndInv, TypeOK, CountInStep, UsedSlots
  <2>2. TypeOK'
    BY <2>1 DEF IndInv, TypeOK
  <2>3. MutualExclusion'
    BY <2>0 DEF IndInv, TypeOK, MutualExclusion
  <2>4. EntryOfStarted'
    BY DEF IndInv, TypeOK, EntryOfStarted, Started
  <2>5. EntryBeingFilled'
    BY DEF IndInv, TypeOK, EntryBeingFilled
  <2>6. CountInStep'
    <3>1. UsedSlots' = UsedSlots /\ \A d \in Callers : pc'[d] # "begin_count"
      BY <2>0 DEF IndInv, TypeOK, UsedSlots
    <3>. QED  BY <2>1, <3>1 DEF IndInv, TypeOK, CountInStep
  <2>. QED  BY <2>2, <2>3, <2>4, <2>5, <2>6 DEF IndInv
<1>8. ASSUME NEW t \in Threads, EndCall(t) PROVE IndInv'
  <2>. USE <1>8 DEF EndCall, Goto, locals, kernel
  <2>1. TypeOK'
    BY DEF IndInv, TypeOK
  <2>2. MutualExclusion'
    BY DEF IndInv, TypeOK, MutualExclusion
  <2>3. EntryOfStarted'
    BY DEF IndInv, TypeOK, EntryOfStarted, Started
  <2>4. EntryBeingFilled'
    BY DEF IndInv, TypeOK, EntryBeingFilled, MutualExclusion
  <2>5. CountInStep'
    BY CountKept DEF IndInv, TypeOK
  <2>. QED  BY <2>1, <2>2, <2>3, <2>4, <2>5 DEF IndInv
<1>9. ASSUME NEW t \in Threads, EndWait(t) PROVE IndInv'
  <2>. USE <1>9 DEF EndWait, WaitSema, Goto, locals, kernel
  <2>1. TypeOK'
    BY DEF IndInv, TypeOK
  <2>2. MutualExclusion'
    BY DEF IndInv, TypeOK, MutualExclusion
  <2>3. EntryOfStarted'
    BY DEF IndInv, TypeOK, EntryOfStarted, Started
  <2>4. EntryBeingFilled'
    BY DEF IndInv, TypeOK, EntryBeingFilled, MutualExclusion
  <2>5. CountInStep'
    BY CountKept DEF IndInv, TypeOK
  <2>. QED  BY <2>1, <2>2, <2>3, <2>4, <2>5 DEF IndInv
<1>10. ASSUME NEW t \in Threads, EndFree(t) PROVE IndInv'
  <2>. USE <1>10 DEF EndFree, SignalSema, Goto, UsedWithout, locals, kernel
  <2>0. /\ stack[t] \in Slots /\ used[stack[t]] /\ thread[stack[t]] = t
        /\ \A s \in Slots : used[s] /\ thread[s] = t => s = stack[t]
        /\ \A d \in Callers \ {t} : pc[d] \notin Holding
    BY DEF IndInv, EntryOfStarted, Started, MutualExclusion
  <2>1. UsedSlots' = UsedSlots \ {stack[t]} /\ stack[t] \in UsedSlots
    <3>1. \A s \in Slots : used'[s] <=> used[s] /\ thread[s] # t
      BY Zenon
    <3>2. \A s \in Slots : used'[s] <=> used[s] /\ s # stack[t]
      BY <2>0, <3>1, Zenon
    <3>. QED  BY <2>0, <3>2, Zenon DEF UsedSlots
  <2>2. Cardinality(UsedSlots') = Cardinality(UsedSlots) - 1 /\ Cardinality(UsedSlots') \in Nat
    <3>1. UsedSlots \in SUBSET Slots /\ UsedSlots' \in SUBSET Slots
      BY DEF UsedSlots
    <3>2. IsFiniteSet(UsedSlots) /\ Cardinality(UsedSlots') \in Nat
      BY <3>1, SlotsCounted
    <3>. QED  BY <2>1, <3>2, FS_RemoveElement
  <2>3. Cardinality(UsedSlots) = numThreads
    <3>1. \A d \in Callers : pc[d] # "begin_count"
      BY <2>0
    <3>. QED  BY <3>1 DEF IndInv, TypeOK, CountInStep
  <2>4. TypeOK'
    BY <2>2, <2>3 DEF IndInv, TypeOK
  <2>5. MutualExclusion'
    BY <2>0 DEF IndInv, TypeOK, MutualExclusion
  <2>6. EntryOfStarted'
    BY <2>0 DEF IndInv, TypeOK, EntryOfStarted, Started
  <2>7. EntryBeingFilled'
    BY <2>0 DEF IndInv, TypeOK, EntryBeingFilled
  <2>8. CountInStep'
    <3>1. \A d \in Callers : pc'[d] # "begin_count"
      BY <2>0 DEF IndInv, TypeOK
    <3>. QED  BY <2>2, <2>3, <3>1 DEF IndInv, TypeOK, CountInStep
  <2>. QED  BY <2>4, <2>5, <2>6, <2>7, <2>8 DEF IndInv
<1>11. ASSUME NEW t \in Threads, Exit(t) PROVE IndInv'
  <2>. USE <1>11 DEF Exit, Goto, locals, kernel
  <2>1. TypeOK'
    BY DEF IndInv, TypeOK
  <2>2. MutualExclusion'
    BY DEF IndInv, TypeOK, MutualExclusion
  <2>3. EntryOfStarted'
    BY DEF IndInv, TypeOK, EntryOfStarted, Started
  <2>4. EntryBeingFilled'
    BY DEF IndInv, TypeOK, EntryBeingFilled, MutualExclusion
  <2>5. CountInStep'
    BY CountKept DEF IndInv, TypeOK
  <2>. QED  BY <2>1, <2>2, <2>3, <2>4, <2>5 DEF IndInv
<1>12. CASE UNCHANGED vars
  <2>. USE <1>12 DEF vars, locals, kernel
  <2>1. TypeOK' /\ MutualExclusion' /\ EntryOfStarted' /\ EntryBeingFilled'
    BY DEF IndInv, TypeOK, MutualExclusion, EntryOfStarted, EntryBeingFilled, Started
  <2>2. CountInStep'
    BY CountKept DEF IndInv
  <2>. QED  BY <2>1, <2>2 DEF IndInv
<1>. QED
  BY <1>1, <1>2, <1>3, <1>4, <1>5, <1>6, <1>7, <1>8, <1>9, <1>10, <1>11, <1>12
  DEF Next, Begin, End

\* The inductive invariant holds in every reachable state.
THEOREM Invariant == Spec => []IndInv
  BY InitIndInv, StepIndInv, PTL DEF Spec

\* Every variable keeps its type: in particular numThreads stays between 0 and
\* the limit, and every index into threadStack stays inside it or one past it.
THEOREM TypeCorrect == Spec => []TypeOK
  BY Invariant, PTL DEF IndInv

\* At most one thread is inside Scheduler_BeginThread's or Scheduler_EndThread's
\* critical section.
THEOREM Exclusion == Spec => []MutualExclusion
  BY Invariant, PTL DEF IndInv

\* Whenever scheduler_sema is free, numThreads counts the used entries.
THEOREM CountCorrect == Spec => []CountMatchesSlots
<1>1. IndInv => CountMatchesSlots
  BY DEF IndInv, TypeOK, MutualExclusion, CountInStep, CountMatchesSlots, Holding
<1>. QED  BY <1>1, Invariant, PTL

\* The loop of Scheduler_BeginThread always stops inside threadStack.
THEOREM SlotAlwaysFound == Spec => []SlotFound
<1>1. IndInv => SlotFound
  BY DEF IndInv, EntryBeingFilled, SlotFound
<1>. QED  BY <1>1, Invariant, PTL

\* Two threads that have not called Scheduler_EndThread to its end run on
\* different stacks.
THEOREM StacksNotShared == Spec => []StacksExclusive
<1>1. IndInv => StacksExclusive
  <2>. SUFFICES ASSUME IndInv,
                       NEW t \in Threads, NEW u \in Threads,
                       OwnsStack(t), OwnsStack(u), stack[t] = stack[u]
                PROVE  t = u
    BY DEF StacksExclusive
  <2>1. CASE Started(t) /\ Started(u)
    BY <2>1 DEF IndInv, EntryOfStarted
  <2>2. ASSUME NEW v \in Threads, pc[v] = "created"
        PROVE  \E c \in Callers :
                  pc[c] = "begin_start" /\ created[c] = v /\ ~used[stack[v]]
    BY <2>2 DEF IndInv, EntryBeingFilled
  <2>3. CASE pc[t] = "created" /\ pc[u] = "created"
    BY <2>2, <2>3 DEF IndInv, MutualExclusion, Holding
  <2>4. ASSUME NEW v \in Threads, NEW w \in Threads, Started(v), pc[w] = "created"
        PROVE  stack[v] # stack[w]
    BY <2>2, <2>4 DEF IndInv, EntryOfStarted
  <2>. QED  BY <2>1, <2>3, <2>4 DEF OwnsStack
<1>. QED  BY <1>1, Invariant, PTL

\* No step but the owner's own Scheduler_EndThread takes an entry of threadStack
\* away from the thread it belongs to.
THEOREM ReleaseByOwner == Spec => OnlyOwnerReleases
<1>. DEFINE Kept == \A s \in Slots :
              used[s] /\ (~used'[s] \/ thread'[s] # thread[s])
                => pc[thread[s]] = "end_free" /\ pc'[thread[s]] = "tail"
<1>1. IndInv /\ [Next]_vars => [Kept]_vars
  <2>. SUFFICES ASSUME IndInv, Next PROVE Kept
    OBVIOUS
  <2>1. ASSUME NEW c \in Callers, BeginCall(c) \/ BeginRefuse(c) \/ BeginPick(c)
                 \/ BeginCreate(c) \/ BeginCreateFails(c) \/ BeginCount(c)
        PROVE  Kept
    BY <2>1 DEF BeginCall, BeginRefuse, BeginPick, BeginCreate, BeginCreateFails, BeginCount
  <2>2. ASSUME NEW c \in Callers, BeginStart(c) PROVE Kept
    BY <2>2 DEF BeginStart, IndInv, TypeOK, EntryBeingFilled
  <2>3. ASSUME NEW t \in Threads, EndCall(t) \/ EndWait(t) \/ Exit(t) PROVE Kept
    BY <2>3 DEF EndCall, EndWait, Exit
  <2>4. ASSUME NEW t \in Threads, EndFree(t) PROVE Kept
    BY <2>4 DEF EndFree, UsedWithout, Goto, IndInv, TypeOK, Callers
  <2>. QED  BY <2>1, <2>2, <2>3, <2>4 DEF Next, Begin, End
<1>. QED  BY <1>1, Invariant, PTL DEF Spec, OnlyOwnerReleases

\* The functions implement the abstract pool: StartThread is the moment a stack
\* is granted, the clearing of the used flag the moment it is released, and
\* every other step leaves the pool as it is.
THEOREM PoolRefined == Spec => ImplementsPool
<1>. DEFINE own == [s \in Slots |-> IF used[s] THEN thread[s] ELSE NoThread]
<1>. USE SchedulerAssumption
<1>1. Init => Pool!Init
  BY DEF Init, Pool!Init
<1>2. IndInv /\ [Next]_vars => [Pool!Next]_own
  <2>. SUFFICES ASSUME IndInv, [Next]_vars PROVE [Pool!Next]_own
    OBVIOUS
  <2>1. CASE UNCHANGED <<used, thread>>
    BY <2>1
  <2>2. ASSUME NEW c \in Callers, BeginStart(c) PROVE Pool!Next
    <3>1. PICK s \in Slots, t \in Threads : s = slot[c] /\ t = created[c]
      BY <2>2 DEF BeginStart, IndInv, EntryBeingFilled
    <3>2. ~used[s] /\ pc[t] = "created"
      BY <2>2, <3>1 DEF BeginStart, IndInv, EntryBeingFilled
    <3>3. used' = [used EXCEPT ![s] = TRUE] /\ thread' = [thread EXCEPT ![s] = t]
      BY <2>2, <3>1 DEF BeginStart
    <3>4. own[s] = NoThread
      BY <3>2
    <3>5. \A r \in Slots : own[r] # t
      <4>1. \A r \in Slots : used[r] => Started(thread[r])
        BY DEF IndInv, EntryOfStarted
      <4>2. ~Started(t)
        BY <3>2 DEF Started, InBegin, InEnd
      <4>. QED  BY <4>1, <4>2
    <3>6. own' = [own EXCEPT ![s] = t]
      <4>1. used'[s] /\ thread'[s] = t
        BY <3>3 DEF IndInv, TypeOK
      <4>2. \A r \in Slots \ {s} : used'[r] = used[r] /\ thread'[r] = thread[r]
        BY <3>3 DEF IndInv, TypeOK
      <4>. QED  BY <4>1, <4>2, Zenon
    <3>. QED  BY <3>4, <3>5, <3>6 DEF Pool!Next, Pool!Grant
  <2>3. ASSUME NEW t \in Threads, EndFree(t) PROVE Pool!Next
    <3>1. PICK s \in Slots : s = stack[t] /\ used[s] /\ thread[s] = t
      BY <2>3 DEF EndFree, IndInv, EntryOfStarted, Started, InEnd
    <3>2. \A r \in Slots : used[r] /\ thread[r] = t => r = s
      BY <3>1 DEF IndInv, EntryOfStarted
    <3>3. used' = [r \in Slots |-> used[r] /\ thread[r] # t] /\ thread' = thread
      BY <2>3 DEF EndFree, UsedWithout
    <3>4. own[s] # NoThread
      BY <3>1
    <3>5. own' = [own EXCEPT ![s] = NoThread]
      <4>1. \A r \in Slots : used'[r] <=> used[r] /\ r # s
        BY <3>1, <3>2, <3>3, Zenon
      <4>2. \A r \in Slots : own'[r] = IF r = s THEN NoThread ELSE own[r]
        BY <3>3, <4>1, Zenon
      <4>. QED  BY <4>2
    <3>. QED  BY <3>4, <3>5 DEF Pool!Next, Pool!Release
  <2>. QED
    BY <2>1, <2>2, <2>3 DEF Next, Begin, End, vars, BeginCall, BeginRefuse, BeginPick,
       BeginCreate, BeginCreateFails, BeginCount, EndCall, EndWait, Exit
<1>. QED  BY <1>1, <1>2, Invariant, PTL DEF Spec, ImplementsPool, Pool!Spec
==============================================================================
