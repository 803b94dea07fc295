-------------------------- MODULE ThreadPoolProofs --------------------------
(***************************************************************************)
(* Proofs about the pool of threads, for any number of threads, callers    *)
(* and tasks.  IInv says that each thread is in one place: free on the     *)
(* stack newbuf, held by the one caller that prepares its task, flagged to *)
(* run the task, or running it.  There is one lemma for each action; the   *)
(* theorems at the end follow from the invariance of IInv.                 *)
(***************************************************************************)
EXTENDS ThreadPool, FiniteSetTheorems, TLAPS

\* cthread_init() starts from the inductive invariant: all threads are on the
\* stack, none has a task.
LEMMA InitIInv == Init => IInv
<1> SUFFICES ASSUME Init PROVE IInv
  OBVIOUS
<1> USE ThreadAssumption DEF Init, Threads
<1>1. TypeOK
  BY DEF TypeOK
<1>2. StackInv /\ HolderInv /\ FlagInv
  BY DEF StackInv, HolderInv, FlagInv, Unused, Idle, Holds
<1>3. PoolInv /\ LoopInv
  BY DEF PoolInv, LoopInv, Waits
<1>4. TaskInv
  BY DEF TaskInv, Brings, HasTask
<1> QED
  BY <1>1, <1>2, <1>3, <1>4 DEF IInv

\* Every step keeps the types, given the one bound that is not a type: a
\* thread that puts itself back finds room on the stack.
LEMMA StackRoom ==
  ASSUME IInv, NEW t \in Threads, ~ Unused(t)
  PROVE  newcnt < NThreads
<1> SUFFICES ASSUME newcnt = NThreads PROVE FALSE
  BY ThreadAssumption DEF IInv, TypeOK
<1> DEFINE Others == Threads \ {t}
<1>1. /\ IsFiniteSet(Threads) /\ Cardinality(Threads) = NThreads
  <2>1. /\ IsFiniteSet(0 .. NThreads - 1)
        /\ Cardinality(0 .. NThreads - 1) =
             IF 0 > NThreads - 1 THEN 0 ELSE NThreads - 1 - 0 + 1
    BY FS_Interval, ThreadAssumption
  <2> QED
    BY <2>1, ThreadAssumption DEF Threads
<1>2. /\ IsFiniteSet(Others) /\ Cardinality(Others) = NThreads - 1
  BY <1>1, FS_RemoveElement
<1>3. \A i \in Threads : i < newcnt
  BY ThreadAssumption DEF Threads
<1>4. newbuf \in [Threads -> Others]
  BY <1>3 DEF IInv, TypeOK, StackInv
<1>5. \E i, k \in Threads : i # k /\ newbuf[i] = newbuf[k]
  BY <1>1, <1>2, <1>4, FS_PigeonHole, ThreadAssumption
<1> QED
  BY <1>3, <1>5 DEF IInv, StackInv

\* When the stack is full, every thread is unused.
LEMMA FullStack ==
  ASSUME IInv, newcnt = NThreads
  PROVE  \A t \in Threads : Unused(t)
BY StackRoom, ThreadAssumption DEF IInv, TypeOK

\* A step that leaves the stack and the flags alone, lets nobody hold a thread
\* who did not, and makes no idle thread busy keeps the thread invariants.
LEMMA StackFrame ==
  ASSUME TypeOK, StackInv, HolderInv, FlagInv,
         stack' = stack, slot' = slot, goflag' = goflag,
         \A c \in Callers : Holds(c)' => Holds(c),
         \A t \in Threads : Idle(t) => Idle(t)'
  PROVE  StackInv' /\ HolderInv' /\ FlagInv'
<1> USE DEF TypeOK, stack
<1>1. \A t \in Threads : Unused(t) => Unused(t)'
  BY DEF Unused
<1>2. StackInv'
  BY <1>1 DEF StackInv
<1>3. HolderInv'
  BY <1>1 DEF HolderInv
<1>4. FlagInv'
  BY DEF FlagInv
<1> QED
  BY <1>2, <1>3, <1>4

\* A step that moves no task keeps the task invariant.
LEMMA TaskFrame ==
  ASSUME TaskInv, given' = given, cleaned' = cleaned, arg' = arg,
         slot' = slot, metadata' = metadata,
         \A c \in Callers : Brings(c)' <=> Brings(c),
         \A c \in Callers : cpc'[c] = "flag" => cpc[c] = "flag",
         \A t \in Threads : HasTask(t)' <=> HasTask(t)
  PROVE  TaskInv'
<1>1. \A j : Carried(j) => Carried(j)'
  BY DEF Carried
<1> QED
  BY <1>1 DEF TaskInv

\* A cthread_go() that finds no free thread goes to sleep: nothing moves.
LEMMA GoWaitStep ==
  ASSUME IInv, NEW c \in Callers, GoWait(c)
  PROVE  IInv'
<1> USE ThreadAssumption DEF IInv, GoWait, Threads, callers, stack, history
<1>1. TypeOK'
  BY DEF TypeOK
<1>2. StackInv' /\ HolderInv' /\ FlagInv'
  <2>1. \A d \in Callers : Holds(d)' => Holds(d)
    BY DEF TypeOK, Holds
  <2>2. \A u \in Threads : Idle(u) => Idle(u)'
    BY DEF TypeOK, Idle
  <2> QED
    BY <2>1, <2>2, StackFrame
<1>3. PoolInv' /\ LoopInv'
  BY DEF TypeOK, PoolInv, LoopInv, Waits
<1>4. TaskInv'
  <2>1. \A d \in Callers : Brings(d)' <=> Brings(d)
    BY DEF TypeOK, Brings
  <2>2. \A d \in Callers : cpc'[d] = "flag" => cpc[d] = "flag"
    BY DEF TypeOK
  <2>3. \A u \in Threads : HasTask(u)' <=> HasTask(u)
    BY DEF TypeOK, HasTask
  <2> QED
    BY <2>1, <2>2, <2>3, TaskFrame
<1> QED
  BY <1>1, <1>2, <1>3, <1>4

\* Waking up the thread that was given a task moves no task and no thread.
LEMMA GoSignalStep ==
  ASSUME IInv, NEW c \in Callers, GoSignal(c)
  PROVE  IInv'
<1> USE ThreadAssumption DEF IInv, GoSignal, Threads, callers, stack, history
<1>1. TypeOK'
  BY DEF TypeOK
<1>2. StackInv' /\ HolderInv' /\ FlagInv'
  <2>1. \A d \in Callers : Holds(d)' => Holds(d)
    BY DEF TypeOK, Holds
  <2>2. \A u \in Threads : Idle(u) => Idle(u)'
    BY DEF TypeOK, Idle
  <2> QED
    BY <2>1, <2>2, StackFrame
<1>3. PoolInv' /\ LoopInv'
  BY DEF TypeOK, PoolInv, LoopInv, Waits
<1>4. TaskInv'
  <2>1. \A d \in Callers : Brings(d)' <=> Brings(d)
    BY DEF TypeOK, Brings
  <2>2. \A d \in Callers : cpc'[d] = "flag" => cpc[d] = "flag"
    BY DEF TypeOK
  <2>3. \A u \in Threads : HasTask(u)' <=> HasTask(u)
    BY DEF TypeOK, HasTask
  <2> QED
    BY <2>1, <2>2, <2>3, TaskFrame
<1> QED
  BY <1>1, <1>2, <1>3, <1>4

\* cthread_wait() begins when no other caller is in the pool.
LEMMA WaitBeginStep ==
  ASSUME IInv, NEW c \in Callers, WaitBegin(c)
  PROVE  IInv'
<1> USE ThreadAssumption DEF IInv, WaitBegin, Threads, callers, stack, history
<1>1. TypeOK'
  BY DEF TypeOK
<1>2. StackInv' /\ HolderInv' /\ FlagInv'
  <2>1. \A d \in Callers : Holds(d)' => Holds(d)
    BY DEF TypeOK, Holds
  <2>2. \A u \in Threads : Idle(u) => Idle(u)'
    BY DEF TypeOK, Idle
  <2> QED
    BY <2>1, <2>2, StackFrame
<1>3. PoolInv' /\ LoopInv'
  BY DEF TypeOK, PoolInv, LoopInv, Waits
<1>4. TaskInv'
  <2>1. \A d \in Callers : Brings(d)' <=> Brings(d)
    BY DEF TypeOK, Brings
  <2>2. \A d \in Callers : cpc'[d] = "flag" => cpc[d] = "flag"
    BY DEF TypeOK
  <2>3. \A u \in Threads : HasTask(u)' <=> HasTask(u)
    BY DEF TypeOK, HasTask
  <2> QED
    BY <2>1, <2>2, <2>3, TaskFrame
<1> QED
  BY <1>1, <1>2, <1>3, <1>4

\* cthread_wait() sleeps while a thread is off the stack: nothing moves.
LEMMA WaitSleepStep ==
  ASSUME IInv, NEW c \in Callers, WaitSleep(c)
  PROVE  IInv'
<1> USE ThreadAssumption DEF IInv, WaitSleep, Threads, callers, stack, history
<1>1. TypeOK'
  BY DEF TypeOK
<1>2. StackInv' /\ HolderInv' /\ FlagInv'
  <2>1. \A d \in Callers : Holds(d)' => Holds(d)
    BY DEF TypeOK, Holds
  <2>2. \A u \in Threads : Idle(u) => Idle(u)'
    BY DEF TypeOK, Idle
  <2> QED
    BY <2>1, <2>2, StackFrame
<1>3. PoolInv' /\ LoopInv'
  BY DEF TypeOK, PoolInv, LoopInv, Waits
<1>4. TaskInv'
  <2>1. \A d \in Callers : Brings(d)' <=> Brings(d)
    BY DEF TypeOK, Brings
  <2>2. \A d \in Callers : cpc'[d] = "flag" => cpc[d] = "flag"
    BY DEF TypeOK
  <2>3. \A u \in Threads : HasTask(u)' <=> HasTask(u)
    BY DEF TypeOK, HasTask
  <2> QED
    BY <2>1, <2>2, <2>3, TaskFrame
<1> QED
  BY <1>1, <1>2, <1>3, <1>4

\* cthread_wait() stops the threads: a full stack means that none has a task.
LEMMA WaitEndStep ==
  ASSUME IInv, NEW c \in Callers, WaitEnd(c)
  PROVE  IInv'
<1> USE ThreadAssumption DEF IInv, WaitEnd, Threads, callers, stack, history
<1>1. TypeOK'
  <2>1. idx' \in 0..NThreads
    OBVIOUS
  <2>2. /\ pool' = "stopping"
        /\ cpc' = [cpc EXCEPT ![c] = "idle"]
        /\ UNCHANGED <<arg, slot, newbuf, newcnt, tpc, goflag, metadata,
                       cancelled, cleanup_mutex, given, cleaned>>
    OBVIOUS
  <2> HIDE DEF WaitEnd
  <2> QED
    BY <2>1, <2>2 DEF TypeOK
<1>2. StackInv' /\ HolderInv' /\ FlagInv'
  <2>1. \A d \in Callers : Holds(d)' => Holds(d)
    BY DEF TypeOK, Holds
  <2>2. \A u \in Threads : Idle(u) => Idle(u)'
    BY DEF TypeOK, Idle
  <2> QED
    BY <2>1, <2>2, StackFrame
<1>3. PoolInv' /\ LoopInv'
  BY DEF TypeOK, PoolInv, LoopInv, Waits
<1>4. TaskInv'
  <2>1. \A d \in Callers : Brings(d)' <=> Brings(d)
    BY DEF TypeOK, Brings
  <2>2. \A d \in Callers : cpc'[d] = "flag" => cpc[d] = "flag"
    BY DEF TypeOK
  <2>3. \A u \in Threads : HasTask(u)' <=> HasTask(u)
    BY DEF TypeOK, HasTask
  <2> QED
    BY <2>1, <2>2, <2>3, TaskFrame
<1> QED
  BY <1>1, <1>2, <1>3, <1>4

\* A caller that wakes up for no reason only tests its condition again.
LEMMA SpuriousCallerStep ==
  ASSUME IInv, NEW c \in Callers, SpuriousCaller(c)
  PROVE  IInv'
<1> USE ThreadAssumption DEF IInv, SpuriousCaller, Threads, callers, stack, history, Awake, Sleepers
<1>1. TypeOK'
  BY DEF TypeOK
<1>2. StackInv' /\ HolderInv' /\ FlagInv'
  <2>1. \A d \in Callers : Holds(d)' => Holds(d)
    BY DEF TypeOK, Holds
  <2>2. \A u \in Threads : Idle(u) => Idle(u)'
    BY DEF TypeOK, Idle
  <2> QED
    BY <2>1, <2>2, StackFrame
<1>3. PoolInv' /\ LoopInv'
  <2>1. \A d \in Callers : /\ cpc'[d] = "idle" <=> cpc[d] = "idle"
                           /\ Waits(d)' <=> Waits(d)
    BY DEF TypeOK, Waits
  <2>2. /\ pool' = pool /\ idx' = idx /\ newcnt' = newcnt
        /\ cancelled' = cancelled /\ given' = given /\ cleaned' = cleaned
    OBVIOUS
  <2>3. PoolInv'
    <3> HIDE DEF SpuriousCaller
    <3> QED
      BY <2>1, <2>2 DEF PoolInv, Waits
  <2>4. LoopInv'
    BY <2>2 DEF TypeOK, LoopInv
  <2> QED
    BY <2>3, <2>4
<1>4. TaskInv'
  <2>1. \A d \in Callers : Brings(d)' <=> Brings(d)
    BY DEF TypeOK, Brings
  <2>2. \A d \in Callers : cpc'[d] = "flag" => cpc[d] = "flag"
    BY DEF TypeOK
  <2>3. \A u \in Threads : HasTask(u)' <=> HasTask(u)
    BY DEF TypeOK, HasTask
  <2> QED
    BY <2>1, <2>2, <2>3, TaskFrame
<1> QED
  BY <1>1, <1>2, <1>3, <1>4

\* A thread without a task goes to sleep on its condition variable.
LEMMA ThreadSleepStep ==
  ASSUME IInv, NEW t \in Threads, ThreadSleep(t)
  PROVE  IInv'
<1> USE ThreadAssumption DEF IInv, ThreadSleep, Threads, callers, stack, history
<1>1. TypeOK'
  BY DEF TypeOK
<1>2. StackInv' /\ HolderInv' /\ FlagInv'
  <2>1. \A d \in Callers : Holds(d)' => Holds(d)
    BY DEF TypeOK, Holds
  <2>2. \A u \in Threads : Idle(u) => Idle(u)'
    BY DEF TypeOK, Idle
  <2> QED
    BY <2>1, <2>2, StackFrame
<1>3. PoolInv' /\ LoopInv'
  BY DEF TypeOK, PoolInv, LoopInv, Waits
<1>4. TaskInv'
  <2>1. \A d \in Callers : Brings(d)' <=> Brings(d)
    BY DEF TypeOK, Brings
  <2>2. \A d \in Callers : cpc'[d] = "flag" => cpc[d] = "flag"
    BY DEF TypeOK
  <2>3. \A u \in Threads : HasTask(u)' <=> HasTask(u)
    BY DEF TypeOK, HasTask
  <2> QED
    BY <2>1, <2>2, <2>3, TaskFrame
<1> QED
  BY <1>1, <1>2, <1>3, <1>4

\* A cancelled thread ends, and had no task.
LEMMA ThreadCancelledStep ==
  ASSUME IInv, NEW t \in Threads, ThreadCancelled(t)
  PROVE  IInv'
<1> USE ThreadAssumption DEF IInv, ThreadCancelled, Threads, callers, stack, history
<1>1. TypeOK'
  BY DEF TypeOK
<1>2. StackInv' /\ HolderInv' /\ FlagInv'
  <2>1. \A d \in Callers : Holds(d)' => Holds(d)
    BY DEF TypeOK, Holds
  <2>2. \A u \in Threads : Idle(u) => Idle(u)'
    BY DEF TypeOK, Idle
  <2> QED
    BY <2>1, <2>2, StackFrame
<1>3. PoolInv' /\ LoopInv'
  BY DEF TypeOK, PoolInv, LoopInv, Waits
<1>4. TaskInv'
  <2>1. \A d \in Callers : Brings(d)' <=> Brings(d)
    BY DEF TypeOK, Brings
  <2>2. \A d \in Callers : cpc'[d] = "flag" => cpc[d] = "flag"
    BY DEF TypeOK
  <2>3. \A u \in Threads : HasTask(u)' <=> HasTask(u)
    BY DEF TypeOK, HasTask
  <2> QED
    BY <2>1, <2>2, <2>3, TaskFrame
<1> QED
  BY <1>1, <1>2, <1>3, <1>4

\* The work function returns: its thread still has the task.
LEMMA WorkStep ==
  ASSUME IInv, NEW t \in Threads, Work(t)
  PROVE  IInv'
<1> USE ThreadAssumption DEF IInv, Work, Threads, callers, stack, history
<1>1. TypeOK'
  BY DEF TypeOK
<1>2. StackInv' /\ HolderInv' /\ FlagInv'
  <2>1. \A d \in Callers : Holds(d)' => Holds(d)
    BY DEF TypeOK, Holds
  <2>2. \A u \in Threads : Idle(u) => Idle(u)'
    BY DEF TypeOK, Idle
  <2> QED
    BY <2>1, <2>2, StackFrame
<1>3. PoolInv' /\ LoopInv'
  BY DEF TypeOK, PoolInv, LoopInv, Waits
<1>4. TaskInv'
  <2>1. \A d \in Callers : Brings(d)' <=> Brings(d)
    BY DEF TypeOK, Brings
  <2>2. \A d \in Callers : cpc'[d] = "flag" => cpc[d] = "flag"
    BY DEF TypeOK
  <2>3. \A u \in Threads : HasTask(u)' <=> HasTask(u)
    BY DEF TypeOK, HasTask
  <2> QED
    BY <2>1, <2>2, <2>3, TaskFrame
<1> QED
  BY <1>1, <1>2, <1>3, <1>4

\* A thread takes cleanup_mutex: it still has the task.
LEMMA CleanupBeginStep ==
  ASSUME IInv, NEW t \in Threads, CleanupBegin(t)
  PROVE  IInv'
<1> USE ThreadAssumption DEF IInv, CleanupBegin, Threads, callers, stack, history
<1>1. TypeOK'
  BY DEF TypeOK
<1>2. StackInv' /\ HolderInv' /\ FlagInv'
  <2>1. \A d \in Callers : Holds(d)' => Holds(d)
    BY DEF TypeOK, Holds
  <2>2. \A u \in Threads : Idle(u) => Idle(u)'
    BY DEF TypeOK, Idle
  <2> QED
    BY <2>1, <2>2, StackFrame
<1>3. PoolInv' /\ LoopInv'
  BY DEF TypeOK, PoolInv, LoopInv, Waits
<1>4. TaskInv'
  <2>1. \A d \in Callers : Brings(d)' <=> Brings(d)
    BY DEF TypeOK, Brings
  <2>2. \A d \in Callers : cpc'[d] = "flag" => cpc[d] = "flag"
    BY DEF TypeOK
  <2>3. \A u \in Threads : HasTask(u)' <=> HasTask(u)
    BY DEF TypeOK, HasTask
  <2> QED
    BY <2>1, <2>2, <2>3, TaskFrame
<1> QED
  BY <1>1, <1>2, <1>3, <1>4

\* A thread that is back on the stack signals, and wakes up at most one caller.
LEMMA SignalStep ==
  ASSUME IInv, NEW t \in Threads, Signal(t)
  PROVE  IInv'
<1> USE ThreadAssumption DEF IInv, Signal, Threads, callers, stack, history, Awake, Sleepers
<1>1. TypeOK'
  BY DEF TypeOK
<1>2. StackInv' /\ HolderInv' /\ FlagInv'
  <2>1. \A d \in Callers : Holds(d)' => Holds(d)
    BY DEF TypeOK, Holds
  <2>2. \A u \in Threads : Idle(u) => Idle(u)'
    BY DEF TypeOK, Idle
  <2> QED
    BY <2>1, <2>2, StackFrame
<1>3. PoolInv' /\ LoopInv'
  <2>1. \A d \in Callers : /\ cpc'[d] = "idle" <=> cpc[d] = "idle"
                           /\ Waits(d)' <=> Waits(d)
    BY DEF TypeOK, Waits
  <2>2. /\ pool' = pool /\ idx' = idx /\ newcnt' = newcnt
        /\ cancelled' = cancelled /\ given' = given /\ cleaned' = cleaned
    OBVIOUS
  <2>3. PoolInv'
    <3> HIDE DEF Signal
    <3> QED
      BY <2>1, <2>2 DEF PoolInv, Waits
  <2>4. LoopInv'
    BY <2>2 DEF TypeOK, LoopInv
  <2> QED
    BY <2>3, <2>4
<1>4. TaskInv'
  <2>1. \A d \in Callers : Brings(d)' <=> Brings(d)
    BY DEF TypeOK, Brings
  <2>2. \A d \in Callers : cpc'[d] = "flag" => cpc[d] = "flag"
    BY DEF TypeOK
  <2>3. \A u \in Threads : HasTask(u)' <=> HasTask(u)
    BY DEF TypeOK, HasTask
  <2> QED
    BY <2>1, <2>2, <2>3, TaskFrame
<1> QED
  BY <1>1, <1>2, <1>3, <1>4

\* A thread that wakes up for no reason only tests its flag again.
LEMMA SpuriousThreadStep ==
  ASSUME IInv, NEW t \in Threads, SpuriousThread(t)
  PROVE  IInv'
<1> USE ThreadAssumption DEF IInv, SpuriousThread, Threads, callers, stack, history
<1>1. TypeOK'
  BY DEF TypeOK
<1>2. StackInv' /\ HolderInv' /\ FlagInv'
  <2>1. \A d \in Callers : Holds(d)' => Holds(d)
    BY DEF TypeOK, Holds
  <2>2. \A u \in Threads : Idle(u) => Idle(u)'
    BY DEF TypeOK, Idle
  <2> QED
    BY <2>1, <2>2, StackFrame
<1>3. PoolInv' /\ LoopInv'
  BY DEF TypeOK, PoolInv, LoopInv, Waits
<1>4. TaskInv'
  <2>1. \A d \in Callers : Brings(d)' <=> Brings(d)
    BY DEF TypeOK, Brings
  <2>2. \A d \in Callers : cpc'[d] = "flag" => cpc[d] = "flag"
    BY DEF TypeOK
  <2>3. \A u \in Threads : HasTask(u)' <=> HasTask(u)
    BY DEF TypeOK, HasTask
  <2> QED
    BY <2>1, <2>2, <2>3, TaskFrame
<1> QED
  BY <1>1, <1>2, <1>3, <1>4

\* cthread_init() starts one more thread.
LEMMA CreateStep ==
  ASSUME IInv, Create
  PROVE  IInv'
<1> USE ThreadAssumption DEF IInv, Create, Threads, callers, stack, history
<1>1. TypeOK'
  BY SMTT(30) DEF TypeOK, LoopInv
<1>2. StackInv' /\ HolderInv' /\ FlagInv'
  <2>1. \A d \in Callers : Holds(d)' => Holds(d)
    BY DEF TypeOK, Holds
  <2>2. \A u \in Threads : Idle(u) => Idle(u)'
    BY DEF TypeOK, Idle
  <2> QED
    BY <2>1, <2>2, StackFrame
<1>3. PoolInv' /\ LoopInv'
  BY SMTT(30) DEF TypeOK, PoolInv, LoopInv, Waits
<1>4. TaskInv'
  <2>1. \A d \in Callers : Brings(d)' <=> Brings(d)
    BY DEF TypeOK, Brings
  <2>2. \A d \in Callers : cpc'[d] = "flag" => cpc[d] = "flag"
    BY DEF TypeOK
  <2>3. \A u \in Threads : HasTask(u)' <=> HasTask(u)
    BY SMTT(30) DEF TypeOK, LoopInv, HasTask
  <2> QED
    BY <2>1, <2>2, <2>3, TaskFrame
<1> QED
  BY <1>1, <1>2, <1>3, <1>4

\* cthread_init() fails to start a thread and begins to undo the others.
LEMMA CreateFailsStep ==
  ASSUME IInv, CreateFails
  PROVE  IInv'
<1> USE ThreadAssumption DEF IInv, CreateFails, Threads, callers, stack, history
<1>1. TypeOK'
  <2>1. idx' \in 0..NThreads
    BY DEF TypeOK
  <2>2. pool' \in {"undoing", "failed"}
    OBVIOUS
  <2> QED
    BY <2>1, <2>2 DEF TypeOK
<1>2. StackInv' /\ HolderInv' /\ FlagInv'
  <2>1. \A d \in Callers : Holds(d)' => Holds(d)
    BY DEF TypeOK, Holds
  <2>2. \A u \in Threads : Idle(u) => Idle(u)'
    BY DEF TypeOK, Idle
  <2> QED
    BY <2>1, <2>2, StackFrame
<1>3. PoolInv' /\ LoopInv'
  BY DEF TypeOK, PoolInv, LoopInv, Waits
<1>4. TaskInv'
  <2>1. \A d \in Callers : Brings(d)' <=> Brings(d)
    BY DEF TypeOK, Brings
  <2>2. \A d \in Callers : cpc'[d] = "flag" => cpc[d] = "flag"
    BY DEF TypeOK
  <2>3. \A u \in Threads : HasTask(u)' <=> HasTask(u)
    BY DEF TypeOK, HasTask
  <2> QED
    BY <2>1, <2>2, <2>3, TaskFrame
<1> QED
  BY <1>1, <1>2, <1>3, <1>4

\* A thread is cancelled only when the stack is full, so it has no task.
LEMMA CancelStep ==
  ASSUME IInv, Cancel
  PROVE  IInv'
<1> USE ThreadAssumption DEF IInv, Cancel, Threads, callers, stack, history
<1>1. TypeOK'
  BY DEF TypeOK, LoopInv
<1>2. StackInv' /\ HolderInv' /\ FlagInv'
  <2>1. \A d \in Callers : Holds(d)' => Holds(d)
    BY DEF TypeOK, Holds
  <2>2. \A u \in Threads : Idle(u) => Idle(u)'
    BY DEF TypeOK, Idle
  <2> QED
    BY <2>1, <2>2, StackFrame
<1>3. PoolInv' /\ LoopInv'
  BY DEF TypeOK, PoolInv, LoopInv, Waits
<1>4. TaskInv'
  <2>1. \A d \in Callers : Brings(d)' <=> Brings(d)
    BY DEF TypeOK, Brings
  <2>2. \A d \in Callers : cpc'[d] = "flag" => cpc[d] = "flag"
    BY DEF TypeOK
  <2>3. \A u \in Threads : HasTask(u)' <=> HasTask(u)
    BY DEF TypeOK, HasTask
  <2> QED
    BY <2>1, <2>2, <2>3, TaskFrame
<1> QED
  BY <1>1, <1>2, <1>3, <1>4

\* A thread that ended is joined; the last one frees the pool.
LEMMA JoinStep ==
  ASSUME IInv, Join
  PROVE  IInv'
<1> USE ThreadAssumption DEF IInv, Join, Threads, callers, stack, history
<1>1. TypeOK'
  <2>1. idx' \in 0..NThreads
    <3>1. idx \in 0..NThreads /\ idx < NThreads
      BY DEF TypeOK, LoopInv
    <3>2. idx' = idx \/ idx' = idx + 1 \/ (idx # 0 /\ idx' = idx - 1)
      OBVIOUS
    <3> HIDE DEF Join, IInv
    <3> QED
      BY <3>1, <3>2
  <2>2. pool' \in {"stopping", "undoing", "freed", "failed"}
    OBVIOUS
  <2> QED
    BY <2>1, <2>2 DEF TypeOK
<1>2. StackInv' /\ HolderInv' /\ FlagInv'
  <2>1. \A d \in Callers : Holds(d)' => Holds(d)
    BY DEF TypeOK, Holds
  <2>2. \A u \in Threads : Idle(u) => Idle(u)'
    BY DEF TypeOK, Idle
  <2> QED
    BY <2>1, <2>2, StackFrame
<1>3. PoolInv' /\ LoopInv'
  <2>1. CASE pool = "stopping"
    <3>1. \A t \in Threads : t <= idx => tpc[t] = "gone"
      BY <2>1 DEF TypeOK, LoopInv
    <3> QED
      BY SMTT(30), <2>1, <3>1 DEF TypeOK, PoolInv, LoopInv, Waits
  <2>2. CASE pool = "undoing"
    <3>1. \A t \in Threads : t >= idx => tpc[t] \in {"none", "gone"}
      BY <2>2 DEF TypeOK, LoopInv
    <3> QED
      BY SMTT(30), <2>2, <3>1 DEF TypeOK, PoolInv, LoopInv, Waits
  <2> QED
    BY <2>1, <2>2
<1>4. TaskInv'
  <2>1. \A d \in Callers : Brings(d)' <=> Brings(d)
    BY DEF TypeOK, Brings
  <2>2. \A d \in Callers : cpc'[d] = "flag" => cpc[d] = "flag"
    BY DEF TypeOK
  <2>3. \A u \in Threads : HasTask(u)' <=> HasTask(u)
    BY DEF TypeOK, HasTask
  <2> QED
    BY <2>1, <2>2, <2>3, TaskFrame
<1> QED
  BY <1>1, <1>2, <1>3, <1>4

\* A caller enters cthread_go() with a new task, and so carries it.
LEMMA GoBeginStep ==
  ASSUME IInv, NEW c \in Callers, NEW j \in Tasks, GoBegin(c, j)
  PROVE  IInv'
<1> USE ThreadAssumption DEF IInv, GoBegin, Threads, callers, stack, history
<1>1. TypeOK'
  BY DEF TypeOK
<1>2. StackInv' /\ HolderInv' /\ FlagInv'
  <2>1. \A d \in Callers : Holds(d)' => Holds(d)
    BY DEF TypeOK, Holds
  <2>2. \A u \in Threads : Idle(u) => Idle(u)'
    BY DEF TypeOK, Idle
  <2> QED
    BY <2>1, <2>2, StackFrame
<1>3. PoolInv' /\ LoopInv'
  BY DEF TypeOK, PoolInv, LoopInv, Waits
<1>4. TaskInv'
  <2>1. \A d \in Callers : Brings(d)' <=> Brings(d) \/ d = c
    BY DEF TypeOK, Brings
  <2>2. ~ Brings(c)
    BY DEF Brings
  <2>3. \A k : Carried(k) => Carried(k)'
    BY <2>1, <2>2 DEF TypeOK, Carried, HasTask
  <2>4. Carried(j)'
    BY <2>1 DEF TypeOK, Carried
  <2> QED
    BY <2>1, <2>3, <2>4 DEF TypeOK, TaskInv, HasTask
<1> QED
  BY <1>1, <1>2, <1>3, <1>4

\* A caller pops a thread: it leaves the stack, and no other caller holds it.
LEMMA GoTakeStep ==
  ASSUME IInv, NEW c \in Callers, GoTake(c)
  PROVE  IInv'
<1> USE ThreadAssumption DEF IInv, GoTake, Threads, callers, stack, history
<1>0. /\ newcnt - 1 \in Threads /\ newbuf[newcnt - 1] \in Threads
      /\ newcnt - 1 < newcnt
  BY DEF TypeOK
<1>1. TypeOK'
  <2>1. newcnt' \in 0..NThreads
    BY DEF TypeOK
  <2>2. slot' \in [Callers -> Threads]
    BY <1>0 DEF TypeOK
  <2> QED
    BY <2>1, <2>2 DEF TypeOK
<1>2. StackInv' /\ HolderInv' /\ FlagInv'
  <2>1. \A d \in Callers : Holds(d)' <=> Holds(d) \/ d = c
    BY DEF TypeOK, Holds
  <2>2. ~ Holds(c)
    BY DEF Holds
  <2>3. \A u \in Threads : Unused(u)' <=> Unused(u)
    BY DEF Unused, Idle
  <2>7. \A d \in Callers : slot'[d] = IF d = c THEN newbuf[newcnt - 1]
                                                 ELSE slot[d]
    BY DEF TypeOK
  <2>8. /\ newcnt' = newcnt - 1 /\ newbuf' = newbuf
        /\ \A i \in Threads : i < newcnt' => i < newcnt /\ i # newcnt - 1
    BY DEF TypeOK
  <2>4. StackInv'
    <3> SUFFICES ASSUME NEW i \in Threads, i < newcnt'
                 PROVE  /\ Unused(newbuf[i])'
                        /\ \A k \in Threads : k < newcnt' /\ newbuf[k] = newbuf[i]
                                               => k = i
                        /\ \A d \in Callers : Holds(d)' => slot'[d] # newbuf[i]
      BY <2>8 DEF StackInv
    <3>1. newbuf[i] \in Threads
      BY DEF TypeOK
    <3>2. newbuf[newcnt - 1] # newbuf[i]
      BY <1>0, <2>8 DEF StackInv
    <3> QED
      BY <2>1, <2>3, <2>7, <2>8, <3>1, <3>2 DEF StackInv
  <2>5. HolderInv'
    <3>1. /\ Unused(newbuf[newcnt - 1])
          /\ \A d \in Callers : Holds(d) => slot[d] # newbuf[newcnt - 1]
      BY <1>0 DEF StackInv
    <3>2. \A d \in Callers : slot[d] \in Threads
      BY DEF TypeOK
    <3> QED
      BY <1>0, <2>1, <2>2, <2>3, <2>7, <3>1, <3>2 DEF HolderInv
  <2>6. FlagInv'
    BY DEF FlagInv, Idle
  <2> QED
    BY <2>4, <2>5, <2>6
<1>3. PoolInv' /\ LoopInv'
  BY DEF TypeOK, PoolInv, LoopInv, Waits
<1>4. TaskInv'
  <2>1. \A d \in Callers : Brings(d)' <=> Brings(d)
    BY DEF TypeOK, Brings
  <2>2. \A k : Carried(k) => Carried(k)'
    BY <2>1 DEF Carried, HasTask
  <2>3. \A d \in Callers : cpc'[d] = "flag" => cpc[d] = "flag" /\ d # c
    BY DEF TypeOK
  <2> QED
    BY <2>1, <2>2, <2>3 DEF TypeOK, TaskInv, HasTask
<1> QED
  BY <1>1, <1>2, <1>3, <1>4

\* The metadata of the thread that a caller holds now names the caller's task.
LEMMA GoInitStep ==
  ASSUME IInv, NEW c \in Callers, GoInit(c)
  PROVE  IInv'
<1> USE ThreadAssumption DEF IInv, GoInit, Threads, callers, stack, history
<1>1. TypeOK'
  BY DEF TypeOK
<1>2. StackInv' /\ HolderInv' /\ FlagInv'
  <2>1. \A d \in Callers : Holds(d)' => Holds(d)
    BY DEF TypeOK, Holds
  <2>2. \A u \in Threads : Idle(u) => Idle(u)'
    BY DEF TypeOK, Idle
  <2> QED
    BY <2>1, <2>2, StackFrame
<1>3. PoolInv' /\ LoopInv'
  BY DEF TypeOK, PoolInv, LoopInv, Waits
<1>4. TaskInv'
  <2>1. \A d \in Callers : Brings(d)' <=> Brings(d)
    BY DEF TypeOK, Brings
  <2>2. \A u \in Threads : HasTask(u)' <=> HasTask(u)
    BY DEF HasTask
  <2>3. ~ HasTask(slot[c])
    BY DEF HolderInv, Holds, Unused, Idle, HasTask, TypeOK
  <2>4. \A u \in Threads : HasTask(u) => metadata'[u] = metadata[u]
    BY <2>3 DEF TypeOK
  <2>5. \A k : Carried(k) => Carried(k)'
    BY <2>1, <2>2, <2>4 DEF Carried
  <2>6. \A d \in Callers : cpc'[d] = "flag" => metadata'[slot[d]] = arg[d]
    <3>1. metadata'[slot[c]] = arg[c]
      BY DEF TypeOK
    <3>2. \A d \in Callers : d # c /\ cpc[d] = "flag" => slot[d] # slot[c]
      BY DEF HolderInv, Holds
    <3> QED
      BY <3>1, <3>2 DEF TypeOK, TaskInv
  <2> QED
    BY <2>1, <2>2, <2>4, <2>5, <2>6 DEF TaskInv
<1> QED
  BY <1>1, <1>2, <1>3, <1>4

\* The flag of the thread is set: the thread has the task, the caller does not.
LEMMA GoFlagStep ==
  ASSUME IInv, NEW c \in Callers, GoFlag(c)
  PROVE  IInv'
<1> USE ThreadAssumption DEF IInv, GoFlag, Threads, callers, stack, history
<1>1. TypeOK'
  BY DEF TypeOK
<1>2. StackInv' /\ HolderInv' /\ FlagInv'
  <2>1. \A d \in Callers : Holds(d)' <=> Holds(d) /\ d # c
    BY DEF TypeOK, Holds
  <2>2. \A u \in Threads : u # slot[c] => (Unused(u)' <=> Unused(u))
    BY DEF TypeOK, Unused, Idle
  <2>3. Holds(c)
    BY DEF Holds
  <2>4. StackInv'
    BY <2>1, <2>2, <2>3 DEF TypeOK, StackInv
  <2>5. HolderInv'
    BY <2>1, <2>2, <2>3 DEF TypeOK, HolderInv
  <2>6. FlagInv'
    BY <2>3 DEF TypeOK, FlagInv, HolderInv, Unused, Idle
  <2> QED
    BY <2>4, <2>5, <2>6
<1>3. PoolInv' /\ LoopInv'
  BY DEF TypeOK, PoolInv, LoopInv, Waits
<1>4. TaskInv'
  <2>1. \A d \in Callers : Brings(d)' <=> Brings(d) /\ d # c
    BY DEF TypeOK, Brings
  <2>2. \A u \in Threads : HasTask(u)' <=> HasTask(u) \/ u = slot[c]
    BY DEF TypeOK, HasTask
  <2>3. metadata[slot[c]] = arg[c] /\ arg[c] \in given
    BY DEF TaskInv, Brings
  <2>4. \A k : Carried(k) => Carried(k)'
    BY <2>1, <2>2, <2>3 DEF TypeOK, Carried
  <2>5. \A d \in Callers : cpc'[d] = "flag" => cpc[d] = "flag"
    BY DEF TypeOK
  <2> QED
    BY <2>1, <2>2, <2>3, <2>4, <2>5 DEF TaskInv
<1> QED
  BY <1>1, <1>2, <1>3, <1>4

\* A thread resets its flag and begins to work on its task.
LEMMA ThreadTakeStep ==
  ASSUME IInv, NEW t \in Threads, ThreadTake(t)
  PROVE  IInv'
<1> USE ThreadAssumption DEF IInv, ThreadTake, Threads, callers, stack, history
<1>1. TypeOK'
  BY DEF TypeOK
<1>2. StackInv' /\ HolderInv' /\ FlagInv'
  <2>1. Idle(t) /\ ~ Unused(t)
    BY DEF Idle, Unused
  <2>2. \A u \in Threads : u # t => (Unused(u)' <=> Unused(u))
    BY DEF TypeOK, Unused, Idle
  <2>3. \A d \in Callers : Holds(d)' <=> Holds(d)
    BY DEF Holds
  <2>4. StackInv'
    BY SMTT(30), <2>1, <2>2, <2>3 DEF TypeOK, StackInv
  <2>5. HolderInv'
    BY SMTT(30), <2>1, <2>2, <2>3 DEF TypeOK, HolderInv
  <2>6. FlagInv'
    BY DEF TypeOK, FlagInv, Idle
  <2> QED
    BY <2>4, <2>5, <2>6
<1>3. PoolInv' /\ LoopInv'
  BY DEF TypeOK, PoolInv, LoopInv, Waits
<1>4. TaskInv'
  <2>1. \A d \in Callers : Brings(d)' <=> Brings(d)
    BY DEF TypeOK, Brings
  <2>2. \A d \in Callers : cpc'[d] = "flag" => cpc[d] = "flag"
    BY DEF TypeOK
  <2>3. \A u \in Threads : HasTask(u)' <=> HasTask(u)
    BY DEF TypeOK, HasTask
  <2> QED
    BY <2>1, <2>2, <2>3, TaskFrame
<1> QED
  BY <1>1, <1>2, <1>3, <1>4

\* The cleanup function returns: the task is done, so nobody has to carry it.
LEMMA CleanupEndStep ==
  ASSUME IInv, NEW t \in Threads, CleanupEnd(t)
  PROVE  IInv'
<1> USE ThreadAssumption DEF IInv, CleanupEnd, Threads, callers, stack, history
<1>1. TypeOK'
  <2>1. metadata[t] \in given
    BY DEF TaskInv, HasTask
  <2> QED
    BY <2>1 DEF TypeOK
<1>2. StackInv' /\ HolderInv' /\ FlagInv'
  <2>1. \A d \in Callers : Holds(d)' => Holds(d)
    BY DEF TypeOK, Holds
  <2>2. \A u \in Threads : Idle(u) => Idle(u)'
    BY DEF TypeOK, Idle
  <2> QED
    BY <2>1, <2>2, StackFrame
<1>3. PoolInv' /\ LoopInv'
  <2>1. pool \notin {"starting", "undoing", "failed"}
    <3>1. ~ Unused(t)
      BY DEF Unused, Idle
    <3> QED
      BY <3>1, FullStack DEF PoolInv
  <2> QED
    BY <2>1 DEF TypeOK, PoolInv, LoopInv, Waits
<1>4. TaskInv'
  <2>1. \A d \in Callers : Brings(d)' <=> Brings(d)
    BY DEF Brings
  <2>2. \A u \in Threads : HasTask(u)' => HasTask(u)
    BY DEF TypeOK, HasTask
  <2>3. \A u \in Threads : HasTask(u) => HasTask(u)' \/ u = t
    BY DEF TypeOK, HasTask
  <2>4. \A k : Carried(k) => Carried(k)' \/ k = metadata[t]
    BY <2>1, <2>3 DEF Carried
  <2>5. metadata[t] \in given
    BY DEF TaskInv, HasTask
  <2> QED
    BY <2>1, <2>2, <2>4, <2>5 DEF TaskInv
<1> QED
  BY <1>1, <1>2, <1>3, <1>4

\* A thread that has done its task finds room on the stack, where it was not.
LEMMA PutStep ==
  ASSUME IInv, NEW t \in Threads, Put(t)
  PROVE  IInv'
<1> USE ThreadAssumption DEF IInv, Put, Threads, callers, stack, history
<1>0. ~ Unused(t) /\ newcnt < NThreads
  <2>1. ~ Unused(t)
    BY DEF Unused, Idle
  <2> QED
    BY <2>1, StackRoom
<1>1. TypeOK'
  <2>1. newcnt' \in 0..NThreads /\ newcnt \in Threads
    BY <1>0 DEF TypeOK
  <2>2. newbuf' \in [Threads -> Threads]
    BY <2>1 DEF TypeOK
  <2> QED
    BY <2>1, <2>2 DEF TypeOK
<1>2. StackInv' /\ HolderInv' /\ FlagInv'
  <2>1. /\ Unused(t)'
        /\ \A u \in Threads : u # t => (Unused(u)' <=> Unused(u))
    BY DEF TypeOK, FlagInv, Unused, Idle
  <2>2. \A d \in Callers : Holds(d)' <=> Holds(d)
    BY DEF Holds
  <2>3. \A i \in Threads : i < newcnt => newbuf[i] # t
    BY <1>0 DEF StackInv
  <2>4. \A d \in Callers : Holds(d) => slot[d] # t
    BY <1>0 DEF HolderInv
  <2>5. \A i \in Threads : i < newcnt' =>
           \/ i = newcnt /\ newbuf'[i] = t
           \/ i < newcnt /\ newbuf'[i] = newbuf[i]
    BY <1>0 DEF TypeOK
  <2>6. StackInv'
    BY <1>0, <2>1, <2>2, <2>3, <2>4, <2>5 DEF TypeOK, StackInv
  <2>7. HolderInv'
    BY <2>1, <2>2, <2>4 DEF TypeOK, HolderInv
  <2>8. FlagInv'
    BY DEF TypeOK, FlagInv, Idle
  <2> QED
    BY <2>6, <2>7, <2>8
<1>3. PoolInv' /\ LoopInv'
  <2>1. pool \in {"ready", "waiting"}
    BY <1>0, FullStack DEF PoolInv
  <2> QED
    BY <2>1 DEF TypeOK, PoolInv, LoopInv, Waits
<1>4. TaskInv'
  <2>1. \A d \in Callers : Brings(d)' <=> Brings(d)
    BY DEF TypeOK, Brings
  <2>2. \A d \in Callers : cpc'[d] = "flag" => cpc[d] = "flag"
    BY DEF TypeOK
  <2>3. \A u \in Threads : HasTask(u)' <=> HasTask(u)
    BY DEF TypeOK, HasTask
  <2> QED
    BY <2>1, <2>2, <2>3, TaskFrame
<1> QED
  BY <1>1, <1>2, <1>3, <1>4

-----------------------------------------------------------------------------
\* Every step of the pool keeps the inductive invariant.
LEMMA NextIInv == IInv /\ [Next]_vars => IInv'
<1> SUFFICES ASSUME IInv, [Next]_vars PROVE IInv'
  OBVIOUS
<1>1. CASE Create \/ CreateFails \/ Cancel \/ Join
  BY <1>1, CreateStep, CreateFailsStep, CancelStep, JoinStep
<1>2. ASSUME NEW c \in Callers, NEW j \in Tasks, GoBegin(c, j) PROVE IInv'
  BY <1>2, GoBeginStep
<1>3. ASSUME NEW c \in Callers, Go(c) PROVE IInv'
  BY <1>3, GoWaitStep, GoTakeStep, GoInitStep, GoFlagStep, GoSignalStep,
     WaitSleepStep, WaitEndStep DEF Go
<1>4. ASSUME NEW c \in Callers, WaitBegin(c) \/ SpuriousCaller(c) PROVE IInv'
  BY <1>4, WaitBeginStep, SpuriousCallerStep
<1>5. ASSUME NEW t \in Threads, Run(t) PROVE IInv'
  BY <1>5, ThreadTakeStep, ThreadSleepStep, ThreadCancelledStep, WorkStep,
     CleanupBeginStep, CleanupEndStep, PutStep, SignalStep DEF Run
<1>6. ASSUME NEW t \in Threads, SpuriousThread(t) PROVE IInv'
  BY <1>6, SpuriousThreadStep
<1>7. CASE UNCHANGED vars
  BY <1>7 DEF IInv, TypeOK, StackInv, HolderInv, FlagInv, PoolInv, LoopInv,
       TaskInv, Unused, Idle, Holds, Waits, Brings, HasTask, Carried,
       vars, callers, stack, history
<1> QED
  BY <1>1, <1>2, <1>3, <1>4, <1>5, <1>6, <1>7 DEF Next, Ending

\* The inductive invariant holds throughout.
THEOREM Invariance == Spec => []IInv
  BY InitIInv, NextIInv, PTL DEF Spec

\* Every variable keeps its type: newcnt never leaves newbuf, whatever the
\* number of threads, of callers and of tasks.
THEOREM TypeCorrect == Spec => []TypeOK
<1>1. IInv => TypeOK
  BY DEF IInv
<1> QED
  BY <1>1, Invariance, PTL

\* cthread_wait() stops the threads only when all that was given is cleaned up.
THEOREM WaitsForAll == Spec => []WaitForAll
<1>1. IInv => WaitForAll
  <2> SUFFICES ASSUME IInv, pool \in {"stopping", "freed"}
               PROVE  cleaned = given
    BY DEF WaitForAll
  <2>1. \A t \in Threads : ~ HasTask(t)
    BY FullStack DEF IInv, PoolInv, Unused, Idle, HasTask
  <2>2. \A c \in Callers : ~ Brings(c)
    BY DEF IInv, PoolInv, Brings
  <2> QED
    BY <2>1, <2>2 DEF IInv, TaskInv, Carried
<1> QED
  BY <1>1, Invariance, PTL

\* No thread that has a task is cancelled, and none outlives the pool.
THEOREM CancelsOnlyIdle == Spec => []CancelOnlyIdle
<1>1. IInv => CancelOnlyIdle
  <2> SUFFICES ASSUME IInv PROVE CancelOnlyIdle
    OBVIOUS
  <2>1. \A t \in cancelled : Unused(t)
    BY FullStack DEF IInv, TypeOK, PoolInv
  <2> QED
    BY <2>1 DEF IInv, LoopInv, CancelOnlyIdle, Unused
<1> QED
  BY <1>1, Invariance, PTL

\* A task's metadata is never initialised anew while the task needs it.
THEOREM MetadataIsStable == Spec => MetadataStable
<1>1. IInv /\ [Next]_vars =>
        [\A t \in Threads : metadata'[t] # metadata[t] => Idle(t) /\ ~ goflag[t]]_vars
  <2> SUFFICES ASSUME IInv, Next, NEW t \in Threads, metadata'[t] # metadata[t]
               PROVE  Idle(t) /\ ~ goflag[t]
    OBVIOUS
  <2>1. PICK c \in Callers : GoInit(c)
    BY DEF Next, Go, Run, Ending, vars, Create, CreateFails, Cancel, Join,
       GoBegin, GoWait, GoTake, GoFlag, GoSignal, WaitBegin, WaitSleep,
       WaitEnd, SpuriousCaller, ThreadTake, ThreadSleep, ThreadCancelled,
       Work, CleanupBegin, CleanupEnd, Put, Signal, SpuriousThread
  <2>2. t = slot[c]
    BY <2>1 DEF GoInit, IInv, TypeOK
  <2> QED
    BY <2>1, <2>2 DEF GoInit, IInv, HolderInv, Holds, Unused
<1> QED
  BY <1>1, Invariance, PTL DEF Spec, MetadataStable

-----------------------------------------------------------------------------
(* The pool implements TaskPool.                                           *)

\* A step in which no task moves: whoever had it still has it, at the same stage.
Still ==
  /\ \A c \in Callers : /\ Brings(c)' <=> Brings(c)
                        /\ Holds(c)' <=> Holds(c)
                        /\ Brings(c) => arg'[c] = arg[c]
  /\ \A t \in Threads : /\ \A s \in {"work", "ran", "cleanup"} : tpc'[t] = s <=> tpc[t] = s
                        /\ goflag'[t] <=> goflag[t]
                        /\ HasTask(t) => metadata'[t] = metadata[t]
  /\ cleaned' = cleaned /\ cleanup_mutex' = cleanup_mutex

\* The steps of callers, threads and the pool that move no task.
LEMMA CallerStill ==
  ASSUME IInv, NEW c \in Callers,
         \/ GoWait(c) \/ GoSignal(c) \/ WaitBegin(c) \/ WaitSleep(c)
         \/ WaitEnd(c) \/ SpuriousCaller(c)
  PROVE  Still
<1> USE DEF IInv, TypeOK, Brings, Holds, HasTask, Still, callers, stack, history
<1>1. CASE GoWait(c) \/ WaitBegin(c) \/ WaitSleep(c) \/ WaitEnd(c)
  BY <1>1 DEF GoWait, WaitBegin, WaitSleep, WaitEnd
<1>2. CASE GoSignal(c)
  BY <1>2 DEF GoSignal
<1>3. CASE SpuriousCaller(c)
  BY <1>3 DEF SpuriousCaller, Awake, Sleepers
<1> QED
  BY <1>1, <1>2, <1>3

LEMMA GoInitStill ==
  ASSUME IInv, NEW c \in Callers, GoInit(c)
  PROVE  Still
<1> USE DEF GoInit, stack, history
<1>1. ~ HasTask(slot[c])
  BY DEF IInv, HolderInv, Holds, Unused, Idle, HasTask
<1>2. \A t \in Threads : HasTask(t) => metadata'[t] = metadata[t]
  BY <1>1 DEF IInv, TypeOK
<1>3. \A d \in Callers : (Brings(d)' <=> Brings(d)) /\ (Holds(d)' <=> Holds(d))
  BY DEF IInv, TypeOK, Brings, Holds
<1> QED
  BY <1>2, <1>3 DEF Still

LEMMA ThreadStill ==
  ASSUME IInv, NEW t \in Threads,
         \/ ThreadSleep(t) \/ ThreadCancelled(t) \/ Put(t) \/ Signal(t)
         \/ SpuriousThread(t)
  PROVE  Still
<1> USE DEF IInv, TypeOK, Brings, Holds, HasTask, Still, callers, stack, history
<1>1. CASE ThreadSleep(t) \/ ThreadCancelled(t) \/ Put(t) \/ SpuriousThread(t)
  BY <1>1 DEF ThreadSleep, ThreadCancelled, Put, SpuriousThread
<1>2. CASE Signal(t)
  BY <1>2 DEF Signal, Awake, Sleepers
<1> QED
  BY <1>1, <1>2

LEMMA PoolStill ==
  ASSUME IInv, Create \/ CreateFails \/ Cancel \/ Join \/ UNCHANGED vars
  PROVE  Still
<1> USE DEF IInv, TypeOK, Brings, Holds, HasTask, Still, callers, stack, history, vars
<1>1. CASE Create
  <2>1. idx \in Threads /\ tpc[idx] = "none"
    BY <1>1, ThreadAssumption DEF Create, LoopInv, Threads
  <2> QED
    BY <1>1, <2>1 DEF Create
<1>2. CASE CreateFails \/ Cancel \/ Join \/ UNCHANGED vars
  BY <1>2 DEF CreateFails, Cancel, Join
<1> QED
  BY <1>1, <1>2

-----------------------------------------------------------------------------
(* A task is in one place at a time.                                       *)

LEMMA OnceStill == OnceInv /\ Still => OnceInv'
<1> SUFFICES ASSUME OnceInv, Still PROVE OnceInv'
  OBVIOUS
<1>1. \A t \in Threads : HasTask(t)' <=> HasTask(t)
  BY DEF Still, HasTask
<1> QED
  BY <1>1 DEF OnceInv, Still

LEMMA OnceMoves ==
  ASSUME IInv, OnceInv,
         \/ \E c \in Callers : (\E j \in Tasks : GoBegin(c, j)) \/ GoTake(c) \/ GoFlag(c)
         \/ \E t \in Threads : ThreadTake(t) \/ Work(t) \/ CleanupBegin(t) \/ CleanupEnd(t)
  PROVE  OnceInv'
<1> USE DEF callers, stack, history
<1>1. ASSUME NEW c \in Callers, NEW j \in Tasks, GoBegin(c, j) PROVE OnceInv'
  <2>1. \A d \in Callers : /\ Brings(d)' <=> Brings(d) \/ d = c
                           /\ arg'[d] = IF d = c THEN j ELSE arg[d]
    BY <1>1 DEF GoBegin, IInv, TypeOK, Brings
  <2>2. \A t \in Threads : HasTask(t)' <=> HasTask(t)
    BY <1>1 DEF GoBegin, HasTask
  <2>3. /\ j \notin given /\ metadata' = metadata /\ cleaned' = cleaned
        /\ tpc' = tpc /\ cleanup_mutex' = cleanup_mutex
    BY <1>1 DEF GoBegin
  <2> QED
    BY <2>1, <2>2, <2>3 DEF OnceInv, IInv, TaskInv
<1>2. ASSUME NEW c \in Callers, GoTake(c) PROVE OnceInv'
  <2>1. \A d \in Callers : Brings(d)' <=> Brings(d)
    BY <1>2 DEF GoTake, IInv, TypeOK, Brings
  <2>2. \A t \in Threads : HasTask(t)' <=> HasTask(t)
    BY <1>2 DEF GoTake, HasTask
  <2> QED
    BY <1>2, <2>1, <2>2 DEF GoTake, OnceInv
<1>3. ASSUME NEW c \in Callers, GoFlag(c) PROVE OnceInv'
  <2>1. \A d \in Callers : Brings(d)' <=> Brings(d) /\ d # c
    BY <1>3 DEF GoFlag, IInv, TypeOK, Brings
  <2>2. \A t \in Threads : HasTask(t)' <=> HasTask(t) \/ t = slot[c]
    BY <1>3 DEF GoFlag, IInv, TypeOK, HasTask
  <2>3. Brings(c) /\ metadata[slot[c]] = arg[c]
    BY <1>3 DEF GoFlag, Brings, IInv, TaskInv
  <2>4. /\ arg' = arg /\ metadata' = metadata /\ cleaned' = cleaned
        /\ tpc' = tpc /\ cleanup_mutex' = cleanup_mutex
    BY <1>3 DEF GoFlag
  <2> QED
    BY <2>1, <2>2, <2>3, <2>4 DEF OnceInv
<1>4. ASSUME NEW t \in Threads, ThreadTake(t) \/ Work(t) \/ CleanupBegin(t)
      PROVE  OnceInv'
  <2>1. \A u \in Threads : HasTask(u)' <=> HasTask(u)
    BY <1>4 DEF ThreadTake, Work, CleanupBegin, HasTask, IInv, TypeOK
  <2>2. \A d \in Callers : Brings(d)' <=> Brings(d)
    BY <1>4 DEF ThreadTake, Work, CleanupBegin, Brings
  <2>3. \A u \in Threads : tpc'[u] = "cleanup" => cleanup_mutex' = u
    BY <1>4, ThreadAssumption DEF ThreadTake, Work, CleanupBegin, OnceInv, IInv, TypeOK
  <2>4. arg' = arg /\ metadata' = metadata /\ cleaned' = cleaned
    BY <1>4 DEF ThreadTake, Work, CleanupBegin
  <2> QED
    BY <2>1, <2>2, <2>3, <2>4 DEF OnceInv
<1>5. ASSUME NEW t \in Threads, CleanupEnd(t) PROVE OnceInv'
  <2>1. \A u \in Threads : HasTask(u)' => HasTask(u) /\ u # t
    <3>1. ~ goflag[t]
      BY <1>5 DEF CleanupEnd, IInv, FlagInv, Idle
    <3> QED
      BY <1>5, <3>1 DEF CleanupEnd, HasTask, IInv, TypeOK
  <2>2. \A d \in Callers : Brings(d)' <=> Brings(d)
    BY <1>5 DEF CleanupEnd, Brings
  <2>3. HasTask(t)
    BY <1>5 DEF CleanupEnd, HasTask
  <2>4. \A u \in Threads : tpc'[u] = "cleanup" => cleanup_mutex' = u
    BY <1>5 DEF CleanupEnd, OnceInv, IInv, TypeOK
  <2>5. /\ arg' = arg /\ metadata' = metadata
        /\ cleaned' = cleaned \cup {metadata[t]}
    BY <1>5 DEF CleanupEnd
  <2> QED
    BY <2>1, <2>2, <2>3, <2>4, <2>5 DEF OnceInv
<1> QED
  BY <1>1, <1>2, <1>3, <1>4, <1>5

LEMMA NextOnceInv == IInv /\ OnceInv /\ [Next]_vars => OnceInv'
<1> SUFFICES ASSUME IInv, OnceInv, [Next]_vars PROVE OnceInv'
  OBVIOUS
<1>1. CASE Still
  BY <1>1, OnceStill
<1>2. CASE ~ Still
  BY <1>2, OnceMoves, CallerStill, GoInitStill, ThreadStill, PoolStill
     DEF Next, Go, Run, Ending
<1> QED
  BY <1>1, <1>2

\* No task is in two places, and none is worked on again.
THEOREM OnceInvariance == Spec => []OnceInv
<1>1. Init => OnceInv
  BY DEF Init, OnceInv, Brings, HasTask
<1> QED
  BY <1>1, NextOnceInv, Invariance, PTL DEF Spec

-----------------------------------------------------------------------------
(* The phase of a task, and how each step moves it.                        *)

\* A step in which no task moves leaves the phase of each as it is.
LEMMA PhaseStill == Still => \A j \in Tasks : Phase(j)' = Phase(j)
<1> SUFFICES ASSUME Still, NEW j \in Tasks PROVE Phase(j)' = Phase(j)
  OBVIOUS
<1>1. ASSUME NEW s \in {"work", "ran", "cleanup"}
      PROVE  (\E t \in Threads : tpc'[t] = s /\ metadata'[t] = j) <=>
             (\E t \in Threads : tpc[t] = s /\ metadata[t] = j)
  BY DEF Still, HasTask
<1>2. (\E t \in Threads : goflag'[t] /\ metadata'[t] = j) <=>
      (\E t \in Threads : goflag[t] /\ metadata[t] = j)
  BY DEF Still, HasTask
<1>3. (\E c \in Callers : cpc'[c] \in {"init", "flag"} /\ arg'[c] = j) <=>
      (\E c \in Callers : cpc[c] \in {"init", "flag"} /\ arg[c] = j)
  BY DEF Still, Holds, Brings
<1> QED
  BY <1>1, <1>2, <1>3 DEF Phase, Still

\* Where a thread is with its task.
LEMMA PhaseOfThread ==
  ASSUME IInv, OnceInv, NEW t \in Threads, HasTask(t)
  PROVE  /\ metadata[t] \in Tasks
         /\ tpc[t] = "cleanup" => Phase(metadata[t]) = "cleaning"
         /\ tpc[t] = "ran" => Phase(metadata[t]) = "ran"
         /\ tpc[t] = "work" => Phase(metadata[t]) = "running"
         /\ goflag[t] => Phase(metadata[t]) = "queued"
<1>1. \A u \in Threads : HasTask(u) /\ metadata[u] = metadata[t] => u = t
  BY DEF OnceInv
<1>2. goflag[t] => tpc[t] \notin {"work", "ran", "cleanup"}
  BY DEF IInv, FlagInv, Idle
<1>3. metadata[t] \in Tasks
  BY DEF IInv, TaskInv, TypeOK
<1> QED
  BY <1>1, <1>2, <1>3 DEF Phase, HasTask

\* A task that no thread has: a caller has taken a thread for it, or not yet.
LEMMA PhaseElse ==
  ASSUME NEW j, \A t \in Threads : HasTask(t) => metadata[t] # j
  PROVE  Phase(j) = IF \E c \in Callers : Holds(c) /\ arg[c] = j THEN "queued"
                    ELSE IF j \in cleaned THEN "finished" ELSE "new"
BY DEF Phase, HasTask, Holds

LEMMA PhaseOfCaller ==
  ASSUME OnceInv, NEW c \in Callers, Brings(c)
  PROVE  Phase(arg[c]) = IF Holds(c) THEN "queued" ELSE "new"
<1>1. \A t \in Threads : HasTask(t) => metadata[t] # arg[c]
  BY DEF OnceInv
<1>2. \A d \in Callers : Holds(d) /\ arg[d] = arg[c] => d = c
  BY DEF OnceInv, Holds, Brings
<1>3. arg[c] \notin cleaned
  BY DEF OnceInv
<1> QED
  BY <1>1, <1>2, <1>3, PhaseElse

\* A step of one thread moves no task but its own.
LEMMA PhaseOthers ==
  ASSUME NEW t \in Threads, NEW j, j # metadata[t],
         metadata' = metadata, arg' = arg, cpc' = cpc,
         \A u \in Threads : u # t => tpc'[u] = tpc[u] /\ goflag'[u] = goflag[u],
         j \in cleaned' <=> j \in cleaned
  PROVE  Phase(j)' = Phase(j)
<1>1. ASSUME NEW s
      PROVE  (\E u \in Threads : tpc'[u] = s /\ metadata'[u] = j) <=>
             (\E u \in Threads : tpc[u] = s /\ metadata[u] = j)
  OBVIOUS
<1>2. (\E u \in Threads : goflag'[u] /\ metadata'[u] = j) <=>
      (\E u \in Threads : goflag[u] /\ metadata[u] = j)
  OBVIOUS
<1> QED
  BY <1>1, <1>2 DEF Phase

-----------------------------------------------------------------------------
(* Every step is one that TaskPool allows.                                 *)

Phases == [j \in Tasks |-> Phase(j)]
Closed == pool \in {"stopping", "undoing", "freed", "failed"}

LEMMA PhasesStutter ==
  ASSUME \A j \in Tasks : Phase(j)' = Phase(j), Closed' = Closed
  PROVE  UNCHANGED Promise!vars
BY DEF Promise!vars, Closed

\* One task goes from a phase to another, and the others stay where they are.
LEMMA PhasesAdvance ==
  ASSUME NEW j \in Tasks, NEW from, NEW to, Phase(j) = from, Closed' = Closed,
         \A k \in Tasks : Phase(k)' = IF k = j THEN to ELSE Phase(k)
  PROVE  Promise!Advance(j, from, to)
<1>1. Phases' = [Phases EXCEPT ![j] = to]
  BY DEF Phases
<1> QED
  BY <1>1 DEF Promise!Advance, Phases, Closed

\* A caller takes a thread for its task: there is one, since those with a task
\* are different threads that are not on the stack.
LEMMA TakeSubmits ==
  ASSUME IInv, OnceInv, OnceInv', NEW c \in Callers, GoTake(c)
  PROVE  Promise!Submit(arg[c])
<1> USE DEF GoTake, callers, stack, history
<1> DEFINE free == newbuf[newcnt - 1]
<1>1. arg[c] \in Tasks /\ Brings(c) /\ ~ Holds(c) /\ Holds(c)' /\ Brings(c)' /\ arg' = arg
  BY DEF IInv, TypeOK, TaskInv, Brings, Holds
<1>2. Phase(arg[c]) = "new"
  BY <1>1, PhaseOfCaller
<1>3. \A j \in Tasks : Phase(j)' = IF j = arg[c] THEN "queued" ELSE Phase(j)
  <2> SUFFICES ASSUME NEW j \in Tasks
               PROVE  Phase(j)' = IF j = arg[c] THEN "queued" ELSE Phase(j)
    OBVIOUS
  <2>1. CASE j = arg[c]
    <3>1. \A t \in Threads : HasTask(t) => metadata[t] # j
      BY <1>1, <2>1 DEF OnceInv
    <3>2. cpc'[c] \in {"init", "flag"} /\ arg'[c] = j
      BY <1>1, <2>1 DEF Holds
    <3> QED
      BY <2>1, <3>1, <3>2 DEF Phase, HasTask
  <2>2. CASE j # arg[c]
    <3>1. (\E d \in Callers : cpc'[d] \in {"init", "flag"} /\ arg'[d] = j) <=>
          (\E d \in Callers : cpc[d] \in {"init", "flag"} /\ arg[d] = j)
      BY <2>2 DEF IInv, TypeOK
    <3> QED
      BY <2>2, <3>1 DEF Phase
  <2> QED
    BY <2>1, <2>2
<1>4. ~ Closed /\ Closed' = Closed
  BY DEF IInv, PoolInv, Closed
<1>5. Cardinality({j \in Tasks : Phases[j] \notin {"new", "finished"}}) < NThreads
  <2> DEFINE Active == {j \in Tasks : Phases[j] \notin {"new", "finished"}}
             Has(t, j) == \/ HasTask(t) /\ metadata[t] = j
                          \/ \E d \in Callers : Holds(d) /\ slot[d] = t /\ arg[d] = j
             Where == [j \in Active |-> CHOOSE t \in Threads : Has(t, j)]
  <2>1. newcnt - 1 \in Threads /\ newcnt - 1 < newcnt /\ free \in Threads
    BY ThreadAssumption DEF IInv, TypeOK, Threads
  <2>2. IsFiniteSet(Threads \ {free}) /\ Cardinality(Threads \ {free}) = NThreads - 1
    <3>1. /\ IsFiniteSet(0 .. NThreads - 1)
          /\ Cardinality(0 .. NThreads - 1) =
               IF 0 > NThreads - 1 THEN 0 ELSE NThreads - 1 - 0 + 1
      BY FS_Interval, ThreadAssumption
    <3>2. IsFiniteSet(Threads) /\ Cardinality(Threads) = NThreads
      BY <3>1, ThreadAssumption DEF Threads
    <3> QED
      BY <2>1, <3>2, FS_RemoveElement
  <2>3. \A j \in Active : \E t \in Threads : Has(t, j)
    <3> SUFFICES ASSUME NEW j \in Active PROVE \E t \in Threads : Has(t, j)
      OBVIOUS
    <3>1. CASE \E t \in Threads : HasTask(t) /\ metadata[t] = j
      BY <3>1
    <3>2. CASE \A t \in Threads : HasTask(t) => metadata[t] # j
      <4>1. Phase(j) \notin {"new", "finished"}
        BY DEF Phases
      <4>2. PICK d \in Callers : Holds(d) /\ arg[d] = j
        BY <3>2, <4>1, PhaseElse
      <4>3. slot[d] \in Threads
        BY DEF IInv, TypeOK
      <4> QED
        BY <4>2, <4>3
    <3> QED
      BY <3>1, <3>2
  <2>4. \A t \in Threads : \A j, k \in Active : Has(t, j) /\ Has(t, k) => j = k
    <3>1. \A d \in Callers : Holds(d) => ~ HasTask(slot[d])
      BY DEF IInv, HolderInv, Unused, Idle, HasTask
    <3>2. \A d, e \in Callers : Holds(d) /\ Holds(e) /\ slot[d] = slot[e] => d = e
      BY DEF IInv, HolderInv
    <3> QED
      BY <3>1, <3>2
  <2>5. \A j \in Active : ~ Has(free, j)
    <3>1. Unused(free) /\ \A d \in Callers : Holds(d) => slot[d] # free
      BY <2>1 DEF IInv, StackInv
    <3> QED
      BY <3>1 DEF Unused, Idle, HasTask
  <2> HIDE DEF Has
  <2>6. \A j \in Active : Where[j] \in Threads /\ Has(Where[j], j)
    BY <2>3
  <2>7. Where \in Injection(Active, Threads \ {free})
    <3>1. Where \in [Active -> Threads \ {free}]
      BY <2>5, <2>6
    <3>2. \A j, k \in Active : Where[j] = Where[k] => j = k
      BY <2>4, <2>6
    <3> QED
      BY <3>1, <3>2 DEF Injection, IsInjective
  <2>8. IsFiniteSet(Active) /\ Cardinality(Active) <= NThreads - 1
    BY <2>2, <2>7, FS_Injection
  <2>9. Cardinality(Active) \in Nat
    BY <2>8, FS_CardinalityType
  <2> QED
    BY <2>8, <2>9, ThreadAssumption
<1> QED
  <2>1. Promise!Advance(arg[c], "new", "queued")
    BY <1>1, <1>2, <1>3, <1>4, PhasesAdvance
  <2>2. Promise!Active = {j \in Tasks : Phases[j] \notin {"new", "finished"}}
    BY DEF Promise!Active, Phases
  <2>3. Promise!Cardinality(Promise!Active) < NThreads
    <3>1. \A S : Promise!Cardinality(S) = Cardinality(S)
      BY DEF Promise!Cardinality, Cardinality
    <3> QED
      BY <1>5, <2>2, <3>1
  <2> QED
    BY <1>4, <2>1, <2>3 DEF Promise!Submit, Closed

\* A thread takes its task, works on it, and cleans up after it alone.
LEMMA ThreadAdvances ==
  ASSUME IInv, OnceInv, OnceInv', NEW t \in Threads,
         ThreadTake(t) \/ Work(t) \/ CleanupBegin(t) \/ CleanupEnd(t)
  PROVE  Promise!Next
<1>1. PICK j \in Tasks : j = metadata[t]
  BY PhaseOfThread DEF ThreadTake, Work, CleanupBegin, CleanupEnd, HasTask
<1>2. \A k \in Tasks : k # j => Phase(k)' = Phase(k)
  <2>1. /\ metadata' = metadata /\ arg' = arg /\ cpc' = cpc
        /\ \A u \in Threads : u # t => tpc'[u] = tpc[u] /\ goflag'[u] = goflag[u]
        /\ \A k : k # j => (k \in cleaned' <=> k \in cleaned)
    BY <1>1 DEF IInv, TypeOK, ThreadTake, Work, CleanupBegin, CleanupEnd, callers, history
  <2> QED
    BY <1>1, <2>1, PhaseOthers
<1>3. Closed' = Closed
  BY DEF Closed, ThreadTake, Work, CleanupBegin, CleanupEnd
<1>4. metadata'[t] = j
  BY <1>1 DEF ThreadTake, Work, CleanupBegin, CleanupEnd
<1>5. HasTask(t)' => \A u \in Threads : HasTask(u)' /\ metadata'[u] = j => u = t
  BY <1>4 DEF OnceInv
<1>6. CASE ThreadTake(t)
  <2>1. Phase(j) = "queued"
    BY <1>1, <1>6, PhaseOfThread DEF ThreadTake, HasTask
  <2>2. tpc'[t] = "work"
    BY <1>6 DEF ThreadTake, IInv, TypeOK
  <2>3. Phase(j)' = "running"
    BY <1>4, <1>5, <2>2 DEF Phase, HasTask
  <2>4. Promise!Start(j)
    BY <1>2, <1>3, <2>1, <2>3, PhasesAdvance DEF Promise!Start
  <2> QED
    BY <2>4 DEF Promise!Next
<1>7. CASE Work(t)
  <2>1. Phase(j) = "running"
    BY <1>1, <1>7, PhaseOfThread DEF Work, HasTask
  <2>2. tpc'[t] = "ran"
    BY <1>7 DEF Work, IInv, TypeOK
  <2>3. Phase(j)' = "ran"
    BY <1>4, <1>5, <2>2 DEF Phase, HasTask
  <2>4. Promise!Finish(j)
    BY <1>2, <1>3, <2>1, <2>3, PhasesAdvance DEF Promise!Finish
  <2> QED
    BY <2>4 DEF Promise!Next
<1>8. CASE CleanupBegin(t)
  <2>1. Phase(j) = "ran"
    BY <1>1, <1>8, PhaseOfThread DEF CleanupBegin, HasTask
  <2>2. tpc'[t] = "cleanup"
    BY <1>8 DEF CleanupBegin, IInv, TypeOK
  <2>3. Phase(j)' = "cleaning"
    BY <1>4, <2>2 DEF Phase
  <2>4. \A k \in Tasks : Phase(k) # "cleaning"
    <3>1. \A u \in Threads : tpc[u] # "cleanup"
      BY <1>8, ThreadAssumption DEF CleanupBegin, OnceInv
    <3> QED
      BY <3>1 DEF Phase
  <2>5. Promise!Clean(j)
    <3>1. Promise!Advance(j, "ran", "cleaning")
      BY <1>2, <1>3, <2>1, <2>3, PhasesAdvance
    <3> QED
      BY <2>4, <3>1 DEF Promise!Clean
  <2> QED
    BY <2>5 DEF Promise!Next
<1>9. CASE CleanupEnd(t)
  <2>1. Phase(j) = "cleaning"
    BY <1>1, <1>9, PhaseOfThread DEF CleanupEnd, HasTask
  <2>2. j \in cleaned'
    BY <1>1, <1>9 DEF CleanupEnd
  <2>3. Phase(j)' = "finished"
    BY <2>2 DEF Phase, OnceInv, HasTask, Brings
  <2>4. Promise!Done(j)
    BY <1>2, <1>3, <2>1, <2>3, PhasesAdvance DEF Promise!Done
  <2> QED
    BY <2>4 DEF Promise!Next
<1> QED
  BY <1>6, <1>7, <1>8, <1>9

\* Where no task is under way the pool may be closed.
LEMMA PoolCloses ==
  ASSUME IInv, Still, ~ Closed, Closed', \A t \in Threads : ~ HasTask(t),
         \A c \in Callers : ~ Brings(c)
  PROVE  Promise!Close
<1>1. \A j \in Tasks : Phase(j) \in {"new", "finished"}
  BY PhaseElse DEF Holds, Brings
<1>2. \A j \in Tasks : Phase(j)' = Phase(j)
  BY PhaseStill
<1>3. Phases' = Phases
  BY <1>2 DEF Phases
<1> QED
  BY <1>1, <1>3 DEF Promise!Close, Promise!Active, Phases, Closed

\* The steps in which no task moves, of which two close the pool.
LEMMA StillStep ==
  ASSUME IInv, Still, [Next]_vars
  PROVE  Promise!Close \/ UNCHANGED Promise!vars
<1>1. CASE Closed' = Closed
  BY <1>1, PhaseStill, PhasesStutter
<1>2. CASE Closed' # Closed
  <2>1. /\ ~ Closed /\ Closed'
        /\ (\E c \in Callers : WaitEnd(c)) \/ CreateFails
    BY <1>2 DEF Closed, Next, Go, Run, Ending, vars, callers, stack, history, Create,
       Cancel, Join, GoBegin, GoWait, GoTake, GoInit, GoFlag, GoSignal, WaitBegin,
       WaitSleep, WaitEnd, SpuriousCaller, ThreadTake, ThreadSleep, ThreadCancelled,
       Work, CleanupBegin, CleanupEnd, Put, Signal, SpuriousThread, CreateFails
  <2>2. newcnt = NThreads
    BY <2>1, ThreadAssumption DEF IInv, TypeOK, PoolInv, WaitEnd, CreateFails
  <2>3. \A t \in Threads : ~ HasTask(t)
    BY <2>2, FullStack DEF Unused, Idle, HasTask
  <2>4. \A c \in Callers : ~ Brings(c)
    <3>1. CASE CreateFails
      BY <3>1 DEF CreateFails, IInv, PoolInv, Brings
    <3>2. ASSUME NEW c \in Callers, WaitEnd(c) PROVE \A d \in Callers : ~ Brings(d)
      BY <3>2 DEF WaitEnd, IInv, TypeOK, PoolInv, Brings, Waits
    <3> QED
      BY <2>1, <3>1, <3>2
  <2> QED
    BY <2>1, <2>3, <2>4, PoolCloses
<1> QED
  BY <1>1, <1>2

\* A caller that enters cthread_go() has a new task, which waits for a thread;
\* setting the flag hands it to the thread.
LEMMA HandOver ==
  ASSUME IInv, OnceInv, OnceInv', NEW c \in Callers,
         GoFlag(c) \/ \E j \in Tasks : GoBegin(c, j)
  PROVE  UNCHANGED Promise!vars
<1>1. Closed' = Closed
  BY DEF Closed, GoFlag, GoBegin
<1>2. ASSUME NEW j \in Tasks, GoBegin(c, j), NEW k \in Tasks PROVE Phase(k)' = Phase(k)
  <2>1. (\E d \in Callers : cpc'[d] \in {"init", "flag"} /\ arg'[d] = k) <=>
        (\E d \in Callers : cpc[d] \in {"init", "flag"} /\ arg[d] = k)
    BY <1>2 DEF GoBegin, IInv, TypeOK
  <2> QED
    BY <1>2, <2>1 DEF GoBegin, Phase
<1>3. ASSUME GoFlag(c), NEW k \in Tasks PROVE Phase(k)' = Phase(k)
  <2>1. CASE k = arg[c]
    <3>1. Phase(k) = "queued"
      BY <1>3, <2>1, PhaseOfCaller DEF GoFlag, Brings, Holds
    <3>2. /\ slot[c] \in Threads /\ goflag'[slot[c]] /\ metadata'[slot[c]] = k
          /\ tpc'[slot[c]] \notin {"work", "ran", "cleanup"}
      <4>1. Idle(slot[c])
        BY <1>3 DEF GoFlag, IInv, HolderInv, Holds, Unused
      <4>2. slot[c] \in Threads /\ metadata[slot[c]] = arg[c]
        BY <1>3 DEF GoFlag, IInv, TypeOK, TaskInv
      <4> QED
        BY <1>3, <2>1, <4>1, <4>2 DEF GoFlag, Idle, IInv, TypeOK
    <3>3. \A u \in Threads : HasTask(u)' /\ metadata'[u] = k => u = slot[c]
      BY <3>2 DEF OnceInv, HasTask
    <3>4. Phase(k)' = "queued"
      BY <3>2, <3>3 DEF Phase, HasTask
    <3> QED
      BY <3>1, <3>4
  <2>2. CASE k # arg[c]
    <3>1. (\E d \in Callers : cpc'[d] \in {"init", "flag"} /\ arg'[d] = k) <=>
          (\E d \in Callers : cpc[d] \in {"init", "flag"} /\ arg[d] = k)
      BY <1>3, <2>2 DEF GoFlag, IInv, TypeOK
    <3>2. (\E t \in Threads : goflag'[t] /\ metadata'[t] = k) <=>
          (\E t \in Threads : goflag[t] /\ metadata[t] = k)
      BY <1>3, <2>2 DEF GoFlag, IInv, TypeOK, TaskInv
    <3> QED
      BY <1>3, <2>2, <3>1, <3>2 DEF GoFlag, Phase, history
  <2> QED
    BY <2>1, <2>2
<1> QED
  BY <1>1, <1>2, <1>3, PhasesStutter

\* Every step of the pool is a step of TaskPool, or changes nothing it knows.
LEMMA StepImplements ==
  ASSUME IInv, OnceInv, OnceInv', [Next]_vars
  PROVE  [Promise!Next]_(Promise!vars)
<1>1. CASE Still
  BY <1>1, StillStep DEF Promise!Next
<1>2. ASSUME NEW c \in Callers, GoTake(c) PROVE Promise!Next
  <2>1. arg[c] \in Tasks
    BY <1>2 DEF GoTake, IInv, TypeOK, TaskInv, Brings
  <2> QED
    BY <1>2, <2>1, TakeSubmits DEF Promise!Next
<1>3. ASSUME NEW t \in Threads,
             ThreadTake(t) \/ Work(t) \/ CleanupBegin(t) \/ CleanupEnd(t)
      PROVE  Promise!Next
  BY <1>3, ThreadAdvances
<1>4. ASSUME NEW c \in Callers, GoFlag(c) \/ \E j \in Tasks : GoBegin(c, j)
      PROVE  UNCHANGED Promise!vars
  BY <1>4, HandOver
<1> QED
  BY <1>1, <1>2, <1>3, <1>4, CallerStill, GoInitStill, ThreadStill, PoolStill
     DEF Next, Go, Run, Ending

\* The pool does what the header promises: each task that is given runs once, on
\* one of NThreads threads, is cleaned up after alone, and cthread_wait() ends the
\* pool when nothing is left half done.
THEOREM PoolImplements == Spec => ImplementsTaskPool
<1>1. Init => Promise!Init
  <2> SUFFICES ASSUME Init PROVE Promise!Init
    OBVIOUS
  <2>1. \A j \in Tasks : Phase(j) = "new"
    BY DEF Init, Phase
  <2> QED
    BY <2>1 DEF Init, Promise!Init
<1>2. IInv /\ OnceInv /\ OnceInv' /\ [Next]_vars => [Promise!Next]_(Promise!vars)
  BY StepImplements
<1> QED
  BY <1>1, <1>2, Invariance, OnceInvariance, PTL DEF Spec, ImplementsTaskPool, Promise!Spec
=============================================================================
