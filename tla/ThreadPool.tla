----------------------------- MODULE ThreadPool -----------------------------
(***************************************************************************)
(* The pool of threads of threadlib/pthread.c.  Threads sleep on their own *)
(* condition variable until cthread_go() gives them a task, and put        *)
(* themselves back on the stack newbuf when they are done with it.         *)
(*                                                                         *)
(* A section that runs under gomutex or newtask_mutex is one step: it has  *)
(* no blocking call but pthread_cond_wait(), which ends the step.  Signals *)
(* are sent after the mutex is released, so they are steps of their own.   *)
(* Condition variables may also wake up for no reason.                     *)
(***************************************************************************)
EXTENDS Naturals, FiniteSets

CONSTANTS
    NThreads,   \* number of threads of the pool
    Callers,    \* threads of the program that use the pool
    Tasks,      \* what the callers give to it, each task once
    Nobody

Threads == 0 .. NThreads - 1

ASSUME ThreadAssumption ==
    /\ NThreads \in Nat \ {0}
    /\ Nobody \notin Threads \cup Tasks

VARIABLES
    pool,           \* "starting", "ready", "waiting", "stopping", "undoing",
                    \* then "freed" or "failed"
    idx,            \* loop counter of cthread_init() and cthread_wait()
    cpc,            \* what each caller does next
    arg,            \* the task of each caller's cthread_go()
    slot,           \* the thread each caller took from newbuf
    newbuf, newcnt, \* stack of the threads that are free
    tpc,            \* what each thread does next
    goflag,         \* goflag[t]: t has a task to work on
    metadata,       \* metadata[t]: the task in t's metadata
    cancelled,      \* threads with a pending pthread_cancel()
    cleanup_mutex,
    given,          \* history: the tasks given to cthread_go()
    cleaned         \* history: the tasks whose cleanup function returned

callers == <<cpc, arg, slot>>
stack   == <<newbuf, newcnt>>
history == <<given, cleaned>>
vars    == <<pool, idx, callers, stack, tpc, goflag, metadata, cancelled,
             cleanup_mutex, history>>

Init ==
    /\ pool = "starting" /\ idx = 0
    /\ cpc = [c \in Callers |-> "idle"]
    /\ arg = [c \in Callers |-> Nobody]
    /\ slot = [c \in Callers |-> 0]
    /\ newbuf = [i \in Threads |-> i] /\ newcnt = NThreads
    /\ tpc = [t \in Threads |-> "none"]
    /\ goflag = [t \in Threads |-> FALSE]
    /\ metadata = [t \in Threads |-> Nobody]
    /\ cancelled = {}
    /\ cleanup_mutex = Nobody
    /\ given = {} /\ cleaned = {}

-----------------------------------------------------------------------------
(* Faults that the properties must catch: each is the action of the same   *)
(* name with a mistake in it, and no part of the specification.            *)

\* The signal is never sent.
GoSignalLost(c) ==
    /\ cpc[c] = "signal"
    /\ cpc' = [cpc EXCEPT ![c] = "idle"]
    /\ UNCHANGED <<pool, idx, arg, slot, stack, tpc, goflag, metadata,
                   cancelled, cleanup_mutex, history>>

SignalLost(t) ==
    /\ tpc[t] = "signal"
    /\ tpc' = [tpc EXCEPT ![t] = "lock"]
    /\ UNCHANGED <<pool, idx, callers, stack, goflag, metadata, cancelled,
                   cleanup_mutex, history>>

\* cthread_wait() is content with all threads but one.
WaitEndEarly(c) ==
    /\ cpc[c] = "wait" /\ newcnt >= NThreads - 1
    /\ pool' = "stopping" /\ idx' = 0
    /\ cpc' = [cpc EXCEPT ![c] = "idle"]
    /\ UNCHANGED <<arg, slot, stack, tpc, goflag, metadata, cancelled,
                   cleanup_mutex, history>>

\* goflag is not reset.
ThreadTakeAgain(t) ==
    /\ tpc[t] = "lock" /\ goflag[t]
    /\ tpc' = [tpc EXCEPT ![t] = "work"]
    /\ UNCHANGED <<pool, idx, callers, stack, goflag, metadata, cancelled,
                   cleanup_mutex, history>>

\* The cleanup function runs without cleanup_mutex.
CleanupBeginUnlocked(t) ==
    /\ tpc[t] = "ran"
    /\ cleanup_mutex' = t
    /\ tpc' = [tpc EXCEPT ![t] = "cleanup"]
    /\ UNCHANGED <<pool, idx, callers, stack, goflag, metadata, cancelled,
                   history>>

-----------------------------------------------------------------------------
(* cthread_init() and the end of the pool                                   *)

\* pthread_create() starts the next thread, or fails.
Create ==
    /\ pool = "starting"
    /\ tpc' = [tpc EXCEPT ![idx] = "lock"]
    /\ idx' = idx + 1
    /\ pool' = IF idx + 1 = NThreads THEN "ready" ELSE "starting"
    /\ UNCHANGED <<callers, stack, goflag, metadata, cancelled, cleanup_mutex,
                   history>>

\* The threads started so far are cancelled, the last one first.
CreateFails ==
    /\ pool = "starting"
    /\ pool' = IF idx = 0 THEN "failed" ELSE "undoing"
    /\ idx' = IF idx = 0 THEN 0 ELSE idx - 1
    /\ UNCHANGED <<callers, stack, tpc, goflag, metadata, cancelled,
                   cleanup_mutex, history>>

\* pthread_cancel() of thread idx, then pthread_join().
Cancel ==
    /\ pool \in {"stopping", "undoing"} /\ idx \notin cancelled
    /\ cancelled' = cancelled \cup {idx}
    /\ UNCHANGED <<pool, idx, callers, stack, tpc, goflag, metadata,
                   cleanup_mutex, history>>

Join ==
    /\ pool \in {"stopping", "undoing"} /\ idx \in cancelled
    /\ tpc[idx] = "gone"
    /\ \/ /\ pool = "stopping"
          /\ pool' = IF idx + 1 = NThreads THEN "freed" ELSE pool
          /\ idx' = IF idx + 1 = NThreads THEN idx ELSE idx + 1
       \/ /\ pool = "undoing"
          /\ pool' = IF idx = 0 THEN "failed" ELSE pool
          /\ idx' = IF idx = 0 THEN idx ELSE idx - 1
    /\ UNCHANGED <<callers, stack, tpc, goflag, metadata, cancelled,
                   cleanup_mutex, history>>

-----------------------------------------------------------------------------
(* cthread_go()                                                             *)

GoBegin(c, j) ==
    /\ pool = "ready" /\ cpc[c] = "idle" /\ j \notin given
    /\ given' = given \cup {j}
    /\ arg' = [arg EXCEPT ![c] = j]
    /\ cpc' = [cpc EXCEPT ![c] = "go"]
    /\ UNCHANGED <<pool, idx, slot, stack, tpc, goflag, metadata, cancelled,
                   cleanup_mutex, cleaned>>

\* No thread is free: wait for newtask_cond.
GoWait(c) ==
    /\ cpc[c] = "go" /\ newcnt = 0
    /\ cpc' = [cpc EXCEPT ![c] = "go_asleep"]
    /\ UNCHANGED <<pool, idx, arg, slot, stack, tpc, goflag, metadata,
                   cancelled, cleanup_mutex, history>>

\* n = newbuf[--newcnt]
GoTake(c) ==
    /\ cpc[c] = "go" /\ newcnt > 0
    /\ newcnt' = newcnt - 1
    /\ slot' = [slot EXCEPT ![c] = newbuf[newcnt - 1]]
    /\ cpc' = [cpc EXCEPT ![c] = "init"]
    /\ UNCHANGED <<pool, idx, arg, newbuf, tpc, goflag, metadata, cancelled,
                   cleanup_mutex, history>>

\* (*gofunc)( cit->threads[n].metadata, arg)
GoInit(c) ==
    /\ cpc[c] = "init"
    /\ metadata' = [metadata EXCEPT ![slot[c]] = arg[c]]
    /\ cpc' = [cpc EXCEPT ![c] = "flag"]
    /\ UNCHANGED <<pool, idx, arg, slot, stack, tpc, goflag, cancelled,
                   cleanup_mutex, history>>

GoFlag(c) ==
    /\ cpc[c] = "flag"
    /\ goflag' = [goflag EXCEPT ![slot[c]] = TRUE]
    /\ cpc' = [cpc EXCEPT ![c] = "signal"]
    /\ UNCHANGED <<pool, idx, arg, slot, stack, tpc, metadata, cancelled,
                   cleanup_mutex, history>>

\* Thread n wakes up and tests goflag again.
GoSignal(c) ==
    /\ cpc[c] = "signal"
    /\ tpc' = [tpc EXCEPT ![slot[c]] = IF @ = "asleep" THEN "lock" ELSE @]
    /\ cpc' = [cpc EXCEPT ![c] = "idle"]
    /\ UNCHANGED <<pool, idx, arg, slot, stack, goflag, metadata, cancelled,
                   cleanup_mutex, history>>

-----------------------------------------------------------------------------
(* cthread_wait(), which a program calls once no other caller is in         *)
(* cthread_go() and after which nobody uses the pool                        *)

WaitBegin(c) ==
    /\ pool = "ready" /\ \A d \in Callers : cpc[d] = "idle"
    /\ pool' = "waiting"
    /\ cpc' = [cpc EXCEPT ![c] = "wait"]
    /\ UNCHANGED <<idx, arg, slot, stack, tpc, goflag, metadata, cancelled,
                   cleanup_mutex, history>>

WaitSleep(c) ==
    /\ cpc[c] = "wait" /\ newcnt < NThreads
    /\ cpc' = [cpc EXCEPT ![c] = "wait_asleep"]
    /\ UNCHANGED <<pool, idx, arg, slot, stack, tpc, goflag, metadata,
                   cancelled, cleanup_mutex, history>>

WaitEnd(c) ==
    /\ cpc[c] = "wait" /\ newcnt >= NThreads
    /\ pool' = "stopping" /\ idx' = 0
    /\ cpc' = [cpc EXCEPT ![c] = "idle"]
    /\ UNCHANGED <<arg, slot, stack, tpc, goflag, metadata, cancelled,
                   cleanup_mutex, history>>

-----------------------------------------------------------------------------
(* threadfunc()                                                             *)

\* Under gomutex: take the task, or wait; to wait is a cancellation point.
ThreadTake(t) ==
    /\ tpc[t] = "lock" /\ goflag[t]
    /\ goflag' = [goflag EXCEPT ![t] = FALSE]
    /\ tpc' = [tpc EXCEPT ![t] = "work"]
    /\ UNCHANGED <<pool, idx, callers, stack, metadata, cancelled,
                   cleanup_mutex, history>>

ThreadSleep(t) ==
    /\ tpc[t] = "lock" /\ ~ goflag[t] /\ t \notin cancelled
    /\ tpc' = [tpc EXCEPT ![t] = "asleep"]
    /\ UNCHANGED <<pool, idx, callers, stack, goflag, metadata, cancelled,
                   cleanup_mutex, history>>

ThreadCancelled(t) ==
    /\ t \in cancelled
    /\ tpc[t] = "asleep" \/ (tpc[t] = "lock" /\ ~ goflag[t])
    /\ tpc' = [tpc EXCEPT ![t] = "gone"]
    /\ UNCHANGED <<pool, idx, callers, stack, goflag, metadata, cancelled,
                   cleanup_mutex, history>>

\* (*i->workfunc)(c->metadata) returns.
Work(t) ==
    /\ tpc[t] = "work"
    /\ tpc' = [tpc EXCEPT ![t] = "ran"]
    /\ UNCHANGED <<pool, idx, callers, stack, goflag, metadata, cancelled,
                   cleanup_mutex, history>>

CleanupBegin(t) ==
    /\ tpc[t] = "ran" /\ cleanup_mutex = Nobody
    /\ cleanup_mutex' = t
    /\ tpc' = [tpc EXCEPT ![t] = "cleanup"]
    /\ UNCHANGED <<pool, idx, callers, stack, goflag, metadata, cancelled,
                   history>>

CleanupEnd(t) ==
    /\ tpc[t] = "cleanup"
    /\ cleanup_mutex' = Nobody
    /\ cleaned' = cleaned \cup {metadata[t]}
    /\ tpc' = [tpc EXCEPT ![t] = "put"]
    /\ UNCHANGED <<pool, idx, callers, stack, goflag, metadata, cancelled,
                   given>>

\* i->newbuf[i->newcnt++] = c->me
Put(t) ==
    /\ tpc[t] = "put"
    /\ newbuf' = [newbuf EXCEPT ![newcnt] = t]
    /\ newcnt' = newcnt + 1
    /\ tpc' = [tpc EXCEPT ![t] = "signal"]
    /\ UNCHANGED <<pool, idx, callers, goflag, metadata, cancelled,
                   cleanup_mutex, history>>

\* A sleeper of newtask_cond tests its condition again.
Awake(c) == cpc' = [cpc EXCEPT ![c] = IF @ = "go_asleep" THEN "go" ELSE "wait"]
Sleepers == {c \in Callers : cpc[c] \in {"go_asleep", "wait_asleep"}}

\* pthread_cond_signal(&i->newtask_cond) wakes one caller that waits, if any.
Signal(t) ==
    /\ tpc[t] = "signal"
    /\ tpc' = [tpc EXCEPT ![t] = "lock"]
    /\ \/ Sleepers = {} /\ UNCHANGED cpc
       \/ \E c \in Sleepers : Awake(c)
    /\ UNCHANGED <<pool, idx, arg, slot, stack, goflag, metadata, cancelled,
                   cleanup_mutex, history>>

-----------------------------------------------------------------------------
\* pthread_cond_wait() may return although nobody signalled.
SpuriousThread(t) ==
    /\ tpc[t] = "asleep" /\ t \notin cancelled
    /\ tpc' = [tpc EXCEPT ![t] = "lock"]
    /\ UNCHANGED <<pool, idx, callers, stack, goflag, metadata, cancelled,
                   cleanup_mutex, history>>

SpuriousCaller(c) ==
    /\ c \in Sleepers /\ Awake(c)
    /\ UNCHANGED <<pool, idx, arg, slot, stack, tpc, goflag, metadata,
                   cancelled, cleanup_mutex, history>>

Go(c) == \/ GoWait(c) \/ GoTake(c) \/ GoInit(c) \/ GoFlag(c) \/ GoSignal(c)
         \/ WaitSleep(c) \/ WaitEnd(c)

Run(t) == \/ ThreadTake(t) \/ ThreadSleep(t) \/ ThreadCancelled(t) \/ Work(t)
          \/ CleanupBegin(t) \/ CleanupEnd(t) \/ Put(t) \/ Signal(t)

Ending == pool \in {"freed", "failed"} /\ UNCHANGED vars

Next ==
    \/ Create \/ CreateFails \/ Cancel \/ Join
    \/ \E c \in Callers : \/ \E j \in Tasks : GoBegin(c, j)
                          \/ WaitBegin(c) \/ Go(c) \/ SpuriousCaller(c)
    \/ \E t \in Threads : Run(t) \/ SpuriousThread(t)
    \/ Ending

Spec == Init /\ [][Next]_vars

-----------------------------------------------------------------------------
(* Properties                                                               *)

Idle(t) == tpc[t] \in {"none", "lock", "asleep", "signal", "gone"}

\* Every variable holds a value of its kind; newcnt stays within newbuf.
TypeOK ==
    /\ pool \in {"starting", "ready", "waiting", "stopping", "undoing",
                 "freed", "failed"}
    /\ idx \in 0..NThreads
    /\ cpc \in [Callers -> {"idle", "go", "go_asleep", "init", "flag",
                            "signal", "wait", "wait_asleep"}]
    /\ arg \in [Callers -> Tasks \cup {Nobody}]
    /\ slot \in [Callers -> Threads]
    /\ newbuf \in [Threads -> Threads] /\ newcnt \in 0..NThreads
    /\ tpc \in [Threads -> {"none", "lock", "asleep", "work", "ran",
                            "cleanup", "put", "signal", "gone"}]
    /\ goflag \in [Threads -> BOOLEAN]
    /\ metadata \in [Threads -> Tasks \cup {Nobody}]
    /\ cancelled \subseteq Threads
    /\ cleanup_mutex \in Threads \cup {Nobody}
    /\ given \subseteq Tasks /\ cleaned \subseteq Tasks

\* cthread_go() never initialises the metadata of a thread that still has a
\* task: the task's work and cleanup functions see what it was given.
MetadataStable ==
    [][\A t \in Threads : metadata'[t] # metadata[t] => Idle(t) /\ ~ goflag[t]]_vars

\* cthread_wait(), and a cthread_init() that fails, cancel no thread that has
\* a task, and when the pool is freed no thread is left that could touch it.
CancelOnlyIdle ==
    /\ \A t \in cancelled : Idle(t) /\ ~ goflag[t]
    /\ pool \in {"freed", "failed"} =>
         \A t \in Threads : tpc[t] \in {"none", "gone"}

\* When cthread_wait() stops the threads, every task it was given is done.
WaitForAll == pool \in {"stopping", "freed"} => cleaned = given

\* The pool is one that does what the header promises.
Phase(j) ==
    IF \E t \in Threads : tpc[t] = "cleanup" /\ metadata[t] = j THEN "cleaning"
    ELSE IF \E t \in Threads : tpc[t] = "ran" /\ metadata[t] = j THEN "ran"
    ELSE IF \E t \in Threads : tpc[t] = "work" /\ metadata[t] = j THEN "running"
    ELSE IF \/ \E t \in Threads : goflag[t] /\ metadata[t] = j
            \/ \E c \in Callers : cpc[c] \in {"init", "flag"} /\ arg[c] = j
         THEN "queued"
    ELSE IF j \in cleaned THEN "finished" ELSE "new"

Promise == INSTANCE TaskPool WITH
    phase  <- [j \in Tasks |-> Phase(j)],
    closed <- pool \in {"stopping", "undoing", "freed", "failed"}

\* The pool implements TaskPool.
ImplementsTaskPool == Promise!Spec

\* Fairness: threads that can run do run, and the functions they are given
\* return.  Nothing makes a caller begin, and no wakeup is ever spurious.
Fairness ==
    /\ WF_vars(Create \/ CreateFails) /\ WF_vars(Cancel) /\ WF_vars(Join)
    /\ \A c \in Callers : WF_vars(Go(c))
    /\ \A t \in Threads : WF_vars(Run(t))
FairSpec == Spec /\ Fairness

\* No wakeup is lost: a task that is given is done, and cthread_wait() returns.
TasksDone  == \A j \in Tasks : j \in given ~> j \in cleaned
WaitReturns == pool = "waiting" ~> pool = "freed"

-----------------------------------------------------------------------------
(* The inductive invariant: a thread is free, held by one caller that       *)
(* prepares its task, flagged to run it, or running it.                     *)

Unused(t) == Idle(t) /\ ~ goflag[t]
Holds(c)  == cpc[c] \in {"init", "flag"}
Waits(c)  == cpc[c] \in {"wait", "wait_asleep"}

\* Threads on the stack are on it once, unused, and held by no caller.
StackInv ==
    \A i \in Threads : i < newcnt =>
        /\ Unused(newbuf[i])
        /\ \A k \in Threads : k < newcnt /\ newbuf[k] = newbuf[i] => k = i
        /\ \A c \in Callers : Holds(c) => slot[c] # newbuf[i]

\* A caller holds an unused thread that no other caller holds.
HolderInv ==
    \A c \in Callers : Holds(c) =>
        /\ Unused(slot[c])
        /\ \A d \in Callers : Holds(d) /\ slot[d] = slot[c] => d = c

FlagInv == \A t \in Threads : goflag[t] => Idle(t)

\* Outside of cthread_go() and cthread_wait() the stack is full.
PoolInv ==
    /\ pool \notin {"ready", "waiting"} =>
         newcnt = NThreads /\ \A c \in Callers : cpc[c] = "idle"
    /\ pool \in {"starting", "undoing", "failed"} => given = {} /\ cleaned = {}
    /\ pool = "ready" => \A c \in Callers : ~ Waits(c)
    /\ pool = "waiting" => \A c \in Callers : cpc[c] = "idle" \/ Waits(c)
    /\ \A c, d \in Callers : Waits(c) /\ Waits(d) => c = d
    /\ cancelled # {} => pool \in {"stopping", "undoing", "freed", "failed"}

\* How far the loops that start and stop the threads have come.
LoopInv ==
    /\ pool \in {"starting", "undoing", "stopping"} => idx < NThreads
    /\ pool = "starting" => \A t \in Threads : t >= idx => tpc[t] = "none"
    /\ pool = "undoing"  => \A t \in Threads : t > idx => tpc[t] \in {"none", "gone"}
    /\ pool = "stopping" => \A t \in Threads : t < idx => tpc[t] = "gone"
    /\ pool \in {"freed", "failed"} =>
         \A t \in Threads : tpc[t] \in {"none", "gone"}

\* A task that was given and is not done yet is somewhere on its way.
Brings(c)  == cpc[c] \in {"go", "go_asleep", "init", "flag"}
HasTask(t) == goflag[t] \/ tpc[t] \in {"work", "ran", "cleanup"}
Carried(j) ==
    \/ \E c \in Callers : Brings(c) /\ arg[c] = j
    \/ \E t \in Threads : HasTask(t) /\ metadata[t] = j

TaskInv ==
    /\ \A j \in given : j \in cleaned \/ Carried(j)
    /\ \A c \in Callers : Brings(c) => arg[c] \in given
    /\ \A c \in Callers : cpc[c] = "flag" => metadata[slot[c]] = arg[c]
    /\ \A t \in Threads : HasTask(t) => metadata[t] \in given
    /\ cleaned \subseteq given

IInv == /\ TypeOK /\ StackInv /\ HolderInv /\ FlagInv /\ PoolInv /\ LoopInv
        /\ TaskInv

\* A task is in one place at a time, and nowhere once it was cleaned up; who
\* cleans up has cleanup_mutex.
OnceInv ==
    /\ \A c, d \in Callers : Brings(c) /\ Brings(d) /\ arg[c] = arg[d] => c = d
    /\ \A t, u \in Threads :
         HasTask(t) /\ HasTask(u) /\ metadata[t] = metadata[u] => t = u
    /\ \A c \in Callers, t \in Threads :
         Brings(c) /\ HasTask(t) => arg[c] # metadata[t]
    /\ \A c \in Callers : Brings(c) => arg[c] \notin cleaned
    /\ \A t \in Threads : HasTask(t) => metadata[t] \notin cleaned
    /\ \A t \in Threads : tpc[t] = "cleanup" => cleanup_mutex = t
=============================================================================
