------------------------------ MODULE TaskPool ------------------------------
(***************************************************************************)
(* What threadlib/havepthread.h promises of a pool of threads: every task  *)
(* that is given to it is worked on once, by one of NThreads threads, and  *)
(* is then cleaned up after by one thread at a time; cthread_wait() ends   *)
(* the pool when no task is left half done.                                *)
(***************************************************************************)
EXTENDS Naturals, FiniteSets

CONSTANTS Tasks, NThreads

VARIABLES phase, closed
vars == <<phase, closed>>

Phases == {"new", "queued", "running", "ran", "cleaning", "finished"}
Active == {j \in Tasks : phase[j] \notin {"new", "finished"}}

Init == phase = [j \in Tasks |-> "new"] /\ closed = FALSE

Advance(j, from, to) ==
    phase[j] = from /\ phase' = [phase EXCEPT ![j] = to] /\ UNCHANGED closed

Submit(j) ==
    /\ ~ closed /\ Cardinality(Active) < NThreads
    /\ Advance(j, "new", "queued")
Start(j)  == Advance(j, "queued", "running")
Finish(j) == Advance(j, "running", "ran")
Clean(j)  == /\ \A k \in Tasks : phase[k] # "cleaning"
             /\ Advance(j, "ran", "cleaning")
Done(j)   == Advance(j, "cleaning", "finished")
Close     == Active = {} /\ ~ closed /\ closed' = TRUE /\ UNCHANGED phase

Next == \/ \E j \in Tasks : \/ Submit(j) \/ Start(j) \/ Finish(j)
                            \/ Clean(j)  \/ Done(j)
        \/ Close

Spec == Init /\ [][Next]_vars
=============================================================================
