---------------------------- MODULE MaildirLock ----------------------------
(***************************************************************************)
(* The lock of a maildir: the dot lock tmp/courier.lock, made by           *)
(* ll_dotlock() of liblock/mail.c for maildir::watch::lock, the lock that  *)
(* imapd, maildirkw and sqwebmail take (maildir/maildirlock.C).            *)
(*                                                                         *)
(* The lock file says which process of which host made it.  A process that *)
(* finds one in its way removes it when it is stale: when its maker is a   *)
(* process of this host that is gone, or has the reader's own process id,  *)
(* or when its maker is on another host and the file is old.  Otherwise it *)
(* waits until inotify says that the file is gone.                         *)
(*                                                                         *)
(* There is no clock: the file becomes old, and a wait times out, at any   *)
(* time, within what Brief and Prompt say.                                 *)
(***************************************************************************)
EXTENDS Naturals, FiniteSets

CONSTANTS
    Procs,       \* process ids
    Host,        \* Host[p]: the host of process p
    Nobody,
    MaxCrashes,  \* bound on the number of processes that are killed, or end
                 \* when link() fails
    MaxLosses,   \* bound on the replies to link() a file server loses
    MaxExits,    \* bound on the processes that exit; new ones get their ids
    Brief,       \* whether a process that lives is done with its lock in time
    Prompt       \* whether who judges a lock file is done before another one
                 \* is made under its name

ASSUME LockAssumption ==
    /\ Nobody \notin Procs
    /\ DOMAIN Host = Procs
    /\ MaxCrashes \in Nat /\ MaxLosses \in Nat /\ MaxExits \in Nat
    /\ {Brief, Prompt} \subseteq BOOLEAN

VARIABLES
    file,     \* the process that made the lock file, or Nobody
    old,      \* whether the lock file is older than the timeout
    pc,       \* what each process does next; "off" when it has exited,
              \* "killed" when it was killed
    read,     \* what dotlock_exists() has read from the file it opened
    removed,  \* whether inotify has reported that the file was removed
    crashes,  \* history: number of processes killed or ended
    losses,   \* history: number of replies lost
    exits     \* history: number of processes that exited

faults == <<crashes, losses, exits>>
vars   == <<file, old, pc, read, removed, faults>>

Nothing == [maker |-> Nobody, old |-> FALSE]

Init ==
    /\ file = Nobody /\ old = FALSE
    /\ pc = [p \in Procs |-> "idle"]
    /\ read = [p \in Procs |-> Nothing]
    /\ removed = [p \in Procs |-> FALSE]
    /\ crashes = 0 /\ losses = 0 /\ exits = 0

\* unlink() of the lock file; those who watch the file hear of it.
Unlink ==
    /\ file' = Nobody /\ old' = FALSE
    /\ removed' = [q \in Procs |-> removed[q] \/ pc[q] = "watch"]

\* What dotlock_exists() makes of the file that it opened.
SameHost(p)  == Host[read[p].maker] = Host[p]
Ended        == {p \in Procs : pc[p] \in {"off", "killed"}}
Vanished(p)  == read[p].maker = p \/ read[p].maker \in Ended
\* A mistake that the properties must catch, and no part of the specification:
\* the lock files of other hosts are stale whatever their age.
StaleElsewhere(p) == SameHost(p) => Vanished(p)

Stale(p) == IF SameHost(p) THEN Vanished(p) ELSE read[p].old

\* The processes that have read the lock file, and may remove it.
Judging == {q \in Procs : pc[q] \in {"judge", "break"}}

-----------------------------------------------------------------------------
(* Faults that the properties must catch: each is the action of the same   *)
(* name with a mistake in it, and no part of the specification.            *)

\* Any lock that is in the way is taken for a stale one.
JudgeStale(p) ==
    /\ pc[p] = "judge"
    /\ pc' = [pc EXCEPT ![p] = "break"]
    /\ UNCHANGED <<file, old, read, removed, faults>>

\* A process does not ask whether the lock file says its own id.
JudgeOthers(p) ==
    /\ pc[p] = "judge"
    /\ pc' = [pc EXCEPT ![p] = IF Stale(p) /\ read[p].maker # p THEN "break"
                               ELSE "exists"]
    /\ UNCHANGED <<file, old, read, removed, faults>>

\* Nobody asks whether open() failed.
OpenUnchecked(p) ==
    /\ pc[p] = "open"
    /\ pc' = [pc EXCEPT ![p] = "judge"]
    /\ read' = [read EXCEPT ![p] = [maker |-> file, old |-> old]]
    /\ UNCHANGED <<file, old, removed, faults>>

-----------------------------------------------------------------------------
(* try_dotlock()                                                            *)

\* do_lock() makes the temporary file, which already says who we are.
Lock(p) ==
    /\ pc[p] = "idle"
    /\ pc' = [pc EXCEPT ![p] = "try"]
    /\ UNCHANGED <<file, old, read, removed, faults>>

\* The name is free: what others still judge is a file that is gone.  Nothing
\* makes them finish first, unless Prompt says that they are fast enough.
NameFree == file = Nobody /\ (Prompt => Judging = {})

Link(p) ==
    /\ pc[p] = "try" /\ NameFree
    /\ file' = p /\ old' = FALSE
    /\ pc' = [pc EXCEPT ![p] = "held"]
    /\ UNCHANGED <<read, removed, faults>>

LinkExists(p) ==
    /\ pc[p] = "try" /\ file # Nobody
    /\ pc' = [pc EXCEPT ![p] = "open"]
    /\ UNCHANGED <<file, old, read, removed, faults>>

\* The link is made, but the server answers the repeated request: EEXIST.
LinkReplyLost(p) ==
    /\ pc[p] = "try" /\ NameFree /\ losses < MaxLosses
    /\ losses' = losses + 1
    /\ file' = p /\ old' = FALSE
    /\ pc' = [pc EXCEPT ![p] = "open"]
    /\ UNCHANGED <<read, removed, crashes, exits>>

\* link() fails for another reason, or stat() of a link that was made does not
\* count two: EIO.  Nobody catches what the constructor of the lock throws, and
\* so the process ends, and may leave its lock file.
LinkFails(p) ==
    /\ pc[p] = "try" /\ crashes < MaxCrashes
    /\ crashes' = crashes + 1
    /\ pc' = [pc EXCEPT ![p] = "killed"]
    /\ \/ NameFree /\ file' = p /\ old' = FALSE
       \/ UNCHANGED <<file, old>>
    /\ UNCHANGED <<read, removed, losses, exits>>

-----------------------------------------------------------------------------
(* dotlock_exists()                                                         *)

Open(p) ==
    /\ pc[p] = "open"
    /\ \/ /\ file = Nobody
          /\ pc' = [pc EXCEPT ![p] = "exists"]
          /\ UNCHANGED read
       \/ /\ file # Nobody
          /\ pc' = [pc EXCEPT ![p] = "judge"]
          /\ read' = [read EXCEPT ![p] = [maker |-> file, old |-> old]]
    /\ UNCHANGED <<file, old, removed, faults>>

\* kill(p, 0) asks after the process now, whatever became of its lock.
Judge(p) ==
    /\ pc[p] = "judge"
    /\ pc' = [pc EXCEPT ![p] = IF Stale(p) THEN "break" ELSE "exists"]
    /\ UNCHANGED <<file, old, read, removed, faults>>

\* The file that has the name now is removed: EAGAIN.
Break(p) ==
    /\ pc[p] = "break"
    /\ \/ file # Nobody /\ Unlink /\ pc' = [pc EXCEPT ![p] = "sleep"]
       \/ /\ file = Nobody
          /\ pc' = [pc EXCEPT ![p] = "exists"]
          /\ UNCHANGED <<file, old, removed>>
    /\ UNCHANGED <<read, faults>>

-----------------------------------------------------------------------------
(* do_lock() tries again                                                    *)

\* EEXIST: watch the file, which may be gone already, or be another one.
Watch(p) ==
    /\ pc[p] = "exists"
    /\ pc' = [pc EXCEPT ![p] = IF file = Nobody THEN "try" ELSE "watch"]
    /\ UNCHANGED <<file, old, read, removed, faults>>

\* unlock() returns true, or times out.
WatchEnd(p) ==
    /\ pc[p] = "watch" /\ removed[p]
    /\ pc' = [pc EXCEPT ![p] = "try"]
    /\ removed' = [removed EXCEPT ![p] = FALSE]
    /\ UNCHANGED <<file, old, read, faults>>

WatchTimeout(p) ==
    /\ pc[p] = "watch" /\ ~ removed[p]
    /\ pc' = [pc EXCEPT ![p] = "try"]
    /\ UNCHANGED <<file, old, read, removed, faults>>

\* EAGAIN: five seconds, in which others that judge the same file can finish.
\* A process that comes now, or has watched the file, does not sleep.
Sleep(p) ==
    /\ pc[p] = "sleep"
    /\ pc' = [pc EXCEPT ![p] = "try"]
    /\ UNCHANGED <<file, old, read, removed, faults>>

\* The destructor removes the lock file, whoever made it.
Unlock(p) ==
    /\ pc[p] = "held"
    /\ pc' = [pc EXCEPT ![p] = "idle"]
    /\ \/ file # Nobody /\ Unlink
       \/ file = Nobody /\ UNCHANGED <<file, old, removed>>
    /\ UNCHANGED <<read, faults>>

-----------------------------------------------------------------------------
(* Environment                                                              *)

Age ==
    /\ file # Nobody /\ ~ old
    /\ Brief => file \in Ended
    /\ old' = TRUE
    /\ UNCHANGED <<file, pc, read, removed, faults>>

\* The id of a process that is killed does not come back: one that lived on
\* with the id of a killed holder would keep out all others of its host.
Crash(p) ==
    /\ p \notin Ended /\ crashes < MaxCrashes
    /\ pc' = [pc EXCEPT ![p] = "killed"]
    /\ removed' = [removed EXCEPT ![p] = FALSE]
    /\ crashes' = crashes + 1
    /\ UNCHANGED <<file, old, read, losses, exits>>

\* A process exits, and its id is given to a new one.
Exit(p) ==
    /\ pc[p] = "idle" /\ exits < MaxExits
    /\ pc' = [pc EXCEPT ![p] = "off"]
    /\ exits' = exits + 1
    /\ UNCHANGED <<file, old, read, removed, crashes, losses>>

Start(p) ==
    /\ pc[p] = "off"
    /\ pc' = [pc EXCEPT ![p] = "idle"]
    /\ UNCHANGED <<file, old, read, removed, faults>>

Attempt(p) == \/ Link(p) \/ LinkExists(p) \/ Open(p) \/ Judge(p) \/ Break(p)
              \/ Watch(p) \/ WatchEnd(p) \/ WatchTimeout(p) \/ Sleep(p)

Next ==
    \/ \E p \in Procs :
          \/ Lock(p) \/ Attempt(p) \/ LinkReplyLost(p) \/ LinkFails(p) \/ Unlock(p)
          \/ Crash(p) \/ Exit(p) \/ Start(p)
    \/ Age

Spec == Init /\ [][Next]_vars

-----------------------------------------------------------------------------
(* Properties                                                               *)

Holders == {p \in Procs : pc[p] = "held"}
Wanting == {p \in Procs : pc[p] \in {"try", "open", "judge", "break", "exists",
                                     "watch", "sleep"}}

\* Every variable holds a value of its kind, and who judges a lock file has
\* read its maker.
TypeOK ==
    /\ file \in Procs \cup {Nobody} /\ old \in BOOLEAN
    /\ pc \in [Procs -> {"off", "killed", "idle", "try", "open", "judge", "break",
                         "exists", "watch", "sleep", "held"}]
    /\ read \in [Procs -> [maker : Procs \cup {Nobody}, old : BOOLEAN]]
    /\ \A p \in Judging : read[p].maker # Nobody
    /\ removed \in [Procs -> BOOLEAN] /\ crashes \in 0..MaxCrashes
    /\ losses \in 0..MaxLosses /\ exits \in 0..MaxExits

\* One process at a time has the maildir locked, whatever lock files others that
\* were killed have left: while those that judge them are prompt.
MutualExclusion == \A p, q \in Holders : p = q

\* A lock stays where it is until its holder unlocks: nobody takes it for a
\* stale one, and no other destructor removes it.
HolderHasFile == \A p \in Holders : file = p

\* ll_dotlock() returns EAGAIN when it has removed a stale lock, one that was
\* "created on this machine, and the process no longer exists", or that is old.
BreaksOnlyStale ==
    [][\A p \in Procs : pc[p] = "break" /\ pc'[p] = "sleep" =>
         \/ file = p \/ file \in Ended
         \/ Host[file] # Host[p] /\ old]_vars

\* Fairness: every process is scheduled and unlocks in the end, waits time
\* out, and files get old.  Processes need not begin, exit or be killed.
Fairness == /\ WF_vars(Age)
            /\ \A p \in Procs : WF_vars(Attempt(p)) /\ WF_vars(Unlock(p))
FairSpec == Spec /\ Fairness

\* No lock file stays in the way for good, whoever was killed and whatever
\* was lost: as long as somebody wants the lock, somebody gets it.
SomebodyLocks == Wanting # {} ~> (Holders # {} \/ Wanting = {})

-----------------------------------------------------------------------------
(* The inductive invariants.                                               *)

\* Where no process ends, the only lock file that a process finds stale is its
\* own, which it has made but does not know of.
NobodyEnds == MaxCrashes = 0 /\ MaxExits = 0 /\ Brief

LockInv ==
    /\ TypeOK
    /\ HolderHasFile
    /\ ~ old /\ \A p \in Procs : p \notin Ended
    /\ \A p \in Judging : /\ ~ read[p].old
                          /\ read[p].maker = p => file = p
                          /\ pc[p] = "break" => read[p].maker = p

\* Where processes end, but those that judge a lock file are prompt, a file that
\* is there is the one that they have read, and one that is found stale stays so:
\* its maker was killed, and does not come back.
PromptInv ==
    /\ TypeOK
    /\ HolderHasFile
    /\ old => file \in Ended
    /\ \A p \in Procs :
         file = p => pc[p] \in {"held", "open", "judge", "break", "killed"}
    /\ \A p \in Judging : file # Nobody =>
         /\ read[p].maker = file
         /\ read[p].old => old
         /\ pc[p] = "break" => file = p \/ file \in Ended
=============================================================================
