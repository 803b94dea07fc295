------------------------- MODULE MaildirLockProofs -------------------------
(***************************************************************************)
(* Proofs about the lock of a maildir, for any number of processes on any  *)
(* number of hosts: where none of them ends, and where they are killed and *)
(* exit at any time but those that judge a lock file are prompt.           *)
(***************************************************************************)
EXTENDS MaildirLock, TLAPS

-----------------------------------------------------------------------------
\* Every step keeps the types, whatever ends and however slow a process is.
LEMMA TypeStep == TypeOK /\ [Next]_vars => TypeOK'
<1> SUFFICES ASSUME TypeOK, [Next]_vars PROVE TypeOK'
  OBVIOUS
<1> USE LockAssumption DEF TypeOK, Judging, faults
<1>1. ASSUME NEW p \in Procs, Lock(p) \/ LinkExists(p) \/ Watch(p) \/ WatchEnd(p)
                              \/ WatchTimeout(p) \/ Sleep(p)
      PROVE  TypeOK'
  BY <1>1 DEF Lock, LinkExists, Watch, WatchEnd, WatchTimeout, Sleep
<1>2. ASSUME NEW p \in Procs, Link(p) \/ LinkReplyLost(p) PROVE TypeOK'
  <2>1. losses' \in 0..MaxLosses /\ crashes' = crashes /\ exits' = exits
    BY <1>2 DEF Link, LinkReplyLost
  <2>2. /\ file' = p /\ old' = FALSE /\ read' = read /\ removed' = removed
        /\ \E next \in {"held", "open"} : pc' = [pc EXCEPT ![p] = next]
    BY <1>2 DEF Link, LinkReplyLost
  <2> QED
    BY <2>1, <2>2
<1>3. ASSUME NEW p \in Procs, Open(p) PROVE TypeOK'
  BY <1>3 DEF Open
<1>4. ASSUME NEW p \in Procs, Judge(p) PROVE TypeOK'
  BY <1>4 DEF Judge
<1>5. ASSUME NEW p \in Procs, Break(p) \/ Unlock(p) PROVE TypeOK'
  BY <1>5 DEF Break, Unlock, Unlink
<1>6. ASSUME NEW p \in Procs, Crash(p) \/ Exit(p) \/ Start(p) \/ LinkFails(p)
      PROVE  TypeOK'
  <2>1. losses' = losses /\ crashes' \in 0..MaxCrashes /\ exits' \in 0..MaxExits
    BY <1>6 DEF Crash, Exit, Start, LinkFails
  <2>2. removed' \in [Procs -> BOOLEAN]
    BY <1>6 DEF Crash, Exit, Start, LinkFails
  <2>3. /\ file' \in Procs \cup {Nobody} /\ old' \in BOOLEAN /\ read' = read
        /\ \E next \in {"killed", "off", "idle"} : pc' = [pc EXCEPT ![p] = next]
    BY <1>6 DEF Crash, Exit, Start, LinkFails
  <2> QED
    BY <2>1, <2>2, <2>3
<1>7. CASE Age
  BY <1>7 DEF Age
<1>8. CASE UNCHANGED vars
  BY <1>8 DEF vars
<1> QED
  BY <1>1, <1>2, <1>3, <1>4, <1>5, <1>6, <1>7, <1>8 DEF Next, Attempt

LEMMA InitTypeOK == Init => TypeOK
<1> SUFFICES ASSUME Init PROVE TypeOK
  OBVIOUS
<1>1. read \in [Procs -> [maker : Procs \cup {Nobody}, old : BOOLEAN]]
  BY DEF Init, Nothing
<1>2. 0 \in 0..MaxCrashes /\ 0 \in 0..MaxLosses /\ 0 \in 0..MaxExits
  BY LockAssumption
<1>3. Judging = {}
  BY DEF Init, Judging
<1> QED
  BY <1>1, <1>2, <1>3 DEF Init, TypeOK

\* Every variable keeps its type, and who judges has read a maker.
THEOREM TypeCorrect == Spec => []TypeOK
  BY InitTypeOK, TypeStep, PTL DEF Spec

-----------------------------------------------------------------------------
(* No process ends.                                                        *)

\* Nothing is locked, opened or judged at first.
LEMMA InitLockInv == ASSUME NobodyEnds, Init PROVE LockInv
<1> USE LockAssumption DEF Init
<1>1. TypeOK
  BY InitTypeOK
<1>2. HolderHasFile /\ Judging = {} /\ ~ old /\ \A p \in Procs : p \notin Ended
  BY DEF HolderHasFile, Holders, Judging, Ended
<1> QED
  BY <1>1, <1>2 DEF LockInv

\* Where no process ends, a lock file is judged stale only by its own maker.
LEMMA StaleIsMine ==
  ASSUME NobodyEnds, LockInv, NEW p \in Procs, pc[p] = "judge", Stale(p)
  PROVE  read[p].maker = p
BY LockAssumption DEF Ended, LockInv, TypeOK, Stale, SameHost, Vanished, Judging

\* A process that takes no lock file away and does not become one that judges
\* or holds, leaves everything as the others know it.
LEMMA IdleFrame ==
  ASSUME LockInv, NEW p \in Procs,
         NEW next \in {"idle", "try", "open", "exists", "watch", "sleep"},
         pc' = [pc EXCEPT ![p] = next],
         file' = file, old' = old, read' = read, faults' = faults,
         removed' \in [Procs -> BOOLEAN]
  PROVE  LockInv'
<1> USE DEF Ended, LockInv, TypeOK, Judging, Holders, HolderHasFile, faults
<1>1. \A q \in Procs : q # p => pc'[q] = pc[q]
  OBVIOUS
<1>2. pc'[p] = next
  OBVIOUS
<1>3. TypeOK'
  BY <1>1, <1>2
<1> QED
  BY <1>1, <1>2, <1>3

\* The lock file is removed by its holder or by the maker that judged it, and
\* so by the only process that relied on it.
LEMMA UnlinkStep ==
  ASSUME LockInv, NEW p \in Procs,
         NEW next \in {"idle", "sleep"},
         file = p, Unlink, pc' = [pc EXCEPT ![p] = next],
         read' = read, faults' = faults
  PROVE  LockInv'
<1> USE DEF Ended, LockInv, TypeOK, Judging, Holders, HolderHasFile, Unlink, faults
<1>1. \A q \in Procs : q # p => pc'[q] = pc[q]
  OBVIOUS
<1>2. pc'[p] = next
  OBVIOUS
<1>3. TypeOK'
  BY <1>1, <1>2
<1> QED
  BY <1>1, <1>2, <1>3

\* A link that is made takes a name that nobody holds or judges as his own.
LEMMA LinkStep ==
  ASSUME LockInv, NEW p \in Procs, pc[p] = "try", file = Nobody,
         NEW next \in {"held", "open"},
         file' = p, old' = FALSE, pc' = [pc EXCEPT ![p] = next],
         read' = read, removed' = removed, crashes' = crashes,
         exits' = exits, losses' \in 0..MaxLosses
  PROVE  LockInv'
<1> USE LockAssumption DEF Ended, LockInv, TypeOK, Judging, Holders, HolderHasFile
<1>1. \A q \in Procs : q # p => pc'[q] = pc[q]
  OBVIOUS
<1>2. pc'[p] = next
  OBVIOUS
<1>3. TypeOK'
  BY <1>1, <1>2
<1> QED
  BY <1>1, <1>2, <1>3

\* Reading the maker of the lock file.
LEMMA OpenStep ==
  ASSUME LockInv, NEW p \in Procs, Open(p)
  PROVE  LockInv'
<1>1. CASE file = Nobody
  BY <1>1, IdleFrame DEF Open, LockInv, TypeOK, faults
<1>2. CASE file # Nobody
  <2> USE <1>2 DEF Ended, LockInv, TypeOK, Judging, Holders, HolderHasFile, Open, faults
  <2>1. \A q \in Procs : q # p => pc'[q] = pc[q] /\ read'[q] = read[q]
    OBVIOUS
  <2>2. pc'[p] = "judge" /\ read'[p] = [maker |-> file, old |-> old]
    OBVIOUS
  <2>3. TypeOK'
    BY <2>1, <2>2
  <2> QED
    BY <2>1, <2>2, <2>3
<1> QED
  BY <1>1, <1>2

\* Judging the file that was read.
LEMMA JudgeStep ==
  ASSUME NobodyEnds, LockInv, NEW p \in Procs, Judge(p)
  PROVE  LockInv'
<1>1. CASE Stale(p)
  <2>1. read[p].maker = p
    BY <1>1, StaleIsMine DEF Judge
  <2> USE <1>1 DEF Ended, LockInv, TypeOK, Judging, Holders, HolderHasFile, Judge, faults
  <2>2. \A q \in Procs : q # p => pc'[q] = pc[q]
    OBVIOUS
  <2>3. pc'[p] = "break"
    OBVIOUS
  <2>4. TypeOK'
    BY <2>2, <2>3
  <2> QED
    BY <2>1, <2>2, <2>3, <2>4
<1>2. CASE ~ Stale(p)
  BY <1>2, IdleFrame DEF Judge, LockInv, TypeOK, faults
<1> QED
  BY <1>1, <1>2

\* Every step keeps the invariant.
LEMMA NextLockInv == NobodyEnds /\ LockInv /\ [Next]_vars => LockInv'
<1> SUFFICES ASSUME NobodyEnds, LockInv, [Next]_vars PROVE LockInv'
  OBVIOUS
<1>1. ASSUME NEW p \in Procs, Lock(p) \/ LinkExists(p) \/ Watch(p) \/ WatchEnd(p)
                              \/ WatchTimeout(p) \/ Sleep(p)
      PROVE  LockInv'
  <2>1. removed' \in [Procs -> BOOLEAN]
    BY <1>1 DEF Lock, LinkExists, Watch, WatchEnd, WatchTimeout, Sleep, LockInv,
       TypeOK
  <2>2. /\ file' = file /\ old' = old /\ read' = read /\ faults' = faults
        /\ \E next \in {"try", "open", "watch"} : pc' = [pc EXCEPT ![p] = next]
    BY <1>1 DEF Lock, LinkExists, Watch, WatchEnd, WatchTimeout, Sleep
  <2> QED
    BY <2>1, <2>2, IdleFrame
<1>2. ASSUME NEW p \in Procs, Link(p) PROVE LockInv'
  BY <1>2, LinkStep DEF Link, NameFree, LockInv, TypeOK, faults
<1>3. ASSUME NEW p \in Procs, LinkReplyLost(p) PROVE LockInv'
  <2>1. losses' \in 0..MaxLosses
    BY <1>3, LockAssumption DEF LinkReplyLost, LockInv, TypeOK
  <2> QED
    BY <1>3, <2>1, LinkStep DEF LinkReplyLost, NameFree
<1>4. ASSUME NEW p \in Procs, Open(p) PROVE LockInv'
  BY <1>4, OpenStep
<1>5. ASSUME NEW p \in Procs, Judge(p) PROVE LockInv'
  BY <1>5, JudgeStep
<1>6. ASSUME NEW p \in Procs, Break(p) PROVE LockInv'
  <2>1. file = p
    BY <1>6 DEF Break, LockInv, Judging
  <2> QED
    BY <1>6, <2>1, UnlinkStep, LockAssumption DEF Break
<1>7. ASSUME NEW p \in Procs, Unlock(p) PROVE LockInv'
  <2>1. file = p
    BY <1>7 DEF Unlock, LockInv, HolderHasFile, Holders
  <2> QED
    BY <1>7, <2>1, UnlinkStep, LockAssumption DEF Unlock
<1>8. ASSUME Age PROVE LockInv'
  BY <1>8 DEF Age, NobodyEnds, Ended, LockInv, TypeOK
<1>9. ASSUME NEW p \in Procs, Crash(p) \/ Exit(p) \/ Start(p) \/ LinkFails(p)
      PROVE  LockInv'
  BY <1>9 DEF Crash, Exit, Start, LinkFails, NobodyEnds, Ended, LockInv, TypeOK
<1>10. CASE UNCHANGED vars
  BY <1>10 DEF vars, faults, Ended, LockInv, TypeOK, HolderHasFile, Holders, Judging
<1> QED
  BY <1>1, <1>2, <1>3, <1>4, <1>5, <1>6, <1>7, <1>8, <1>9, <1>10 DEF Next, Attempt

\* Where no process ends, the invariant holds throughout.
THEOREM LockInvariance == ASSUME NobodyEnds PROVE Spec => []LockInv
<1>1. Init => LockInv
  BY InitLockInv
<1>2. LockInv /\ [Next]_vars => LockInv'
  BY NextLockInv
<1> QED
  BY <1>1, <1>2, PTL DEF Spec

-----------------------------------------------------------------------------
(* Processes are killed and exit, and who judges is prompt.                *)

LEMMA InitPromptInv == Init => PromptInv
<1> SUFFICES ASSUME Init PROVE PromptInv
  OBVIOUS
<1>1. Judging = {} /\ Holders = {}
  BY DEF Init, Judging, Holders
<1> QED
  BY <1>1, InitTypeOK, LockAssumption DEF Init, PromptInv, HolderHasFile

\* What a process finds stale is its own lock or that of one that has ended.
LEMMA StaleIsDead ==
  ASSUME PromptInv, NEW p \in Procs, pc[p] = "judge", Stale(p), file # Nobody
  PROVE  file = p \/ file \in Ended
<1>1. read[p].maker = file /\ (read[p].old => old)
  BY DEF PromptInv, Judging
<1> QED
  BY <1>1 DEF Stale, Vanished, PromptInv

\* A process that does not make, remove, judge or hold a lock file changes
\* nothing that others rely on.
LEMMA PromptFrame ==
  ASSUME PromptInv, TypeOK', NEW p \in Procs, p \notin Ended, file # p,
         NEW next \in {"idle", "try", "open", "exists", "watch", "sleep", "off"},
         pc' = [pc EXCEPT ![p] = next], file' = file, old' = old, read' = read
  PROVE  PromptInv'
<1> USE DEF PromptInv, TypeOK, Judging, Holders, HolderHasFile, Ended
<1>1. \A q \in Procs : q # p => pc'[q] = pc[q]
  OBVIOUS
<1>2. pc'[p] = next
  OBVIOUS
<1> QED
  BY <1>1, <1>2

\* Once the lock file is gone nobody relies on it.
LEMMA PromptUnlink ==
  ASSUME PromptInv, TypeOK', NEW p \in Procs, NEW next \in {"idle", "sleep"},
         Unlink, \A h \in Holders : h = p, pc' = [pc EXCEPT ![p] = next],
         read' = read
  PROVE  PromptInv'
<1> USE LockAssumption DEF PromptInv, TypeOK, Unlink
<1>1. Holders' = {}
  BY DEF Holders
<1> QED
  BY <1>1 DEF HolderHasFile

\* A new lock file is made while nobody judges an earlier one.
LEMMA PromptLink ==
  ASSUME Prompt, PromptInv, TypeOK', NEW p \in Procs, pc[p] = "try", NameFree,
         NEW next \in {"held", "open"},
         file' = p, old' = FALSE, pc' = [pc EXCEPT ![p] = next], read' = read
  PROVE  PromptInv'
<1> USE LockAssumption DEF PromptInv, TypeOK, NameFree
<1>1. Judging' = {}
  BY DEF Judging
<1>2. Holders' \subseteq {p}
  BY DEF Holders, HolderHasFile
<1> QED
  BY <1>1, <1>2 DEF HolderHasFile

\* A process that ends because link() failed holds and judges nothing, and may
\* leave the lock file of one that has ended.
LEMMA PromptLinkFails ==
  ASSUME Prompt, PromptInv, TypeOK', NEW p \in Procs, LinkFails(p)
  PROVE  PromptInv'
<1>1. /\ pc[p] = "try" /\ pc' = [pc EXCEPT ![p] = "killed"] /\ read' = read
      /\ \A q \in Procs : q # p => pc'[q] = pc[q]
      /\ pc'[p] = "killed"
  BY DEF LinkFails, PromptInv, TypeOK
<1>2. Judging' = Judging /\ Holders' = Holders /\ Ended' = Ended \cup {p}
  BY <1>1 DEF Judging, Holders, Ended
<1>3. CASE UNCHANGED <<file, old>>
  BY <1>1, <1>2, <1>3 DEF PromptInv, HolderHasFile, Judging
<1>4. CASE NameFree /\ file' = p /\ old' = FALSE
  <2>1. Judging' = {} /\ Holders' = {}
    BY <1>2, <1>4, LockAssumption DEF NameFree, PromptInv, HolderHasFile, Holders
  <2> QED
    BY <1>1, <1>4, <2>1, LockAssumption DEF NameFree, PromptInv, HolderHasFile
<1> QED
  BY <1>3, <1>4 DEF LinkFails

\* A file that is opened is the one that is there.
LEMMA PromptOpen ==
  ASSUME PromptInv, TypeOK', NEW p \in Procs, Open(p)
  PROVE  PromptInv'
<1>1. CASE file = Nobody
  BY <1>1, PromptFrame, LockAssumption DEF Open, PromptInv, TypeOK, Ended
<1>2. CASE file # Nobody
  <2> USE <1>2 DEF PromptInv, TypeOK, Judging, Holders, HolderHasFile, Ended, Open
  <2>1. \A q \in Procs : q # p => pc'[q] = pc[q] /\ read'[q] = read[q]
    OBVIOUS
  <2>2. pc'[p] = "judge" /\ read'[p] = [maker |-> file, old |-> old]
    OBVIOUS
  <2> QED
    BY <2>1, <2>2
<1> QED
  BY <1>1, <1>2

\* A file that is found stale is the process's own or a dead one's, and its own
\* is always found so.
LEMMA PromptJudge ==
  ASSUME PromptInv, TypeOK', NEW p \in Procs, Judge(p)
  PROVE  PromptInv'
<1>1. CASE Stale(p)
  <2>1. file # Nobody => file = p \/ file \in Ended
    BY <1>1, StaleIsDead DEF Judge
  <2> USE <1>1 DEF PromptInv, TypeOK, Judging, Holders, HolderHasFile, Ended, Judge
  <2>2. \A q \in Procs : q # p => pc'[q] = pc[q]
    OBVIOUS
  <2>3. pc'[p] = "break" /\ read' = read /\ file' = file /\ old' = old
    OBVIOUS
  <2> QED
    BY <2>1, <2>2, <2>3
<1>2. CASE ~ Stale(p)
  <2>1. file # p
    BY <1>2, LockAssumption DEF PromptInv, Judging, Judge, Stale, SameHost, Vanished
  <2> QED
    BY <1>2, <2>1, PromptFrame DEF Judge, Ended, PromptInv, TypeOK
<1> QED
  BY <1>1, <1>2

\* A process that is killed leaves its lock file, which others find stale.
LEMMA PromptCrash ==
  ASSUME PromptInv, TypeOK', NEW p \in Procs, Crash(p)
  PROVE  PromptInv'
<1> USE DEF PromptInv, TypeOK, Judging, Holders, HolderHasFile, Ended, Crash
<1>1. \A q \in Procs : q # p => pc'[q] = pc[q]
  OBVIOUS
<1>2. pc'[p] = "killed" /\ file' = file /\ old' = old /\ read' = read
  OBVIOUS
<1> QED
  BY <1>1, <1>2

\* A process that starts with an id that was used before has left no lock file.
LEMMA PromptStart ==
  ASSUME PromptInv, TypeOK', NEW p \in Procs, Start(p)
  PROVE  PromptInv'
<1> USE DEF PromptInv, TypeOK, Judging, Holders, HolderHasFile, Ended, Start
<1>1. \A q \in Procs : q # p => pc'[q] = pc[q]
  OBVIOUS
<1>2. pc'[p] = "idle" /\ file # p /\ file' = file /\ old' = old /\ read' = read
  OBVIOUS
<1> QED
  BY <1>1, <1>2

\* Every step keeps the invariant.
LEMMA NextPromptInv == Prompt /\ Brief /\ PromptInv /\ [Next]_vars => PromptInv'
<1> SUFFICES ASSUME Prompt, Brief, PromptInv, [Next]_vars PROVE PromptInv'
  OBVIOUS
<1>0. TypeOK'
  BY TypeStep DEF PromptInv
<1>1. ASSUME NEW p \in Procs, Lock(p) \/ LinkExists(p) \/ Watch(p) \/ WatchEnd(p)
                              \/ WatchTimeout(p) \/ Sleep(p) \/ Exit(p)
      PROVE  PromptInv'
  <2>1. /\ file' = file /\ old' = old /\ read' = read
        /\ pc[p] \in {"idle", "try", "exists", "watch", "sleep"}
        /\ \E next \in {"try", "open", "watch", "off"} : pc' = [pc EXCEPT ![p] = next]
    BY <1>1 DEF Lock, LinkExists, Watch, WatchEnd, WatchTimeout, Sleep, Exit
  <2>2. p \notin Ended /\ file # p
    BY <2>1 DEF Ended, PromptInv
  <2> QED
    BY <1>0, <2>1, <2>2, PromptFrame
<1>2. ASSUME NEW p \in Procs, Link(p) \/ LinkReplyLost(p) PROVE PromptInv'
  BY <1>0, <1>2, PromptLink DEF Link, LinkReplyLost
<1>3. ASSUME NEW p \in Procs, Open(p) PROVE PromptInv'
  BY <1>0, <1>3, PromptOpen
<1>4. ASSUME NEW p \in Procs, Judge(p) PROVE PromptInv'
  BY <1>0, <1>4, PromptJudge
<1>5. ASSUME NEW p \in Procs, Break(p) PROVE PromptInv'
  <2>1. CASE file = Nobody
    BY <1>0, <1>5, <2>1, PromptFrame, LockAssumption DEF Break, Ended, Unlink
  <2>2. CASE file # Nobody
    <3>1. Unlink /\ pc' = [pc EXCEPT ![p] = "sleep"] /\ read' = read
      BY <1>5, <2>2 DEF Break
    <3>2. file = p \/ file \in Ended
      BY <1>5, <2>2 DEF Break, PromptInv, Judging
    <3>3. \A h \in Holders : h = p
      BY <3>2 DEF PromptInv, HolderHasFile, Holders, Ended
    <3> QED
      BY <1>0, <3>1, <3>3, PromptUnlink
  <2> QED
    BY <2>1, <2>2
<1>6. ASSUME NEW p \in Procs, Unlock(p) PROVE PromptInv'
  <2>1. file = p /\ \A h \in Holders : h = p
    BY <1>6 DEF Unlock, PromptInv, HolderHasFile, Holders
  <2> QED
    BY <1>0, <1>6, <2>1, PromptUnlink, LockAssumption DEF Unlock
<1>7. CASE Age
  BY <1>0, <1>7 DEF Age, PromptInv, HolderHasFile, Holders, Judging, Ended
<1>8. ASSUME NEW p \in Procs, Crash(p) \/ LinkFails(p) PROVE PromptInv'
  <2>1. CASE Crash(p)
    BY <1>0, <2>1, PromptCrash
  <2>2. CASE LinkFails(p)
    BY <1>0, <2>2, PromptLinkFails
  <2> QED
    BY <1>8, <2>1, <2>2
<1>9. ASSUME NEW p \in Procs, Start(p) PROVE PromptInv'
  BY <1>0, <1>9, PromptStart
<1>10. CASE UNCHANGED vars
  BY <1>0, <1>10 DEF vars, PromptInv, HolderHasFile, Holders, Judging, Ended
<1> QED
  BY <1>1, <1>2, <1>3, <1>4, <1>5, <1>6, <1>7, <1>8, <1>9, <1>10 DEF Next, Attempt

\* Where who judges is prompt, the invariant holds throughout, whoever is killed.
THEOREM PromptInvariance == ASSUME Prompt, Brief PROVE Spec => []PromptInv
<1>1. Init => PromptInv
  BY InitPromptInv
<1>2. PromptInv /\ [Next]_vars => PromptInv'
  BY NextPromptInv
<1> QED
  BY <1>1, <1>2, PTL DEF Spec

-----------------------------------------------------------------------------
(* What the lock promises, in either case.                                 *)

\* A lock file is never taken from its holder ...
THEOREM HoldersKeepTheirFile ==
  ASSUME NobodyEnds \/ (Prompt /\ Brief) PROVE Spec => []HolderHasFile
<1>1. LockInv => HolderHasFile
  BY DEF LockInv
<1>2. PromptInv => HolderHasFile
  BY DEF PromptInv
<1>3. CASE NobodyEnds
  BY <1>1, <1>3, LockInvariance, PTL
<1>4. CASE Prompt /\ Brief
  BY <1>2, <1>4, PromptInvariance, PTL
<1> QED
  BY <1>3, <1>4

\* ... and at most one process at a time has the maildir locked ...
THEOREM Exclusion ==
  ASSUME NobodyEnds \/ (Prompt /\ Brief) PROVE Spec => []MutualExclusion
<1>1. HolderHasFile => MutualExclusion
  BY DEF HolderHasFile, MutualExclusion
<1> QED
  BY <1>1, HoldersKeepTheirFile, PTL
=============================================================================
