---------------------------- MODULE MaildirQuota ----------------------------
(***************************************************************************)
(* The file maildirsize of a maildir with a quota (maildir/maildirquota.C): *)
(* its first line is the quota, and every delivery and removal appends a    *)
(* line with what it adds.  The sum of the lines is compared with the       *)
(* quota.  No lock is taken: a process that finds the sum over the quota,   *)
(* or the file too long, or the sum below zero, counts the messages itself  *)
(* and renames a new file of one line over the old one.  It compares the    *)
(* time stamps of the directories before and after, to see whether anybody  *)
(* came in between.                                                         *)
(*                                                                         *)
(* A task is the delivery or the removal of one message, and a process of   *)
(* its own.  The orders in which the programs change the maildir and append *)
(* their line differ:                                                       *)
(*   after    deliverquota of a message whose size is known, COPY: check,   *)
(*            move the message to new, append                               *)
(*   before   maildrop, APPEND: check, append, move the message to new      *)
(*   expunge  EXPUNGE, POP3 QUIT, maildirpurge: remove, check, append       *)
(*   trash    EXPUNGE to Trash, STORE \Deleted: check, append, move         *)
(* Every message has the size one; maildirsize counts bytes and messages    *)
(* alike.                                                                   *)
(***************************************************************************)
EXTENDS Integers, FiniteSets, FiniteSetsExt, Functions, Sequences

CONSTANTS
    Msgs,        \* the messages
    Quota,       \* how many of them the maildir may have
    MaxLines,    \* with so many lines the 5120 bytes of the buffer are full
    MaxTries,    \* the counts of one delivery: 5 in maildir_quota_add_start()
    Kinds,       \* the orders that the run has
    SameSecond,  \* whether two changes may get the same time stamp
    MaxFaults,   \* bound: processes killed, and calls that fail
    MaxUnseen    \* bound: removals by clients that know nothing of quotas

ASSUME QuotaAssumption ==
    /\ IsFiniteSet(Msgs)
    /\ Quota \in Nat \ {0}
    /\ MaxLines \in Nat /\ MaxLines > 1
    /\ MaxTries \in Nat \ {0}
    /\ SameSecond \in BOOLEAN
    /\ MaxFaults \in Nat
    /\ MaxUnseen \in Nat

Dirs == <<"new", "cur">>    \* in the order in which they are counted
Tasks == Msgs \X {"in", "out"}
Deliveries == {"after", "before"}
Removals == {"expunge", "trash"}

VARIABLES
    place,   \* where each message is
    stamp,   \* the time of the last change of each directory, as a rank
    calm,    \* whether every change so far had a second of its own
    file,    \* maildirsize: the sum of its lines, their number, and whether
             \* it was changed in the last 15 minutes
    task,    \* the process of each task
    faults,  \* how many processes were killed and calls failed
    unseen   \* how many messages were removed without a line

vars == <<place, stamp, calm, file, task, faults, unseen>>

\* struct maildirsize and the local variables of docheckquota().  fd: the
\* file that the process has open, and whether another has taken its name
Idle == [pc |-> "idle", kind |-> "none", fd |-> "none", dir |-> 0,
         maxtime |-> 0, sum |-> 0, tries |-> 0, seen |-> 0]

Init ==
    /\ place = [m \in Msgs |-> "none"]
    /\ stamp = [d \in Range(Dirs) |-> 0]
    /\ calm = TRUE
    /\ file = [sum |-> 0, lines |-> 1, young |-> TRUE]
    /\ task = [t \in Tasks |-> Idle]
    /\ faults = 0
    /\ unseen = 0

--------------------------------------------------------------------------
Latest == Max(Range(stamp))
In(d) == {m \in Msgs : place[m] = d}
Usage == Cardinality(In("new") \cup In("cur"))
Delta(t) == IF t[2] = "in" THEN 1 ELSE -1
UnderQuota(sum, t) == sum + Delta(t) <= Quota

\* the directories of D change
Touch(D) ==
    \E tm \in {Latest + 1} \cup (IF SameSecond THEN {Latest} ELSE {}) :
        /\ stamp' = [d \in DOMAIN stamp |-> IF d \in D THEN tm ELSE stamp[d]]
        /\ calm' = (calm /\ tm > Latest)

SetTask(t, p) == task' = [task EXCEPT ![t] = p]

\* the process after maildir_quota_add_start() has let the delivery go on, and
\* after maildir_quota_deleted() has its answer, which it does not look at
Go(p) == [Idle EXCEPT !.pc = IF p.kind = "after" THEN "move" ELSE "append",
                      !.kind = p.kind, !.fd = p.fd]

\* the process after it was told that the quota is exceeded, or that the count
\* failed: the message stays with the sender, who tries again
Refused(p) == IF p.kind \in Removals THEN Go(p) ELSE Idle

Count(p) == [p EXCEPT !.pc = "stat", !.dir = 1, !.maxtime = 0, !.sum = 0]

\* whether the lines cannot be summed up, or make no sense
RecalculationNeeded == file.lines = MaxLines \/ file.sum < 0

\* Fault: a total of one line is trusted however old it is
FreshForever == file.lines = 1

\* Over quota: whether the total is trusted, as one line of the last 15 minutes
Fresh == file.lines = 1 /\ file.young

\* The process after open() of maildirsize.
Open(kind) == [Idle EXCEPT !.pc = "opened", !.kind = kind, !.fd = "current"]

\* A call fails.
Fails ==
    /\ faults < MaxFaults
    /\ faults' = faults + 1

Deliver(t) ==
    /\ t[2] = "in"
    /\ task[t].pc = "idle"
    /\ place[t[1]] = "none"
    /\ \E kind \in Kinds \cap Deliveries : SetTask(t, Open(kind))
    /\ UNCHANGED <<place, stamp, calm, file, faults, unseen>>

\* EXPUNGE removes the file, and then looks for the quota
Unlink(t) ==
    /\ t[2] = "out"
    /\ "expunge" \in Kinds
    /\ task[t].pc = "idle"
    /\ place[t[1]] = "cur"
    /\ place' = [place EXCEPT ![t[1]] = "gone"]
    /\ Touch({"cur"})
    /\ SetTask(t, [Idle EXCEPT !.pc = "deleted", !.kind = "expunge"])
    /\ UNCHANGED <<file, faults, unseen>>

Deleted(t) ==
    /\ \/ /\ task[t].pc = "deleted"
          /\ SetTask(t, Open("expunge"))
       \/ /\ t[2] = "out"
          /\ "trash" \in Kinds
          /\ task[t].pc = "idle"
          /\ place[t[1]] = "cur"
          /\ SetTask(t, Open("trash"))
    /\ UNCHANGED <<place, stamp, calm, file, faults, unseen>>

\* lstat() finds the file that was opened; it is read, and its sum is checked.
\* A file that is replaced between the two is read as it was before.
Check(t) ==
    LET p == task[t]
    IN /\ p.pc = "opened"
       /\ p.fd = "current"
       /\ \/ /\ ~RecalculationNeeded
             /\ UnderQuota(file.sum, t)
             /\ SetTask(t, Go(p))
          \/ /\ ~RecalculationNeeded
             /\ ~UnderQuota(file.sum, t)
             /\ Fresh
             /\ SetTask(t, Refused(p))
          \/ /\ RecalculationNeeded \/ (~UnderQuota(file.sum, t) /\ ~Fresh)
             /\ SetTask(t, Count(p))
       /\ UNCHANGED <<place, stamp, calm, file, faults, unseen>>

\* lstat() finds another file, by which a recount has replaced the one that was
\* opened, or the file cannot be read: as if there were no quota, nothing is
\* checked, and no line is written.
NoQuota(t) ==
    LET p == task[t]
    IN /\ p.pc = "opened"
       /\ IF p.fd = "current" THEN Fails ELSE UNCHANGED faults
       /\ SetTask(t, Go([p EXCEPT !.fd = "none"]))
       /\ UNCHANGED <<place, stamp, calm, file, unseen>>

--------------------------------------------------------------------------
(* The recalculation *)

\* docount(): the time stamp first, and then the files
Stat(t) ==
    LET p == task[t]
        tm == stamp[Dirs[p.dir]]
    IN /\ p.pc = "stat"
       /\ SetTask(t, [p EXCEPT !.pc = "read", !.maxtime = Max({@, tm}),
                               !.seen = IF p.dir = 1 THEN tm ELSE @])
       /\ UNCHANGED <<place, stamp, calm, file, faults, unseen>>

Read(t) ==
    LET p == task[t]
        sum == p.sum + Cardinality(In(Dirs[p.dir]))
    IN /\ p.pc = "read"
       /\ SetTask(t, IF p.dir < Len(Dirs)
                     THEN [p EXCEPT !.pc = "stat", !.sum = sum, !.dir = @ + 1]
                     ELSE [p EXCEPT !.pc = "rename", !.sum = sum, !.dir = 0])
       /\ UNCHANGED <<place, stamp, calm, file, faults, unseen>>

\* the new file takes the name: what others have open is no longer maildirsize
Rename(t) ==
    /\ task[t].pc = "rename"
    /\ file' = [sum |-> task[t].sum, lines |-> 1, young |-> TRUE]
    /\ task' = [u \in Tasks |->
                  IF u = t THEN [task[u] EXCEPT !.pc = "restat", !.fd = "current"]
                  ELSE IF task[u].fd = "current" THEN [task[u] EXCEPT !.fd = "replaced"]
                  ELSE task[u]]
    /\ UNCHANGED <<place, stamp, calm, faults, unseen>>

\* the new file cannot be written: EIO
CountFails(t) ==
    /\ task[t].pc = "rename"
    /\ Fails
    /\ SetTask(t, Refused(task[t]))
    /\ UNCHANGED <<place, stamp, calm, file, unseen>>

\* Fault: only a clock that went back is taken for a change
DisturbedBack(p) == Latest < p.maxtime

Disturbed(p) == Latest # p.maxtime

\* The directories are looked at again.  Both stat() are one step: a change
\* between the two is seen as one before or as one after them
Accept(t) ==
    LET p == task[t]
    IN /\ p.pc = "restat"
       /\ ~Disturbed(p)
       /\ SetTask(t, IF UnderQuota(p.sum, t) THEN Go(p) ELSE Refused(p))
       /\ UNCHANGED <<place, stamp, calm, file, faults, unseen>>

\* Fault: the tries are not counted
CountAgainForever(t) ==
    LET p == task[t]
    IN /\ p.pc = "restat"
       /\ Disturbed(p)
       /\ SetTask(t, IF p.kind \in Removals THEN Go(p)
                     ELSE Count([p EXCEPT !.tries = @ + 1]))
       /\ UNCHANGED <<place, stamp, calm, file, faults, unseen>>

\* EAGAIN: a delivery counts again, a removal goes on
CountAgain(t) ==
    LET p == task[t]
    IN /\ p.pc = "restat"
       /\ Disturbed(p)
       /\ p.kind \in Removals \/ p.tries + 1 < MaxTries
       /\ SetTask(t, IF p.kind \in Removals THEN Go(p)
                     ELSE Count([p EXCEPT !.tries = @ + 1]))
       /\ UNCHANGED <<place, stamp, calm, file, faults, unseen>>

\* the last EAGAIN: the message is delivered, and nothing is recorded
Punt(t) ==
    LET p == task[t]
    IN /\ p.pc = "restat"
       /\ Disturbed(p)
       /\ p.kind \in Deliveries /\ p.tries + 1 = MaxTries
       /\ SetTask(t, Go([p EXCEPT !.fd = "none"]))
       /\ UNCHANGED <<place, stamp, calm, file, faults, unseen>>

--------------------------------------------------------------------------
(* The message and its line *)

Move(t) ==
    LET p == task[t]
        m == t[1]
    IN /\ p.pc = "move"
       /\ \/ /\ p.kind \in Deliveries
             /\ place' = [place EXCEPT ![m] = "new"]
             /\ Touch({"new"})
          \/ /\ p.kind = "trash"
             /\ place' = [place EXCEPT ![m] = "gone"]
             /\ Touch({"cur"})
       /\ SetTask(t, IF p.kind = "after" THEN [p EXCEPT !.pc = "append"] ELSE Idle)
       /\ UNCHANGED <<file, faults, unseen>>

\* Fault: the line is written by the name of the file
AddQuotaByName(t) ==
    LET p == task[t]
    IN /\ p.pc = "append"
       /\ file' = [sum |-> file.sum + Delta(t),
                   lines |-> Min({file.lines + 1, MaxLines}), young |-> TRUE]
       /\ SetTask(t, IF p.kind \in {"before", "trash"}
                     THEN [p EXCEPT !.pc = "move", !.fd = "none"] ELSE Idle)
       /\ UNCHANGED <<place, stamp, calm, faults, unseen>>

\* the process after maildir_closequotafile()
Closed(p) == IF p.kind \in {"before", "trash"}
             THEN [p EXCEPT !.pc = "move", !.fd = "none"] ELSE Idle

\* maildir_addquota(): a line that goes to a file which is no longer maildirsize
\* is lost
AddQuota(t) ==
    LET p == task[t]
    IN /\ p.pc = "append"
       /\ file' = IF p.fd = "current"
                  THEN [sum |-> file.sum + Delta(t),
                        lines |-> Min({file.lines + 1, MaxLines}), young |-> TRUE]
                  ELSE file
       /\ SetTask(t, Closed(p))
       /\ UNCHANGED <<place, stamp, calm, faults, unseen>>

\* write() fails, and nobody asks whether it did
AppendFails(t) ==
    /\ task[t].pc = "append"
    /\ task[t].fd = "current"
    /\ Fails
    /\ SetTask(t, Closed(task[t]))
    /\ UNCHANGED <<place, stamp, calm, file, unseen>>

--------------------------------------------------------------------------
(* The others *)

\* an IMAP or POP3 client opens the maildir, and new messages move to cur
Seen(m) ==
    /\ place[m] = "new"
    /\ place' = [place EXCEPT ![m] = "cur"]
    /\ Touch({"new", "cur"})
    /\ UNCHANGED <<file, task, faults, unseen>>

\* a client that knows nothing of maildirsize removes a message
RemovedUnseen(m) ==
    /\ place[m] = "cur"
    /\ task[<<m, "out">>].pc = "idle"
    /\ unseen < MaxUnseen
    /\ unseen' = unseen + 1
    /\ place' = [place EXCEPT ![m] = "gone"]
    /\ Touch({"cur"})
    /\ UNCHANGED <<file, task, faults>>

\* 15 minutes pass
Age ==
    /\ file.young
    /\ file' = [file EXCEPT !.young = FALSE]
    /\ UNCHANGED <<place, stamp, calm, task, faults, unseen>>

\* a process is killed
Crash(t) ==
    /\ task[t].pc # "idle"
    /\ Fails
    /\ SetTask(t, Idle)
    /\ UNCHANGED <<place, stamp, calm, file, unseen>>

--------------------------------------------------------------------------
Step(t) ==
    \/ Deleted(t) \/ Check(t) \/ NoQuota(t) \/ Stat(t) \/ Read(t) \/ Rename(t) \/ CountFails(t)
    \/ Accept(t) \/ CountAgain(t) \/ Punt(t) \/ Move(t) \/ AddQuota(t)
    \/ AppendFails(t)

Next ==
    \/ \E t \in Tasks : Deliver(t) \/ Unlink(t) \/ Step(t) \/ Crash(t)
    \/ \E m \in Msgs : Seen(m) \/ RemovedUnseen(m)
    \/ Age

Spec == Init /\ [][Next]_vars

\* Each process is scheduled, the sender of a refused message tries again, and
\* time goes on
FairSpec ==
    /\ Spec
    /\ \A t \in Tasks : WF_vars(Deliver(t)) /\ WF_vars(task[t].pc # "idle" /\ Step(t))
    /\ WF_vars(Age)

--------------------------------------------------------------------------
(* Properties *)

Pcs == {"idle", "deleted", "opened", "stat", "read", "rename", "restat", "move", "append"}

Process ==
    [pc : Pcs, kind : Deliveries \cup Removals \cup {"none"},
     fd : {"none", "current", "replaced"}, dir : 0..Len(Dirs), maxtime : Nat,
     sum : Nat, tries : 0..(MaxTries - 1), seen : Nat]

\* A task that works on a message has its kind and its file; it counts a
\* directory that exists, never more than MaxTries times, and no more messages
\* than are in the directories it has counted.
TypeOK ==
    /\ place \in [Msgs -> {"none", "new", "cur", "gone"}]
    /\ stamp \in [Range(Dirs) -> Nat]
    /\ calm \in BOOLEAN
    /\ file \in [sum : Int, lines : 1..MaxLines, young : BOOLEAN]
    /\ task \in [Tasks -> Process]
    /\ \A t \in Tasks :
        LET p == task[t]
        IN /\ p.pc = "idle" => p = Idle
           /\ p.pc # "idle" => p.kind \in IF t[2] = "in" THEN Deliveries ELSE Removals
           /\ (p.dir # 0) <=> (p.pc \in {"stat", "read"})
           /\ p.dir = 1 => p.sum = 0
           /\ p.dir = 2 => p.sum <= Cardinality(Msgs)
           /\ p.sum <= Len(Dirs) * Cardinality(Msgs)
    /\ faults \in 0..MaxFaults
    /\ unseen \in 0..MaxUnseen

\* maildirquota.C:517, README.maildirquota.html:379: the second look at the
\* directories tells whether somebody changed something.  A count that is
\* accepted is the number of messages there are at that time, provided no two
\* changes share a second, and that the directory that was counted first has
\* not changed: its time stamp is not compared on its own, and a later one of
\* the other directory hides it.
CountsExact ==
    [][\A t \in Tasks :
         (Accept(t) /\ calm /\ stamp[Dirs[1]] = task[t].seen) => task[t].sum = Usage]_vars

\* whether t is going to write its line to maildirsize, if it goes on
Unwritten(t) ==
    LET p == task[t]
    IN \/ p.pc = "deleted"
       \/ p.fd = "current" /\ (p.kind \in Removals \/ p.pc \in {"move", "append"})

\* whether t is going to change the maildir, if it goes on
Unmoved(t) ==
    LET p == task[t]
    IN \/ p.kind = "trash"
       \/ p.kind = "after" /\ p.pc = "move"
       \/ p.kind = "before" /\ p.pc \in {"append", "move"}

\* what the tasks in T add
Net(T) == Cardinality({t \in T : t[2] = "in"}) - Cardinality({t \in T : t[2] = "out"})

\* by how much maildirsize is wrong, once the tasks under way have ended
Drift ==
    file.sum - Usage + Net({t \in Tasks : Unwritten(t)}) - Net({t \in Tasks : Unmoved(t)})

\* The lines and the messages are changed by each program in its own order, and
\* by many at once: the total is thrown off only by a recount, which makes others
\* write to the file it replaced or take it for no quota, by a delivery or a
\* removal that goes on without the current file, by a process that dies, whose
\* read(), write() or rename() of the file fails, and by a client that keeps no
\* lines.
DriftOnlyFromRaces ==
    [][Drift' # Drift =>
         \/ \E t \in Tasks : Rename(t) \/ NoQuota(t) \/ Punt(t)
         \/ \E t \in Tasks : CountFails(t) \/ AppendFails(t) \/ Crash(t)
         \/ \E t \in Tasks : Accept(t) /\ task[t].fd # "current"
         \/ \E m \in Msgs : RemovedUnseen(m)]_vars

\* README.maildirquota.html:88 and 428: whatever threw off the total, it is
\* counted again, and mail delivery resumes.  No message waits for ever while
\* there is room for it.
DeliveryResumes ==
    \A m \in Msgs : []<>(place[m] # "none" \/ Usage >= Quota)

--------------------------------------------------------------------------
(* The inductive invariant.                                                *)

\* A message is where the process of its task is going to find it, and a
\* process that writes its line first has no file any more when it moves it.
PlaceInv ==
    \A t \in Tasks :
        LET p == task[t]
            m == t[1]
        IN /\ p.kind \in Deliveries => (place[m] = "none" <=> ~(p.kind = "after" /\ p.pc = "append"))
           /\ p.kind = "trash" => place[m] = "cur"
           /\ p.kind = "expunge" => place[m] = "gone"
           /\ p.pc = "deleted" => p.kind = "expunge"
           /\ p.pc = "move" => /\ p.kind # "expunge"
                               /\ p.kind \in {"before", "trash"} => p.fd = "none"

\* A count is right as long as the directories are as they were seen.
CountInv ==
    \A t \in Tasks :
        LET p == task[t]
        IN /\ p.maxtime <= Latest
           /\ p.seen <= stamp["new"]
           /\ calm /\ stamp["new"] = p.seen =>
                /\ p.pc = "stat" /\ p.dir = 2 => p.sum = Cardinality(In("new"))
                /\ p.maxtime = Latest =>
                     /\ p.pc = "read" /\ p.dir = 2 => p.sum = Cardinality(In("new"))
                     /\ p.pc \in {"rename", "restat"} => p.sum = Usage

QuotaInv == TypeOK /\ PlaceInv /\ CountInv
=============================================================================
