------------------------------ MODULE UidScan ------------------------------
(***************************************************************************)
(* The scan of a mailbox by imapd: do_imapscan_maildir2() of               *)
(* imap/imapscanclient.C, which gives UIDs to messages and keeps them in   *)
(* the file courierimapuiddb, and the commands of imap/imapd.C that call   *)
(* it: SELECT, EXAMINE, NOOP, APPEND, COPY and STATUS.                     *)
(*                                                                         *)
(* A scan reads the database, moves the messages that are added to cur,    *)
(* reads cur, forgets what is not there, moves the messages of new to cur, *)
(* numbers what has no UID yet in the order of the file names, and puts a  *)
(* new database in the place of the old one.  With IMAP_USELOCKS it holds  *)
(* the lock of the maildir; mail is delivered, popped, expunged and given  *)
(* other flags without it.                                                 *)
(***************************************************************************)
EXTENDS Naturals, FiniteSets

CONSTANTS
    Sessions,     \* processes of imapd that have the mailbox in use
    Msgs,
    Order,        \* Order[m]: the place of the file name of m
    Nobody,
    Locks,        \* IMAP_USELOCKS
    Kinds,        \* the commands that clients give
    Pop,          \* whether a POP3 client takes messages too
    InOrder,      \* whether mail arrives in the order of its file names
    Ticks,        \* whether a second passes before a database is made again
    Batch,        \* how many files of new are moved at once, 20 in the code
    Failures,     \* which calls may fail: "create", "open", "write"
    MaxTime,      \* bound on the clock
    MaxFailures,  \* bound on the calls that fail
    MaxRenames,   \* bound on the files that get flags while cur is read
    MaxCrashes    \* bound on the sessions killed

ASSUME ScanAssumption ==
    /\ Nobody \notin Sessions
    /\ Nobody \notin [uidv : Nat, next : Nat, uids : SUBSET [msg : Msgs, uid : Nat]]
    /\ Order \in [Msgs -> Nat] /\ \A m, n \in Msgs : Order[m] = Order[n] => m = n
    /\ Kinds \subseteq {"select", "examine", "noop", "append", "status"}
    /\ {Locks, Pop, InOrder, Ticks} \subseteq BOOLEAN
    /\ Failures \subseteq {"create", "open", "write"}
    /\ Batch \in Nat \ {0}
    /\ {MaxTime, MaxFailures, MaxRenames, MaxCrashes} \subseteq Nat

VARIABLES
    place,     \* where each message is: "none", "tmp", "new", "cur", "gone"
    db,        \* courierimapuiddb: [uidv, next, uids], or Nobody
    now,       \* the clock, in seconds
    lock,      \* who has the maildir locked, or Nobody
    pc,        \* what each session does next
    job,       \* the scan that each session does, or Nobody
    view,      \* the mailbox as the client knows it, or Nobody
    answered,  \* what STATUS has told the client, or Nobody
    given,     \* history: the UIDs that clients were told, or that were saved
    failures,  \* history: number of calls that failed
    renames,   \* history: number of files renamed while cur was read
    crashes    \* history: number of sessions killed

bounds == <<failures, renames, crashes>>
vars   == <<place, db, now, lock, pc, job, view, answered, given, bounds>>

In(where) == {m \in Msgs : place[m] = where}
Of(uids)  == {e.msg : e \in uids}

Init ==
    /\ place = [m \in Msgs |-> "none"]
    /\ db = Nobody /\ now = 0 /\ lock = Nobody /\ given = {}
    /\ pc = [s \in Sessions |-> "idle"]
    /\ job = [s \in Sessions |-> Nobody]
    /\ view = [s \in Sessions |-> Nobody]
    /\ answered = [s \in Sessions |-> Nobody]
    /\ failures = 0 /\ renames = 0 /\ crashes = 0

Fail(call) ==
    /\ call \in Failures /\ failures < MaxFailures
    /\ failures' = failures + 1

-----------------------------------------------------------------------------
(* Faults that the properties must catch: each is the definition of the    *)
(* same name with a mistake in it, and no part of the specification.       *)

\* A message that is added takes the next UID, and leaves it for others.
MoveSameUid(s) ==
    /\ pc[s] = "move"
    /\ \E m \in job[s].add :
          /\ place' = [place EXCEPT ![m] = "cur"]
          /\ job' = [job EXCEPT ![s].known =
                        @ \cup {[msg |-> m, uid |-> job[s].next]}]
    /\ pc' = [pc EXCEPT ![s] = "open"]
    /\ UNCHANGED <<db, now, lock, view, answered, given, bounds>>

\* Messages of cur and new that are not in the database do not make it dirty.
DirtyGone(j) == j.made \/ j.add # {} \/ j.found # j.known

\* A scan that holds the lock does not give it back.
SaveLocked(s) ==
    /\ pc[s] = "save"
    /\ pc' = [pc EXCEPT ![s] = "idle"]
    /\ job' = [job EXCEPT ![s] = Nobody]
    /\ UNCHANGED <<place, db, now, lock, view, answered, given, bounds>>

-----------------------------------------------------------------------------
(* Step 1: read the database                                                *)

ReadOnly(s, kind) ==
    \/ kind \in {"examine", "status"}
    \/ kind = "noop" /\ view[s].ro

\* What a scan knows when it has read the database, or made one.
NewJob(kind, ro, add, uidv, next, uids, made) ==
    [kind |-> kind, ro |-> ro, add |-> add, uidv |-> uidv, next |-> next,
     known |-> uids, made |-> made, open |-> TRUE, found |-> {}, fresh |-> {},
     batch |-> {}, more |-> FALSE, there |-> {}]

\* The UIDVALIDITY of a mailbox that has no database: the time of the new one,
\* or, where none is made, the time.
Stamps(ro) == {t \in {now, now + 1} : t <= MaxTime /\ (Ticks /\ ~ ro => t > now)}

Begin(s, kind, add) ==
    /\ pc[s] = "idle" /\ kind \in Kinds
    /\ Locks => lock = Nobody
    /\ lock' = IF Locks THEN s ELSE lock
    /\ pc' = [pc EXCEPT ![s] = IF add = {} THEN "open" ELSE "move"]
    /\ LET ro == ReadOnly(s, kind)
       IN  \/ /\ db # Nobody
              /\ job' = [job EXCEPT ![s] =
                    NewJob(kind, ro, add, db.uidv, db.next, db.uids, FALSE)]
              /\ UNCHANGED <<now, failures>>
           \/ /\ db = Nobody
              /\ \E t \in Stamps(ro) :
                    /\ now' = t
                    /\ job' = [job EXCEPT ![s] =
                          NewJob(kind, ro, add, t, 1, {}, ~ ro)]
              /\ UNCHANGED failures
           \/ \* The new file cannot be opened, and nothing sets stat_buf.
              /\ db = Nobody /\ ~ ro /\ Fail("create")
              /\ \E garbage \in 0..now :
                    job' = [job EXCEPT ![s] =
                          NewJob(kind, ro, add, garbage, 1, {}, TRUE)]
              /\ UNCHANGED now
    /\ UNCHANGED <<db, given, renames, crashes>>

\* SELECT and EXAMINE forget the mailbox that the client had open.
Select(s) ==
    /\ \E kind \in {"select", "examine"} : Begin(s, kind, {})
    /\ view' = [view EXCEPT ![s] = Nobody]
    /\ UNCHANGED <<place, answered>>

Noop(s) ==
    /\ view[s] # Nobody
    /\ Begin(s, "noop", {})
    /\ UNCHANGED <<place, view, answered>>

\* APPEND and COPY have written the messages to tmp.
Append(s) ==
    /\ \E m \in In("none") :
          /\ Begin(s, "append", {m})
          /\ place' = [place EXCEPT ![m] = "tmp"]
    /\ UNCHANGED <<view, answered>>

\* STATUS does not scan the mailbox that the client has open.
Status(s) ==
    /\ view[s] = Nobody
    /\ Begin(s, "status", {})
    /\ UNCHANGED <<place, view, answered>>

-----------------------------------------------------------------------------
(* Steps 2 to 5: read the maildir                                           *)

\* movetmpnew() of a message that is added, which gets the next UID.
Move(s) ==
    /\ pc[s] = "move"
    /\ \E m \in job[s].add :
          /\ place' = [place EXCEPT ![m] = "cur"]
          /\ job' = [job EXCEPT ![s].known = @ \cup {[msg |-> m, uid |-> job[s].next]},
                                ![s].next = @ + 1]
    /\ pc' = [pc EXCEPT ![s] = "open"]
    /\ UNCHANGED <<db, now, lock, view, answered, given, bounds>>

\* Open the file that will be the database; who cannot removes the old one.
Open(s) ==
    /\ pc[s] = "open"
    /\ pc' = [pc EXCEPT ![s] = "cur"]
    /\ \/ UNCHANGED <<db, job, failures>>
       \/ /\ Fail("open")
          /\ db' = Nobody
          /\ job' = [job EXCEPT ![s].open = FALSE]
    /\ UNCHANGED <<place, now, lock, view, answered, given, renames, crashes>>

\* The messages whose flags another client may change, and so their names.
Storable(s) ==
    {m \in In("cur") : \E t \in Sessions \ {s} :
        pc[t] = "idle" /\ view[t] # Nobody /\ ~ view[t].ro /\ m \in Of(view[t].uids)}

\* A file that is renamed while its directory is read is seen once, not at
\* all, or under both names.
ReadCur(s) ==
    /\ pc[s] = "cur"
    /\ pc' = [pc EXCEPT ![s] = "new"]
    /\ \E missed \in SUBSET Storable(s), twice \in SUBSET Storable(s) :
          /\ missed \cap twice = {}
          /\ renames' = renames + Cardinality(missed \cup twice)
          /\ renames' <= MaxRenames
          /\ LET seen == In("cur") \ missed
                 new  == seen \ Of(job[s].known)
             IN  \E found \in SUBSET job[s].known :
                    /\ Of(found) = seen \ new
                    /\ \A d, e \in found : d.msg = e.msg => d = e
                    /\ job' = [job EXCEPT
                          ![s].found = found,
                          ![s].fresh = new \X {1} \cup (new \cap twice) \X {2}]
    /\ UNCHANGED <<place, db, now, lock, view, answered, given, failures, crashes>>

\* STATUS counts the messages of new; the others are to be moved, in batches.
ReadNew(s) ==
    /\ pc[s] = "new"
    /\ IF job[s].kind = "status"
       THEN /\ job' = [job EXCEPT ![s].batch = In("new"),
                                  ![s].there = Msgs \ (In("none") \cup In("tmp"))]
            /\ pc' = [pc EXCEPT ![s] = "save"]
       ELSE \E files \in SUBSET In("new") :
            /\ Cardinality(files) <= Batch
            /\ files = In("new") \/ Cardinality(files) = Batch
            /\ job' = [job EXCEPT ![s].batch = files,
                                  ![s].fresh = @ \cup files \X {1},
                                  ![s].more = Cardinality(files) = Batch]
            /\ pc' = [pc EXCEPT ![s] = IF files = {} THEN "save" ELSE "rename"]
    /\ UNCHANGED <<place, db, now, lock, view, answered, given, bounds>>

\* One file of the batch; after a rename that fails, no more batches are read.
Rename(s) ==
    /\ pc[s] = "rename"
    /\ \E m \in job[s].batch :
          LET more == job[s].more /\ place[m] = "new"
          IN  /\ place' = [place EXCEPT ![m] = IF @ = "new" THEN "cur" ELSE @]
              /\ job' = [job EXCEPT ![s].batch = @ \ {m}, ![s].more = more]
              /\ pc' = [pc EXCEPT ![s] = IF job[s].batch # {m} THEN "rename"
                                         ELSE IF more THEN "new" ELSE "save"]
    /\ UNCHANGED <<db, now, lock, view, answered, given, bounds>>

-----------------------------------------------------------------------------
(* Steps 6 to 8: number the messages and save the database                  *)

Before(x, y) == \/ Order[x[1]] < Order[y[1]]
                \/ x[1] = y[1] /\ x[2] < y[2]

Numbered(j) ==
    {[msg |-> x[1], uid |-> j.next + Cardinality({y \in j.fresh : Before(y, x)})] :
        x \in j.fresh}

\* The messages as the scan leaves them, and the database of them.
Uids(j) == j.found \cup Numbered(j)

\* A fault: the next UID is the one after the last that is in use.
NextUidInUse(j) ==
    LET uids == {e.uid : e \in Uids(j)}
    IN  IF uids = {} THEN 1
        ELSE 1 + CHOOSE u \in uids : \A v \in uids : v <= u

NextUid(j) == j.next + Cardinality(j.fresh)
Dirty(j)  == j.made \/ j.add # {} \/ j.fresh # {} \/ j.found # j.known

\* The client is told what the command asks for.  EXAMINE, and NOOP after it,
\* tell UIDs that are not saved; STATUS tells the next one only.
Answer(s, j) ==
    /\ view' = IF j.kind \in {"append", "status"} THEN view
               ELSE [view EXCEPT ![s] = [uidv |-> j.uidv, uids |-> Uids(j),
                                         ro |-> j.ro]]
    /\ answered' = IF j.kind # "status" THEN answered
                   ELSE [answered EXCEPT ![s] =
                           [uidv |-> j.uidv, there |-> j.there,
                            next |-> NextUid(j) + Cardinality(j.batch)]]
    /\ given' = IF j.kind = "status" THEN given
                ELSE given \cup {[uidv |-> j.uidv, uid |-> e.uid, msg |-> e.msg] :
                                    e \in Uids(j)}

Save(s) ==
    /\ pc[s] = "save"
    /\ LET j == job[s]
           saves == ~ j.ro /\ j.open /\ Dirty(j)
       IN  /\ \/ /\ db' = IF saves THEN [uidv |-> j.uidv, next |-> NextUid(j),
                                         uids |-> Uids(j)]
                          ELSE db
                 /\ UNCHANGED failures
              \/ saves /\ Fail("write") /\ db' = Nobody
           /\ Answer(s, j)
    /\ pc' = [pc EXCEPT ![s] = "idle"]
    /\ job' = [job EXCEPT ![s] = Nobody]
    /\ lock' = IF Locks THEN Nobody ELSE lock
    /\ UNCHANGED <<place, now, renames, crashes>>

-----------------------------------------------------------------------------
(* What happens without the lock                                            *)

\* The mail transport puts a message into new.
Deliver(m) ==
    /\ place[m] = "none"
    /\ InOrder => \A n \in Msgs : Order[n] < Order[m] => place[n] # "none"
    /\ place' = [place EXCEPT ![m] = "new"]
    /\ UNCHANGED <<db, now, lock, pc, job, view, answered, given, bounds>>

\* EXPUNGE of a message that the client knows.
Expunge(s) ==
    /\ pc[s] = "idle" /\ view[s] # Nobody /\ ~ view[s].ro
    /\ \E m \in Of(view[s].uids) \cap In("cur") :
          place' = [place EXCEPT ![m] = "gone"]
    /\ UNCHANGED <<db, now, lock, pc, job, view, answered, given, bounds>>

\* CLOSE, which expunges first, or SELECT of another mailbox.
Close(s) ==
    /\ pc[s] = "idle" /\ view[s] # Nobody
    /\ view' = [view EXCEPT ![s] = Nobody]
    /\ UNCHANGED <<place, db, now, lock, pc, job, answered, given, bounds>>

\* A POP3 client moves a message of new to cur, and deletes one.
PopGetNew(m) ==
    /\ Pop /\ place[m] = "new"
    /\ place' = [place EXCEPT ![m] = "cur"]
    /\ UNCHANGED <<db, now, lock, pc, job, view, answered, given, bounds>>

PopDelete(m) ==
    /\ Pop /\ place[m] = "cur"
    /\ place' = [place EXCEPT ![m] = "gone"]
    /\ UNCHANGED <<db, now, lock, pc, job, view, answered, given, bounds>>

\* A session is killed while it scans.  Others find that its lock is stale.
Crash(s) ==
    /\ pc[s] # "idle" /\ crashes < MaxCrashes
    /\ crashes' = crashes + 1
    /\ pc' = [pc EXCEPT ![s] = "idle"]
    /\ job' = [job EXCEPT ![s] = Nobody]
    /\ view' = [view EXCEPT ![s] = Nobody]
    /\ lock' = IF lock = s THEN Nobody ELSE lock
    /\ UNCHANGED <<place, db, now, answered, given, failures, renames>>

Command(s) == \/ Select(s) \/ Noop(s) \/ Append(s) \/ Status(s)
              \/ Expunge(s) \/ Close(s)
ScanStep(s) == \/ Move(s) \/ Open(s) \/ ReadCur(s) \/ ReadNew(s) \/ Rename(s)
               \/ Save(s)

Next ==
    \/ \E s \in Sessions : Command(s) \/ ScanStep(s) \/ Crash(s)
    \/ \E m \in Msgs : Deliver(m) \/ PopGetNew(m) \/ PopDelete(m)

Spec == Init /\ [][Next]_vars

-----------------------------------------------------------------------------
(* Properties                                                               *)

Entry == [msg : Msgs, uid : Nat]
Job == [kind : Kinds, ro : BOOLEAN, add : SUBSET Msgs, uidv : Nat, next : Nat,
        known : SUBSET Entry, made : BOOLEAN, open : BOOLEAN,
        found : SUBSET Entry, fresh : SUBSET (Msgs \X {1, 2}),
        batch : SUBSET Msgs, more : BOOLEAN, there : SUBSET Msgs]

\* Every variable holds a value of its kind; a scan has the lock.
TypeOK ==
    /\ place \in [Msgs -> {"none", "tmp", "new", "cur", "gone"}]
    /\ db = Nobody \/ db \in [uidv : Nat, next : Nat, uids : SUBSET Entry]
    /\ now \in 0..MaxTime
    /\ pc \in [Sessions -> {"idle", "move", "open", "cur", "new", "rename", "save"}]
    /\ lock \in Sessions \cup {Nobody}
    /\ given \subseteq [uidv : Nat, uid : Nat, msg : Msgs]
    /\ DOMAIN job = Sessions /\ DOMAIN view = Sessions
    /\ \A s \in Sessions : pc[s] # "idle" => job[s] \in Job
    /\ Locks => \A s \in Sessions : pc[s] # "idle" <=> lock = s

\* No UID is given twice: the UIDs that clients are told go up as long as the
\* UIDVALIDITY stays the same, and one UID names one message.  EXAMINE breaks
\* it, and the run and the theorem are without.
Numbers == INSTANCE UidSequence
ImplementsUidSequence == Numbers!Spec

\* imapscanclient.C:617-660: a message has the UID that clients were told, as
\* long as the UIDVALIDITY stays the same.  That takes in the UIDs that EXAMINE
\* tells and does not save, in the run that has EXAMINE: the next scan numbers
\* the same messages in the same order, when mail arrives in the order of its
\* file names, only scans move it, and nothing is added in between.
MessageKeepsUid ==
    \A g, h \in given : g.uidv = h.uidv /\ g.msg = h.msg => g.uid = h.uid

\* The next UID that the database names is above all that clients were told,
\* where nobody has used EXAMINE.
NextUidAbove ==
    db # Nobody => \A g \in given : g.uidv = db.uidv => g.uid < db.next

\* doNoop() goes through what the client knows and what the scan has found by
\* their UIDs: the same UID is the same message, and what is new comes last.
NoopMerges ==
    [][\A s \in Sessions :
         pc[s] = "save" /\ job[s].kind = "noop" /\ view'[s] # view[s] /\ view'[s] # Nobody =>
           \A d \in view[s].uids, e \in view'[s].uids :
              /\ d.uid = e.uid => d.msg = e.msg
              /\ e.uid < d.uid => e \in view[s].uids]_vars

\* imapd.C:3840-3909: a message that was not there yet when STATUS told the next
\* UID is given that or a larger one, by EXAMINE too.
UidNextKept ==
    \A s \in Sessions : answered[s] # Nobody =>
       \A g \in given :
          g.uidv = answered[s].uidv /\ g.msg \notin answered[s].there =>
             g.uid >= answered[s].next

-----------------------------------------------------------------------------
(* The inductive invariant of scans that hold the lock and save the UIDs    *)
(* they give, where no mailbox is opened by EXAMINE: what was given is       *)
(* below the next UID, of the database and of the scan, and what the scan   *)
(* knows was given or is above all that was.                                *)

LockedScans == /\ Locks /\ Ticks /\ "create" \notin Failures
               /\ "examine" \notin Kinds
               /\ IsFiniteSet(Msgs)

\* STATUS is the only scan that does not save.
SavingScans ==
    /\ \A s \in Sessions : pc[s] # "idle" => (job[s].ro <=> job[s].kind = "status")
    /\ \A s \in Sessions : view[s] # Nobody => ~ view[s].ro

Given(v, e) == [uidv |-> v, uid |-> e.uid, msg |-> e.msg]

GivenBelow(v, next) == \A g \in given : g.uidv = v => g.uid < next

DbInv ==
    db # Nobody =>
       /\ db.uidv <= now /\ GivenBelow(db.uidv, db.next)
       /\ \A e \in db.uids : e.uid < db.next /\ Given(db.uidv, e) \in given

JobInv(j) ==
    /\ j.uidv <= now /\ GivenBelow(j.uidv, j.next)
    /\ j.found \subseteq j.known
    /\ \A e \in j.known : /\ e.uid < j.next
                          /\ Given(j.uidv, e) \in given \/ GivenBelow(j.uidv, e.uid)
    /\ \A d, e \in j.known :
          d.uid = e.uid => Given(j.uidv, d) \in given \/ d = e
    /\ j.open \/ db = Nobody
    /\ j.open /\ ~ j.made /\ j.add = {} =>
          db # Nobody /\ db.uidv = j.uidv /\ db.next = j.next /\ db.uids = j.known

ScanInv ==
    /\ TypeOK
    /\ \A g \in given : g.uidv <= now
    /\ DbInv /\ SavingScans
    /\ \A s \in Sessions : pc[s] # "idle" /\ ~ job[s].ro => JobInv(job[s])

-----------------------------------------------------------------------------
(* The inductive invariant of scans that hold the lock and see every file   *)
(* once: what was given is known to the scan, or its message is gone, and   *)
(* what is to be numbered was not given a UID before.                       *)

StableScans == LockedScans /\ MaxRenames = 0

Named == {g.msg : g \in given}
Numbering(j) == {x[1] : x \in j.fresh}

KeepJob(s) ==
    LET j == job[s]
    IN  /\ \A d, e \in j.known : d.msg = e.msg => d = e
        /\ \A e \in j.known : place[e.msg] \in {"cur", "gone"}
        /\ \A g \in given : g.uidv = j.uidv =>
              /\ \A e \in j.known : g.msg = e.msg => g.uid = e.uid
              /\ place[g.msg] = "cur" => g.msg \in Of(j.known)
        /\ pc[s] \in {"new", "rename", "save"} =>
              /\ j.fresh \subseteq Msgs \X {1}
              /\ Numbering(j) \cap Of(j.known) = {}
              /\ \A g \in given : g.uidv = j.uidv => g.msg \notin Numbering(j)
              /\ Named \cap In("cur") \subseteq Of(j.found) \cup Numbering(j)
              /\ \A m \in Numbering(j) :
                    \/ place[m] \in {"cur", "gone"}
                    \/ pc[s] = "rename" /\ m \in j.batch /\ place[m] = "new"

KeepInv ==
    /\ renames = 0
    /\ MessageKeepsUid
    /\ \A g \in given : place[g.msg] \in {"cur", "gone"}
    /\ db # Nobody => Named \cap In("cur") \subseteq Of(db.uids)
    /\ \A s \in Sessions : pc[s] # "idle" =>
          /\ pc[s] = "move" => job[s].add \subseteq In("tmp")
          /\ job[s].kind = "status" => job[s].ro
          /\ ~ job[s].ro => KeepJob(s)

(* The inductive invariant of UIDNEXT, where mail arrives in the order of   *)
(* its file names and only scans move and number it: the messages that were *)
(* there when STATUS counted them still wait, or have their UIDs.           *)

OrderedScans == StableScans /\ InOrder /\ ~ Pop /\ "append" \notin Kinds

Answered == [uidv : Nat, there : SUBSET Msgs, next : Nat]

Waiting == (In("new") \cup In("cur")) \ Named

NextJob(s) ==
    LET j == job[s]
    IN  /\ j.uidv <= now /\ (j.ro => ~ j.made)
        /\ \A e \in j.known : Given(j.uidv, e) \in given
        /\ db # Nobody /\ ~ j.made =>
              db.uidv = j.uidv /\ db.next = j.next /\ db.uids = j.known
        /\ pc[s] = "rename" =>
              j.kind # "status" /\ j.batch \subseteq In("new") \cap Numbering(j)
        /\ pc[s] \in {"new", "rename", "save"} => Waiting \cap In("cur") \subseteq Numbering(j)
        /\ j.kind = "status" /\ pc[s] \in {"new", "save"} /\ db # Nobody =>
              j.fresh \subseteq Msgs \X {1} /\ Numbering(j) \subseteq Waiting \cap In("cur")
        /\ j.kind = "status" /\ pc[s] = "save" =>
              /\ Named \cup In("cur") \subseteq j.there /\ In("none") \cap j.there = {}
              /\ \A m \in j.there, n \in Msgs \ j.there : Order[m] < Order[n]
              /\ j.batch \subseteq In("new") \cap j.there

\* The scan leaves room for the messages that STATUS has counted.
LeavesRoom(s, a) ==
    LET waiting == Waiting \cap a.there
    IN  /\ ~ job[s].made
        /\ a.next <= job[s].next + Cardinality(waiting)
        /\ pc[s] = "save" \/ (pc[s] = "rename" /\ ~ job[s].more) =>
              waiting \subseteq Numbering(job[s])

AnswerInv(a) ==
    /\ a.uidv <= now
    /\ In("none") \cap a.there = {}
    /\ \A m \in a.there, n \in Msgs \ a.there : Order[m] < Order[n]
    /\ db # Nobody /\ a.uidv = db.uidv =>
          a.next <= db.next + Cardinality(Waiting \cap a.there)
    /\ \A s \in Sessions :
          pc[s] # "idle" /\ ~ job[s].ro /\ job[s].uidv = a.uidv => LeavesRoom(s, a)

NextInv ==
    /\ In("tmp") = {} /\ DOMAIN answered = Sessions
    /\ \A m, n \in Msgs : Order[n] < Order[m] /\ place[m] # "none" => place[n] # "none"
    /\ \A s \in Sessions : view[s] # Nobody /\ ~ view[s].ro => Of(view[s].uids) \subseteq Named
    /\ \A s \in Sessions : pc[s] # "idle" => NextJob(s)
    /\ \A s \in Sessions :
          answered[s] # Nobody => answered[s] \in Answered /\ AnswerInv(answered[s])
    /\ UidNextKept

(* The inductive invariant of what NOOP merges, where no call fails: what a  *)
(* client knows was given under the UIDVALIDITY of the database, and so was *)
(* what the database has of smaller UIDs; what scans add is above both.     *)

MergingScans == LockedScans /\ Failures = {}

MergeJob(s) ==
    LET j == job[s]
    IN  /\ j.ro <=> j.kind = "status"
        /\ j.kind = "noop" => view[s] # Nobody
        /\ j.add # {} => j.kind = "append"
        /\ j.open
        /\ db = Nobody => j.made \/ j.ro
        /\ db # Nobody => /\ ~ j.made /\ j.uidv = db.uidv /\ db.next <= j.next
                          /\ \A e \in j.known : e \in db.uids \/ db.next <= e.uid

\* The smaller UIDs of the database are those that the client knows.
MergeView(v) ==
    /\ ~ v.ro /\ db # Nobody
    /\ \A d \in v.uids : /\ Given(db.uidv, d) \in given
                         /\ \A e \in db.uids : e.uid < d.uid => e \in v.uids

MergeInv ==
    /\ \A g, h \in given : g.uidv = h.uidv /\ g.uid = h.uid => g.msg = h.msg
    /\ \A s \in Sessions : pc[s] # "idle" => MergeJob(s)
    /\ \A s \in Sessions : view[s] # Nobody => MergeView(view[s])
=============================================================================
