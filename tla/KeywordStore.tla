---------------------------- MODULE KeywordStore ----------------------------
(***************************************************************************)
(* The IMAP keyword store of a maildir (maildir/maildirkeywords.C), the    *)
(* directory courierimapkeywords that imapd, maildirkw and maildrop share. *)
(*                                                                         *)
(*   message       the newest, not yet aged update of a message            *)
(*   .N.message    an aged update, N being a 300 second chunk of time      *)
(*   :list         the stable list of every message's keywords             *)
(*                                                                         *)
(* Processes share nothing but that directory and, for the operations that *)
(* take it, the maildir lock.  Every step below is one call that reads or  *)
(* changes the directory, so loads and updates interleave call by call.    *)
(*                                                                         *)
(* The set of keywords an update carries is abstracted to the number of    *)
(* the update, or Empty for an update that removes all the keywords.       *)
(***************************************************************************)
EXTENDS Naturals, FiniteSets

CONSTANTS
    Msgs,        \* base file names of messages
    Arriving,    \* the messages that APPEND or COPY have yet to deliver
    Scanners,    \* imapd rescanning the folder (imapscan_maildir)
    Storers,     \* imapd, STORE of keywords (imapscan_updateKeywords)
    Setters,     \* maildirkw without -l, replacing the keywords
    Adders,      \* maildirkw -l -a or -r, changing the keywords it loads
    Appenders,   \* imapd, APPEND or COPY of a message that has keywords
    Locking,     \* IMAP_USELOCKS: scans take the maildir lock
    MaxUpdates,  \* bound on the number of updates
    MaxTime,     \* bound on the clock, in ticks
    ChunkTicks,  \* 300 seconds
    AgeTicks,    \* 15 * 60 seconds
    MaxStall,    \* how many ticks a load may last
    MayExpunge   \* whether messages are expunged

Writers == Storers \cup Setters \cup Adders \cup Appenders
Procs   == Scanners \cup Writers

ASSUME KeywordAssumption ==
    /\ Arriving \subseteq Msgs /\ "none" \notin Msgs /\ "nobody" \notin Procs
    /\ Locking \in BOOLEAN /\ MayExpunge \in BOOLEAN
    /\ MaxUpdates \in Nat /\ MaxTime \in Nat /\ MaxStall \in Nat
    /\ ChunkTicks \in Nat \ {0} /\ AgeTicks = 3 * ChunkTicks

Empty   == 0                        \* an update without keywords
NoFile  == MaxUpdates + 1           \* there is no such update file
Content == 0..MaxUpdates            \* keywords, by the number of their update
Chunks  == 1..(MaxTime \div ChunkTicks + 1)
Nobody  == "nobody"
NoJob   == [m |-> "none", content |-> Empty]

VARIABLES
    now,        \* time(NULL)
    newest,     \* newest[m]: the content of file m, or NoFile
    aged,       \* aged[m]: the files .N.m
    list,       \* list[m]: the keywords of m in :list, Empty when not listed
    nameless,   \* whether :list has lines with an empty file name
    msg,        \* whether m is "coming", in "cur", or "gone"
    lock,       \* who holds the maildir lock
    pc,         \* what each process does next
    job,        \* the message each writer updates, and with what
    ld,         \* what each process's load has gathered
    committed,  \* history: content of the last acknowledged update of m
    updates     \* history: how many updates were asked for

files == <<newest, aged, list, nameless>>
vars  == <<now, newest, aged, list, nameless, msg, lock, pc, job, ld,
           committed, updates>>

-----------------------------------------------------------------------------
(* Names of update files: <<m, 0>> is file m and <<m, N>> is file .N.m.    *)

Names(m)  == (IF newest[m] = NoFile THEN {} ELSE {<<m, 0>>})
             \cup {<<m, f.n>> : f \in aged[m]}
Directory == UNION {Names(m) : m \in Msgs}

Without(m, n) == {f \in aged[m] : f.n # n}
Cur == {m \in Msgs : msg[m] = "cur"}

\* readdir() need not return a name that was removed while it was scanning.
Forget(loads, name) ==
    [q \in Procs |-> [loads[q] EXCEPT !.todo = @ \ {name}]]

NoLoad ==
    [t |-> 0, todo |-> {}, got |-> {}, found_newest |-> {},
     most_recent |-> [m \in Msgs |-> 0],
     keywords |-> [m \in Msgs |-> Empty],
     pending |-> {}, accept |-> {}, save_required |-> FALSE,
     nameless |-> FALSE, may |-> [m \in Msgs |-> {}]]

\* attempt_load() reads the clock and opens the directory.  "accept" is the
\* set of messages for which the caller's set() returns true; "may" is the
\* history of what was, or became, the last acknowledged update since.
NewLoad(accept) ==
    [NoLoad EXCEPT !.t = now, !.todo = Directory, !.accept = accept,
                   !.may = [m \in Msgs |-> {committed[m]}]]

\* A load is that of a folder scan, or of a writer that has a job to do.
Scanning(p) == job[p] = NoJob

Statuses(l) == l.found_newest \cup {m \in Msgs : l.most_recent[m] # 0}

\* The update file of m that this load goes by, once it is opened.
Candidates(l, m) ==
    IF m \in l.found_newest THEN {newest[m]} \ {NoFile}
    ELSE {f.content : f \in {g \in aged[m] : g.n = l.most_recent[m]}}

\* The keywords of an update are new ones, or none at all.
Job(m, content) == [m |-> m, content |-> content]
Contents == {Empty, updates + 1}

Release(p) == IF lock = p THEN Nobody ELSE lock

Loading(p) == pc[p] \in {"scan", "open", "save", "clean"}

Init ==
    /\ now = 0
    /\ newest = [m \in Msgs |-> NoFile]
    /\ aged = [m \in Msgs |-> {}]
    /\ list = [m \in Msgs |-> Empty]
    /\ nameless = FALSE
    /\ msg = [m \in Msgs |-> IF m \in Arriving THEN "coming" ELSE "cur"]
    /\ lock = Nobody
    /\ pc = [p \in Procs |-> "idle"]
    /\ job = [p \in Procs |-> NoJob]
    /\ ld = [p \in Procs |-> NoLoad]
    /\ committed = [m \in Msgs |-> Empty]
    /\ updates = 0

-----------------------------------------------------------------------------
(* Faults that the properties must catch: each is the action of the same   *)
(* name with a mistake in it, and no part of the specification.            *)

\* The adder gives up the lock as soon as it has loaded.
LoadEndUnlocks(p) ==
    /\ pc[p] = "clean" /\ ld[p].pending = {}
    /\ pc' = [pc EXCEPT ![p] =
                IF Scanning(p) THEN "idle"
                ELSE IF p \in Adders /\ lock # p THEN "again" ELSE "link"]
    /\ lock' = Release(p)
    /\ ld' = IF p \in Adders /\ lock = p THEN ld ELSE [ld EXCEPT ![p] = NoLoad]
    /\ UNCHANGED <<now, files, msg, job, committed, updates>>

\* A conflicting update tries again without loading first.
LinkExistsSpin(p) == pc[p] = "link" /\ newest[job[p].m] # NoFile /\ UNCHANGED vars

\* found_aged() unlinks the larger N.
ScanAgedLarger(p, m) ==
    LET l == ld[p] IN
    /\ pc[p] = "scan"
    /\ \E f \in aged[m] :
        LET recent == l.most_recent[m]
            lesser == IF recent # 0 /\ recent < f.n THEN recent ELSE f.n
            larger == IF recent < f.n THEN f.n ELSE recent
        IN  /\ <<m, f.n>> \notin l.got
            /\ aged' = [aged EXCEPT ![m] = IF recent = 0 THEN @
                                           ELSE Without(m, larger)]
            /\ ld' = [(IF recent = 0 THEN ld ELSE Forget(ld, <<m, larger>>))
                        EXCEPT ![p].most_recent[m] = lesser,
                               ![p].got = @ \cup {<<m, f.n>>},
                               ![p].todo = @ \ {<<m, f.n>>}]
    /\ UNCHANGED <<now, newest, list, nameless, msg, lock, pc, job, committed,
                   updates>>

\* scan_updates() does not ask for a new :list when it finds a newest update.
ReadListUnsaved(p) ==
    LET l      == ld[p]
        listed == {m \in Msgs \ Statuses(l) : list[m] # Empty}
    IN  /\ pc[p] = "open" /\ l.pending = {}
        /\ ld' = [ld EXCEPT
             ![p].keywords = [m \in Msgs |-> IF m \in Statuses(l) THEN @[m]
                                             ELSE list[m]],
             ![p].nameless = nameless,
             ![p].save_required = ~ (Statuses(l) \cup listed \subseteq l.accept),
             ![p].pending = Statuses(l)]
        /\ pc' = [pc EXCEPT ![p] =
                    IF ld'[p].save_required THEN "save" ELSE "clean"]
        /\ UNCHANGED <<now, files, msg, lock, job, committed, updates>>

\* read_keyword_list() lets :list override the updates.
ReadListOverride(p) ==
    LET l == ld[p] IN
    /\ pc[p] = "open" /\ l.pending = {}
    /\ ld' = [ld EXCEPT
         ![p].keywords = [m \in Msgs |-> IF list[m] = Empty THEN @[m]
                                         ELSE list[m]],
         ![p].save_required = TRUE, ![p].pending = Statuses(l)]
    /\ pc' = [pc EXCEPT ![p] = "save"]
    /\ UNCHANGED <<now, files, msg, lock, job, committed, updates>>

\* cleanup() assumes that the rename succeeds.
RenameNewestBlind(p, m) ==
    /\ pc[p] = "clean" /\ m \in ld[p].pending /\ m \in ld[p].found_newest
    /\ newest' = [newest EXCEPT ![m] = NoFile]
    /\ LET age == ld[p].t \div ChunkTicks + 1 IN
       aged' = [aged EXCEPT ![m] = Without(m, age) \cup
                  {[n |-> age, content |-> newest[m], mtime |-> now]}]
    /\ ld' = [Forget(ld, <<m, 0>>) EXCEPT ![p].pending = @ \ {m}]
    /\ UNCHANGED <<now, list, nameless, msg, lock, pc, job, committed, updates>>

-----------------------------------------------------------------------------
(* Beginning an operation                                                   *)

\* imapscan_maildir(): take the lock if it is in use, list cur, then load.
Scan(p) ==
    /\ p \in Scanners /\ pc[p] = "idle"
    /\ Locking => lock = Nobody
    /\ lock' = IF Locking THEN p ELSE lock
    /\ pc' = [pc EXCEPT ![p] = "scan"]
    /\ ld' = [ld EXCEPT ![p] = NewLoad(Cur)]
    /\ UNCHANGED <<now, files, msg, job, committed, updates>>

\* STORE, and maildirkw without + or -, go straight to update().
Request(p) ==
    /\ p \in Storers \cup Setters /\ pc[p] = "idle"
    /\ updates < MaxUpdates
    /\ updates' = updates + 1
    /\ \E m \in Cur, c \in Contents : job' = [job EXCEPT ![p] = Job(m, c)]
    /\ pc' = [pc EXCEPT ![p] = "link"]
    /\ UNCHANGED <<now, files, msg, lock, ld, committed>>

\* maildirkw -l -a/-r: doit() locks, and doit_locked() loads first.
BeginAdd(p) ==
    /\ p \in Adders /\ lock = Nobody
    /\ \/ /\ pc[p] = "idle" /\ updates < MaxUpdates
          /\ updates' = updates + 1
          /\ \E m \in Cur, c \in Contents :
                job' = [job EXCEPT ![p] = Job(m, c)]
       \/ pc[p] = "again" /\ UNCHANGED <<updates, job>>
    /\ lock' = p
    /\ pc' = [pc EXCEPT ![p] = "scan"]
    /\ ld' = [ld EXCEPT ![p] = NewLoad(Msgs)]
    /\ UNCHANGED <<now, files, msg, committed>>

\* APPEND and COPY store the keywords while the message is still in tmp.
BeginAppend(p) ==
    /\ p \in Appenders /\ pc[p] = "idle"
    /\ updates < MaxUpdates
    /\ updates' = updates + 1
    /\ \E m \in Msgs : /\ msg[m] = "coming"
                       /\ \A q \in Appenders : job[q].m # m
                       /\ job' = [job EXCEPT ![p] = Job(m, updates + 1)]
    /\ pc' = [pc EXCEPT ![p] = "link"]
    /\ UNCHANGED <<now, files, msg, lock, ld, committed>>

-----------------------------------------------------------------------------
(* update(): link() makes the new file visible, or fails with EEXIST.       *)

Link(p) ==
    LET m == job[p].m
        c == job[p].content
    IN  /\ pc[p] = "link" /\ newest[m] = NoFile
        /\ newest' = [newest EXCEPT ![m] = c]
        /\ committed' = [committed EXCEPT ![m] = c]
        /\ ld' = [q \in Procs |->
                    IF q = p THEN NoLoad
                    ELSE IF Loading(q) THEN [ld[q] EXCEPT !.may[m] = @ \cup {c}]
                    ELSE ld[q]]
        /\ lock' = Release(p)
        /\ pc' = [pc EXCEPT ![p] = IF p \in Appenders THEN "deliver" ELSE "idle"]
        /\ job' = IF p \in Appenders THEN job ELSE [job EXCEPT ![p] = NoJob]
        /\ UNCHANGED <<now, aged, list, nameless, msg, updates>>

\* The caller loads the keywords, which ages the file in the way, and retries.
\* Even maildirkw -l has released the lock by then.
LinkExists(p) ==
    /\ pc[p] = "link" /\ newest[job[p].m] # NoFile
    /\ lock' = Release(p)
    /\ pc' = [pc EXCEPT ![p] = "scan"]
    /\ ld' = [ld EXCEPT ![p] = NewLoad(Msgs)]
    /\ UNCHANGED <<now, files, msg, job, committed, updates>>

\* APPEND and COPY scan the folder: the scan first moves the message to cur.
Deliver(p) ==
    /\ pc[p] = "deliver"
    /\ Locking => lock = Nobody
    /\ lock' = IF Locking THEN p ELSE lock
    /\ msg' = [msg EXCEPT ![job[p].m] = "cur"]
    /\ job' = [job EXCEPT ![p] = NoJob]
    /\ pc' = [pc EXCEPT ![p] = "scan"]
    /\ ld' = [ld EXCEPT ![p] = NewLoad(Cur \cup {job[p].m})]
    /\ UNCHANGED <<now, files, committed, updates>>

-----------------------------------------------------------------------------
(* load(): attempt_load()                                                   *)

\* scan_updates(): readdir() returns the file of a newest update ...
ScanNewest(p, m) ==
    LET l == ld[p] IN
    /\ pc[p] = "scan" /\ newest[m] # NoFile /\ <<m, 0>> \notin l.got
    /\ ld' = [ld EXCEPT ![p].found_newest = @ \cup {m},
                        ![p].got = @ \cup {<<m, 0>>},
                        ![p].todo = @ \ {<<m, 0>>}]
    /\ UNCHANGED <<now, files, msg, lock, pc, job, committed, updates>>

\* ... or that of an aged one; found_aged() unlinks the lesser of two.
ScanAged(p, m) ==
    LET l == ld[p] IN
    /\ pc[p] = "scan"
    /\ \E f \in aged[m] :
        LET recent == l.most_recent[m]
            lesser == IF recent < f.n THEN recent ELSE f.n
            larger == IF recent < f.n THEN f.n ELSE recent
        IN  /\ <<m, f.n>> \notin l.got
            /\ aged' = [aged EXCEPT ![m] = IF recent = 0 THEN @
                                           ELSE Without(m, lesser)]
            /\ ld' = [(IF recent = 0 THEN ld ELSE Forget(ld, <<m, lesser>>))
                        EXCEPT ![p].most_recent[m] = larger,
                               ![p].got = @ \cup {<<m, f.n>>},
                               ![p].todo = @ \ {<<m, f.n>>}]
    /\ UNCHANGED <<now, newest, list, nameless, msg, lock, pc, job, committed,
                   updates>>

\* readdir() is done: what was there all along has been returned.
ScanEnd(p) ==
    /\ pc[p] = "scan" /\ ld[p].todo = {}
    /\ pc' = [pc EXCEPT ![p] = "open"]
    /\ ld' = [ld EXCEPT ![p].pending = Statuses(ld[p]), ![p].got = {}]
    /\ UNCHANGED <<now, files, msg, lock, job, committed, updates>>

TryOpen(p, m) ==
    /\ pc[p] = "open" /\ m \in ld[p].pending
    /\ \E c \in Candidates(ld[p], m) :
        ld' = [ld EXCEPT ![p].keywords[m] = c, ![p].pending = @ \ {m}]
    /\ UNCHANGED <<now, files, msg, lock, pc, job, committed, updates>>

\* Another process renamed or removed the file: attempt_load() starts over.
OpenFails(p, m) ==
    /\ pc[p] = "open" /\ m \in ld[p].pending
    /\ Candidates(ld[p], m) = {}
    /\ pc' = [pc EXCEPT ![p] = "scan"]
    /\ ld' = [ld EXCEPT ![p] = NewLoad(@.accept)]
    /\ UNCHANGED <<now, files, msg, lock, job, committed, updates>>

\* All updates are read and passed to set(); then :list is read, where the
\* messages that have updates are skipped.
ReadList(p) ==
    LET l      == ld[p]
        listed == {m \in Msgs \ Statuses(l) : list[m] # Empty}
    IN  /\ pc[p] = "open" /\ l.pending = {}
        /\ ld' = [ld EXCEPT
             ![p].keywords = [m \in Msgs |-> IF m \in Statuses(l) THEN @[m]
                                             ELSE list[m]],
             ![p].nameless = nameless,
             ![p].save_required =
                \/ l.found_newest # {}
                \/ ~ (Statuses(l) \cup listed \subseteq l.accept)
                \/ nameless /\ Scanning(p),
             ![p].pending = Statuses(l)]
        /\ pc' = [pc EXCEPT ![p] =
                    IF ld'[p].save_required THEN "save" ELSE "clean"]
        /\ UNCHANGED <<now, files, msg, lock, job, committed, updates>>

\* A new :list replaces the old one.  The load in imapscan_updateKeywords()
\* never tells its hash table the message's name, so that getfilename()
\* returns an empty one.
SaveList(p) ==
    LET l == ld[p] IN
    /\ pc[p] = "save"
    /\ IF p \in Storers \cup Appenders /\ ~ Scanning(p)
       THEN /\ list' = [m \in Msgs |-> Empty]
            /\ nameless' = (l.nameless \/ \E m \in Msgs : l.keywords[m] # Empty)
       ELSE /\ list' = [m \in Msgs |-> IF m \in l.accept THEN l.keywords[m]
                                       ELSE Empty]
            /\ nameless' = (l.nameless /\ ~ Scanning(p))
    /\ pc' = [pc EXCEPT ![p] = "clean"]
    /\ UNCHANGED <<now, newest, aged, msg, lock, job, ld, committed, updates>>

\* cleanup(): the newest update that was found becomes an aged one, even when
\* it is no longer the file that was read.  An aged file goes when it is old.
RenameNewest(p, m) ==
    LET l   == ld[p]
        tn  == l.t \div ChunkTicks
        age == IF tn + 1 < l.most_recent[m] THEN l.most_recent[m] ELSE tn + 1
    IN  /\ pc[p] = "clean" /\ m \in l.pending /\ m \in l.found_newest
        /\ IF newest[m] = NoFile
           THEN /\ UNCHANGED <<newest, aged>>
                /\ ld' = [ld EXCEPT ![p].pending = @ \ {m}]
           ELSE /\ newest' = [newest EXCEPT ![m] = NoFile]
                /\ aged' = [aged EXCEPT ![m] = Without(m, age) \cup
                     {[n |-> age, content |-> newest[m], mtime |-> now]}]
                /\ ld' = [Forget(ld, <<m, 0>>) EXCEPT ![p].pending = @ \ {m}]
        /\ UNCHANGED <<now, list, nameless, msg, lock, pc, job, committed,
                       updates>>

DeleteIfAged(p, m) ==
    LET l   == ld[p]
        old == {f \in aged[m] : /\ f.n = l.most_recent[m]
                                /\ f.mtime + AgeTicks < l.t}
    IN  /\ pc[p] = "clean" /\ m \in l.pending /\ m \notin l.found_newest
        /\ aged' = [aged EXCEPT ![m] = @ \ old]
        /\ ld' = [(IF old = {} THEN ld ELSE Forget(ld, <<m, l.most_recent[m]>>))
                    EXCEPT ![p].pending = @ \ {m}]
        /\ UNCHANGED <<now, newest, list, nameless, msg, lock, pc, job,
                       committed, updates>>

\* load() returns; a scan also gives up the lock, and the rest retry.
LoadEnd(p) ==
    /\ pc[p] = "clean" /\ ld[p].pending = {}
    /\ pc' = [pc EXCEPT ![p] =
                IF Scanning(p) THEN "idle"
                ELSE IF p \in Adders /\ lock # p THEN "again" ELSE "link"]
    /\ lock' = IF Scanning(p) THEN Release(p) ELSE lock
    /\ ld' = IF p \in Adders /\ lock = p THEN ld ELSE [ld EXCEPT ![p] = NoLoad]
    /\ UNCHANGED <<now, files, msg, job, committed, updates>>

-----------------------------------------------------------------------------
(* Environment                                                              *)

\* The process is killed between two calls; its stale lock gets broken.
Crash(p) ==
    /\ pc[p] # "idle"
    /\ pc' = [pc EXCEPT ![p] = "idle"]
    /\ ld' = [ld EXCEPT ![p] = NoLoad]
    /\ job' = [job EXCEPT ![p] = NoJob]
    /\ lock' = Release(p)
    /\ UNCHANGED <<now, files, msg, committed, updates>>

Expunge(m) ==
    /\ MayExpunge /\ msg[m] = "cur"
    /\ msg' = [msg EXCEPT ![m] = "gone"]
    /\ UNCHANGED <<now, files, lock, pc, job, ld, committed, updates>>

Tick ==
    /\ now < MaxTime
    /\ \A p \in Procs : Loading(p) => now < ld[p].t + MaxStall
    /\ now' = now + 1
    /\ UNCHANGED <<files, msg, lock, pc, job, ld, committed, updates>>

Load(p) ==
    \/ \E m \in Msgs : \/ ScanNewest(p, m) \/ ScanAged(p, m)
                       \/ TryOpen(p, m) \/ OpenFails(p, m)
                       \/ RenameNewest(p, m) \/ DeleteIfAged(p, m)
    \/ ScanEnd(p) \/ ReadList(p) \/ SaveList(p) \/ LoadEnd(p)

Update(p) == Link(p) \/ LinkExists(p) \/ Deliver(p)

Next ==
    \/ \E p \in Procs : \/ Scan(p) \/ Request(p) \/ BeginAdd(p)
                        \/ BeginAppend(p)
                        \/ Load(p) \/ Update(p) \/ Crash(p)
    \/ \E m \in Msgs : Expunge(m)
    \/ Tick

Spec == Init /\ [][Next]_vars

-----------------------------------------------------------------------------
(* Properties                                                               *)

\* What a load has gathered.
LoadState ==
    [t : 0..MaxTime, todo : SUBSET (Msgs \X ({0} \cup Chunks)),
     got : SUBSET (Msgs \X ({0} \cup Chunks)), found_newest : SUBSET Msgs,
     most_recent : [Msgs -> {0} \cup Chunks], keywords : [Msgs -> Content],
     pending : SUBSET Msgs, accept : SUBSET Msgs, save_required : BOOLEAN,
     nameless : BOOLEAN, may : [Msgs -> SUBSET Content]]

\* Every variable holds a value of its kind; who links or delivers has a job.
TypeOK ==
    /\ now \in 0..MaxTime
    /\ newest \in [Msgs -> Content \cup {NoFile}]
    /\ aged \in [Msgs -> SUBSET [n : Chunks, content : Content,
                                 mtime : 0..MaxTime]]
    /\ list \in [Msgs -> Content] /\ nameless \in BOOLEAN
    /\ msg \in [Msgs -> {"coming", "cur", "gone"}]
    /\ lock \in Procs \cup {Nobody}
    /\ pc \in [Procs -> {"idle", "link", "deliver", "again",
                         "scan", "open", "save", "clean"}]
    /\ job \in [Procs -> {NoJob} \cup [m : Msgs, content : Content]]
    /\ ld \in [Procs -> LoadState]
    /\ \A p \in Procs : pc[p] \in {"link", "deliver"} => job[p] # NoJob
    /\ committed \in [Msgs -> Content] /\ updates \in 0..MaxUpdates

\* What a load that runs undisturbed would return for m.
Latest(m)    == CHOOSE f \in aged[m] : \A g \in aged[m] : g.n <= f.n
Effective(m) == IF newest[m] # NoFile THEN newest[m]
                ELSE IF aged[m] # {} THEN Latest(m).content
                ELSE list[m]

\* An acknowledged update is not lost: the directory always gives, for a
\* message of the folder, the keywords of its last acknowledged update.
NoLostUpdate == \A m \in Cur : Effective(m) = committed[m]

\* What a load returns for a message of the folder is the last update that
\* was acknowledged when its final attempt began, or one acknowledged since.
FreshLoad ==
    \A p \in Procs : pc[p] \in {"save", "clean"} =>
        \A m \in ld[p].accept \cap Cur : ld[p].keywords[m] \in ld[p].may[m]

\* What delete_if_aged() relies on: the latest aged update of a message is in
\* :list, so that dropping the file after 15 minutes changes nothing.
AgedInList ==
    \A m \in Cur : newest[m] = NoFile /\ aged[m] # {}
                      => Latest(m).content = list[m]

\* maildirkw -l -a/-r replaces the very keywords that it added to or removed
\* from: no update acknowledged in between is overwritten unseen.
AddSeesLatest ==
    [][\A p \in Adders :
         pc[p] = "link" /\ newest' # newest /\ job'[p] # job[p] =>
            ld[p].keywords[job[p].m] = committed[job[p].m]]_vars

\* Fairness: every process is scheduled; clock, crashes and requests are free.
Fairness == \A p \in Procs : WF_vars(Load(p) \/ Update(p) \/ BeginAdd(p))
FairSpec == Spec /\ Fairness

\* An update that was asked for is acknowledged, or its process dies: loads
\* that start over and updates that retry do not keep each other going forever.
UpdatesEnd == \A p \in Writers : pc[p] = "link" ~> pc[p] = "idle"

-----------------------------------------------------------------------------
(* The inductive invariant of loads and updates that all hold the lock:     *)
(* what is not in a newest update is in :list, and under the largest aged   *)
(* update; a load that has read :list has the keywords of every message.    *)

LockedLoads == Locking /\ Storers = {} /\ Setters = {} /\ Appenders = {}

\* The messages of the folder, and the one that an adder loads the keywords of.
Live == {m \in Msgs : msg[m] = "cur" \/ \E p \in Procs : lock = p /\ job[p].m = m}

Largest(m) == {f \in aged[m] : \A g \in aged[m] : g.n <= f.n}

Kept(m) ==
    /\ newest[m] # NoFile => newest[m] = committed[m]
    /\ newest[m] = NoFile => /\ list[m] = committed[m]
                             /\ \A f \in Largest(m) : f.content = committed[m]

\* What a load in the middle of readdir() knows of m, and what one knows later.
Finds(l, m) ==
    /\ newest[m] # NoFile => m \in l.found_newest \/ <<m, 0>> \in l.todo
    /\ m \in l.found_newest => newest[m] # NoFile
    /\ l.most_recent[m] # 0 => /\ <<m, l.most_recent[m]>> \in l.got
                               /\ \E f \in aged[m] : f.n = l.most_recent[m]
    /\ \A f \in aged[m] : f.n = l.most_recent[m] \/ <<m, f.n>> \in l.todo

Found(l, m) ==
    /\ newest[m] # NoFile <=> m \in l.found_newest
    /\ \A f \in aged[m] : f.n = l.most_recent[m]

LoadInv(p) ==
    LET l == ld[p]
    IN  /\ Live \subseteq l.accept
        /\ \A m \in Msgs :
              /\ committed[m] \in l.may[m]
              /\ pc[p] = "scan" => Finds(l, m)
              /\ pc[p] \in {"open", "save"} => Found(l, m)
              /\ pc[p] = "clean" /\ m \in l.pending => Found(l, m)
              /\ pc[p] \in {"save", "clean"} /\ newest[m] # NoFile => m \in l.pending
              /\ pc[p] = "link" => newest[m] = NoFile
        /\ \A m \in Live :
              /\ pc[p] = "open" /\ m \in Statuses(l) \ l.pending =>
                    l.keywords[m] = committed[m]
              /\ pc[p] \in {"save", "clean", "link"} => l.keywords[m] = committed[m]
              /\ pc[p] \in {"clean", "link"} => list[m] = committed[m]

KeywordInv ==
    /\ TypeOK
    /\ \A p \in Procs :
          /\ pc[p] # "idle" <=> lock = p
          /\ pc[p] \notin {"deliver", "again"}
          /\ pc[p] = "link" => p \in Adders /\ job[p] # NoJob
          /\ p \notin Adders \/ pc[p] = "idle" => job[p] = NoJob
          /\ pc[p] # "idle" => LoadInv(p)
    /\ \A m \in Live : Kept(m)

-----------------------------------------------------------------------------
(* The inductive invariant of loads and updates that do not lock: the file  *)
(* with the latest keywords of a message is its newest update or the        *)
(* largest of its aged ones, and no load removes either.                    *)

\* No load lasts from one chunk into the next, and it is too early for an aged
\* update to be deleted, which :list need not have when loads do not lock.
BriefLoads == MaxStall = 0 /\ MaxTime <= AgeTicks

Stored(m) ==
    /\ newest[m] # NoFile => newest[m] = committed[m]
    /\ newest[m] = NoFile => \A f \in Largest(m) : f.content = committed[m]

\* Of a message that never had an update nobody knows any keywords.
Blank(m) == /\ committed[m] = Empty /\ list[m] = Empty
            /\ \A p \in Procs : ld[p].keywords[m] = Empty

\* A load that runs goes by the time it is, and by names that another load
\* has replaced, if it has, by larger ones.
BriefInv(p) ==
    /\ ld[p].t = now
    /\ \A m \in Msgs : ld[p].most_recent[m] # 0 =>
          /\ \E f \in aged[m] : ld[p].most_recent[m] <= f.n
          /\ pc[p] = "scan" => <<m, ld[p].most_recent[m]>> \in ld[p].got

UnlockedInv ==
    /\ TypeOK
    /\ \A p \in Procs : Loading(p) => BriefInv(p)
    /\ \A m \in Msgs :
          /\ Stored(m)
          /\ newest[m] = NoFile /\ aged[m] = {} => Blank(m)
          /\ \A f \in aged[m] : f.n <= now \div ChunkTicks + 1
=============================================================================
