# A verification project for courier-libs

TLA+ models of the parts of courier-libs that several processes or threads
share, the TLC runs that check them on small instances, and theorems about them
that TLAPS proves for instances of any size.

courier-libs is the common library code of the Courier mail server, Courier-IMAP,
SqWebMail and maildrop. Most of it are functions over text that one process runs
for one message (parsers of headers, MIME, Unicode, filter scripts): they have
test suites of their own, and nothing of them depends on the order in which things
happen. What is hard in this code, and what this project is about, is a *maildir*:
a directory that IMAP servers, POP3 servers, web mail, the mail transport and
command line tools read and change at the same time, mostly without locks, across
hosts, where any of them can be killed between two system calls.

## Contents

1. The system and its parts
2. Modules and runs at a glance
3. The lock of a maildir: `MaildirLock`
4. The scan of a mailbox and its UIDs: `UidScan`
5. The keyword store: `KeywordStore`
6. The quota of a maildir: `MaildirQuota`
7. The UIDLs of the POP3 server: `Pop3Uidl`
8. The pool of threads: `ThreadPool`
9. The slots of couriertcpd: `TcpdSlots`
10. The cache of TLS sessions: `TlsCacheRing`
11. What is proved
12. What the runs found
13. What is not modelled, and the plan

To check a module: `tlc -config ScanLocked.cfg MCUidScan` for a run,
`tlapm UidScanProofs.tla` for its proofs.

## 1. The system and its parts

| Part | Where | State | Operations | What makes it correct |
|---|---|---|---|---|
| Maildir lock | `liblock/mail.c`, `maildir/maildirlock.C`, `maildir/maildirwatch.C` | the file `tmp/courier.lock`, which names process and host of its maker | make it with `link()`, judge one that is in the way, remove a stale one, wait for one to go, release | one holder at a time; the lock of a live holder is not taken away; no lock stays in the way for good |
| Mailbox scan | `imap/imapscanclient.C`, called by `imap/imapd.C` | the database `courierimapuiddb`; files in `tmp`, `new`, `cur`; the client's view in each imapd | SELECT, EXAMINE, NOOP, APPEND, COPY, STATUS, EXPUNGE | under one UIDVALIDITY, a UID names one message for good and UIDs only go up; the view that NOOP updates is merged with the right messages |
| Keyword store | `maildir/maildirkeywords.C`, `maildirkw.C`, callers in `imap/` | the directory `courierimapkeywords`: updates, aged updates, `:list` | load, update, age, expire | an acknowledged update is not lost, with or without the lock; a load is up to date; retries end |
| Thread pool | `threadlib/pthread.c` | stack of idle threads, a flag and metadata for each | `cthread_init`, `cthread_go`, `cthread_wait` | each task runs once; no wakeup is lost; no thread is cancelled in a task |
| Connection slots | `tcpd/tcpd.c`, `waitlib/waitlib.c` | table of child processes and addresses | accept, fork, reap in a signal handler, reopen the access file | limits hold in total, by address and by netblock; a slot is taken by a child that lives; a connection that waits is taken; no SIGHUP is lost |
| TLS session cache | `tcpd/tlscache.c`, callbacks of `tcpd/libcouriertls.c` | a ring file with head and tail | add, find, delete | an entry that is read was written, whole; the oldest go first, and only for room; the file is not thrown away without reason |
| Maildir quota | `maildir/maildirquota.C`, its callers | the file `maildirsize`, appended to without lock | check, add, recalculate | an accepted count is right; the total drifts by known races only; mail for which there is room is delivered in the end |
| Mailbox locks, daemons | `liblock/mail.c` (rest), `lockdaemon.c`, `liblog/logger.c` | lock files, pid files | lock an mbox file; start, stop, restart a daemon | one holder; one daemon; stop waits for it |
| Change notices | `maildir/maildirwatch.C` (rest) | inotify descriptors | IDLE | no change goes unnoticed |
| POP3 server | `imap/pop3dserver.C` | the file of UIDLs, the list of a session, its deletions | login, RETR, DELE, RSET, QUIT | a UIDL names one message for good; what disappears was to be deleted |
| SMAP server | `imap/smap.C`, `smapsnapshot.C` | snapshots of folders | resume from a snapshot | a client that resumes ends with the folder as it is |
| IMAP server, rest | `imap/*.C` | the state of one connection | parser, FETCH, SEARCH, THREAD, LIST, ACL, proxy, login | sequential |
| Rest of maildir | `maildir/*` | ACL files, shared folder links, filter files | | mostly sequential |
| maildrop | `maildrop/*` | the message it delivers | filter language | sequential |
| Calendar server | `pcp/*` | events, proxies, reservations | | |
| Web mail | `sqwebmail/*`, `cgi/`, `ldapaddressbook/`, `gpglib/` | one request | | sequential, on top of maildir |
| Libraries | `rfc822`, `rfc2045`, `unicode`, `rfc1035`, `md5`, `sha1`, `numlib`, ... | none, or one object of its caller | | functions |

How they interact:

    mail transport, maildrop --(rename into new)--> maildir <--(rename, unlink)-- POP3
                                                      ^
    imapd --imapscan_maildir()--> lock of the maildir | courierimapuiddb,
      |       (IMAP_USELOCKS)     = ll_dotlock()      | new -> cur
      |                                               |
      +--load(), update()--> courierimapkeywords <--- + ---maildirkw (-l: with the lock)
      |
      +--COPY, APPEND, EXPUNGE--> maildirsize <--check, append-- deliverquota, maildrop, POP3

    couriertcpd --(fork, one child a connection)--> couriertls --> TLS session cache
                <--(SIGCHLD)------------------------  imapd, pop3d

There is no server process that owns a maildir. Processes meet in system calls:
`link()`, `rename()`, `open(O_EXCL)`, `unlink()`, `readdir()`. So the step of a
model is a system call, or a run of them between which nothing that is shared is
read or written; all that a process remembers in between may be out of date.

What is hard here: interleavings of calls without a lock; directories that change
while they are read; a file that has been replaced since it was opened; processes
killed between two calls; `link()` over NFS that succeeds and says it failed; clocks
with a resolution of seconds and names made of times; retries that could go on
forever; calls that fail in the middle of a sequence (disk full). `PROJECT.json`
lists these hazards one by one, each with its line and the properties that watch it.

## 2. Modules and runs at a glance

| Module | What it is |
|---|---|
| `MaildirLock`, `MCMaildirLock`, `MaildirLockProofs` | the dot lock of a maildir, its instances, its proofs |
| `UidScan`, `MCUidScan`, `UidScanProofs` | imapd's scan of a mailbox, its instances, its proofs |
| `UidSequence` | what clients are promised of UIDs; `UidScan` implements it |
| `KeywordStore`, `MCKeywordStore`, `KeywordStoreProofs` | the keyword store and all its callers, its instances, its proofs |
| `MaildirQuota`, `MCMaildirQuota`, `MaildirQuotaProofs` | `maildirsize` and the programs that write it, its instance, its proofs |
| `Pop3Uidl`, `MCPop3Uidl`, `Pop3UidlProofs` | sessions of the POP3 server, its instance, its proofs |
| `ThreadPool`, `MCThreadPool`, `ThreadPoolProofs` | the pool of threads, its instances, its proofs |
| `TaskPool` | what the header promises of the pool; `ThreadPool` implements it |
| `TcpdSlots`, `MCTcpdSlots`, `TcpdSlotsProofs` | the accept loop of couriertcpd with its signal handlers, its instance, its proofs |
| `TlsCacheRing`, `MCTlsCacheRing`, `TlsCacheRingProofs` | the ring file of TLS sessions, its instance, its proofs |
| `SessionCache` | the queue that `tlscache.h` promises; `TlsCacheRing` implements it |

The modules meet at the lock. `UidScan` and `KeywordStore` have a variable `lock`
that is taken and released in one step and is free again when its holder dies:
that is what `MaildirLock` shows of the code of the lock (mutual exclusion, and that
a dead holder's lock is broken), under the assumptions it names. `MaildirQuota` and
`Pop3Uidl` have no lock, as the code has none. They, and `UidScan`, model the same
messages, each with what its part of the code sees of the others: `Expunge` and `Store`
of `Pop3Uidl` are an IMAP server, `PopDelete` of `UidScan` is a POP3 server.

Each specification has *faults*: copies of one of its definitions with a mistake in
them, which are marked as such and are no part of `Spec`. They document, for every
property, a plausible mistake in the code that it catches.

| Run | Checks | Result |
|---|---|---|
| `Lock` | `TypeOK`, `MutualExclusion`, `HolderHasFile`, `SomebodyLocks` | holds |
| `LockBreaksLive` | `BreaksOnlyStale` | violated by the code |
| `ScanLocked` | `TypeOK`, `NextUidAbove`, `ImplementsUidSequence`, `NoopMerges` | holds |
| `ScanStable` | `MessageKeepsUid`, `UidNextKept` | holds |
| `ScanExamine` | `NoopMerges` | violated by the code |
| `KeywordLocked` | `NoLostUpdate`, `FreshLoad`, `AddSeesLatest` | holds |
| `KeywordLive` | `TypeOK`, `NoLostUpdate`, `UpdatesEnd` | holds |
| `Quota` | `TypeOK`, `CountsExact`, `DriftOnlyFromRaces`, `DeliveryResumes` | holds |
| `Pop3` | `UidlsKept`, `RemovedAsAsked` | holds |
| `ThreadPool` | `TypeOK`, `CancelOnlyIdle`, `WaitForAll`, `MetadataStable`, `ImplementsTaskPool`, `TasksDone`, `WaitReturns` | holds |
| `Tcpd` | `TypeOK`, `SlotsMatch`, `LimitsKept`, `HupNotLost`, `ConnectionTaken` | holds |
| `TlsCache` | `TypeOK`, `RemovedIfLarge`, `ImplementsCache`, `DropsForRoom` | holds |

Each takes three minutes or less. Deadlock is checked in all of them but `Quota`, where
everything may come to rest: every message was delivered and removed, and the file is old.
A pool of threads that was freed stops, and says so (`Ending`).

## 3. The lock of a maildir: `MaildirLock`

`maildir::watch::lock` makes a temporary file that says who it is and links it to
`tmp/courier.lock` (`try_dotlock()`). If that fails because there is one,
`dotlock_exists()` opens it, reads the name of its maker, and asks `kill(pid, 0)` after
a process of its own host, or looks at the age of a file of another host. A stale
file is unlinked and `do_lock()` sleeps for five seconds before it tries again;
otherwise it waits, with inotify or for a time, until the file is gone.

| Model | Code |
|---|---|
| `file`, `old` | `tmp/courier.lock`: who made it, and whether it is older than the timeout |
| `pc`, `read` | where each process is in `do_lock()`, and what `dotlock_exists()` read from its descriptor |
| `removed` | the inotify event of `maildir::watch::unlock()` |
| `Lock`, `Link`, `LinkExists`, `LinkReplyLost`, `LinkFails` | `try_dotlock()`; over NFS the reply to a `link()` that was made may say EEXIST, and a `link()` that fails for another reason, or whose file has not two links, ends the attempt and may leave the lock file |
| `Open`, `Judge`, `Break` | the three calls of `dotlock_exists()`: `open()` and `read()`, `kill()`, `unlink()` |
| `Watch`, `WatchEnd`, `WatchTimeout`, `Sleep` | `do_lock()` and `unlock()` between two attempts |
| `Unlock` | the destructor, which unlinks the name whatever it is |
| `Age`, `Crash`, `Exit`, `Start` | time and the system; `Start` gives an id to a new process |

Time is abstracted to two assumptions that runs switch on: `Brief`, a process that
lives is done with its lock before the file is old; and `Prompt`, a process that judges a
lock file is done before another file is made under its name. The code has something
for the second one, the five seconds in which the process that removed a stale
lock sleeps; but a process that comes just then, or has watched the file, does not
sleep. Where one of them is faster than a second judge of the same file, that
judge removes its new lock: `Prompt` is needed, whether the first lock was left by a killed
process, with four processes, or by one that unlocked and exited (`LockBreaksLive`).

* `Lock`: three processes on two hosts, of which two may be killed anywhere, one may exit and
  its id be used again, and one reply to `link()` is lost. One whose `link()` fails, made or not, counts as
  killed. On two hosts, they find stale files by the id of their maker and by age. Under `Brief` and `Prompt`
  one process at a time has the maildir, its lock file stays, and no other lock file stays in the
  way. Four processes are where a killed one, two that judge the lock it left and one
  that wants the maildir meet; the theorems of section 11 are about any number of them.
  Fairness: every process takes its next step of an attempt (`WF(Attempt)`), because a
  process that wants the lock is runnable or in a sleep or a `poll()` with a timeout;
  holders unlock (`WF(Unlock)`), as the lock is an object with the scope of one scan;
  time passes (`WF(Age)`). Nothing is assumed of crashes or of processes that have not
  begun. `SomebodyLocks` is not freedom from starvation: the code has no queue. The id of
  a *killed* process does not come back in the model: a process that gets it
  keeps the lock file in the way for as long as it lives, since locks of
  the same host do not time out (`mail.c:319`).
* `LockBreaksLive`: without `Prompt`, `BreaksOnlyStale` fails; see section 12. With `Prompt` it would only
  repeat the test of `dotlock_exists()`, and is not listed.

## 4. The scan of a mailbox and its UIDs: `UidScan`

`do_imapscan_maildir2()` reads `courierimapuiddb` (UIDVALIDITY, next UID, a UID for each
file name), or makes one whose UIDVALIDITY is the time of the new file; moves
messages that APPEND and COPY have written from `tmp` to `cur` and gives them UIDs; opens
a temporary file that will be the new database; reads `cur`; reads `new` in batches and
moves what it finds to `cur`; numbers all that has no UID in the order of file names; and
if anything changed writes the temporary file and renames it over the database, or, if
that fails, unlinks the database.

| Model | Code |
|---|---|
| `place` | the directory in which each message is; `gone` when it was unlinked |
| `db` | the contents of `courierimapuiddb`, `Nobody` when there is none |
| `job[s]` | the local variables of the scan of session `s`: `known` is what the database said, `found` what of it is in `cur`, `fresh` what is to be numbered, `made`, `open` the state of the files |
| `view[s]` | `current_maildir_info`, the mailbox as the client of `s` knows it |
| `given` | history: the UIDs that clients were told under each UIDVALIDITY, by EXAMINE and the NOOP after it as well |
| `Begin` by `Select`, `Noop`, `Append`, `Status`, `Close` | `imapscan_maildir()` takes the lock; step 1 of the scan |
| `Move`, `Open`, `ReadCur`, `ReadNew`, `Rename`, `Save` | steps 2 to 8, and the answer to the command |
| `Deliver`, `PopGetNew`, `PopDelete`, `Expunge` | what others do to the files without the lock |
| `Crash` | a session killed in the middle of a scan |

Read-only scans (EXAMINE, STATUS, NOOP after EXAMINE) number messages, but save no
database; EXAMINE moves messages of `new` to `cur` all the same. A file
that STORE renames while `cur` is read may be seen once, not at all, or
under both names (`missed`, `twice` in `ReadCur`). `Failures` says which calls may fail:
`create` (the first database), `open` (the temporary file), `write`.

Properties: `ImplementsUidSequence` (refinement of `UidSequence`: no UID is given again
under its UIDVALIDITY, and later ones are larger), `MessageKeepsUid` (a message that a
scan has given a UID keeps it), `NextUidAbove`, `NoopMerges` (`doNoop()` merges the
client's view and the new scan in order of UIDs, and takes the same UID for the same
message: that must be so), `UidNextKept` (UIDNEXT of STATUS is not above a UID given later).

* `ScanLocked`: SELECT, NOOP, APPEND and EXPUNGE in two sessions, three messages that
  arrive in any order of their names, a POP3 client, one renamed file, one crash. Three
  messages are what it takes to have one in the database, one appended and one in `new`
  at once; batches of two have the loop over `new` go round.
* `ScanStable`: SELECT, NOOP, STATUS and EXPUNGE in two sessions, with one call of any kind that
  fails and one crash. Mail arrives in the order of its file names, as these begin with the
  time. Three restrictions are needed for its properties to hold at all, and say
  something of the code. No EXAMINE: it tells UIDs that it does not save. No APPEND: a message that is
  appended takes the next UID before those that wait in `new`, and the UIDNEXT of a STATUS in between has
  counted them (`UidNextKept`; that APPEND does not change the UID of a message is the theorem `UidsAreKept`). No
  rename while `cur` is read: a message that `readdir()` returns under both names, or
  misses, gets a new UID.
* `ScanExamine`: see section 12.
* In all of them a second passes before a database that was lost is made again
  (`Ticks`); the UIDVALIDITY is a time in seconds, and DELETE and RENAME of folders in
  imapd sleep for two seconds for that reason. And all of them lock (`Locks`), as
  IMAP_USELOCKS has it, which is the default: two scans without the lock read the same
  next UID and give it to two messages, which the model shows with `Locks = FALSE`.

## 5. The keyword store: `KeywordStore`

A directory `courierimapkeywords` has a file for each message that was updated
recently, written to `tmp` and *linked* into place so that the update that is
there is never overwritten (`update()`). `load()` reads all of them, rewrites the
file `:list` with all keywords of the folder, and renames each update it
read to `.N.name`, where N is a chunk of 300 seconds. Aged files go after 15 minutes;
of two for one message the larger N counts. If anything it has found is gone
before it is opened, it starts over. An update that finds one in its way runs a load,
which ages that, and tries again.

| Model | Code |
|---|---|
| `newest[m]`, `aged[m]`, `list`, `nameless` | the files of the directory; `nameless`: lines of `:list` without a file name |
| `ld[p]` | the local state of `attempt_load()`: `messagestatus` (`found_newest`, `most_recent`), what was read, `accept`, the messages that the caller's `set()` knows |
| `Scan`, `Request`, `BeginAdd`, `BeginAppend` | folder scan of imapd; STORE and `maildirkw`; `maildirkw -l` with `-a` or `-r`; APPEND and COPY |
| `Link`, `LinkExists`, `Deliver` | `update()` and the loops of its callers |
| `ScanNewest`, `ScanAged`, `ScanEnd` | `readdir()` one name at a time; a file renamed meanwhile may or may not be returned |
| `TryOpen`, `OpenFails`, `ReadList`, `SaveList`, `RenameNewest`, `DeleteIfAged`, `LoadEnd` | the rest of `load()`, one call each |

The keywords of an update are the number of the update (or `Empty`), so that two
updates are never confused. A tick of the clock is a chunk of 300 seconds.

* `KeywordLocked`: everything under the lock. Two messages, two adders, six ticks: a
  file is made, aged and expires (three chunks), with a second update in between. Messages
  may be expunged and processes killed. Only with the lock is a load up to date (`FreshLoad`):
  without it `readdir()` may miss an update that is renamed, and the load returns the
  keywords before it, or none.
* `KeywordLive`: no lock, two chunks; a scan, STORE with its retry, `maildirkw` and APPEND,
  two updates that conflict, and one clock, that of the host. This is what the
  choice of names is for (the larger N counts) and `NoLostUpdate` holds as long as no load
  lasts from one chunk into the next (`MaxStall = 0`); hosts whose clocks differ are not modelled. Fairness is that every process is
  scheduled; a crash is always possible, and ends an update too. `UpdatesEnd`: loads that
  start over and updates that retry do not keep each other going. The limit of 1000 turns, at
  which `load()` throws (`maildirkeywords.C:761`), is left out: turns end without it.

## 6. The quota of a maildir: `MaildirQuota`

The first line of `maildirsize` is the quota, and every program that adds or removes a message
appends a line with its size. The sum is trusted, unless the file is too
long to be read in one `read()`, or the sum is below zero, or it is over the quota and the file has more
than one line or is older than 15 minutes. Then `docheckquota()` counts the messages,
renames a new file over the old one, and looks again at the time stamps of the directories. If
these have changed, a delivery counts again, up to five times, and then goes on without
recording anything; a removal does not look at the answer.

| Model | Code |
|---|---|
| `place`, `stamp` | the messages in `new` and `cur`; `st_mtime` of both directories |
| `file` | `maildirsize`: sum, number of lines, and whether it is younger than 15 minutes |
| `task[t]` | a process that delivers or removes one message: `struct maildirsize` and the locals of `docheckquota()`. `fd` says whether what it has open is still `maildirsize` |
| `Deliver`, `Deleted` | `maildir_quota_add_start()`, `maildir_quota_deleted()`, up to `open()` |
| `Check`, `NoQuota` | `maildir_safeopen()` looks with `lstat()` whether it has opened the file of that name, and the sum is checked. If a recount has replaced the file in between, or it cannot be read, the maildir has no quota: nothing is checked or recorded |
| `Stat`, `Read`, `Rename`, `CountFails`, `Accept`, `CountAgain`, `Punt` | `docount()`, and the end of `docheckquota()` |
| `Move`, `Unlink`, `AddQuota`, `AppendFails` | the change of the maildir, and `maildir_quota_add_end()`, which does not ask whether the line was written |
| `Seen`, `RemovedUnseen`, `Age`, `Crash` | IMAP clients, clients without quotas, time, the system |

Programs differ in the order of what they do: `deliverquota` and COPY move the message and then append
(`after`); maildrop and APPEND append first (`before`); EXPUNGE, QUIT and maildirpurge remove the
file and then check and append (`expunge`); a message that goes to Trash is
checked, appended and then moved (`trash`). All four are in the run.

`CountsExact`: a count that is accepted is the number of messages at that time. It needs two
conditions, which say what the second look at the directories cannot see: a change in the same second
as another (`calm`), and a change of the directory counted first that is followed by one of the other
before that is looked at, as only the latest time stamp is kept. Those are wrong counts that line 535 accepts, and of
them `CountsExact` says nothing. `DriftOnlyFromRaces`: with the tasks under way accounted
for, the total is thrown off by nothing but what the property lists: a recount, a delivery or removal that goes on without the
current file, a call that fails, a process that dies, a client without quotas. One of these is no race: `maildir_quota_deleted()` that counts itself
no longer finds the message that was unlinked, and then appends its negative size all
the same. `DeliveryResumes` is what makes all this bearable: whatever threw off the
total, it is counted again and a message for which there is room gets in.

Bounds: two messages and room for one, so that one waits for the other; three lines fill the
file, so that a recount for length and one for being over quota both happen; two tries, so that a
delivery counts again and gives up; one process killed, or call that fails; one
removal that leaves no line. No two changes share a second in the run (`SameSecond`); the theorems of section 11 are about those too, and
with them `DeliveryResumes` holds as well, in a run of some minutes. Fairness: the process of each task is scheduled, the sender of a message that
was refused tries again (as mail transports do), and time goes on.

Left out of the model: messages have the size one, so that the two sums (bytes and
number) are one; both `stat()`s of the second look are a step, and so is `readdir()` of one directory, and
`lstat()` with the reading of the file; a line is not written in part.
Several deliveries at once may overshoot the quota, which the documentation allows.

## 7. The UIDLs of the POP3 server: `Pop3Uidl`

A login moves what is in `new` to `cur`, reads `cur`, sorts the names, and merges them with
`courierpop3dsizelist`: a message that is in it keeps its UIDL, others get the next UIDs, and if anything
changed the file is written again and renamed. If that fails, new messages are hidden from this session, or, when there are no
others, the first alone is shown with a UIDL made of its inode. RETR adds the flag S to
the name of a file; QUIT unlinks, by the name the session remembers.

| Model | Code |
|---|---|
| `place`, `seen` | the messages, and which of them have S in their names; a name is a message and this flag |
| `file`, `now` | `courierpop3dsizelist`; the time of a new one |
| `sess[s]` | `msglist_l`, the UIDLs, `isdeleted`; `names` and `steady` are what `readdir()` may and must return; `asked` is history: what the client has deleted and not taken back |
| `shown` | history: each UIDL that a client was told, and for which message |
| `torn` | history: how often each file was renamed while a session read `cur` |
| `Login`, `ScanCur`, `ReadList`, `Save`, `SaveFails` | `opendir()` and the end of `readdir()` in `scancur()`, the sort, `readpop3dlist()` and the merge of `sortmsgs()`, `savepop3dlist()` and its failure |
| `Disturb`, `Renamed` | what a file that comes, goes or is renamed does to the sessions that read `cur` meanwhile |
| `Retr`, `Dele`, `Rset`, `Quit`, `Cleanup`, `CleanupEnds`, `Disconnect` | `loop()` and `cleanup()`, one file at a time |
| `Arrive`, `Store`, `Expunge`, `LoseList` | deliveries, IMAP clients, the file that is lost |

A file that is renamed while a session reads `cur`, by STORE or by RETR of another session, may be returned under its
old name, its new one, both or none (`ScanCur`). Names are compared without their flags, so that
the merge takes both for the same message, and gives the second a new UID; a message that was missed is dropped from
the list that is saved, and gets a new UID at the next login (section 12).

`UidlsKept` says what is left: no UIDL is told for two messages, the UIDLs of one session differ, and a message that was not renamed
during some `readdir()` has one UIDL as long as the file is not lost. One that was shown under the name of
its inode gets a UID later. Nothing is locked, so this is checked as long as no two sessions were between
`opendir()` and the end of `savepop3dlist()` at once (`raced`): two that log in at the same time may number different messages alike.
That the UIDLs of one session differ holds in any case. `RemovedAsAsked`: what disappears was removed by
another client, or by a session in QUIT that had deleted its number: not by one that was cut off, and not
after RSET. That a message whose file was renamed stays after DELE and QUIT, without a word, is no part of it.

`Pop3` has two messages and two sessions, which is enough for a message to be new to one session and known to the other, for a file to
change its name under the other, and for one message to take the UID of the other; the names sort in another order than the messages
arrive. `Few` bounds what comes together: one list that cannot be saved or is lost, or one message that is renamed in a
`readdir()`; and sessions at the same time only where there was neither, with one message at a time that has its flag, and deletions of
one of the two. Sessions are symmetric.
The theorems of section 11 have none of these bounds. Left out: `readdir()` that
returns the same name twice. `TypeOK` is not listed with the run, but holds in it and is a conjunct of `Pop3Inv`.

## 8. The pool of threads: `ThreadPool`

Sections under a mutex are single steps, `pthread_cond_wait()` ends one;
signals are sent after the mutex is released and are steps of their own;
condition variables wake up spuriously. `cthread_go()` stores the
task in the metadata of its thread outside of any mutex, and `cthread_wait()` cancels the
threads: what these two rely on is what `MetadataStable` and `CancelOnlyIdle` say. Two
threads and two callers have them contend for `newtask_cond`; a third task has a
thread taken again. Callers of `cthread_wait()` and of `cthread_go()` do not sleep at once in the
model: the first frees the pool, so that the others would have none. `TaskPool` is the promise of the header. Fairness: threads that
can run do, and the functions of tasks return; callers need never begin, and nothing
depends on a spurious wakeup.

## 9. The slots of couriertcpd: `TcpdSlots`

The parent waits for a connection, looks for a free slot from where it last found one, accepts, forks, and
puts the child into the slot; the handler of SIGCHLD reaps children and frees their slots.
When all slots are taken `wait_forchild()` waits for a child. The child counts, in the copy of the table
it was forked with, the connections of its address and netblock.

| Model | Code |
|---|---|
| `pids`, `addrs`, `ptr` | the table, and where the next search begins |
| `pc`, `conn`, `child` | where the accept loop of `doit()` and `accepted()` is |
| `blocked`, `pending`, `handler` | SIGCHLD: `wait_block()`, the kernel's one bit, and whether `childsig` or the default is its action |
| `proc`, `from` | the kernel's processes, and which client each serves |
| `sighup`, `file`, `rules`, `hupFile` | `sighup_received`, the edition of the access file on disk, the one that is open, the one at the last SIGHUP |
| `Select` to `Store` | the accept loop, a step for each point at which a signal changes something |
| `ChildSig`, `Hup` | the signal handlers, between any two steps |

`SlotsMatch`: taken slots and children that were not reaped correspond one to one. It fails when
`wait_block()` is left out around `fork()`, which is the `Fork` fault. `LimitsKept` speaks of the kernel's processes,
not of the table. `HupNotLost`: the parent has the edition of the last SIGHUP, or is going to open it.
`ConnectionTaken`: the loop never stops while a connection waits, although `wait_forchild()` drops a
SIGCHLD that is pending, so that a child that ended while the slots were full may keep its slot until the
next one ends, and although a `fork()` that fails leaves SIGCHLD blocked. An access file that cannot be opened
after a SIGHUP leaves none (`Closed`), until the next one. Fairness: the parent is
scheduled, signals are delivered, children end. Three slots and three process ids: a slot is found after the
end of the table, and ids are used again; two addresses of one netblock with limits 1 and 2.

## 10. The cache of TLS sessions: `TlsCacheRing`

A file of fixed size holds a header with `head`, `tail` and `first`, and sessions that are
written from its end towards its beginning, each with the sizes of itself and of the one written
after it. When an object does not fit at the beginning the file wraps, and `first` is where it did. `doadd()` drops
objects at the tail until there is room; `dowalk()` goes from head to tail. Any check that
fails makes the caller remove the file. `cells` is the file, an object at each offset or
`Junk`; `pc` is the write that comes next. `Path` is the walk: the offsets a search reads, as many
as there are headers that fit into the file. All of `tls_cache_add()` is done under a lock on the whole
file, but a process may die between two writes or in the middle of one (`Crash`).

`ImplementsCache` is a refinement: read along the walk, the file is the queue of `SessionCache`, to which
sessions are added in front, dropped from the end, and changed in place, whichever way the ring wraps and
whichever write a process dies after. `DropsForRoom`: nothing is dropped
while there is room; the bytes that objects cover are counted, and the gap that wrapping leaves is
less than the largest object. `RemovedIfLarge`: the checks fail only after an object larger than a quarter of the file
was added. It is larger objects that show the limit of `doadd()`: popping down to the newest
object, whose `prev_size` is still 0, looks like corruption, and the file is removed with what it had. In the code the file has
at least 16384 bytes and a record at most 8192, so that this can happen. A third is not
enough: with objects of 2 and 3 in 9 units the file is removed. The other way to it is the loop of
`doadd()`, which gives up after 100 turns. They are enough where no object is more than 49 times as
long as another (`EnoughPops`, which the bounds of the run meet): an object that is larger than that may need more room
than 99 small ones leave.

A session is live, has timed out, or was deleted. A search passes over the last two; a deletion compares the
timeout with zero, not with the clock, and so takes the first session of that id which was not deleted, though it has timed out
(`Delete`).

Bounds: 14 units, 2 for the header and 1 for that of an object, sessions of 1, 2 and 6 units, one id; four pops where the
code allows 100. Objects of 2 and 3 units are no more than a quarter of the 12 that are left, so that they mix
without a large one, and gaps of one unit arise at the wrap; that of 7 is large. All branches of `doadd()` are taken.
Ids play no part in the ring.

The length of an id is written as an `unsigned int` and read as a `size_t`. The run has both of one size: where they differ
(`SizeSize = 8`, all 64-bit builds) nothing is ever found or deleted, and `AddedIsFound` (`cache_get()` finds what was just added),
which holds with `SizeSize = 4`, fails with the first session. It is a known limit (section 12), and no property of a run.

## 11. What is proved

Each module `...Proofs` proves its theorems for every value of the constants that the
`ASSUME` of the model allows: any number of processes, messages, slots or threads, and
whatever the bounds `Max...` are. TLC checked each inductive invariant on the instance
of its component before it was proved. A hypothesis of a theorem is a named definition
of the model, so that a run's cfg shows whether it is met.

| Theorem | States | Holds |
|---|---|---|
| `MaildirLockProofs.TypeCorrect` | `TypeOK` | always |
| `.Exclusion`, `.HoldersKeepTheirFile` | `MutualExclusion`, `HolderHasFile` | `NobodyEnds`, or `Prompt` and `Brief` |
| `UidScanProofs.TypeCorrect`, `.NextUidIsAbove`, `.UidsOnlyGrow` | `TypeOK`, `NextUidAbove`, `ImplementsUidSequence` | `LockedScans` |
| `.UidsAreKept` | `MessageKeepsUid` | `StableScans` |
| `.UidNextIsKept` | `UidNextKept` | `OrderedScans` |
| `.NoopMergesByUid` | `NoopMerges` | `MergingScans` |
| `KeywordStoreProofs.TypeCorrect` | `TypeOK` | always |
| `.NoUpdateIsLost`, `.LoadsAreFresh`, `.AddsSeeLatest`, `.AgedIsListed` | `NoLostUpdate`, `FreshLoad`, `AddSeesLatest`, `AgedInList` | `LockedLoads` |
| `.NoUpdateIsLostUnlocked` | `NoLostUpdate` | `BriefLoads` |
| `MaildirQuotaProofs.TypeCorrect`, `.CountsAreExact`, `.DriftIsFromRaces` | `TypeOK`, `CountsExact`, `DriftOnlyFromRaces` | always |
| `Pop3UidlProofs.UidlsAreKept`, `.OnlyAsAsked` | `UidlsKept`, `RemovedAsAsked` | always |
| `ThreadPoolProofs.TypeCorrect`, `.WaitsForAll`, `.CancelsOnlyIdle`, `.MetadataIsStable`, `.PoolImplements` | `TypeOK`, `WaitForAll`, `CancelOnlyIdle`, `MetadataStable`, `ImplementsTaskPool` | always |
| `TcpdSlotsProofs.TypeCorrect`, `.SlotsAlwaysMatch`, `.LimitsAreKept`, `.HupsAreKept` | `TypeOK`, `SlotsMatch`, `LimitsKept`, `HupNotLost` | always |
| `TlsCacheRingProofs.TypeCorrect`, `.RingIsQueue`, `.DropsAreForRoom` | `TypeOK`, `ImplementsCache`, `DropsForRoom` | always |
| `.RemovedIsLarge` | `RemovedIfLarge` | `EnoughPops` |

The hypotheses, and what in the code they stand for:

* `NobodyEnds`: no process exits or is killed, and holders are done before their lock file is old.
  `Prompt` and `Brief` are the two assumptions of section 3; with them processes
  may be killed, exit and have their ids used again.
* `LockedScans`: scans lock (IMAP_USELOCKS), a second passes before a database is made
  again, its first file can be made (else the UIDVALIDITY is read from uninitialized memory), nobody uses
  EXAMINE, and there are finitely many messages. EXAMINE tells UIDs that are not saved and may be given to another message
  (`ScanExamine`), so that none of these theorems holds with it. The run `ScanStable`
  admits one failure of the first file, which these theorems leave out.
* `StableScans`: also, no file is renamed while `cur` is read. `OrderedScans`: also, mail
  arrives in the order of its file names, and neither POP3 nor APPEND moves any, as in
  `ScanStable`. `MergingScans`: `LockedScans` and no call fails: NOOP does not look at the
  UIDVALIDITY of a database that was lost and made again.
* `LockedLoads`: keywords are read and changed under the lock, by scans of folders and by
  `maildirkw -l`. STORE, `maildirkw` without `-l` and APPEND do not lock.
* `BriefLoads`: all operations, with the lock or without. No load lasts from one chunk of 300 seconds into
  the next (`MaxStall = 0`), and the clock has not passed the 15 minutes (`MaxTime <= AgeTicks`) after which an
  aged update may be deleted: what `:list` has by then is not certain without the lock. Section 12 says
  how an update is lost in either case. The run `KeywordLive` meets it.
* `EnoughPops`: the 100 turns of the loop in `doadd()` are enough,
  as they are in a cache where no object is more than 49 times as long as another.

**`MaildirLockProofs`**. Neither mutual exclusion nor `HolderHasFile` is inductive, since the
lock may be judged by others at the time. With `NobodyEnds`, `LockInv` adds that of a file that was read no maker can be
found stale but the reader itself, and that a file which says its reader's own id is
still there: so the only file that is removed is one whose maker does not know it has
it. With `Prompt`, `PromptInv` says that a file which is there while somebody judges is the one that was
read, and that who is found stale was killed.

**`UidScanProofs`** has four inductive invariants that build on one another.
`ScanInv` says of the database and of the scan that goes on, there being one, that
everything given under its UIDVALIDITY is below its next UID, and that each UID the
scan knows was given before or is above all that were (a message that was added, whose
scan has not ended). The one thing that needs care is a scan that saves nothing: it must have
nothing new to give (`CleanGivesNothing`), which is why `JobInv` relates a scan that is
not dirty to the database that is still there. That numbering gives different UIDs
rests on `RankInjective`: in a strict order of finitely many files no two have the same
number of predecessors. `KeepInv` adds that a message which was given a UID and is in
`cur` is in the database, in what a scan knows, and not among what it will number. `NextInv` adds a
count: what STATUS answered is at most the next UID plus the number of the messages it
counted that still wait, in the database and in the scan that goes on (`LeavesRoom`);
numbering a batch takes from one what it adds to the other. `MergeInv` says that all a
client knows was given under the UIDVALIDITY of the database, and that what the database
has of smaller UIDs the client knows too; a UID in the middle of a scan that is below
one that was given is then in the database (`BelowIsOld`).

**`KeywordStoreProofs`**. Under the lock a message's acknowledged keywords are in
its newest update or, if it has none, in `:list` and in the largest of its aged
updates (`Kept`); both are needed, as an aged update expires and a load prefers it to `:list`. A load
is followed through `readdir()`, which returns names one at a time: a file is still to
come or was returned, and of those aged the largest is left (`Finds`), until all is
known (`Found`). `LoadInv` then says of each later call what has been put right for which
messages, so that a process may be killed between any two of them. The lock is held from `readdir()` to
the end of an update, which is what makes these facts stable; the types need no lock.

Without the lock these facts about a load are lost at once, and `UnlockedInv` is about names instead: the acknowledged
keywords are in the newest update or in the largest of the aged ones (`Stored`), whichever load has renamed it
there. An update that `cleanup()` ages gets the number of the present chunk, which no other exceeds, and of two names
`found_aged()` removes the lesser, so that the largest number a message has never decreases (`GrowsStep`): it is at least what any
load has read (`BriefInv`), though the file that the load has read is gone. A message that has neither file had no
update, and no load knows keywords of it (`Blank`).

**`MaildirQuotaProofs`**. `CountsAreExact`: as long as no two changes share a second, a
change makes one of the directories newer than any count has seen, so that what was
counted is right while the latest time stamp and that of `new` are as they were (`CountInv`; that `new` is
counted first is why it has a clause of its own). `DriftIsFromRaces`: `Drift` is the sum in the file, less
the messages there are, plus what tasks have yet to write and less what they have yet to move. In every step but
the races that are named the changes of the four cancel; `PlaceInv` says
where the message of each task is, so that they do.

**`Pop3UidlProofs`**. What clients were told of a message that was not renamed in a `readdir()` is in the file, or in the list of
the only session that is logging in, or under the UIDVALIDITY of a file that was lost (`FileInv`,
`LoginInv`, `AloneInv`): that is what a session that opens relies on. A session that reads `cur` has, for every message that
is there, its present name among those that may be returned, and two names of one message only if it was renamed (`OneName`); what it
must return has not changed since (`ReaderKnows`). So whom clients know and it does not is gone, or was renamed. Steps that tell and save
nothing are one lemma (`Quiet`), the four that a login takes have one each. That the numbers of a session differ, and that each line of
the file is taken once, rests on the places of names in a list (`RankInjective`, `NthFacts`).

**`ThreadPoolProofs`**. `IInv` partitions the threads: on the stack, held by one caller of
`cthread_go()`, flagged, or at work; when `newcnt` is `NThreads` the stack has them all (a counting argument
on injections), so nobody is at work, and `newbuf` never overflows. `OnceInv` says that a task
is in one place at a time, with a caller or with a thread, and nowhere once it was
cleaned up; with it every step of the pool is a step of `TaskPool` or changes nothing there.

**`TcpdSlotsProofs`**. `TcpdInv` says that children that were not reaped and slots that are
taken correspond one to one, except for the child that the loop is about to store, with
SIGCHLD blocked; that the slot the loop has found stays free; and that the table has the address each child
serves. The limits in total, by address and by netblock follow by counting: the table that a child
looks at when it judges them is that of the kernel's processes, at the time it was forked.

**`TlsCacheRingProofs`**. `RingInv` is the geometry of the file: there is a sequence of
objects, the first `k` of which lie one after the other up to the end of the file, and the others, if there are
any, from `hd.first` on up to the gap before the newest; each has the size of the one written after it. The walk
finds exactly this sequence (`PathIs`, by induction on the offsets it has read, with the well-founded order of
the numbers). Every write of `doadd()` goes into the gap (`PlacedFree`), so that the ring of the old header stays what it
was until the new header is written, and then it is the new ring (`Adding`, which says for each `pc` what is in
the gap). From this follow that no check of a search fails (`NeverBroken`), and the refinement, one kind
of step at a time (`Change`). `SizeInv` adds what the sizes say: an object that is
alone ends at the end of the file (`Lone`), and the drops of one `doadd()` have freed at least as much as that many
of the smallest objects take, and before the last of them less than two of the largest (`Dropping`). `RingTakes` counts the
bytes of the ring. `RemovedIsLarge` has the hypothesis `EnoughPops`; the others hold for all
sizes that the `ASSUME` of the module allows. That a search finds what was added is no theorem: on 64-bit machines it is false.

Only model-checked, and why:

* Liveness (`SomebodyLocks`, `UpdatesEnd`, `TasksDone`, `WaitReturns`, `DeliveryResumes`,
  `ConnectionTaken`): temporal reasoning with fairness and ENABLED is beyond the prover.

## 12. What the runs found

Each of these is a run that TLC ends with a counterexample; `PROJECT.json` quotes the
line of the source or the documentation that it disagrees with.

* `LockBreaksLive`: the lock that is unlinked is not the one that was judged. A process
  reads the lock of a holder, which then unlocks and exits; its id is gone, the lock is taken for stale,
  a third process locks, and the first removes the lock of the third.
* `ScanExamine`: EXAMINE numbers new messages and does not save the numbers; another session's
  APPEND uses one for its own message, and the next NOOP merges the two.

Known limits of the code which no run shows. The models have most of them: each is a reason for
a constant of a run, or a condition of a property, and without that TLC finds it:

* A scan that cannot write the database removes it. The next begins at UID 1 with a
  new UIDVALIDITY, which NOOP does not look at: `NoopMerges` is checked without `Failures`.
* The UIDVALIDITY comes from an uninitialized `struct stat` when the first database cannot
  be opened (`"create"` in `Failures`); the theorems about `UidScan` exclude it.
* `cleanup()` may age an update that arrived after the one its load has read, whose keywords
  `:list` does not have: `AgedInList` of `KeywordStore`, a theorem under the lock
  (`AgedIsListed`), fails without it.
* Keywords that APPEND stores before its message is in `cur` are aged without being listed,
  and expire if the delivery takes longer than 15 minutes: APPEND runs with `MaxTime = 1`.
* Without the lock, a load that lasts from one chunk of 300 seconds into the next loses an
  acknowledged update (`MaxStall = 1`), as `cleanup()` names the file after the time at
  which its load began (`maildirkeywords.C:609`); `README.imapkeywords.html:36` has "Keyword usage should
  not rely on locking being enabled".
* The load in the retry of STORE (`imapscanclient.C:832`) passes no metadata to its table and so saves a
  `:list` of lines without names; keywords that are only in `:list` are lost.
* The UIDNEXT of STATUS counts the messages that wait in `new`, and APPEND comes before them:
  `UidNextKept` is checked without `"append"` among the `Kinds`.
* LIST and UIDL after DELE number the messages that are left from one again (`pop3dserver.C:603`, `843`), while
  DELE and RETR count the deleted ones too. QUIT keeps, without a word, a message whose file was renamed.
* On a machine whose `size_t` is longer than its `unsigned int` no session of the TLS cache is found again
  (`libcouriertls.c:1325`, `1404`): `AddedIsFound` of `TlsCacheRing` with `SizeSize = 8`.
* A message that is renamed while a POP3 session reads `cur` may be listed twice, or gets another UIDL, although the comment at
  `pop3dserver.C:773` says that its UIDL is its file name without the flags: `UidlsKept` without `torn`.
* Two POP3 logins at once may give a UIDL to two messages (`UidlsKept` without `raced`).
* Deliveries and removals that find `maildirsize` replaced between `open()` and `lstat()` take the maildir for one
  without a quota, and the line that cannot be written is forgotten: `DriftOnlyFromRaces` names both.

Two more were read in the code and are in no model: EXPUNGE looks at the size of a file after it was unlinked, where the name has none, and
subtracts nothing (`imapd.C:1780`), as messages have one size in `MaildirQuota`; and `load()` gives up after 1000
turns (`maildirkeywords.C:761`).

## 13. What is not modelled, and the plan

Not modelled in the parts above: the content of keyword sets and the syntax of all
files; the text of file names (their order is a constant of `UidScan` and `Pop3Uidl`, which leaves
out that `fnamcmp()` returns a difference of `long` values as `int`); shared folders
during a scan; the `mbox` and c-client locks of `liblock/mail.c`, of which the one at line 193 reads, judges and
removes a file as the lock of a maildir does; the contents of inotify notices; changes of the quota itself; sizes in
POP3; the options, sockets and lookups of couriertcpd. Bounds are constants with the names `Max...`, or the
sizes of the sets; nothing else bounds a model.

`PROJECT.json` lists the remaining parts with the reason for each. Most of the lines of this repository
are tables (Unicode), parsers, formatters and CGI pages: one process, one message, no
state that outlives the call, and tests of their own. Of what is left, in order:

1. `MboxLock`, `LockDaemon`, `Logger`: the c-client lock file, and the start and stop protocol
   of daemons with processes killed.
2. `SmapSnapshot`: snapshots that are resumed; `WatchNotice`: IDLE and changes that must be noticed.
3. A composition of `UidScan` and `MaildirLock`: scans under the lock as it is, rather
   than under an ideal one.
4. Pure parts: ACL rights and the threading algorithms as operators against a reference.

Theorems that are left, the most useful first: `UidsOnlyGrow` with a `create` that fails and a UIDVALIDITY
that was not used before; `NoLostUpdate` of `KeywordStore` without the lock and beyond 15 minutes, for the messages whose
updates are in `:list` when they are deleted; and the composition of `UidScan` and `MaildirLock`, once there is one.
