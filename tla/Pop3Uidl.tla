------------------------------ MODULE Pop3Uidl ------------------------------
(***************************************************************************)
(* A POP3 session (imap/pop3dserver.C).  At login the server moves what is *)
(* in new to cur, reads the directory cur, sorts it by name and gives each *)
(* message a number and a UIDL.  The UIDLs are kept in the file            *)
(* courierpop3dsizelist; a message that is not in it gets the next UID, and *)
(* the file is written anew and renamed.  Nothing is locked, so that two   *)
(* sessions of one user may log in at once, and IMAP clients change and    *)
(* remove the files of a session, and also while it reads cur: readdir()   *)
(* may return a file that is renamed under its old name, its new name, both *)
(* or none.  QUIT removes, by the name that the session remembers, the     *)
(* messages that were deleted.                                             *)
(*                                                                         *)
(* The name of a file has two parts: the message, whose place in Order     *)
(* stands for the time and the rest of the name, and whether it has the    *)
(* flag S.                                                                 *)
(***************************************************************************)
EXTENDS Integers, FiniteSets, Sequences, Functions

CONSTANTS
    Sessions,   \* the POP3 sessions of one user
    Msgs,       \* the messages
    Order,      \* the messages by their names, which is not how they arrive
    MaxFaults,  \* bound: lists that could not be saved, or were lost
    MaxRenames  \* bound: how often a file is renamed while a session reads cur

ASSUME Pop3Assumption ==
    /\ IsFiniteSet(Msgs)
    /\ Order \in Seq(Msgs)
    /\ \A m \in Msgs : \E i \in DOMAIN Order : Order[i] = m
    /\ IsInjective(Order)
    /\ MaxFaults \in Nat
    /\ MaxRenames \in Nat

Names == Msgs \X BOOLEAN

VARIABLES
    place,   \* where each message is
    seen,    \* the messages whose name has the flag S
    file,    \* courierpop3dsizelist
    now,     \* RUNTIME_CUR, as the number of files that were lost so far
    sess,    \* the sessions
    shown,   \* the UIDLs that clients were told, and for which message, as
             \* long as ~raced
    raced,   \* whether two sessions were between opendir() and the end of
             \* savepop3dlist() at once
    torn,    \* how often each file was renamed while a session read cur
    faults

vars == <<place, seen, file, now, sess, shown, raced, torn, faults>>

NoUid == [n |-> 0, uidv |-> 0]
NoUids == [x \in Names |-> NoUid]

\* the header, which has nextuid and uidv, and the UIDL of each name
NoList == [exists |-> FALSE, nextuid |-> 1, uidv |-> 0, uid |-> NoUids]

\* names, steady: what readdir() may return, and the messages of which it does;
\* list: msglist_l; isnew: no UID before; deleted: the numbers that have
\* isdeleted; asked: the numbers that the client has deleted, and not with RSET
\* or by hanging up taken back
Out == [pc |-> "out", names |-> {}, steady |-> {}, list |-> <<>>, uid |-> NoUids,
        isnew |-> {}, nextuid |-> 0, uidv |-> 0, enomem |-> FALSE,
        deleted |-> {}, asked |-> {}]

Init ==
    /\ place = [m \in Msgs |-> "none"]
    /\ seen = {}
    /\ file = NoList
    /\ now = 0
    /\ sess = [s \in Sessions |-> Out]
    /\ shown = {}
    /\ raced = FALSE
    /\ torn = [m \in Msgs |-> 0]
    /\ faults = 0

--------------------------------------------------------------------------
Before(k, m) == \E i, j \in DOMAIN Order : Order[i] = k /\ Order[j] = m /\ i < j
Listings(S) == {l \in [1..Cardinality(S) -> S] : IsInjective(l)}
Index(l, x) == CHOOSE i \in DOMAIN l : l[i] = x

SetSession(s, t) == sess' = [sess EXCEPT ![s] = t]
LoggingIn(s) == sess[s].pc \in {"reading", "scanned", "save"}
Entries(s) == Range(sess[s].list)
Named(S) == {x[1] : x \in S}

\* the name of a file that is there, and whether there is one of that name
NameOf(m) == <<m, m \in seen>>
Present(x) == place[x[1]] = "there" /\ NameOf(x[1]) = x

\* A file appears, disappears or gets the name x while session t reads cur.
Disturb(t, x) == IF t.pc = "reading"
                 THEN [t EXCEPT !.names = @ \cup {x}, !.steady = @ \ {x[1]}] ELSE t
DisturbAll(x) == sess' = [s \in Sessions |-> Disturb(sess[s], x)]

\* The file of m gets another name.
Renamed(m) ==
    LET reading == \E s \in Sessions : sess[s].pc = "reading"
    IN /\ seen' = IF m \in seen THEN seen \ {m} ELSE seen \cup {m}
       /\ reading => torn[m] < MaxRenames
       /\ torn' = IF reading THEN [torn EXCEPT ![m] = @ + 1] ELSE torn

\* print_uidl(): what the client is told about entry x of session t
Uidl(t, x) == IF t.enomem THEN <<"ENOMEM", x[1]>> ELSE <<"UID", t.uid[x]>>

\* "+OK logged in": the client asks for the UIDLs.  What the server keeps of
\* them is not used for anything else
Opened(s, t) ==
    /\ SetSession(s, [Out EXCEPT !.pc = "open", !.list = t.list])
    /\ shown' = IF raced THEN {}
                ELSE shown \cup {<<Uidl(t, x), x[1]>> : x \in Range(t.list)}

\* maildir_getnew(), and opendir() of scancur()
Login(s) ==
    LET box == {m \in Msgs : place[m] = "there"}
    IN /\ sess[s].pc = "out"
       /\ SetSession(s, [Out EXCEPT !.pc = "reading", !.steady = box,
                                    !.names = {NameOf(m) : m \in box}])
       /\ raced' = (raced \/ \E r \in Sessions \ {s} : LoggingIn(r))
       /\ shown' = IF raced' THEN {} ELSE shown
       /\ UNCHANGED <<place, seen, file, now, torn, faults>>

\* The end of readdir(), and the sort.  The order of two names of one message is
\* left open, and that readdir() may return one name twice is left out.
ScanCur(s) ==
    LET t == sess[s]
    IN /\ t.pc = "reading"
       /\ \E read \in SUBSET t.names :
            /\ {x \in t.names : x[1] \in t.steady} \subseteq read
            /\ \/ /\ read = {}
                  /\ Opened(s, Out)
               \/ \E l \in Listings(read) :
                    /\ read # {}
                    /\ \A i, j \in DOMAIN l : i < j => ~Before(l[j][1], l[i][1])
                    /\ SetSession(s, [Out EXCEPT !.pc = "scanned", !.list = l])
                    /\ UNCHANGED shown
       /\ UNCHANGED <<place, seen, file, now, raced, torn, faults>>

\* readpop3dlist() and the merge of sortmsgs(), which compares names without
\* their flags: each line of the file is taken once.
ReadList(s) ==
    LET t == sess[s]
        saved == IF file.exists THEN file ELSE [NoList EXCEPT !.uidv = now]
        Lines(m) == {y \in Names : y[1] = m /\ saved.uid[y] # NoUid}
        Nth(x) == Cardinality({i \in 1..Index(t.list, x) : t.list[i][1] = x[1]})
        isnew == {x \in Entries(s) : Nth(x) > Cardinality(Lines(x[1]))}
        Rank(x) == Cardinality({i \in 1..Index(t.list, x) : t.list[i] \in isnew})
    IN /\ t.pc = "scanned"
       /\ \E line \in [Entries(s) \ isnew -> Names] :
            LET uid == [x \in Names |->
                          IF x \in isnew
                          THEN [n |-> saved.nextuid - 1 + Rank(x), uidv |-> saved.uidv]
                          ELSE IF x \in Entries(s) THEN saved.uid[line[x]] ELSE NoUid]
                read == [t EXCEPT !.uid = uid, !.isnew = isnew, !.uidv = saved.uidv,
                                  !.nextuid = saved.nextuid + Cardinality(isnew)]
            IN /\ IsInjective(line)
               /\ \A x \in DOMAIN line : line[x] \in Lines(x[1])
               /\ \/ /\ isnew # {} \/ Range(line) # {y \in Names : saved.uid[y] # NoUid}
                     /\ SetSession(s, [read EXCEPT !.pc = "save"])
                     /\ UNCHANGED shown
                  \/ /\ isnew = {} /\ Range(line) = {y \in Names : saved.uid[y] # NoUid}
                     /\ Opened(s, read)
       /\ UNCHANGED <<place, seen, file, now, raced, torn, faults>>

\* savepop3dlist()
Save(s) ==
    LET t == sess[s]
    IN /\ t.pc = "save"
       /\ file' = [exists |-> TRUE, nextuid |-> t.nextuid, uidv |-> t.uidv, uid |-> t.uid]
       /\ Opened(s, t)
       /\ UNCHANGED <<place, seen, now, raced, torn, faults>>

\* Fault: a file that could not be saved is not noticed
SaveFailsUnnoticed(s) ==
    /\ sess[s].pc = "save"
    /\ faults < MaxFaults
    /\ faults' = faults + 1
    /\ Opened(s, sess[s])
    /\ UNCHANGED <<place, seen, file, now, raced, torn>>

\* The file cannot be saved: the new messages are hidden, and if there are no
\* others only the first is shown, under a UIDL made from its inode
SaveFails(s) ==
    LET t == sess[s]
        old == Entries(s) \ t.isnew
        first == Head(t.list)
    IN /\ t.pc = "save"
       /\ faults < MaxFaults
       /\ faults' = faults + 1
       /\ \/ /\ old = {} /\ Present(first)
             /\ Opened(s, [t EXCEPT !.list = <<first>>, !.enomem = TRUE])
          \/ \E l \in Listings(old) :
               /\ old # {} \/ ~Present(first)
               /\ \A i, j \in DOMAIN l : i < j => Index(t.list, l[i]) < Index(t.list, l[j])
               /\ Opened(s, [t EXCEPT !.list = l])
       /\ UNCHANGED <<place, seen, file, now, raced, torn>>

--------------------------------------------------------------------------
(* The commands.  A number is that of a message that is not deleted, as    *)
(* getmsgnum() has it.                                                     *)

Numbers(s) == {i \in DOMAIN sess[s].list : i \notin sess[s].deleted}

\* RETR adds S to the name, if the file still has the name that is remembered
Retr(s) ==
    \E i \in Numbers(s) :
        LET x == sess[s].list[i]
        IN /\ sess[s].pc = "open"
           /\ ~x[2]
           /\ Present(x)
           /\ Renamed(x[1])
           /\ sess' = [r \in Sessions |->
                         IF r = s THEN [sess[r] EXCEPT !.list[i] = <<x[1], TRUE>>]
                         ELSE Disturb(sess[r], <<x[1], TRUE>>)]
           /\ UNCHANGED <<place, file, now, shown, raced, faults>>

Dele(s) ==
    \E i \in Numbers(s) :
        /\ sess[s].pc = "open"
        /\ SetSession(s, [sess[s] EXCEPT !.deleted = @ \cup {i}, !.asked = @ \cup {i}])
        /\ UNCHANGED <<place, seen, file, now, shown, raced, torn, faults>>

Rset(s) ==
    /\ sess[s].pc = "open"
    /\ SetSession(s, [sess[s] EXCEPT !.deleted = {}, !.asked = {}])
    /\ UNCHANGED <<place, seen, file, now, shown, raced, torn, faults>>

Quit(s) ==
    /\ sess[s].pc = "open"
    /\ SetSession(s, [sess[s] EXCEPT !.pc = "quit"])
    /\ UNCHANGED <<place, seen, file, now, shown, raced, torn, faults>>

\* Fault: a connection that is lost is taken for QUIT
DisconnectCleansUp(s) ==
    /\ sess[s].pc \notin {"out", "quit"}
    /\ SetSession(s, IF sess[s].pc = "open"
                     THEN [sess[s] EXCEPT !.pc = "quit", !.asked = {}] ELSE Out)
    /\ UNCHANGED <<place, seen, file, now, shown, raced, torn, faults>>

\* the connection is lost, or the process is killed
Disconnect(s) ==
    /\ sess[s].pc # "out"
    /\ SetSession(s, Out)
    /\ UNCHANGED <<place, seen, file, now, shown, raced, torn, faults>>

\* cleanup(): one message after the other.  One that was renamed stays, and
\* nobody is told
Cleanup(s) ==
    \E i \in sess[s].deleted :
        LET x == sess[s].list[i]
            t == [sess[s] EXCEPT !.deleted = @ \ {i}]
        IN /\ sess[s].pc = "quit"
           /\ \A j \in sess[s].deleted : i <= j
           /\ IF Present(x)
              THEN /\ place' = [place EXCEPT ![x[1]] = "gone"]
                   /\ sess' = [r \in Sessions |-> IF r = s THEN t ELSE Disturb(sess[r], x)]
              ELSE SetSession(s, t) /\ UNCHANGED place
           /\ UNCHANGED <<seen, file, now, shown, raced, torn, faults>>

CleanupEnds(s) ==
    /\ sess[s].pc = "quit"
    /\ sess[s].deleted = {}
    /\ SetSession(s, Out)
    /\ UNCHANGED <<place, seen, file, now, shown, raced, torn, faults>>

--------------------------------------------------------------------------
(* The others *)

Arrive(m) ==
    /\ place[m] = "none"
    /\ place' = [place EXCEPT ![m] = "there"]
    /\ DisturbAll(NameOf(m))
    /\ UNCHANGED <<seen, file, now, shown, raced, torn, faults>>

\* an IMAP client sets or clears the flag, and so renames the file
Store(m) ==
    /\ place[m] = "there"
    /\ Renamed(m)
    /\ DisturbAll(<<m, m \notin seen>>)
    /\ UNCHANGED <<place, file, now, shown, raced, faults>>

Expunge(m) ==
    /\ place[m] = "there"
    /\ place' = [place EXCEPT ![m] = "gone"]
    /\ DisturbAll(NameOf(m))
    /\ UNCHANGED <<seen, file, now, shown, raced, torn, faults>>

\* the file is removed, or cannot be opened; the next one is made later
LoseList ==
    /\ file.exists
    /\ faults < MaxFaults
    /\ faults' = faults + 1
    /\ file' = NoList
    /\ now' = now + 1
    /\ UNCHANGED <<place, seen, sess, shown, raced, torn>>

--------------------------------------------------------------------------
Next ==
    \/ \E s \in Sessions :
        \/ Login(s) \/ ScanCur(s) \/ ReadList(s) \/ Save(s) \/ SaveFails(s)
        \/ Retr(s) \/ Dele(s) \/ Rset(s) \/ Quit(s)
        \/ Cleanup(s) \/ CleanupEnds(s) \/ Disconnect(s)
    \/ \E m \in Msgs : Arrive(m) \/ Store(m) \/ Expunge(m)
    \/ LoseList

Spec == Init /\ [][Next]_vars

--------------------------------------------------------------------------
(* Properties *)

Uids == [n : Nat, uidv : Nat]
List == [exists : BOOLEAN, nextuid : Nat \ {0}, uidv : Nat, uid : [Names -> Uids]]
Session ==
    [pc : {"out", "reading", "scanned", "save", "open", "quit"},
     names : SUBSET Names, steady : SUBSET Msgs, list : Seq(Names),
     uid : [Names -> Uids], isnew : SUBSET Names, nextuid : Nat, uidv : Nat,
     enomem : BOOLEAN, deleted : SUBSET Nat, asked : SUBSET Nat]

\* A session that logs in has each name once, and only one that is open, or in
\* QUIT, has numbers to remove, which are those of entries.
TypeOK ==
    /\ place \in [Msgs -> {"none", "there", "gone"}]
    /\ seen \subseteq Msgs
    /\ file \in List
    /\ sess \in [Sessions -> Session]
    /\ \A s \in Sessions :
        /\ LoggingIn(s) => IsInjective(sess[s].list)
        /\ sess[s].deleted \subseteq DOMAIN sess[s].list
        /\ sess[s].deleted # {} => sess[s].pc \in {"open", "quit"}
    /\ raced \in BOOLEAN
    /\ torn \in [Msgs -> 0..MaxRenames]
    /\ faults \in 0..MaxFaults /\ now \in 0..faults

\* the UIDLs of a session, and those that are saved, are different
Distinct(uid) == \A x, y \in Names : uid[x] = uid[y] /\ uid[x] # NoUid => x = y
DistinctInSession == Distinct(file.uid) /\ \A s \in Sessions : Distinct(sess[s].uid)

\* no client was ever told the UIDL of one message for another
NeverReused == \A x, y \in shown : x[1] = y[1] => x[2] = y[2]

\* a message keeps its UIDL, unless its file was renamed while some session read
\* cur, or the list was lost in between; one that was shown as ENOMEM gets a UID
\* later
NeverChanged ==
    \A x, y \in shown :
        (/\ x[2] = y[2] /\ torn[x[2]] = 0
         /\ x[1][1] = "UID" /\ y[1][1] = "UID"
         /\ x[1][2].uidv = y[1][2].uidv) => x[1] = y[1]

\* pop3dserver.C:109-122, 412-478: through sessions that are cut off, messages
\* that come, go and change their names while a session reads cur, and lists
\* that cannot be saved or are lost, a UIDL is told for one message only, and a
\* message that was not renamed during a readdir() has one UIDL, if no two
\* sessions were logging in at once; and in one session the UIDLs differ in any
\* case.
UidlsKept ==
    /\ DistinctInSession
    /\ NeverReused
    /\ NeverChanged

\* pop3dserver.C:941, 985-1013: a message disappears because another client
\* removed it, or because a session in QUIT removes what its client had deleted,
\* by the number it was given at login, and had not taken back.
RemovedAsAsked ==
    [][\A m \in Msgs :
         (place[m] = "there" /\ place'[m] = "gone") =>
            \/ Expunge(m)
            \/ \E s \in Sessions :
                 /\ sess[s].pc = "quit"
                 /\ \E i \in sess[s].asked : sess[s].list[i][1] = m]_vars
--------------------------------------------------------------------------
(* The inductive invariant.                                                *)

Told(u, m) == <<<<"UID", u>>, m>> \in shown
Given(r) == {x \in Names : r.uid[x] # NoUid}

\* A message has one name among those of S, unless it was renamed in a readdir().
OneName(S) == \A x, y \in S : x[1] = y[1] /\ torn[x[1]] = 0 => x = y

\* UIDs are those of the list's UIDVALIDITY and below its next one.
Numbered(r) ==
    /\ \A x \in Given(r) : r.uid[x].uidv = r.uidv /\ r.uid[x].n \in 1..(r.nextuid - 1)
    /\ Distinct(r.uid)
    /\ OneName(Given(r))
    /\ r.uidv <= now

\* m has u in the list, under one of its names
Has(r, m, u) == \E x \in Names : x[1] = m /\ r.uid[x] = u

\* What clients were told of the messages in box is in the list that has its
\* UIDVALIDITY, and is given to no other.
Remembers(r, box) ==
    \A u \in Uids, m \in Msgs : Told(u, m) /\ u.uidv = r.uidv =>
        /\ u.n < r.nextuid
        /\ \A x \in Names : r.uid[x] = u => x[1] = m
        /\ m \in box /\ torn[m] = 0 => Has(r, m, u)

FileInv ==
    /\ Numbered(file)
    /\ ~file.exists => file = NoList
    /\ file.exists => Remembers(file, {m \in Msgs : place[m] # "gone"})
    /\ ~file.exists => \A u \in Uids, m \in Msgs : Told(u, m) => u.uidv < now

\* the messages of which session t reads, or has read, a name
Found(t) == IF t.pc = "reading" THEN Named(t.names) ELSE Named(Range(t.list))

\* What a session that is logging in has found, and read from the file.
LoginInv ==
    \A s \in Sessions :
        LET t == sess[s]
        IN /\ t.pc # "save" => t.uid = NoUids
           /\ LoggingIn(s) => /\ \A m \in Found(t) : place[m] # "none"
                              /\ OneName(t.names) /\ OneName(Entries(s))
           /\ t.pc = "reading" =>
                /\ t.steady \subseteq {m \in Msgs : place[m] = "there"}
                /\ \A m \in Msgs : place[m] = "there" => NameOf(m) \in t.names
           /\ t.pc \in {"scanned", "save"} => t.list # <<>>
           /\ t.pc = "save" => /\ Numbered(t)
                               /\ Given(t) = Entries(s)
                               /\ Remembers(t, Found(t))
           /\ t.deleted \subseteq t.asked

\* While no two log in at once, the file is the one that the session has read,
\* unless it was lost; and messages that clients know, and the session does
\* not, are gone, or were renamed while it looked for them.
AloneInv ==
    ~raced => \A s \in Sessions : LoggingIn(s) =>
        LET t == sess[s]
        IN /\ \A r \in Sessions : LoggingIn(r) => r = s
           /\ \A x \in shown :
                \/ x[2] \in IF t.pc = "reading" THEN t.steady ELSE Found(t)
                \/ place[x[2]] = "gone"
                \/ torn[x[2]] # 0
           /\ t.pc # "save" /\ file.exists =>
                \A u \in Uids, m \in Found(t) :
                    Told(u, m) /\ u.uidv = file.uidv /\ torn[m] = 0 => Has(file, m, u)
           /\ t.pc = "save" => \A x \in Entries(s) \ t.isnew :
                IF file.exists THEN file.uidv = t.uidv /\ Has(file, x[1], t.uid[x])
                ELSE t.uidv < now

ShownInv ==
    /\ raced => shown = {}
    /\ \A x \in shown :
         /\ x[2] \in Msgs /\ place[x[2]] # "none"
         /\ \/ x = <<<<"ENOMEM", x[2]>>, x[2]>>
            \/ \E u \in Uids : /\ x = <<<<"UID", u>>, x[2]>>
                              /\ u # NoUid /\ u.uidv <= now
    /\ NeverReused /\ NeverChanged

Pop3Inv == TypeOK /\ FileInv /\ LoginInv /\ AloneInv /\ ShownInv
=============================================================================
