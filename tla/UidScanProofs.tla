--------------------------- MODULE UidScanProofs ---------------------------
(***************************************************************************)
(* Proofs about the UIDs that scans give which hold the lock of the        *)
(* maildir, for any number of sessions and messages.  Four invariants      *)
(* build on one another:                                                   *)
(*                                                                         *)
(*   ScanInv   what was given is below the next UID (LockedScans);         *)
(*   KeepInv   what was given and is in cur is found by the next scan and  *)
(*             not numbered again (StableScans);                           *)
(*   NextInv   the messages that STATUS counted wait, or have been         *)
(*             numbered before any that came later (OrderedScans);         *)
(*   MergeInv  what clients know was given under the UIDVALIDITY of the    *)
(*             database (MergingScans).                                    *)
(***************************************************************************)
EXTENDS UidScan, FiniteSetTheorems, TLAPS

\* A set of files to be numbered is finite.
LEMMA FreshFinite ==
  ASSUME IsFiniteSet(Msgs), NEW F \in SUBSET (Msgs \X {1, 2})
  PROVE  IsFiniteSet(F)
<1>1. IsFiniteSet({1, 2})
  <2>1. IsFiniteSet({} \cup {1})
    BY FS_EmptySet, FS_AddElement
  <2>2. IsFiniteSet(({} \cup {1}) \cup {2})
    BY <2>1, FS_AddElement
  <2>3. {1, 2} = ({} \cup {1}) \cup {2}
    OBVIOUS
  <2> QED
    BY <2>2, <2>3
<1>2. IsFiniteSet(Msgs \X {1, 2})
  BY <1>1, FS_Product
<1> QED
  BY <1>2, FS_Subset

\* The files to be numbered are in a strict order.
LEMMA BeforeOrder ==
  /\ \A x \in Msgs \X {1, 2} : ~ Before(x, x)
  /\ \A x, y \in Msgs \X {1, 2} : x # y => Before(x, y) \/ Before(y, x)
  /\ \A x, y, z \in Msgs \X {1, 2} : Before(x, y) /\ Before(y, z) => Before(x, z)
<1> USE ScanAssumption DEF Before
<1>1. \A x \in Msgs \X {1, 2} : Order[x[1]] \in Nat /\ x[2] \in Nat
  OBVIOUS
<1>2. \A x, y \in Msgs \X {1, 2} : x[1] = y[1] /\ x[2] = y[2] => x = y
  OBVIOUS
<1>3. \A x \in Msgs \X {1, 2} : ~ Before(x, x)
  BY <1>1
<1>4. \A x, y \in Msgs \X {1, 2} : x # y => Before(x, y) \/ Before(y, x)
  BY <1>1, <1>2
<1>5. \A x, y, z \in Msgs \X {1, 2} : Before(x, y) /\ Before(y, z) => Before(x, z)
  BY <1>1
<1> QED
  BY <1>3, <1>4, <1>5

Below(F, x) == {y \in F : Before(y, x)}

\* The number of a file is below the count of them, ...
LEMMA RankBelow ==
  ASSUME IsFiniteSet(Msgs), NEW F \in SUBSET (Msgs \X {1, 2}), NEW x \in F
  PROVE  /\ Cardinality(Below(F, x)) \in Nat
         /\ Cardinality(F) \in Nat
         /\ Cardinality(Below(F, x)) < Cardinality(F)
<1>1. Below(F, x) \subseteq F /\ x \notin Below(F, x)
  BY BeforeOrder DEF Below
<1>2. IsFiniteSet(F)
  BY FreshFinite
<1>3. Cardinality(Below(F, x)) <= Cardinality(F) /\ Below(F, x) # F
  BY <1>1, <1>2, FS_Subset
<1>4. IsFiniteSet(Below(F, x))
  BY <1>1, <1>2, FS_Subset
<1>5. Cardinality(Below(F, x)) \in Nat /\ Cardinality(F) \in Nat
  BY <1>2, <1>4, FS_CardinalityType
<1>6. Cardinality(Below(F, x)) # Cardinality(F)
  BY <1>1, <1>2, <1>3, FS_Subset
<1> QED
  BY <1>3, <1>5, <1>6

\* ... and no two files have the same.
LEMMA RankInjective ==
  ASSUME IsFiniteSet(Msgs), NEW F \in SUBSET (Msgs \X {1, 2}),
         NEW x \in F, NEW y \in F, x # y
  PROVE  Cardinality(Below(F, x)) # Cardinality(Below(F, y))
<1>1. ASSUME NEW a \in F, NEW b \in F, Before(a, b)
      PROVE  Cardinality(Below(F, a)) # Cardinality(Below(F, b))
  <2>1. Below(F, a) \subseteq Below(F, b)
    <3>1. \A z \in F : Before(z, a) => Before(z, b)
      BY <1>1, BeforeOrder
    <3> QED
      BY <3>1 DEF Below
  <2>2. a \in Below(F, b) /\ a \notin Below(F, a)
    BY <1>1, BeforeOrder DEF Below
  <2>3. IsFiniteSet(Below(F, b))
    <3>1. Below(F, b) \subseteq F
      BY DEF Below
    <3> QED
      BY <3>1, FreshFinite, FS_Subset
  <2> QED
    BY <2>1, <2>2, <2>3, FS_Subset
<1>2. Before(x, y) \/ Before(y, x)
  BY BeforeOrder
<1> QED
  BY <1>1, <1>2

\* The numbers of new files begin at the next UID and end below the one that
\* is saved, ...
LEMMA NumberedRange ==
  ASSUME IsFiniteSet(Msgs), NEW j \in Job
  PROVE  /\ NextUid(j) \in Nat /\ j.next <= NextUid(j)
         /\ Numbered(j) \subseteq Entry
         /\ \A e \in Numbered(j) : j.next <= e.uid /\ e.uid < NextUid(j)
<1>1. j.fresh \in SUBSET (Msgs \X {1, 2}) /\ j.next \in Nat
  BY DEF Job
<1>2. Cardinality(j.fresh) \in Nat
  BY <1>1, FreshFinite, FS_CardinalityType
<1>3. ASSUME NEW x \in j.fresh
      PROVE  /\ x[1] \in Msgs
             /\ j.next + Cardinality(Below(j.fresh, x)) \in Nat
             /\ j.next <= j.next + Cardinality(Below(j.fresh, x))
             /\ j.next + Cardinality(Below(j.fresh, x)) < NextUid(j)
  BY <1>1, <1>2, RankBelow DEF NextUid
<1>4. ASSUME NEW e \in Numbered(j)
      PROVE  e \in Entry /\ j.next <= e.uid /\ e.uid < NextUid(j)
  <2>1. PICK x \in j.fresh :
           e = [msg |-> x[1], uid |-> j.next + Cardinality(Below(j.fresh, x))]
    BY DEF Numbered, Below
  <2> QED
    BY <2>1, <1>3 DEF Entry
<1> QED
  BY <1>1, <1>2, <1>4 DEF NextUid

\* ... and no two are the same.
LEMMA NumberedInjective ==
  ASSUME IsFiniteSet(Msgs), NEW j \in Job,
         NEW d \in Numbered(j), NEW e \in Numbered(j), d.uid = e.uid
  PROVE  d = e
<1>1. j.fresh \in SUBSET (Msgs \X {1, 2}) /\ j.next \in Nat
  BY DEF Job
<1>2. PICK x \in j.fresh :
         d = [msg |-> x[1], uid |-> j.next + Cardinality(Below(j.fresh, x))]
  BY DEF Numbered, Below
<1>3. PICK y \in j.fresh :
         e = [msg |-> y[1], uid |-> j.next + Cardinality(Below(j.fresh, y))]
  BY DEF Numbered, Below
<1>4. /\ Cardinality(Below(j.fresh, x)) \in Nat
      /\ Cardinality(Below(j.fresh, y)) \in Nat
  BY <1>1, RankBelow
<1>5. Cardinality(Below(j.fresh, x)) = Cardinality(Below(j.fresh, y))
  BY <1>1, <1>2, <1>3, <1>4
<1>6. x = y
  BY <1>1, <1>5, RankInjective
<1> QED
  BY <1>2, <1>3, <1>6

\* What a scan gives at its end: one UID to each of its messages, those that
\* are new above all that were given.
LEMMA UidsAreNew ==
  ASSUME IsFiniteSet(Msgs), TypeOK, NEW j \in Job, JobInv(j)
  PROVE  /\ Uids(j) \subseteq Entry
         /\ \A e \in Uids(j) : /\ e.uid < NextUid(j)
                               /\ \/ Given(j.uidv, e) \in given
                                  \/ GivenBelow(j.uidv, e.uid)
         /\ \A d, e \in Uids(j) :
               d.uid = e.uid => Given(j.uidv, d) \in given \/ d = e
<1>1. /\ j.found \subseteq Entry /\ j.found \subseteq j.known /\ j.next \in Nat
      /\ \A e \in j.found : e.uid \in Nat
  BY DEF Job, JobInv, Entry
<1>2. /\ NextUid(j) \in Nat /\ j.next <= NextUid(j)
      /\ Numbered(j) \subseteq Entry
      /\ \A e \in Numbered(j) : e.uid \in Nat /\ j.next <= e.uid /\ e.uid < NextUid(j)
  BY NumberedRange DEF Entry
<1>3. \A g \in given : g.uid \in Nat
  BY DEF TypeOK
<1>4. \A e \in j.found : /\ e.uid < j.next
                         /\ Given(j.uidv, e) \in given \/ GivenBelow(j.uidv, e.uid)
  BY <1>1 DEF JobInv
<1>5. \A e \in Numbered(j) : GivenBelow(j.uidv, e.uid)
  BY <1>1, <1>2, <1>3 DEF JobInv, GivenBelow
<1>6. ASSUME NEW d \in Uids(j), NEW e \in Uids(j), d.uid = e.uid,
             Given(j.uidv, d) \notin given
      PROVE  d = e
  <2>0. /\ d \in j.found \/ d \in Numbered(j)
        /\ e \in j.found \/ e \in Numbered(j)
    BY <1>6 DEF Uids
  <2>1. ASSUME d \in j.found, e \in j.found PROVE d = e
    BY <2>1, <1>6, <1>1 DEF JobInv
  <2>2. ASSUME d \in Numbered(j), e \in Numbered(j) PROVE d = e
    BY <2>2, <1>6, NumberedInjective
  <2>3. ASSUME d \in j.found, e \in Numbered(j) PROVE d = e
    BY <2>3, <1>6, <1>1, <1>2, <1>4
  <2>4. ASSUME d \in Numbered(j), e \in j.found PROVE d = e
    BY <2>4, <1>6, <1>1, <1>2, <1>4
  <2> QED
    BY <2>0, <2>1, <2>2, <2>3, <2>4
<1>7. \A e \in Uids(j) : e.uid < NextUid(j)
  BY <1>1, <1>2, <1>4 DEF Uids
<1> QED
  BY <1>1, <1>2, <1>4, <1>5, <1>6, <1>7 DEF Uids

\* Where a scan has nothing to save, all UIDs were given before.
LEMMA CleanGivesNothing ==
  ASSUME NEW j \in Job, JobInv(j), DbInv, ~ Dirty(j), j.open
  PROVE  \A e \in Uids(j) : Given(j.uidv, e) \in given
<1>1. j.fresh = {} /\ j.found = j.known /\ j.add = {} /\ ~ j.made
  BY DEF Dirty
<1>2. db # Nobody /\ db.uidv = j.uidv /\ db.uids = j.known
  BY <1>1 DEF JobInv
<1>3. Numbered(j) = {}
  BY <1>1 DEF Numbered
<1> QED
  BY <1>1, <1>2, <1>3 DEF Uids, DbInv

\* The UIDs a scan gives are those of a step of UidSequence.
LEMMA AnswerGives ==
  ASSUME IsFiniteSet(Msgs), TypeOK, NEW j \in Job, JobInv(j),
         given' = given \cup {[uidv |-> j.uidv, uid |-> e.uid, msg |-> e.msg] :
                                 e \in Uids(j)}
  PROVE  Numbers!Give
<1>1. \A g \in given' \ given : \E e \in Uids(j) : g = Given(j.uidv, e)
  BY DEF Given
<1>2. ASSUME NEW g \in given' \ given
      PROVE  /\ \A h \in given : h.uidv = g.uidv => h.uid < g.uid
             /\ \A h \in given' \ given : h.uidv = g.uidv /\ h.uid = g.uid => h = g
  <2>1. PICK e \in Uids(j) : g = Given(j.uidv, e)
    BY <1>1, <1>2
  <2>2. g.uidv = j.uidv /\ g.uid = e.uid /\ Given(j.uidv, e) \notin given
    BY <1>2, <2>1 DEF Given
  <2>3. \A h \in given : h.uidv = g.uidv => h.uid < g.uid
    BY <2>2, UidsAreNew DEF GivenBelow
  <2>4. ASSUME NEW h \in given' \ given, h.uidv = g.uidv, h.uid = g.uid
        PROVE  h = g
    <3>1. PICK d \in Uids(j) : h = Given(j.uidv, d)
      BY <1>1, <2>4
    <3>2. d.uid = e.uid /\ Given(j.uidv, d) \notin given
      BY <2>2, <2>4, <3>1 DEF Given
    <3> QED
      BY <2>1, <3>1, <3>2, UidsAreNew
  <2> QED
    BY <2>3, <2>4
<1> QED
  BY <1>2 DEF Numbers!Give

-----------------------------------------------------------------------------
(* The steps of a scan                                                      *)

\* The lock is held by the one session that scans.
LEMMA Alone ==
  ASSUME LockedScans, TypeOK, NEW s \in Sessions, pc[s] # "idle"
  PROVE  lock = s /\ \A t \in Sessions \ {s} : pc[t] = "idle"
BY DEF LockedScans, TypeOK

\* A step in the middle of a scan keeps the invariant when its job does.
LEMMA JobStep ==
  ASSUME LockedScans, ScanInv, NEW s \in Sessions, pc[s] # "idle",
         NEW step \in {"move", "open", "cur", "new", "rename", "save"},
         pc' = [pc EXCEPT ![s] = step],
         place' \in [Msgs -> {"none", "tmp", "new", "cur", "gone"}],
         db' = db \/ db' = Nobody,
         DOMAIN job' = Sessions, \A t \in Sessions \ {s} : job'[t] = job[t],
         job'[s] \in Job, job'[s].ro = job[s].ro, job'[s].kind = job[s].kind,
         ~ job[s].ro => JobInv(job[s])',
         view' = view, lock' = lock, now' = now, given' = given
  PROVE  ScanInv'
<1>1. lock = s /\ \A t \in Sessions \ {s} : pc[t] = "idle"
  BY Alone DEF ScanInv
<1>2. pc'[s] = step /\ \A t \in Sessions \ {s} : pc'[t] = "idle"
  BY <1>1 DEF ScanInv, TypeOK
<1>3. TypeOK'
  BY <1>1, <1>2 DEF ScanInv, TypeOK
<1>4. DbInv'
  <2>1. CASE db' = Nobody
    BY <2>1 DEF DbInv
  <2>2. CASE db' = db
    BY <2>2 DEF ScanInv, DbInv, GivenBelow
  <2> QED
    BY <2>1, <2>2
<1>5. SavingScans'
  BY <1>2 DEF ScanInv, SavingScans
<1> QED
  BY <1>2, <1>3, <1>4, <1>5 DEF ScanInv

\* Adding a message, which gets the next UID.
LEMMA MoveStep ==
  ASSUME LockedScans, ScanInv, NEW s \in Sessions, Move(s)
  PROVE  ScanInv'
<1>1. pc[s] # "idle" /\ job[s] \in Job /\ DOMAIN job = Sessions
  BY DEF Move, ScanInv, TypeOK
<1>2. PICK m \in job[s].add :
         /\ place' = [place EXCEPT ![m] = "cur"]
         /\ job' = [job EXCEPT ![s].known = @ \cup {[msg |-> m, uid |-> job[s].next]},
                               ![s].next = @ + 1]
  BY DEF Move
<1> DEFINE e == [msg |-> m, uid |-> job[s].next]
           j == [job[s] EXCEPT !.known = @ \cup {e}, !.next = @ + 1]
<1>3. /\ job'[s] = j /\ DOMAIN job' = Sessions
      /\ \A t \in Sessions \ {s} : job'[t] = job[t]
  BY <1>1, <1>2
<1>4. /\ j \in Job /\ j.ro = job[s].ro /\ j.uidv = job[s].uidv
      /\ j.kind = job[s].kind
      /\ j.next = job[s].next + 1 /\ job[s].next \in Nat
      /\ j.known = job[s].known \cup {e} /\ j.add = job[s].add /\ j.add # {}
      /\ j.found = job[s].found /\ j.open = job[s].open /\ m \in Msgs
  BY <1>1, <1>2 DEF Job, Entry
<1>5. ASSUME ~ job[s].ro PROVE JobInv(job[s])'
  <2>1. JobInv(job[s])
    BY <1>1, <1>5 DEF ScanInv
  <2>2. now' = now /\ given' = given /\ db' = db
    BY DEF Move
  <2>3. \A g \in given : g.uid \in Nat
    BY DEF ScanInv, TypeOK
  <2>4. \A d \in job[s].known : d.uid \in Nat /\ d.uid < job[s].next
    BY <1>1, <2>1 DEF JobInv, Job, Entry
  <2>5. GivenBelow(j.uidv, e.uid) /\ GivenBelow(j.uidv, j.next)
    BY <1>4, <2>1, <2>3 DEF JobInv, GivenBelow
  <2>6. \A d \in j.known : /\ d.uid < j.next
                           /\ Given(j.uidv, d) \in given \/ GivenBelow(j.uidv, d.uid)
    BY <1>4, <2>1, <2>4, <2>5 DEF JobInv
  <2>7. \A c, d \in j.known : c.uid = d.uid => Given(j.uidv, c) \in given \/ c = d
    BY <1>4, <2>1, <2>4 DEF JobInv
  <2>8. JobInv(j)
    BY <1>4, <2>1, <2>5, <2>6, <2>7 DEF JobInv
  <2> QED
    BY <1>3, <2>2, <2>8 DEF JobInv, GivenBelow
<1>6. place' \in [Msgs -> {"none", "tmp", "new", "cur", "gone"}]
  BY <1>2 DEF ScanInv, TypeOK
<1> QED
  BY <1>1, <1>3, <1>4, <1>5, <1>6, JobStep DEF Move

\* Opening the file of the new database, or not.
LEMMA OpenStep ==
  ASSUME LockedScans, ScanInv, NEW s \in Sessions, Open(s)
  PROVE  ScanInv'
<1>1. pc[s] # "idle" /\ job[s] \in Job /\ DOMAIN job = Sessions
  BY DEF Open, ScanInv, TypeOK
<1>2. place' \in [Msgs -> {"none", "tmp", "new", "cur", "gone"}]
  BY DEF Open, ScanInv, TypeOK
<1>3. CASE UNCHANGED <<db, job, failures>>
  <2>1. ~ job[s].ro => JobInv(job[s])'
    BY <1>1, <1>3 DEF Open, ScanInv, JobInv, GivenBelow
  <2> QED
    BY <1>1, <1>2, <1>3, <2>1, JobStep DEF Open
<1>4. CASE db' = Nobody /\ job' = [job EXCEPT ![s].open = FALSE]
  <2> DEFINE j == [job[s] EXCEPT !.open = FALSE]
  <2>1. /\ job'[s] = j /\ DOMAIN job' = Sessions
        /\ \A t \in Sessions \ {s} : job'[t] = job[t]
    BY <1>1, <1>4
  <2>2. /\ j \in Job /\ j.ro = job[s].ro /\ j.uidv = job[s].uidv
        /\ j.kind = job[s].kind
        /\ j.next = job[s].next /\ j.known = job[s].known
        /\ j.found = job[s].found /\ ~ j.open
    BY <1>1 DEF Job
  <2>3. ~ job[s].ro => JobInv(job[s])'
    BY <1>1, <1>4, <2>1, <2>2 DEF Open, ScanInv, JobInv, GivenBelow
  <2> QED
    BY <1>1, <1>2, <1>4, <2>1, <2>2, <2>3, JobStep DEF Open
<1> QED
  BY <1>3, <1>4 DEF Open

\* Reading a directory keeps what the database said.
LEMMA ReadFacts ==
  ASSUME ScanInv, NEW s \in Sessions, ReadCur(s) \/ ReadNew(s) \/ Rename(s)
  PROVE  /\ DOMAIN job' = Sessions /\ job'[s] \in Job
         /\ \A t \in Sessions \ {s} : job'[t] = job[t]
         /\ job'[s].ro = job[s].ro /\ job'[s].kind = job[s].kind
         /\ job'[s].uidv = job[s].uidv /\ job'[s].next = job[s].next /\ job'[s].known = job[s].known
         /\ job'[s].open = job[s].open /\ job'[s].made = job[s].made
         /\ job'[s].add = job[s].add
         /\ job'[s].found = job[s].found \/ job'[s].found \subseteq job[s].known
         /\ job'[s].kind = job[s].kind
<1>1. pc[s] # "idle" /\ job[s] \in Job /\ DOMAIN job = Sessions
  BY DEF ReadCur, ReadNew, Rename, ScanInv, TypeOK
<1>2. CASE ReadCur(s)
  <2>1. PICK found \in SUBSET job[s].known, fresh \in SUBSET (Msgs \X {1, 2}) :
          job' = [job EXCEPT ![s].found = found, ![s].fresh = fresh]
    <3>1. PICK missed \in SUBSET Storable(s), twice \in SUBSET Storable(s) :
            LET seen == In("cur") \ missed
                new  == seen \ Of(job[s].known)
            IN  \E found \in SUBSET job[s].known :
                  job' = [job EXCEPT
                        ![s].found = found,
                        ![s].fresh = new \X {1} \cup (new \cap twice) \X {2}]
      BY <1>2 DEF ReadCur
    <3> DEFINE new == (In("cur") \ missed) \ Of(job[s].known)
    <3>2. new \X {1} \cup (new \cap twice) \X {2} \in SUBSET (Msgs \X {1, 2})
      BY DEF In
    <3> QED
      BY <3>1, <3>2
  <2> DEFINE j == [job[s] EXCEPT !.found = found, !.fresh = fresh]
  <2>2. job'[s] = j /\ DOMAIN job' = Sessions /\ \A t \in Sessions \ {s} : job'[t] = job[t]
    BY <1>1, <2>1
  <2>3. /\ j \in Job /\ j.ro = job[s].ro /\ j.uidv = job[s].uidv /\ j.next = job[s].next /\ j.kind = job[s].kind
        /\ j.known = job[s].known /\ j.open = job[s].open /\ j.made = job[s].made
        /\ j.add = job[s].add /\ j.found \subseteq job[s].known
    BY <1>1 DEF Job
  <2> QED
    BY <2>2, <2>3
<1>3. CASE ReadNew(s)
  <2>1. PICK batch \in SUBSET Msgs, fresh \in SUBSET (Msgs \X {1, 2}),
             more \in BOOLEAN, there \in SUBSET Msgs :
          job' = [job EXCEPT ![s] = [job[s] EXCEPT
                    !.batch = batch, !.fresh = fresh, !.more = more, !.there = there]]
    <3>1. CASE job[s].kind = "status"
      <4> DEFINE there == Msgs \ (In("none") \cup In("tmp"))
      <4>1. job' = [job EXCEPT ![s].batch = In("new"), ![s].there = there]
        BY <1>3, <3>1 DEF ReadNew
      <4>2. job' = [job EXCEPT ![s] = [job[s] EXCEPT
              !.batch = In("new"), !.fresh = job[s].fresh, !.more = job[s].more,
              !.there = there]]
        BY <1>1, <4>1 DEF Job
      <4>3. /\ In("new") \in SUBSET Msgs /\ there \in SUBSET Msgs
            /\ job[s].fresh \in SUBSET (Msgs \X {1, 2}) /\ job[s].more \in BOOLEAN
        BY <1>1 DEF Job, In
      <4> QED
        BY <4>2, <4>3
    <3>2. CASE job[s].kind # "status"
      <4>1. PICK files \in SUBSET In("new") :
              job' = [job EXCEPT ![s].batch = files,
                                 ![s].fresh = @ \cup files \X {1},
                                 ![s].more = Cardinality(files) = Batch]
        BY <1>3, <3>2 DEF ReadNew
      <4> DEFINE fresh == job[s].fresh \cup files \X {1}
                 more  == Cardinality(files) = Batch
      <4>2. job' = [job EXCEPT ![s] = [job[s] EXCEPT
              !.batch = files, !.fresh = fresh, !.more = more, !.there = job[s].there]]
        BY <1>1, <4>1 DEF Job
      <4>3. /\ files \in SUBSET Msgs /\ job[s].there \in SUBSET Msgs
            /\ fresh \in SUBSET (Msgs \X {1, 2}) /\ more \in BOOLEAN
        BY <1>1 DEF Job, In
      <4> QED
        BY <4>2, <4>3
    <3> QED
      BY <3>1, <3>2
  <2> DEFINE j == [job[s] EXCEPT
                    !.batch = batch, !.fresh = fresh, !.more = more, !.there = there]
  <2>2. job'[s] = j /\ DOMAIN job' = Sessions /\ \A t \in Sessions \ {s} : job'[t] = job[t]
    BY <1>1, <2>1
  <2>3. /\ j \in Job /\ j.ro = job[s].ro /\ j.uidv = job[s].uidv /\ j.next = job[s].next /\ j.kind = job[s].kind
        /\ j.known = job[s].known /\ j.open = job[s].open /\ j.made = job[s].made
        /\ j.add = job[s].add /\ j.found = job[s].found
    BY <1>1 DEF Job
  <2> QED
    BY <2>2, <2>3
<1>4. CASE Rename(s)
  <2>1. PICK batch \in SUBSET Msgs, more \in BOOLEAN :
          job' = [job EXCEPT ![s].batch = batch, ![s].more = more]
    <3>1. PICK m \in job[s].batch :
            job' = [job EXCEPT ![s].batch = @ \ {m},
                               ![s].more = job[s].more /\ place[m] = "new"]
      BY <1>4 DEF Rename
    <3>2. job[s].batch \ {m} \in SUBSET Msgs
          /\ (job[s].more /\ place[m] = "new") \in BOOLEAN
      BY <1>1 DEF Job
    <3>3. job' = [job EXCEPT ![s].batch = job[s].batch \ {m},
                             ![s].more = (job[s].more /\ place[m] = "new")]
      BY <1>1, <3>1 DEF Job
    <3> QED
      BY <3>2, <3>3
  <2> DEFINE j == [job[s] EXCEPT !.batch = batch, !.more = more]
  <2>2. job'[s] = j /\ DOMAIN job' = Sessions /\ \A t \in Sessions \ {s} : job'[t] = job[t]
    BY <1>1, <2>1
  <2>3. /\ j \in Job /\ j.ro = job[s].ro /\ j.uidv = job[s].uidv /\ j.next = job[s].next /\ j.kind = job[s].kind
        /\ j.known = job[s].known /\ j.open = job[s].open /\ j.made = job[s].made
        /\ j.add = job[s].add /\ j.found = job[s].found
    BY <1>1 DEF Job
  <2> QED
    BY <2>2, <2>3
<1> QED
  BY <1>2, <1>3, <1>4

\* Reading a directory changes nothing that the invariant is about.
LEMMA ReadStep ==
  ASSUME LockedScans, ScanInv, NEW s \in Sessions,
         ReadCur(s) \/ ReadNew(s) \/ Rename(s)
  PROVE  ScanInv'
<1>1. pc[s] # "idle" /\ job[s] \in Job /\ DOMAIN job = Sessions
  BY DEF ReadCur, ReadNew, Rename, ScanInv, TypeOK
<1>2. place' \in [Msgs -> {"none", "tmp", "new", "cur", "gone"}]
  <2>1. CASE ReadCur(s) \/ ReadNew(s)
    BY <2>1 DEF ReadCur, ReadNew, ScanInv, TypeOK
  <2>2. CASE Rename(s)
    <3>1. PICK m \in job[s].batch :
            place' = [place EXCEPT ![m] = IF @ = "new" THEN "cur" ELSE @]
      BY <2>2 DEF Rename
    <3>2. m \in Msgs /\ place \in [Msgs -> {"none", "tmp", "new", "cur", "gone"}]
      BY <1>1, <3>1 DEF Job, ScanInv, TypeOK
    <3> QED
      BY <3>1, <3>2
  <2> QED
    BY <2>1, <2>2
<1>3. \E step \in {"new", "rename", "save"} : pc' = [pc EXCEPT ![s] = step]
  BY DEF ReadCur, ReadNew, Rename
<1>4. /\ DOMAIN job' = Sessions /\ job'[s] \in Job
      /\ \A t \in Sessions \ {s} : job'[t] = job[t]
      /\ job'[s].ro = job[s].ro /\ job'[s].kind = job[s].kind
      /\ job'[s].uidv = job[s].uidv
      /\ job'[s].next = job[s].next /\ job'[s].known = job[s].known
      /\ job'[s].open = job[s].open /\ job'[s].made = job[s].made
      /\ job'[s].add = job[s].add
      /\ job'[s].found = job[s].found \/ job'[s].found \subseteq job[s].known
  BY ReadFacts
<1>5. /\ db' = db /\ now' = now /\ given' = given /\ view' = view /\ lock' = lock
  BY DEF ReadCur, ReadNew, Rename
<1>6. ~ job[s].ro => JobInv(job[s])'
  BY <1>1, <1>4, <1>5 DEF ScanInv, JobInv, GivenBelow
<1> QED
  BY <1>1, <1>2, <1>3, <1>4, <1>5, <1>6, JobStep

\* A scan begins when nobody else scans.
LEMMA BeginStep ==
  ASSUME LockedScans, ScanInv, NEW s \in Sessions, NEW kind, NEW add \in SUBSET Msgs,
         Begin(s, kind, add), kind = "noop" => view[s] # Nobody,
         view' = view \/ view' = [view EXCEPT ![s] = Nobody],
         place' \in [Msgs -> {"none", "tmp", "new", "cur", "gone"}]
  PROVE  ScanInv'
<1>1. /\ pc[s] = "idle" /\ lock = Nobody /\ lock' = s /\ kind \in Kinds
      /\ db' = db /\ given' = given /\ DOMAIN job = Sessions /\ now \in Nat
      /\ pc' = [pc EXCEPT ![s] = IF add = {} THEN "open" ELSE "move"]
  BY DEF Begin, LockedScans, ScanInv, TypeOK
<1>2. \A t \in Sessions : pc[t] = "idle"
  BY <1>1, ScanAssumption DEF LockedScans, ScanInv, TypeOK
<1>3. /\ pc'[s] # "idle" /\ \A t \in Sessions \ {s} : pc'[t] = "idle"
      /\ pc' \in [Sessions -> {"idle", "move", "open", "cur", "new", "rename", "save"}]
  BY <1>1, <1>2 DEF ScanInv, TypeOK
<1> DEFINE ro == ReadOnly(s, kind)
<1>4. ro \in BOOLEAN
  BY DEF ReadOnly
<1> DEFINE Base(uidv, next, uids, made) ==
      /\ job' = [job EXCEPT ![s] = NewJob(kind, ro, add, uidv, next, uids, made)]
      /\ \/ /\ db # Nobody /\ ~ made
            /\ db.uidv = uidv /\ db.next = next /\ db.uids = uids
         \/ /\ uids = {} /\ next = 1 /\ made = ~ ro /\ uidv <= now'
            /\ ~ ro => uidv > now
    Begun ==
      /\ now' \in 0..MaxTime /\ now <= now'
      /\ \E uidv \in Nat, next \in Nat, uids \in SUBSET Entry, made \in BOOLEAN :
            Base(uidv, next, uids, made)
<1>5. Begun
  <2>1. now \in 0..MaxTime /\ MaxTime \in Nat
    BY ScanAssumption DEF ScanInv, TypeOK
  <2>2. CASE /\ db # Nobody
             /\ job' = [job EXCEPT ![s] =
                   NewJob(kind, ro, add, db.uidv, db.next, db.uids, FALSE)]
             /\ now' = now
    <3>1. db.uidv \in Nat /\ db.next \in Nat /\ db.uids \in SUBSET Entry
      BY <2>2 DEF ScanInv, TypeOK
    <3>2. Base(db.uidv, db.next, db.uids, FALSE)
      BY <2>2
    <3>3. now' \in 0..MaxTime /\ now <= now'
      BY <2>1, <2>2
    <3> HIDE DEF Base
    <3> QED
      BY <3>1, <3>2, <3>3
  <2>3. ASSUME NEW t \in Stamps(ro), now' = t,
               job' = [job EXCEPT ![s] = NewJob(kind, ro, add, t, 1, {}, ~ ro)]
        PROVE  Begun
    <3>1. t \in {now, now + 1} /\ t <= MaxTime /\ (~ ro => t > now)
      BY <2>3 DEF Stamps, LockedScans
    <3>2. t \in Nat /\ now' \in 0..MaxTime /\ now <= now' /\ (~ ro) \in BOOLEAN
      BY <2>1, <2>3, <3>1
    <3>3. Base(t, 1, {}, ~ ro)
      <4>1. job' = [job EXCEPT ![s] = NewJob(kind, ro, add, t, 1, {}, ~ ro)]
        BY <2>3
      <4>2. t <= now' /\ (~ ro => t > now)
        BY <2>3, <3>1, <3>2
      <4> QED
        BY <4>1, <4>2
    <3>4. 1 \in Nat /\ {} \in SUBSET Entry
      OBVIOUS
    <3> HIDE DEF Base
    <3> QED
      BY <3>2, <3>3, <3>4
  <2>4. ~ Fail("create")
    BY DEF Fail, LockedScans
  <2> QED
    BY <2>2, <2>3, <2>4 DEF Begin
<1>6. PICK uidv \in Nat, next \in Nat, uids \in SUBSET Entry, made \in BOOLEAN :
         Base(uidv, next, uids, made)
  BY <1>5
<1> DEFINE j == NewJob(kind, ro, add, uidv, next, uids, made)
<1>7. job'[s] = j /\ DOMAIN job' = Sessions
  BY <1>1, <1>6
<1>8. /\ j \in Job /\ j.ro = ro /\ j.uidv = uidv /\ j.next = next /\ j.known = uids
      /\ j.found = {} /\ j.open /\ j.made = made /\ j.add = add
  BY <1>1, <1>4 DEF NewJob, Job
<1>9. TypeOK'
  BY <1>1, <1>3, <1>5, <1>7, <1>8 DEF ScanInv, TypeOK
<1>14. SavingScans'
  <2>1. ro <=> kind = "status"
    BY <1>1 DEF ReadOnly, LockedScans, ScanInv, SavingScans
  <2>2. \A t \in Sessions : view'[t] = view[t] \/ view'[t] = Nobody
    BY DEF ScanInv, TypeOK
  <2>3. j.kind = kind
    BY DEF NewJob
  <2> HIDE DEF ro, j
  <2> QED
    BY <1>3, <1>7, <1>8, <2>1, <2>2, <2>3 DEF ScanInv, SavingScans
<1>10. \A g \in given : g.uidv \in Nat /\ g.uidv <= now /\ g.uid \in Nat
  BY DEF ScanInv, TypeOK
<1>11. now' \in Nat /\ \A g \in given : g.uidv <= now'
  BY <1>1, <1>5, <1>10, ScanAssumption
<1>12. DbInv'
  <2>1. ASSUME db # Nobody PROVE db.uidv \in Nat /\ db.uidv <= now'
    BY <1>1, <1>5, <1>11, <2>1 DEF ScanInv, DbInv, TypeOK
  <2> QED
    BY <1>1, <2>1 DEF ScanInv, DbInv, GivenBelow
<1>13. ASSUME ~ ro PROVE JobInv(job[s])'
  <2>1. CASE db # Nobody /\ ~ made /\ db.uidv = uidv /\ db.next = next /\ db.uids = uids
    <3>1. uidv <= now'
      BY <1>1, <1>12, <2>1 DEF DbInv
    <3>2. GivenBelow(uidv, next) /\ \A e \in uids : e.uid < next /\ Given(uidv, e) \in given
      BY <2>1 DEF ScanInv, DbInv
    <3> QED
      BY <1>1, <1>7, <1>8, <2>1, <3>1, <3>2 DEF JobInv, GivenBelow
  <2>2. CASE uids = {} /\ next = 1 /\ made = ~ ro /\ uidv <= now' /\ uidv > now
    <3>1. \A g \in given : g.uidv # uidv
      BY <1>1, <1>10, <2>2
    <3>2. /\ job'[s].known = {} /\ job'[s].found = {} /\ job'[s].open
          /\ job'[s].made /\ job'[s].uidv = uidv
      BY <1>7, <1>8, <1>13, <2>2
    <3>3. \A g \in given' : g.uidv # job'[s].uidv
      BY <1>1, <3>1, <3>2
    <3> HIDE DEF Begun, j, ro, Base
    <3> QED
      BY <2>2, <3>2, <3>3 DEF JobInv, GivenBelow
  <2> QED
    BY <1>6, <1>13, <2>1, <2>2
<1> QED
  BY <1>1, <1>3, <1>7, <1>8, <1>9, <1>11, <1>12, <1>13, <1>14 DEF ScanInv

\* Nobody scans after a scan has ended.
LEMMA EndStep ==
  ASSUME LockedScans, ScanInv, NEW s \in Sessions, pc[s] # "idle",
         pc' = [pc EXCEPT ![s] = "idle"], DOMAIN job' = Sessions,
         DOMAIN view' = Sessions, lock' = Nobody, place' = place, now' = now,
         \A t \in Sessions : view'[t] # Nobody => ~ view'[t].ro,
         given' \subseteq [uidv : Nat, uid : Nat, msg : Msgs],
         \A g \in given' : g.uidv <= now,
         db' = Nobody \/ db' \in [uidv : Nat, next : Nat, uids : SUBSET Entry],
         DbInv'
  PROVE  ScanInv'
<1>1. \A t \in Sessions \ {s} : pc[t] = "idle"
  BY Alone DEF ScanInv
<1>2. \A t \in Sessions : pc'[t] = "idle"
  BY <1>1 DEF ScanInv, TypeOK
<1>3. TypeOK'
  BY <1>2, ScanAssumption DEF ScanInv, TypeOK
<1>4. SavingScans'
  BY <1>2 DEF SavingScans
<1> QED
  BY <1>2, <1>3, <1>4 DEF ScanInv

\* The end of a scan: the database that is saved names what was given, ...
LEMMA SaveStep ==
  ASSUME LockedScans, ScanInv, NEW s \in Sessions, Save(s)
  PROVE  ScanInv' /\ (given' = given \/ Numbers!Give)
<1> DEFINE j == job[s]
           saves == ~ j.ro /\ j.open /\ Dirty(j)
<1>1. /\ pc[s] # "idle" /\ j \in Job /\ TypeOK /\ DbInv /\ IsFiniteSet(Msgs)
      /\ DOMAIN job = Sessions /\ DOMAIN view = Sessions
      /\ given \subseteq [uidv : Nat, uid : Nat, msg : Msgs]
      /\ \A g \in given : g.uidv <= now
  BY DEF Save, ScanInv, TypeOK, LockedScans
<1>2. /\ pc' = [pc EXCEPT ![s] = "idle"] /\ place' = place /\ now' = now
      /\ lock' = Nobody /\ job' = [job EXCEPT ![s] = Nobody] /\ Answer(s, j)
      /\ \/ saves /\ db' = [uidv |-> j.uidv, next |-> NextUid(j), uids |-> Uids(j)]
         \/ saves /\ db' = Nobody
         \/ ~ saves /\ db' = db
  BY DEF Save, LockedScans
<1>3. /\ DOMAIN job' = Sessions /\ DOMAIN view' = Sessions
      /\ j.ro <=> j.kind = "status"
      /\ \A t \in Sessions : view'[t] # Nobody => ~ view'[t].ro
  <2>1. j.ro <=> j.kind = "status"
    BY <1>1 DEF ScanInv, SavingScans
  <2> DEFINE v == [uidv |-> j.uidv, uids |-> Uids(j), ro |-> j.ro]
  <2>2. view' = view \/ (j.kind # "status" /\ view' = [view EXCEPT ![s] = v])
    BY <1>2 DEF Answer
  <2>3. v.ro = j.ro
    OBVIOUS
  <2> HIDE DEF v
  <2> QED
    BY <1>1, <1>2, <2>1, <2>2, <2>3 DEF ScanInv, SavingScans
<1>4. CASE j.ro
  <2>1. given' = given /\ db' = db
    BY <1>2, <1>3, <1>4 DEF Answer
  <2>2. db = Nobody \/ db \in [uidv : Nat, next : Nat, uids : SUBSET Entry]
    BY <1>1 DEF TypeOK
  <2>3. DbInv'
    BY <1>1, <1>2, <2>1 DEF DbInv, GivenBelow
  <2> HIDE DEF j
  <2>4. ScanInv'
    BY <1>1, <1>2, <1>3, <2>1, <2>2, <2>3, EndStep
  <2> QED
    BY <2>1, <2>4
<1>5. CASE ~ j.ro
  <2>1. JobInv(j) /\ j.uidv \in Nat /\ j.uidv <= now
    BY <1>1, <1>5 DEF ScanInv, JobInv, Job
  <2> DEFINE new == {[uidv |-> j.uidv, uid |-> e.uid, msg |-> e.msg] : e \in Uids(j)}
  <2>2. given' = given \cup new
    BY <1>2, <1>3, <1>5 DEF Answer
  <2>3. Uids(j) \subseteq Entry /\ NextUid(j) \in Nat /\ \A e \in Uids(j) : e.uid < NextUid(j)
    BY <1>1, <2>1, UidsAreNew, NumberedRange
  <2>4. Numbers!Give
    BY <1>1, <2>1, <2>2, AnswerGives
  <2>5. new \subseteq [uidv : Nat, uid : Nat, msg : Msgs] /\ \A g \in new : g.uidv <= now
    BY <2>1, <2>3 DEF Entry
  <2>6. /\ given' \subseteq [uidv : Nat, uid : Nat, msg : Msgs]
        /\ \A g \in given' : g.uidv <= now
    BY <1>1, <2>2, <2>5
  <2>7. CASE db' = [uidv |-> j.uidv, next |-> NextUid(j), uids |-> Uids(j)]
    <3>1. \A g \in given : g.uidv = j.uidv => g.uid < NextUid(j)
      <4>1. j.next \in Nat /\ j.next <= NextUid(j) /\ \A g \in given : g.uid \in Nat
        BY <1>1, NumberedRange DEF Job
      <4> QED
        BY <2>1, <2>3, <4>1 DEF JobInv, GivenBelow
    <3>2. \A g \in new : g.uid < NextUid(j)
      BY <2>3
    <3>3. \A g \in given' : g.uidv = j.uidv => g.uid < NextUid(j)
      BY <2>2, <3>1, <3>2
    <3>4. \A e \in Uids(j) : [uidv |-> j.uidv, uid |-> e.uid, msg |-> e.msg] \in given'
      BY <2>2
    <3>5. db' \in [uidv : Nat, next : Nat, uids : SUBSET Entry]
      BY <2>1, <2>3, <2>7
    <3>6. /\ db'.uidv = j.uidv /\ db'.next = NextUid(j) /\ db'.uids = Uids(j)
      BY <2>7
    <3> HIDE DEF j
    <3>7. DbInv'
      BY <1>2, <2>1, <2>3, <3>3, <3>4, <3>6 DEF DbInv, GivenBelow, Given
    <3>8. ScanInv'
      BY <1>1, <1>2, <1>3, <2>6, <3>5, <3>7, EndStep
    <3> QED
      BY <2>4, <3>8
  <2>8. CASE db' = Nobody
    <3>1. DbInv'
      BY <2>8 DEF DbInv
    <3> HIDE DEF j
    <3>2. ScanInv'
      BY <1>1, <1>2, <1>3, <2>6, <2>8, <3>1, EndStep
    <3> QED
      BY <2>4, <3>2
  <2>9. CASE ~ saves /\ db' = db
    <3>1. CASE db = Nobody
      BY <2>8, <2>9, <3>1
    <3>2. CASE db # Nobody
      <4>1. j.open /\ ~ Dirty(j)
        BY <1>5, <2>1, <2>9, <3>2 DEF JobInv
      <4>2. \A e \in Uids(j) : Given(j.uidv, e) \in given
        BY <1>1, <2>1, <4>1, CleanGivesNothing
      <4>3. given' = given
        BY <2>2, <4>2 DEF Given
      <4>4. DbInv'
        BY <1>1, <1>2, <2>9, <4>3 DEF DbInv, GivenBelow
      <4>5. db \in [uidv : Nat, next : Nat, uids : SUBSET Entry]
        BY <1>1, <3>2 DEF TypeOK
      <4> HIDE DEF j, saves
      <4>6. ScanInv'
        BY <1>1, <1>2, <1>3, <2>6, <2>9, <4>4, <4>5, EndStep
      <4> QED
        BY <4>3, <4>6
    <3> QED
      BY <3>1, <3>2
  <2> QED
    BY <1>2, <2>7, <2>8, <2>9
<1> QED
  BY <1>4, <1>5

\* ... and a session that is killed leaves the old one.
LEMMA CrashStep ==
  ASSUME LockedScans, ScanInv, NEW s \in Sessions, Crash(s)
  PROVE  ScanInv'
<1>1. /\ pc[s] # "idle" /\ TypeOK /\ DbInv
      /\ DOMAIN job = Sessions /\ DOMAIN view = Sessions
      /\ given \subseteq [uidv : Nat, uid : Nat, msg : Msgs]
      /\ \A g \in given : g.uidv <= now
      /\ db = Nobody \/ db \in [uidv : Nat, next : Nat, uids : SUBSET Entry]
  BY DEF Crash, ScanInv, TypeOK
<1>2. lock = s
  BY <1>1, Alone
<1>3. /\ pc' = [pc EXCEPT ![s] = "idle"] /\ lock' = Nobody /\ place' = place
      /\ now' = now /\ given' = given /\ db' = db
      /\ job' = [job EXCEPT ![s] = Nobody] /\ view' = [view EXCEPT ![s] = Nobody]
  BY <1>2 DEF Crash
<1>4. /\ DOMAIN job' = Sessions /\ DOMAIN view' = Sessions
      /\ \A t \in Sessions : view'[t] # Nobody => ~ view'[t].ro
  BY <1>1, <1>3 DEF ScanInv, SavingScans
<1>5. DbInv'
  BY <1>1, <1>3 DEF DbInv, GivenBelow
<1> QED
  BY <1>1, <1>3, <1>4, <1>5, EndStep

\* What happens without the lock moves a message, or closes a mailbox, at most.
LEMMA PlaceStep ==
  ASSUME ScanInv, place' \in [Msgs -> {"none", "tmp", "new", "cur", "gone"}],
         UNCHANGED <<db, now, lock, pc, job, given>>, DOMAIN view' = Sessions,
         \A s \in Sessions : view'[s] = view[s] \/ view'[s] = Nobody
  PROVE  ScanInv'
<1>1. TypeOK'
  BY DEF ScanInv, TypeOK
<1>2. DbInv'
  BY DEF ScanInv, DbInv, GivenBelow
<1>3. \A s \in Sessions : pc[s] # "idle" /\ ~ job[s].ro => JobInv(job[s])'
  BY DEF ScanInv, JobInv, GivenBelow
<1>4. SavingScans'
  BY DEF ScanInv, SavingScans
<1> QED
  BY <1>1, <1>2, <1>3, <1>4 DEF ScanInv

-----------------------------------------------------------------------------
(* The theorems                                                             *)

\* Before the first command nothing is given.
LEMMA InitScanInv ==
  ASSUME LockedScans, Init
  PROVE  ScanInv
<1>1. TypeOK
  BY ScanAssumption DEF Init, TypeOK
<1>2. DbInv /\ SavingScans
  BY DEF Init, DbInv, SavingScans
<1> QED
  BY <1>1, <1>2 DEF Init, ScanInv

\* Every step keeps the invariant, and gives UIDs as UidSequence does.
LEMMA NextScanInv ==
  ASSUME LockedScans, ScanInv, [Next]_vars
  PROVE  ScanInv' /\ (given' = given \/ Numbers!Give)
<1>1. /\ place \in [Msgs -> {"none", "tmp", "new", "cur", "gone"}]
      /\ DOMAIN view = Sessions
  BY DEF ScanInv, TypeOK
<1>2. ASSUME NEW s \in Sessions, Select(s) PROVE ScanInv' /\ given' = given
  <2>1. PICK kind \in {"select", "examine"} : Begin(s, kind, {})
    BY <1>2 DEF Select
  <2>2. view' = [view EXCEPT ![s] = Nobody] /\ place' = place
    BY <1>1, <1>2 DEF Select
  <2>3. given' = given
    BY <2>1 DEF Begin
  <2> QED
    BY <1>1, <2>1, <2>2, <2>3, BeginStep
<1>3. ASSUME NEW s \in Sessions, Noop(s) \/ Status(s) PROVE ScanInv' /\ given' = given
  <2>1. PICK kind \in {"noop", "status"} :
          Begin(s, kind, {}) /\ (kind = "noop" => view[s] # Nobody)
    BY <1>3 DEF Noop, Status
  <2>2. view' = view /\ place' = place /\ (kind = "noop" => view[s] # Nobody)
    BY <1>3, <2>1 DEF Noop, Status
  <2>3. given' = given
    BY <2>1 DEF Begin
  <2> QED
    BY <1>1, <2>1, <2>2, <2>3, BeginStep
<1>4. ASSUME NEW s \in Sessions, Append(s) PROVE ScanInv' /\ given' = given
  <2>1. PICK m \in In("none") :
           Begin(s, "append", {m}) /\ place' = [place EXCEPT ![m] = "tmp"]
    BY <1>4 DEF Append
  <2>2. m \in Msgs /\ view' = view
    BY <1>4 DEF Append, In
  <2>3. place' \in [Msgs -> {"none", "tmp", "new", "cur", "gone"}]
    BY <1>1, <2>1, <2>2
  <2>4. given' = given
    BY <2>1 DEF Begin
  <2>5. {m} \in SUBSET Msgs
    BY <2>2
  <2> QED
    BY <1>1, <2>1, <2>2, <2>3, <2>4, <2>5, BeginStep
<1>5. ASSUME NEW s \in Sessions, Expunge(s) PROVE ScanInv' /\ given' = given
  <2>1. PICK m \in Msgs : place' = [place EXCEPT ![m] = "gone"]
    BY <1>5 DEF Expunge, In
  <2>2. UNCHANGED <<db, now, lock, pc, job, view, given>>
    BY <1>5 DEF Expunge
  <2>3. place' \in [Msgs -> {"none", "tmp", "new", "cur", "gone"}]
    BY <1>1, <2>1
  <2> QED
    BY <1>1, <2>2, <2>3, PlaceStep
<1>6. ASSUME NEW s \in Sessions, ScanStep(s)
      PROVE  ScanInv' /\ (given' = given \/ Numbers!Give)
  <2>1. CASE Move(s)
    BY <2>1, MoveStep DEF Move
  <2>2. CASE Open(s)
    BY <2>2, OpenStep DEF Open
  <2>3. CASE ReadCur(s) \/ ReadNew(s) \/ Rename(s)
    <3>1. given' = given
      BY <2>3 DEF ReadCur, ReadNew, Rename
    <3> QED
      BY <2>3, <3>1, ReadStep
  <2>4. CASE Save(s)
    BY <2>4, SaveStep
  <2> QED
    BY <1>6, <2>1, <2>2, <2>3, <2>4 DEF ScanStep
<1>7. ASSUME NEW s \in Sessions, Crash(s) PROVE ScanInv' /\ given' = given
  BY <1>7, CrashStep DEF Crash
<1>8. ASSUME NEW m \in Msgs, Deliver(m) \/ PopGetNew(m) \/ PopDelete(m)
      PROVE  ScanInv' /\ given' = given
  <2>1. PICK where \in {"new", "cur", "gone"} : place' = [place EXCEPT ![m] = where]
    BY <1>8 DEF Deliver, PopGetNew, PopDelete
  <2>2. UNCHANGED <<db, now, lock, pc, job, view, given>>
    BY <1>8 DEF Deliver, PopGetNew, PopDelete
  <2>3. place' \in [Msgs -> {"none", "tmp", "new", "cur", "gone"}]
    BY <1>1, <2>1
  <2> QED
    BY <1>1, <2>2, <2>3, PlaceStep
<1>9. CASE UNCHANGED vars
  BY <1>1, <1>9, PlaceStep DEF vars
<1>10. ASSUME NEW s \in Sessions, Close(s) PROVE ScanInv' /\ given' = given
  <2>1. /\ UNCHANGED <<place, db, now, lock, pc, job, given>> /\ DOMAIN view' = Sessions
        /\ \A t \in Sessions : view'[t] = view[t] \/ view'[t] = Nobody
    BY <1>1, <1>10 DEF Close
  <2> QED
    BY <1>1, <2>1, PlaceStep
<1> QED
  BY <1>2, <1>3, <1>4, <1>5, <1>6, <1>7, <1>8, <1>9, <1>10 DEF Next, Command

\* Scans that hold the lock keep ScanInv: what was given stays below the next
\* UID of the database and of the scan that is going on.
THEOREM ScanInvariance ==
  ASSUME LockedScans
  PROVE  Spec => []ScanInv
<1>1. Init => ScanInv
  BY InitScanInv
<1>2. ScanInv /\ [Next]_vars => ScanInv'
  BY NextScanInv
<1> QED
  BY <1>1, <1>2, PTL DEF Spec

\* Every variable holds a value of its kind, and who scans has the lock.
THEOREM TypeCorrect ==
  ASSUME LockedScans
  PROVE  Spec => []TypeOK
<1>1. ScanInv => TypeOK
  BY DEF ScanInv
<1> QED
  BY <1>1, ScanInvariance, PTL

\* The next UID that the database names is above all that were given.
THEOREM NextUidIsAbove ==
  ASSUME LockedScans
  PROVE  Spec => []NextUidAbove
<1>1. ScanInv => NextUidAbove
  BY DEF ScanInv, DbInv, GivenBelow, NextUidAbove
<1> QED
  BY <1>1, ScanInvariance, PTL

\* Scans that hold the lock give UIDs as UidSequence does: no UID twice, and
\* every one above those given before it.
THEOREM UidsOnlyGrow ==
  ASSUME LockedScans
  PROVE  Spec => ImplementsUidSequence
<1>1. Init => Numbers!Init
  BY DEF Init, Numbers!Init
<1>2. ScanInv /\ [Next]_vars => [Numbers!Give]_given
  BY NextScanInv
<1> QED
  BY <1>1, <1>2, ScanInvariance, PTL DEF Spec, ImplementsUidSequence, Numbers!Spec

-----------------------------------------------------------------------------
(* A message keeps its UID                                                  *)

\* Messages go on, from tmp or new to cur, and do not come back.
Onward ==
    /\ place' \in [Msgs -> {"none", "tmp", "new", "cur", "gone"}]
    /\ \A m \in Msgs :
          \/ place'[m] = place[m]
          \/ place[m] = "none" /\ place'[m] \in {"tmp", "new"}
          \/ place[m] \in {"tmp", "new"} /\ place'[m] = "cur"
          \/ place[m] = "cur" /\ place'[m] = "gone"

\* The messages of which the invariant speaks are messages.
LEMMA KeepTypes ==
  ASSUME ScanInv
  PROVE  /\ \A g \in given : g.msg \in Msgs /\ g.uid \in Nat /\ g.uidv \in Nat
         /\ Named \in SUBSET Msgs
         /\ \A s \in Sessions : pc[s] # "idle" =>
               /\ \A e \in job[s].known : e.msg \in Msgs /\ e.uid \in Nat
               /\ job[s].found \in SUBSET Entry /\ job[s].add \in SUBSET Msgs
               /\ job[s].fresh \in SUBSET (Msgs \X {1, 2})
               /\ Numbering(job[s]) \in SUBSET Msgs
<1>1. \A g \in given : g.msg \in Msgs /\ g.uid \in Nat /\ g.uidv \in Nat
  BY DEF ScanInv, TypeOK
<1>2. Named \in SUBSET Msgs
  BY <1>1 DEF Named
<1>3. ASSUME NEW s \in Sessions, pc[s] # "idle"
      PROVE  /\ \A e \in job[s].known : e.msg \in Msgs /\ e.uid \in Nat
             /\ job[s].found \in SUBSET Entry /\ job[s].add \in SUBSET Msgs
             /\ job[s].fresh \in SUBSET (Msgs \X {1, 2})
             /\ Numbering(job[s]) \in SUBSET Msgs
  <2>1. job[s] \in Job
    BY <1>3 DEF ScanInv, TypeOK
  <2> QED
    BY <2>1 DEF Job, Entry, Numbering
<1> QED
  BY <1>1, <1>2, <1>3

\* What was given stays in cur, or is gone.
LEMMA NamedOnward ==
  ASSUME ScanInv, KeepInv, Onward, given' = given
  PROVE  /\ \A g \in given : place'[g.msg] \in {"cur", "gone"}
         /\ \A g \in given : place'[g.msg] = "cur" => place[g.msg] = "cur"
         /\ Named' = Named
         /\ Named \cap In("cur")' \subseteq Named \cap In("cur")
<1>1. \A g \in given : g.msg \in Msgs /\ place[g.msg] \in {"cur", "gone"}
  BY KeepTypes DEF KeepInv
<1>2. \A g \in given : /\ place'[g.msg] \in {"cur", "gone"}
                       /\ place'[g.msg] = "cur" => place[g.msg] = "cur"
  BY <1>1 DEF Onward
<1>3. Named' = Named
  BY DEF Named
<1>4. Named \cap In("cur")' \subseteq Named \cap In("cur")
  BY <1>2 DEF Named, In
<1> QED
  BY <1>2, <1>3, <1>4

\* A step that gives no UID keeps the invariant when the jobs do.
LEMMA KeepStep ==
  ASSUME ScanInv, KeepInv, Onward, given' = given, renames' = 0,
         db' = db \/ db' = Nobody,
         \A s \in Sessions : pc'[s] # "idle" =>
           /\ pc'[s] = "move" => job'[s].add \subseteq In("tmp")'
           /\ job'[s].kind = "status" => job'[s].ro,
         \A s \in Sessions : pc'[s] # "idle" /\ ~ job'[s].ro => KeepJob(s)'
  PROVE  KeepInv'
<1>1. /\ \A g \in given : place'[g.msg] \in {"cur", "gone"}
      /\ Named' = Named /\ Named \cap In("cur")' \subseteq Named \cap In("cur")
  BY NamedOnward
<1>2. MessageKeepsUid'
  BY DEF KeepInv, MessageKeepsUid
<1>3. db' # Nobody => (Named \cap In("cur"))' \subseteq Of(db'.uids)
  BY <1>1 DEF KeepInv
<1> QED
  BY <1>1, <1>2, <1>3 DEF KeepInv

\* A job that reads on keeps what it knows.
LEMMA KeepOnward ==
  ASSUME ScanInv, KeepInv, Onward, given' = given, NEW s \in Sessions,
         pc[s] # "idle", KeepJob(s),
         job'[s].known = job[s].known, job'[s].uidv = job[s].uidv
  PROVE  /\ \A d, e \in job'[s].known : d.msg = e.msg => d = e
         /\ \A e \in job'[s].known : place'[e.msg] \in {"cur", "gone"}
         /\ \A g \in given' : g.uidv = job'[s].uidv =>
              /\ \A e \in job'[s].known : g.msg = e.msg => g.uid = e.uid
              /\ place'[g.msg] = "cur" => g.msg \in Of(job'[s].known)
<1>1. \A e \in job[s].known : e.msg \in Msgs /\ place[e.msg] \in {"cur", "gone"}
  BY KeepTypes DEF KeepJob
<1>2. \A e \in job[s].known : place'[e.msg] \in {"cur", "gone"}
  BY <1>1 DEF Onward
<1>3. \A g \in given : place'[g.msg] = "cur" => place[g.msg] = "cur"
  BY NamedOnward
<1> QED
  BY <1>2, <1>3 DEF KeepJob

\* The same job goes on while others move messages.
LEMMA KeepSame ==
  ASSUME ScanInv, KeepInv, Onward, given' = given, NEW s \in Sessions,
         pc[s] # "idle", KeepJob(s), job'[s] = job[s], pc'[s] = pc[s]
  PROVE  KeepJob(s)'
<1>1. /\ \A d, e \in job'[s].known : d.msg = e.msg => d = e
      /\ \A e \in job'[s].known : place'[e.msg] \in {"cur", "gone"}
      /\ \A g \in given' : g.uidv = job'[s].uidv =>
           /\ \A e \in job'[s].known : g.msg = e.msg => g.uid = e.uid
           /\ place'[g.msg] = "cur" => g.msg \in Of(job'[s].known)
  BY KeepOnward
<1>2. ASSUME pc'[s] \in {"new", "rename", "save"}
      PROVE  /\ job'[s].fresh \subseteq Msgs \X {1}
             /\ Numbering(job'[s]) \cap Of(job'[s].known) = {}
             /\ \A g \in given' : g.uidv = job'[s].uidv => g.msg \notin Numbering(job'[s])
             /\ (Named \cap In("cur"))' \subseteq Of(job'[s].found) \cup Numbering(job'[s])
             /\ \A m \in Numbering(job'[s]) :
                   \/ place'[m] \in {"cur", "gone"}
                   \/ pc'[s] = "rename" /\ m \in job'[s].batch /\ place'[m] = "new"
  <2>1. /\ Named' = Named /\ Named \cap In("cur")' \subseteq Named \cap In("cur")
    BY NamedOnward
  <2>2. Numbering(job[s]) \subseteq Msgs
    BY KeepTypes
  <2>3. \A m \in Numbering(job[s]) :
            \/ place'[m] \in {"cur", "gone"}
            \/ pc'[s] = "rename" /\ m \in job[s].batch /\ place'[m] = "new"
    BY <1>2, <2>2 DEF KeepJob, Onward
  <2> QED
    BY <1>2, <2>1, <2>3 DEF KeepJob
<1> QED
  BY <1>1, <1>2 DEF KeepJob

\* What happens without the lock.
LEMMA KeepPlace ==
  ASSUME ScanInv, KeepInv, NEW m \in Msgs, NEW where,
         \/ place[m] = "none" /\ where = "new"
         \/ place[m] = "new" /\ where = "cur"
         \/ place[m] = "cur" /\ where = "gone",
         place' = [place EXCEPT ![m] = where],
         UNCHANGED <<db, pc, job, given, renames>>
  PROVE  KeepInv'
<1>1. Onward /\ In("tmp") \subseteq In("tmp")'
  BY DEF ScanInv, TypeOK, Onward, In
<1>2. \A s \in Sessions : pc'[s] # "idle" /\ ~ job'[s].ro => KeepJob(s)'
  BY <1>1, KeepSame DEF KeepInv
<1>3. \A s \in Sessions : pc'[s] # "idle" =>
        /\ pc'[s] = "move" => job'[s].add \subseteq In("tmp")'
        /\ job'[s].kind = "status" => job'[s].ro
  BY <1>1 DEF KeepInv
<1> QED
  BY <1>1, <1>2, <1>3, KeepStep DEF KeepInv

\* A scan begins, ...
LEMMA KeepBegin ==
  ASSUME StableScans, ScanInv, ScanInv', KeepInv, NEW s \in Sessions, NEW kind,
         NEW add \in SUBSET Msgs, Begin(s, kind, add),
         \/ add = {} /\ place' = place
         \/ \E m \in In("none") : add = {m} /\ place' = [place EXCEPT ![m] = "tmp"]
  PROVE  KeepInv'
<1> DEFINE ro == ReadOnly(s, kind)
<1>1. /\ pc[s] = "idle" /\ lock = Nobody /\ db' = db /\ given' = given
      /\ renames' = renames /\ DOMAIN job = Sessions
      /\ pc' = [pc EXCEPT ![s] = IF add = {} THEN "open" ELSE "move"]
  BY DEF Begin, StableScans, LockedScans, ScanInv, TypeOK
<1>2. \A t \in Sessions \ {s} : pc'[t] = "idle"
  BY <1>1, ScanAssumption DEF StableScans, LockedScans, ScanInv, TypeOK
<1>3. pc'[s] = IF add = {} THEN "open" ELSE "move"
  BY <1>1 DEF ScanInv, TypeOK
<1>4. Onward /\ add \subseteq In("tmp")'
  BY DEF ScanInv, TypeOK, Onward, In
<1>5. ASSUME ~ ro
      PROVE  KeepJob(s)'
  <2> DEFINE Starts(uidv, next, uids, made) ==
        /\ job' = [job EXCEPT ![s] = NewJob(kind, ro, add, uidv, next, uids, made)]
        /\ \/ db # Nobody /\ uidv = db.uidv /\ uids = db.uids
           \/ uids = {} /\ uidv > now /\ uidv \in {now, now + 1}
  <2>1. PICK uidv, next, uids, made : Starts(uidv, next, uids, made)
    <3>1. ~ Fail("create")
      BY DEF Fail, StableScans, LockedScans
    <3>2. CASE /\ db # Nobody
               /\ job' = [job EXCEPT ![s] =
                     NewJob(kind, ro, add, db.uidv, db.next, db.uids, FALSE)]
      <4>1. Starts(db.uidv, db.next, db.uids, FALSE)
        BY <3>2
      <4> HIDE DEF Starts
      <4> QED
        BY <4>1
    <3>3. ASSUME NEW t \in Stamps(ro),
                 job' = [job EXCEPT ![s] = NewJob(kind, ro, add, t, 1, {}, ~ ro)]
          PROVE  \E uidv, next, uids, made : Starts(uidv, next, uids, made)
      <4>1. t > now /\ t \in {now, now + 1}
        BY <1>5 DEF Stamps, StableScans, LockedScans
      <4>2. Starts(t, 1, {}, ~ ro)
        BY <3>3, <4>1
      <4> HIDE DEF Starts
      <4> QED
        BY <4>2
    <3>4. \/ /\ db # Nobody
             /\ job' = [job EXCEPT ![s] =
                   NewJob(kind, ro, add, db.uidv, db.next, db.uids, FALSE)]
          \/ \E t \in Stamps(ro) :
                job' = [job EXCEPT ![s] = NewJob(kind, ro, add, t, 1, {}, ~ ro)]
      BY <3>1 DEF Begin
    <3> HIDE DEF ro, Starts
    <3> QED
      BY <3>2, <3>3, <3>4
  <2>2. /\ job'[s].known = uids /\ job'[s].uidv = uidv /\ job'[s].add = add
    BY <1>1, <2>1 DEF NewJob
  <2>3. \A g \in given : /\ g.msg \in Msgs /\ g.uidv \in Nat /\ g.uidv <= now
                         /\ place'[g.msg] \in {"cur", "gone"}
                         /\ place'[g.msg] = "cur" => place[g.msg] = "cur"
    BY <1>1, <1>4, KeepTypes, NamedOnward DEF ScanInv
  <2>4. CASE db # Nobody /\ uidv = db.uidv /\ uids = db.uids
    <3>1. \A e \in uids : Given(uidv, e) \in given
      BY <2>4 DEF ScanInv, DbInv
    <3>2. \A e \in uids : place'[e.msg] \in {"cur", "gone"}
      BY <2>3, <3>1 DEF Given
    <3>3. \A g \in given, e \in uids : g.uidv = uidv /\ g.msg = e.msg => g.uid = e.uid
      BY <3>1 DEF Given, KeepInv, MessageKeepsUid
    <3>4. \A d, e \in uids : d.msg = e.msg => d = e
      <4>1. \A d, e \in uids : d.msg = e.msg => d.uid = e.uid
        BY <3>1, <3>3 DEF Given
      <4>2. uids \subseteq Entry
        BY <2>4 DEF ScanInv, TypeOK
      <4> QED
        BY <4>1, <4>2 DEF Entry
    <3>5. \A g \in given : place'[g.msg] = "cur" => g.msg \in Of(uids)
      BY <2>3, <2>4 DEF KeepInv, Named, In
    <3> QED
      BY <1>1, <1>3, <2>2, <3>2, <3>3, <3>4, <3>5 DEF KeepJob
  <2>5. CASE uids = {} /\ uidv > now /\ uidv \in {now, now + 1}
    <3>1. \A g \in given : g.uidv # uidv
      <4>1. now \in Nat
        BY ScanAssumption DEF ScanInv, TypeOK
      <4> QED
        BY <2>3, <2>5, <4>1
    <3> QED
      BY <1>1, <1>3, <2>2, <2>5, <3>1 DEF KeepJob
  <2> QED
    BY <2>1, <2>4, <2>5
<1>6. job'[s].ro = ro /\ job'[s].add = add /\ job'[s].kind = kind
  BY <1>1 DEF Begin, NewJob
<1>7. kind = "status" => ro
  BY DEF ReadOnly
<1> HIDE DEF ro
<1> QED
  BY <1>1, <1>2, <1>3, <1>4, <1>5, <1>6, <1>7, KeepStep DEF KeepInv

\* A session that scans, and is in the middle of it, is the only one.
LEMMA KeepScan ==
  ASSUME StableScans, ScanInv, KeepInv, Onward, NEW s \in Sessions, pc[s] # "idle",
         NEW step, step # "move", pc' = [pc EXCEPT ![s] = step], given' = given, renames' = 0,
         db' = db \/ db' = Nobody,
         job'[s].kind = job[s].kind, job'[s].ro = job[s].ro,
         ~ job[s].ro => KeepJob(s)'
  PROVE  KeepInv'
<1>1. \A t \in Sessions \ {s} : pc[t] = "idle"
  BY Alone DEF StableScans, ScanInv
<1>2. \A t \in Sessions \ {s} : pc'[t] = "idle"
  BY <1>1 DEF ScanInv, TypeOK
<1>3. pc'[s] # "move" /\ (job[s].kind = "status" => job[s].ro)
  BY DEF ScanInv, TypeOK, KeepInv
<1> QED
  BY <1>2, <1>3, KeepStep

\* ... adds its message and goes on to open its file, ...
LEMMA KeepMove ==
  ASSUME StableScans, ScanInv, KeepInv, NEW s \in Sessions, Move(s) \/ Open(s)
  PROVE  KeepInv'
<1>1. /\ pc[s] \in {"move", "open"} /\ job[s] \in Job /\ DOMAIN job = Sessions
      /\ place \in [Msgs -> {"none", "tmp", "new", "cur", "gone"}]
      /\ pc \in [Sessions -> {"idle", "move", "open", "cur", "new", "rename", "save"}]
  BY DEF Move, Open, ScanInv, TypeOK
<1>2. given' = given /\ renames' = 0
  BY DEF Move, Open, bounds, KeepInv
<1>3. CASE Open(s)
  <2> DEFINE j == [job[s] EXCEPT !.open = FALSE]
  <2>1. /\ j.known = job[s].known /\ j.uidv = job[s].uidv /\ j.ro = job[s].ro
        /\ j.kind = job[s].kind
    BY <1>1 DEF Job
  <2>2. job'[s] = job[s] \/ job'[s] = j
    BY <1>1, <1>3 DEF Open
  <2> HIDE DEF j
  <2>3. Onward /\ pc'[s] = "cur"
    BY <1>1, <1>3 DEF Open, Onward
  <2>4. ~ job'[s].ro => KeepJob(s)
    BY <1>1, <2>1, <2>2 DEF KeepInv
  <2>5. ~ job'[s].ro => KeepJob(s)'
    BY <1>1, <1>2, <2>1, <2>2, <2>3, <2>4, KeepOnward DEF KeepJob
  <2> QED
    BY <1>1, <1>2, <1>3, <2>1, <2>2, <2>3, <2>5, KeepScan DEF Open
<1>4. CASE Move(s)
  <2>1. PICK m \in job[s].add :
          /\ place' = [place EXCEPT ![m] = "cur"]
          /\ job' = [job EXCEPT ![s].known = @ \cup {[msg |-> m, uid |-> job[s].next]},
                                ![s].next = @ + 1]
    BY <1>4 DEF Move
  <2> DEFINE e == [msg |-> m, uid |-> job[s].next]
             j == [job[s] EXCEPT !.known = @ \cup {e}, !.next = @ + 1]
  <2>2. /\ j.known = job[s].known \cup {e} /\ j.uidv = job[s].uidv /\ j.ro = job[s].ro
        /\ j.kind = job[s].kind /\ e.msg = m /\ m \in Msgs
    BY <1>1, <2>1 DEF Job
  <2>3. job'[s] = j /\ pc'[s] = "open"
    BY <1>1, <1>4, <2>1 DEF Move
  <2> HIDE DEF j, e
  <2>4. place[m] = "tmp" /\ Onward
    <3>1. place[m] = "tmp"
      BY <1>4, <2>1 DEF Move, KeepInv, In
    <3> QED
      BY <1>1, <2>1, <2>2, <3>1 DEF Onward
  <2>5. ASSUME ~ job[s].ro
        PROVE  KeepJob(s)'
    <3>1. KeepJob(s)
      BY <1>1, <2>5 DEF KeepInv
    <3>3. \A d \in job[s].known : d.msg \in Msgs /\ place[d.msg] \in {"cur", "gone"}
      BY <1>1, <3>1, KeepTypes DEF KeepJob
    <3>4. \A d \in job[s].known : d.msg # m /\ place'[d.msg] \in {"cur", "gone"}
      BY <1>1, <2>1, <2>4, <3>3
    <3>5. \A g \in given : g.msg # m
      BY <2>4 DEF KeepInv
    <3>6. place'[m] = "cur"
      BY <1>1, <2>1, <2>2
    <3>7. \A g \in given : place'[g.msg] = "cur" => place[g.msg] = "cur"
      BY <1>2, <2>4, NamedOnward
    <3>8. /\ \A d, f \in j.known : d.msg = f.msg => d = f
          /\ \A d \in j.known : place'[d.msg] \in {"cur", "gone"}
      BY <2>2, <3>1, <3>4, <3>6 DEF KeepJob
    <3>9. \A g \in given : g.uidv = j.uidv =>
             /\ \A d \in j.known : g.msg = d.msg => g.uid = d.uid
             /\ place'[g.msg] = "cur" => g.msg \in Of(j.known)
      <4> SUFFICES ASSUME NEW g \in given, g.uidv = job[s].uidv
                   PROVE  /\ \A d \in j.known : g.msg = d.msg => g.uid = d.uid
                          /\ place'[g.msg] = "cur" => g.msg \in Of(j.known)
        BY <2>2
      <4>1. \A d \in j.known : g.msg = d.msg => g.uid = d.uid
        BY <2>2, <3>1, <3>5 DEF KeepJob
      <4>2. place'[g.msg] = "cur" => g.msg \in Of(j.known)
        BY <2>2, <3>1, <3>7 DEF KeepJob, Of
      <4> QED
        BY <4>1, <4>2
    <3> QED
      BY <1>2, <2>3, <3>8, <3>9 DEF KeepJob
  <2> QED
    BY <1>1, <1>2, <1>4, <2>2, <2>3, <2>4, <2>5, KeepScan DEF Move
<1> QED
  BY <1>3, <1>4

\* The messages of the files that are to be numbered.
LEMMA NumberingOf ==
  ASSUME NEW j, NEW S
  PROVE  /\ j.fresh = S \X {1} => Numbering(j) = S
         /\ \A k : j.fresh = k.fresh \cup S \X {1} => Numbering(j) = Numbering(k) \cup S
<1>1. \A n \in S : <<n, 1>> \in S \X {1} /\ <<n, 1>>[1] = n
  OBVIOUS
<1>2. \A x \in S \X {1} : x[1] \in S
  OBVIOUS
<1>3. {x[1] : x \in S \X {1}} = S
  BY <1>1, <1>2
<1> QED
  BY <1>3 DEF Numbering

\* ... reads cur, and finds what it knows and what is to be numbered, ...
LEMMA ReadCurFacts ==
  ASSUME StableScans, ScanInv, KeepInv, NEW s \in Sessions, ReadCur(s)
  PROVE  /\ pc[s] = "cur" /\ pc' = [pc EXCEPT ![s] = "new"] /\ pc'[s] = "new"
         /\ place' = place /\ db' = db /\ given' = given /\ renames' = 0
         /\ \A t \in Sessions \ {s} : job'[t] = job[t]
         /\ job'[s].kind = job[s].kind /\ job'[s].ro = job[s].ro
         /\ job'[s].uidv = job[s].uidv /\ job'[s].next = job[s].next
         /\ job'[s].known = job[s].known /\ job'[s].made = job[s].made
         /\ job'[s].open = job[s].open /\ job'[s].add = job[s].add
         /\ job'[s].found \subseteq job[s].known
         /\ job'[s].fresh = (In("cur") \ Of(job[s].known)) \X {1}
         /\ Of(job'[s].found) = In("cur") \cap Of(job[s].known)
<1>1. /\ job[s] \in Job /\ DOMAIN job = Sessions /\ IsFiniteSet(Msgs) /\ renames = 0
      /\ MaxRenames = 0 /\ pc[s] = "cur" /\ pc' = [pc EXCEPT ![s] = "new"]
      /\ pc \in [Sessions -> {"idle", "move", "open", "cur", "new", "rename", "save"}]
  BY DEF ReadCur, ScanInv, TypeOK, StableScans, LockedScans, KeepInv
<1>2. PICK missed \in SUBSET Storable(s), twice \in SUBSET Storable(s) :
        /\ renames' = renames + Cardinality(missed \cup twice)
        /\ renames' <= MaxRenames
        /\ LET seen == In("cur") \ missed
               new  == seen \ Of(job[s].known)
           IN  \E found \in SUBSET job[s].known :
                  /\ Of(found) = seen \ new
                  /\ job' = [job EXCEPT
                        ![s].found = found,
                        ![s].fresh = new \X {1} \cup (new \cap twice) \X {2}]
  BY DEF ReadCur
<1>3. missed = {} /\ twice = {} /\ renames' = 0
  <2>1. IsFiniteSet(missed \cup twice)
    <3>1. missed \cup twice \subseteq Msgs
      BY DEF Storable, In
    <3> QED
      BY <1>1, <3>1, FS_Subset
  <2>2. Cardinality(missed \cup twice) \in Nat
    BY <2>1, FS_CardinalityType
  <2>3. Cardinality(missed \cup twice) = 0
    BY <1>1, <1>2, <2>2
  <2> QED
    BY <1>1, <1>2, <2>1, <2>3, FS_EmptySet
<1> DEFINE new == In("cur") \ Of(job[s].known)
<1>4. PICK found \in SUBSET job[s].known :
        /\ Of(found) = In("cur") \ new
        /\ job' = [job EXCEPT ![s].found = found, ![s].fresh = new \X {1}]
  <2>1. new \X {1} \cup (new \cap twice) \X {2} = new \X {1}
    BY <1>3
  <2> QED
    BY <1>2, <1>3, <2>1
<1> DEFINE j == [job[s] EXCEPT !.found = found, !.fresh = new \X {1}]
<1>5. /\ job'[s] = j /\ j.found = found /\ j.fresh = new \X {1}
      /\ j.kind = job[s].kind /\ j.ro = job[s].ro
      /\ j.uidv = job[s].uidv /\ j.next = job[s].next
      /\ j.known = job[s].known /\ j.made = job[s].made
      /\ j.open = job[s].open /\ j.add = job[s].add
      /\ \A t \in Sessions \ {s} : job'[t] = job[t]
  BY <1>1, <1>4 DEF Job
<1>6. place' = place /\ db' = db /\ given' = given
  BY DEF ReadCur
<1>7. In("cur") \ new = In("cur") \cap Of(job[s].known)
  OBVIOUS
<1> HIDE DEF j
<1> QED
  BY <1>1, <1>3, <1>4, <1>5, <1>6, <1>7

LEMMA KeepReadCur ==
  ASSUME StableScans, ScanInv, KeepInv, NEW s \in Sessions, ReadCur(s)
  PROVE  KeepInv'
<1>1. /\ pc[s] # "idle" /\ pc' = [pc EXCEPT ![s] = "new"] /\ pc'[s] = "new"
      /\ place' = place /\ db' = db /\ given' = given /\ renames' = 0
      /\ job'[s].fresh = (In("cur") \ Of(job[s].known)) \X {1}
      /\ Of(job'[s].found) = In("cur") \cap Of(job[s].known)
  BY ReadCurFacts
<1>2. Onward
  BY <1>1 DEF Onward, ScanInv, TypeOK
<1>3. /\ job'[s].known = job[s].known /\ job'[s].uidv = job[s].uidv
      /\ job'[s].ro = job[s].ro /\ job'[s].kind = job[s].kind
  BY ReadCurFacts
<1>4. Numbering(job'[s]) = In("cur") \ Of(job[s].known)
  BY <1>1, NumberingOf
<1>5. ASSUME ~ job[s].ro
      PROVE  KeepJob(s)'
  <2>1. KeepJob(s)
    BY <1>1, <1>5 DEF KeepInv
  <2>2. /\ \A d, e \in job'[s].known : d.msg = e.msg => d = e
        /\ \A e \in job'[s].known : place'[e.msg] \in {"cur", "gone"}
        /\ \A g \in given' : g.uidv = job'[s].uidv =>
             /\ \A e \in job'[s].known : g.msg = e.msg => g.uid = e.uid
             /\ place'[g.msg] = "cur" => g.msg \in Of(job'[s].known)
    BY <1>1, <1>2, <1>3, <2>1, KeepOnward
  <2>3. /\ job'[s].fresh \subseteq Msgs \X {1}
        /\ Numbering(job'[s]) \cap Of(job'[s].known) = {}
    BY <1>1, <1>3, <1>4 DEF In
  <2>4. \A g \in given' : g.uidv = job'[s].uidv => g.msg \notin Numbering(job'[s])
    BY <1>1, <1>3, <1>4, <2>2 DEF In
  <2>5. (Named \cap In("cur"))' \subseteq Of(job'[s].found) \cup Numbering(job'[s])
    BY <1>1, <1>4 DEF In
  <2>6. \A m \in Numbering(job'[s]) : place'[m] \in {"cur", "gone"}
    BY <1>1, <1>4 DEF In
  <2> QED
    BY <1>1, <2>2, <2>3, <2>4, <2>5, <2>6 DEF KeepJob
<1> QED
  BY <1>1, <1>2, <1>3, <1>5, KeepScan

\* ... reads new, and moves what it finds.
LEMMA ReadNewFacts ==
  ASSUME ScanInv, NEW s \in Sessions, ReadNew(s)
  PROVE  /\ pc[s] = "new" /\ place' = place /\ db' = db /\ given' = given
         /\ renames' = renames /\ \A t \in Sessions \ {s} : job'[t] = job[t]
         /\ job'[s].kind = job[s].kind /\ job'[s].ro = job[s].ro
         /\ job'[s].uidv = job[s].uidv /\ job'[s].next = job[s].next
         /\ job'[s].known = job[s].known /\ job'[s].found = job[s].found
         /\ job'[s].made = job[s].made /\ job'[s].open = job[s].open
         /\ \/ /\ job[s].kind = "status" /\ pc' = [pc EXCEPT ![s] = "save"]
               /\ job'[s].fresh = job[s].fresh /\ job'[s].batch = In("new")
               /\ job'[s].there = Msgs \ (In("none") \cup In("tmp"))
            \/ /\ job[s].kind # "status" /\ job'[s].batch \subseteq In("new")
               /\ pc' = [pc EXCEPT ![s] = IF job'[s].batch = {} THEN "save" ELSE "rename"]
               /\ job'[s].fresh = job[s].fresh \cup job'[s].batch \X {1}
               /\ job'[s].batch = In("new") \/ job'[s].more
               /\ job'[s].batch # {} \/ ~ job'[s].more
<1>1. job[s] \in Job /\ DOMAIN job = Sessions
  BY DEF ReadNew, ScanInv, TypeOK
<1>2. CASE job[s].kind = "status"
  <2> DEFINE j == [job[s] EXCEPT !.batch = In("new"),
                                 !.there = Msgs \ (In("none") \cup In("tmp"))]
  <2>1. job' = [job EXCEPT ![s] = j]
    BY <1>2 DEF ReadNew
  <2>2. /\ j.fresh = job[s].fresh /\ j.batch = In("new") /\ j.more = job[s].more
        /\ j.there = Msgs \ (In("none") \cup In("tmp"))
        /\ j.kind = job[s].kind /\ j.ro = job[s].ro
        /\ j.uidv = job[s].uidv /\ j.next = job[s].next
        /\ j.known = job[s].known /\ j.found = job[s].found
        /\ j.made = job[s].made /\ j.open = job[s].open
    BY <1>1 DEF Job
  <2> HIDE DEF j
  <2> QED
    BY <1>1, <1>2, <2>1, <2>2 DEF ReadNew, bounds
<1>3. CASE job[s].kind # "status"
  <2>1. PICK files \in SUBSET In("new") :
          /\ Cardinality(files) <= Batch
          /\ files = In("new") \/ Cardinality(files) = Batch
          /\ job' = [job EXCEPT ![s].batch = files,
                                ![s].fresh = @ \cup files \X {1},
                                ![s].more = Cardinality(files) = Batch]
          /\ pc' = [pc EXCEPT ![s] = IF files = {} THEN "save" ELSE "rename"]
    BY <1>3 DEF ReadNew
  <2> DEFINE j == [job[s] EXCEPT !.batch = files, !.fresh = @ \cup files \X {1},
                                 !.more = (Cardinality(files) = Batch)]
  <2>2. job' = [job EXCEPT ![s] = j]
    BY <1>1, <2>1 DEF Job
  <2>3. /\ j.fresh = job[s].fresh \cup files \X {1} /\ j.batch = files
        /\ j.more = (Cardinality(files) = Batch) /\ j.there = job[s].there
        /\ j.kind = job[s].kind /\ j.ro = job[s].ro
        /\ j.uidv = job[s].uidv /\ j.next = job[s].next
        /\ j.known = job[s].known /\ j.found = job[s].found
        /\ j.made = job[s].made /\ j.open = job[s].open
    BY <1>1 DEF Job
  <2> HIDE DEF j
  <2>4. files # {} \/ Cardinality(files) # Batch
    BY ScanAssumption, FS_EmptySet
  <2>5. job'[s] = j /\ \A t \in Sessions \ {s} : job'[t] = job[t]
    BY <1>1, <2>2
  <2> QED
    BY <1>3, <2>1, <2>3, <2>4, <2>5 DEF ReadNew, bounds
<1> QED
  BY <1>2, <1>3

LEMMA KeepReadNew ==
  ASSUME StableScans, ScanInv, KeepInv, NEW s \in Sessions, ReadNew(s)
  PROVE  KeepInv'
<1>1. /\ pc[s] = "new" /\ place' = place /\ db' = db /\ given' = given /\ renames' = 0
      /\ job[s] \in Job
      /\ pc \in [Sessions -> {"idle", "move", "open", "cur", "new", "rename", "save"}]
  BY ReadNewFacts DEF KeepInv, ScanInv, TypeOK
<1>2. Onward
  BY <1>1 DEF Onward, ScanInv, TypeOK
<1>3. /\ job'[s].known = job[s].known /\ job'[s].uidv = job[s].uidv
      /\ job'[s].ro = job[s].ro /\ job'[s].found = job[s].found
      /\ job'[s].kind = job[s].kind
  BY ReadNewFacts
<1>4. PICK step \in {"rename", "save"} : pc' = [pc EXCEPT ![s] = step]
  BY ReadNewFacts
<1>5. ASSUME ~ job[s].ro, KeepJob(s), job[s].kind # "status"
      PROVE  KeepJob(s)'
  <2>1. /\ pc'[s] = (IF job'[s].batch = {} THEN "save" ELSE "rename")
        /\ job'[s].batch \subseteq In("new")
        /\ job'[s].fresh = job[s].fresh \cup job'[s].batch \X {1}
        /\ Numbering(job'[s]) = Numbering(job[s]) \cup job'[s].batch
    <3>1. /\ pc' = [pc EXCEPT ![s] = IF job'[s].batch = {} THEN "save" ELSE "rename"]
          /\ job'[s].batch \subseteq In("new")
          /\ job'[s].fresh = job[s].fresh \cup job'[s].batch \X {1}
      BY <1>5, ReadNewFacts
    <3> QED
      BY <1>1, <3>1, NumberingOf
  <2>2. /\ \A d, e \in job'[s].known : d.msg = e.msg => d = e
        /\ \A e \in job'[s].known : place'[e.msg] \in {"cur", "gone"}
        /\ \A g \in given' : g.uidv = job'[s].uidv =>
             /\ \A e \in job'[s].known : g.msg = e.msg => g.uid = e.uid
             /\ place'[g.msg] = "cur" => g.msg \in Of(job'[s].known)
    BY <1>1, <1>2, <1>3, <1>5, KeepOnward
  <2>3. job'[s].fresh \subseteq Msgs \X {1}
    BY <1>1, <1>5, <2>1 DEF KeepJob, In
  <2>4. Numbering(job'[s]) \cap Of(job'[s].known) = {}
    BY <1>1, <1>3, <1>5, <2>1, <2>2 DEF KeepJob, In, Of
  <2>5. \A g \in given' : g.uidv = job'[s].uidv => g.msg \notin Numbering(job'[s])
    BY <1>1, <1>3, <1>5, <2>1 DEF KeepJob, KeepInv, In
  <2>6. (Named \cap In("cur"))' \subseteq Of(job'[s].found) \cup Numbering(job'[s])
    BY <1>1, <1>3, <1>5, <2>1 DEF KeepJob, Named, In
  <2>7. \A m \in Numbering(job'[s]) :
           \/ place'[m] \in {"cur", "gone"}
           \/ pc'[s] = "rename" /\ m \in job'[s].batch /\ place'[m] = "new"
    BY <1>1, <1>5, <2>1 DEF KeepJob, In
  <2> QED
    BY <1>4, <2>1, <2>2, <2>3, <2>4, <2>5, <2>6, <2>7 DEF KeepJob
<1>6. ~ job[s].ro => KeepJob(s)
  BY <1>1 DEF KeepInv
<1>7. ~ job[s].ro => job[s].kind # "status"
  BY <1>1 DEF KeepInv
<1> QED
  BY <1>1, <1>2, <1>3, <1>4, <1>5, <1>6, <1>7, KeepScan

LEMMA RenameFacts ==
  ASSUME ScanInv, NEW s \in Sessions, Rename(s)
  PROVE  \E m \in job[s].batch :
           /\ m \in Msgs /\ pc[s] = "rename" /\ db' = db /\ given' = given /\ renames' = renames
           /\ place' = [place EXCEPT ![m] = IF @ = "new" THEN "cur" ELSE @]
           /\ \A t \in Sessions \ {s} : job'[t] = job[t]
           /\ job'[s].kind = job[s].kind /\ job'[s].ro = job[s].ro
           /\ job'[s].uidv = job[s].uidv /\ job'[s].next = job[s].next
           /\ job'[s].known = job[s].known /\ job'[s].found = job[s].found
           /\ job'[s].made = job[s].made /\ job'[s].open = job[s].open
           /\ job'[s].fresh = job[s].fresh /\ job'[s].there = job[s].there
           /\ job'[s].batch = job[s].batch \ {m}
           /\ job'[s].more <=> job[s].more /\ place[m] = "new"
           /\ pc' = [pc EXCEPT ![s] = IF job[s].batch # {m} THEN "rename"
                                      ELSE IF job'[s].more THEN "new" ELSE "save"]
<1>1. job[s] \in Job /\ DOMAIN job = Sessions
  BY DEF Rename, ScanInv, TypeOK
<1>2. PICK m \in job[s].batch :
        LET more == job[s].more /\ place[m] = "new"
        IN  /\ place' = [place EXCEPT ![m] = IF @ = "new" THEN "cur" ELSE @]
            /\ job' = [job EXCEPT ![s].batch = @ \ {m}, ![s].more = more]
            /\ pc' = [pc EXCEPT ![s] = IF job[s].batch # {m} THEN "rename"
                                       ELSE IF more THEN "new" ELSE "save"]
  BY DEF Rename
<1> DEFINE more == job[s].more /\ place[m] = "new"
           j == [job[s] EXCEPT !.batch = @ \ {m}, !.more = more]
<1>3. job' = [job EXCEPT ![s] = j]
  BY <1>1, <1>2 DEF Job
<1>4. /\ j.kind = job[s].kind /\ j.ro = job[s].ro
      /\ j.uidv = job[s].uidv /\ j.next = job[s].next
      /\ j.known = job[s].known /\ j.found = job[s].found
      /\ j.made = job[s].made /\ j.open = job[s].open
      /\ j.fresh = job[s].fresh /\ j.there = job[s].there
      /\ j.batch = job[s].batch \ {m} /\ j.more = more /\ m \in Msgs
  BY <1>1, <1>2 DEF Job
<1>5. pc[s] = "rename" /\ db' = db /\ given' = given /\ renames' = renames
  BY DEF Rename, bounds
<1> HIDE DEF j
<1>6. job'[s] = j /\ \A t \in Sessions \ {s} : job'[t] = job[t]
  BY <1>1, <1>3
<1> QED
  BY <1>2, <1>4, <1>5, <1>6

LEMMA KeepRename ==
  ASSUME StableScans, ScanInv, KeepInv, NEW s \in Sessions, Rename(s)
  PROVE  KeepInv'
<1>1. PICK m \in job[s].batch :
        /\ m \in Msgs /\ pc[s] = "rename" /\ db' = db /\ given' = given /\ renames' = renames
        /\ place' = [place EXCEPT ![m] = IF @ = "new" THEN "cur" ELSE @]
        /\ job'[s].kind = job[s].kind /\ job'[s].ro = job[s].ro
        /\ job'[s].uidv = job[s].uidv /\ job'[s].known = job[s].known
        /\ job'[s].found = job[s].found /\ job'[s].fresh = job[s].fresh
        /\ job'[s].batch = job[s].batch \ {m}
        /\ pc' = [pc EXCEPT ![s] = IF job[s].batch # {m} THEN "rename"
                                   ELSE IF job'[s].more THEN "new" ELSE "save"]
  BY RenameFacts
<1>2. PICK step \in {"rename", "new", "save"} :
        /\ pc' = [pc EXCEPT ![s] = step] /\ pc'[s] = step
        /\ step # "rename" => job[s].batch = {m}
  BY <1>1 DEF ScanInv, TypeOK
<1>3. Onward
  BY <1>1 DEF Onward, ScanInv, TypeOK
<1>4. ASSUME ~ job[s].ro
      PROVE  KeepJob(s)'
  <2>1. KeepJob(s) /\ Numbering(job'[s]) = Numbering(job[s])
    BY <1>1, <1>4 DEF KeepInv, Numbering
  <2>2. /\ \A d, e \in job'[s].known : d.msg = e.msg => d = e
        /\ \A e \in job'[s].known : place'[e.msg] \in {"cur", "gone"}
        /\ \A g \in given' : g.uidv = job'[s].uidv =>
             /\ \A e \in job'[s].known : g.msg = e.msg => g.uid = e.uid
             /\ place'[g.msg] = "cur" => g.msg \in Of(job'[s].known)
    BY <1>1, <1>3, <2>1, KeepOnward
  <2>3. /\ job'[s].fresh \subseteq Msgs \X {1}
        /\ Numbering(job'[s]) \cap Of(job'[s].known) = {}
        /\ \A g \in given' : g.uidv = job'[s].uidv => g.msg \notin Numbering(job'[s])
    BY <1>1, <2>1 DEF KeepJob
  <2>4. (Named \cap In("cur"))' \subseteq Of(job'[s].found) \cup Numbering(job'[s])
    BY <1>1, <1>3, <2>1, NamedOnward DEF KeepJob
  <2>5. ASSUME NEW n \in Numbering(job'[s])
        PROVE  \/ place'[n] \in {"cur", "gone"}
               \/ pc'[s] = "rename" /\ n \in job'[s].batch /\ place'[n] = "new"
    <3>1. n \in Msgs
      BY <1>1, <2>1, KeepTypes
    <3>2. \/ place[n] \in {"cur", "gone"}
          \/ n \in job[s].batch /\ place[n] = "new"
      BY <1>1, <2>1 DEF KeepJob
    <3>3. place'[n] = IF n = m /\ place[n] = "new" THEN "cur" ELSE place[n]
      BY <1>1, <3>1 DEF ScanInv, TypeOK
    <3> QED
      BY <1>1, <1>2, <3>2, <3>3
  <2> QED
    BY <1>2, <2>2, <2>3, <2>4, <2>5 DEF KeepJob
<1> QED
  BY <1>1, <1>2, <1>3, <1>4, KeepScan DEF KeepInv

\* The end of a scan: each of its messages has one UID, the one that it was
\* given before if it was.
LEMMA UidsKeep ==
  ASSUME StableScans, ScanInv, KeepInv, NEW s \in Sessions, pc[s] = "save", ~ job[s].ro
  PROVE  /\ Of(Uids(job[s])) = Of(job[s].found) \cup Numbering(job[s])
         /\ \A d, e \in Uids(job[s]) : d.msg = e.msg => d = e
         /\ \A g \in given, e \in Uids(job[s]) :
               g.uidv = job[s].uidv /\ g.msg = e.msg => g.uid = e.uid
         /\ \A e \in Uids(job[s]) : place[e.msg] \in {"cur", "gone"}
<1> DEFINE j == job[s]
<1>1. KeepJob(s) /\ JobInv(j) /\ j \in Job
  BY DEF KeepInv, ScanInv, TypeOK
<1>2. /\ j.found \subseteq j.known /\ j.fresh \subseteq Msgs \X {1}
      /\ Numbering(j) \cap Of(j.known) = {}
  BY <1>1 DEF KeepJob, JobInv
<1>3. Of(Numbered(j)) = Numbering(j)
  <2> DEFINE Number(x) == j.next + Cardinality({y \in j.fresh : Before(y, x)})
             Entered(x) == [msg |-> x[1], uid |-> Number(x)]
  <2>1. Numbered(j) = {Entered(x) : x \in j.fresh}
    BY DEF Numbered
  <2>2. \A x : Entered(x).msg = x[1]
    OBVIOUS
  <2> HIDE DEF Entered
  <2> QED
    BY <2>1, <2>2 DEF Of, Numbering
<1>4. ASSUME NEW d \in Numbered(j), NEW e \in Numbered(j), d.msg = e.msg
      PROVE  d = e
  <2>1. PICK x \in j.fresh :
          d = [msg |-> x[1], uid |-> j.next + Cardinality({y \in j.fresh : Before(y, x)})]
    BY DEF Numbered
  <2>2. PICK z \in j.fresh :
          e = [msg |-> z[1], uid |-> j.next + Cardinality({y \in j.fresh : Before(y, z)})]
    BY DEF Numbered
  <2>3. x[1] = z[1]
    BY <1>4, <2>1, <2>2
  <2>4. x = z
    BY <1>2, <2>3
  <2> QED
    BY <2>1, <2>2, <2>4
<1>5. \A e \in Numbered(j) : e.msg \in Numbering(j)
  BY <1>3 DEF Of
<1>6. \A e \in j.found : e.msg \notin Numbering(j)
  BY <1>2 DEF Of
<1>7. Of(Uids(j)) = Of(j.found) \cup Numbering(j)
  BY <1>3 DEF Of, Uids
<1>8. \A d, e \in Uids(j) : d.msg = e.msg => d = e
  BY <1>1, <1>2, <1>4, <1>5, <1>6 DEF Uids, KeepJob
<1>9. \A g \in given, e \in Uids(j) : g.uidv = j.uidv /\ g.msg = e.msg => g.uid = e.uid
  BY <1>1, <1>2, <1>5 DEF Uids, KeepJob
<1>10. \A e \in Uids(j) : place[e.msg] \in {"cur", "gone"}
  BY <1>1, <1>2, <1>5 DEF Uids, KeepJob
<1> QED
  BY <1>7, <1>8, <1>9, <1>10

LEMMA KeepSave ==
  ASSUME StableScans, ScanInv, KeepInv, NEW s \in Sessions, Save(s)
  PROVE  KeepInv'
<1> DEFINE j == job[s]
           new == {[uidv |-> j.uidv, uid |-> e.uid, msg |-> e.msg] : e \in Uids(j)}
<1>1. /\ pc[s] = "save" /\ place' = place /\ renames' = 0 /\ renames = 0
      /\ given' = IF j.ro THEN given ELSE given \cup new
      /\ \/ db' = Nobody
         \/ ~ j.ro /\ db' = [uidv |-> j.uidv, next |-> NextUid(j), uids |-> Uids(j)]
         \/ db' = db /\ (j.ro \/ ~ j.open \/ ~ Dirty(j))
  BY DEF Save, Answer, bounds, KeepInv, ScanInv, SavingScans
<1>2. \A t \in Sessions : pc'[t] = "idle"
  <2>1. \A t \in Sessions \ {s} : pc[t] = "idle"
    BY <1>1, Alone DEF StableScans, ScanInv
  <2> QED
    BY <2>1 DEF Save, ScanInv, TypeOK
<1>3. CASE given' = given
  <2>1. Onward
    BY <1>1 DEF Onward, ScanInv, TypeOK
  <2>2. Named' = Named /\ In("cur")' = In("cur")
    BY <1>1, <1>3 DEF Named, In
  <2>3. CASE db' = Nobody \/ db' = db
    BY <1>1, <1>2, <1>3, <2>1, <2>3, KeepStep
  <2>4. CASE ~ j.ro /\ db' = [uidv |-> j.uidv, next |-> NextUid(j), uids |-> Uids(j)]
    <3>1. Named \cap In("cur") \subseteq Of(Uids(j))
      BY <1>1, <2>4, UidsKeep DEF KeepInv, KeepJob
    <3>2. db'.uids = Uids(j)
      BY <2>4
    <3> HIDE DEF j
    <3> QED
      BY <1>1, <1>2, <1>3, <2>2, <3>1, <3>2 DEF KeepInv, MessageKeepsUid
  <2> QED
    BY <1>1, <2>3, <2>4
<1>4. CASE ~ j.ro /\ given' = given \cup new
  <2>1. /\ Of(Uids(j)) = Of(j.found) \cup Numbering(j)
        /\ \A d, e \in Uids(j) : d.msg = e.msg => d = e
        /\ \A g \in given, e \in Uids(j) : g.uidv = j.uidv /\ g.msg = e.msg => g.uid = e.uid
        /\ \A e \in Uids(j) : place[e.msg] \in {"cur", "gone"}
        /\ Named \cap In("cur") \subseteq Of(j.found) \cup Numbering(j)
    BY <1>1, <1>4, UidsKeep DEF KeepInv, KeepJob
  <2>2. \A g \in given' : g \in given \/ \E e \in Uids(j) : g = Given(j.uidv, e)
    BY <1>4 DEF Given
  <2>3. \A e : Given(j.uidv, e).uidv = j.uidv /\ Given(j.uidv, e).msg = e.msg
                 /\ Given(j.uidv, e).uid = e.uid
    BY DEF Given
  <2> HIDE DEF j, new
  <2>4. MessageKeepsUid'
    <3> SUFFICES ASSUME NEW g \in given', NEW h \in given', g.uidv = h.uidv, g.msg = h.msg
                 PROVE  g.uid = h.uid
      BY DEF MessageKeepsUid
    <3>1. CASE g \in given /\ h \in given
      BY <3>1 DEF KeepInv, MessageKeepsUid
    <3>2. CASE g \notin given /\ h \in given
      BY <2>1, <2>2, <2>3, <3>2
    <3>3. CASE g \in given /\ h \notin given
      BY <2>1, <2>2, <2>3, <3>3
    <3>4. CASE g \notin given /\ h \notin given
      BY <2>1, <2>2, <2>3, <3>4
    <3> QED
      BY <3>1, <3>2, <3>3, <3>4
  <2>5. \A g \in given' : place'[g.msg] \in {"cur", "gone"}
    BY <1>1, <2>1, <2>2, <2>3 DEF KeepInv
  <2>6. db' # Nobody => (Named \cap In("cur"))' \subseteq Of(db'.uids)
    <3>1. Named' \cap In("cur")' \subseteq Of(Uids(j))
      <4>1. In("cur")' = In("cur")
        BY <1>1 DEF In
      <4>2. Named' \subseteq Named \cup Of(Uids(j))
        BY <2>2, <2>3 DEF Named, Of
      <4> QED
        BY <2>1, <4>1, <4>2
    <3>2. CASE db' = [uidv |-> j.uidv, next |-> NextUid(j), uids |-> Uids(j)]
      BY <3>1, <3>2
    <3>3. CASE db' # Nobody /\ db' = db /\ (~ j.open \/ ~ Dirty(j))
      <4>1. JobInv(j) /\ j \in Job /\ DbInv
        BY <1>1, <1>4 DEF j, ScanInv, TypeOK
      <4>2. j.open /\ ~ Dirty(j)
        BY <3>3, <4>1 DEF JobInv
      <4>3. j.fresh = {} /\ j.found = j.known /\ j.add = {} /\ ~ j.made
        BY <4>2 DEF Dirty
      <4>4. db.uids = j.known
        BY <4>1, <4>2, <4>3 DEF JobInv
      <4>5. Uids(j) = db.uids
        BY <4>3, <4>4 DEF Uids, Numbered
      <4> QED
        BY <3>1, <3>3, <4>5
    <3> QED
      BY <1>1, <1>4, <3>2, <3>3
  <2> QED
    BY <1>1, <1>2, <2>4, <2>5, <2>6 DEF KeepInv
<1> QED
  BY <1>1, <1>3, <1>4

\* ... or a session is killed.
LEMMA KeepCrash ==
  ASSUME StableScans, ScanInv, KeepInv, NEW s \in Sessions, Crash(s)
  PROVE  KeepInv'
<1>1. \A t \in Sessions \ {s} : pc[t] = "idle"
  BY Alone DEF StableScans, ScanInv, Crash
<1>2. \A t \in Sessions : pc'[t] = "idle"
  BY <1>1 DEF Crash, ScanInv, TypeOK
<1>3. Onward
  BY DEF Crash, Onward, ScanInv, TypeOK
<1> QED
  BY <1>2, <1>3, KeepStep DEF Crash, KeepInv

\* Every step keeps the invariant.
LEMMA NextKeepInv ==
  ASSUME StableScans, ScanInv, ScanInv', KeepInv, [Next]_vars
  PROVE  KeepInv'
<1>1. ASSUME NEW s \in Sessions, Select(s) PROVE KeepInv'
  <2>1. PICK kind \in {"select", "examine"} : Begin(s, kind, {})
    BY <1>1 DEF Select
  <2> QED
    BY <1>1, <2>1, KeepBegin DEF Select
<1>2. ASSUME NEW s \in Sessions, Noop(s) \/ Status(s) PROVE KeepInv'
  <2>1. PICK kind \in {"noop", "status"} : Begin(s, kind, {})
    BY <1>2 DEF Noop, Status
  <2> QED
    BY <1>2, <2>1, KeepBegin DEF Noop, Status
<1>3. ASSUME NEW s \in Sessions, Append(s) PROVE KeepInv'
  <2>1. PICK m \in In("none") :
           Begin(s, "append", {m}) /\ place' = [place EXCEPT ![m] = "tmp"]
    BY <1>3 DEF Append
  <2>2. {m} \in SUBSET Msgs
    BY <2>1 DEF In
  <2> QED
    BY <2>1, <2>2, KeepBegin
<1>4. ASSUME NEW s \in Sessions, Expunge(s) PROVE KeepInv'
  <2>1. PICK m \in Msgs : place[m] = "cur" /\ place' = [place EXCEPT ![m] = "gone"]
    BY <1>4 DEF Expunge, In
  <2> QED
    BY <1>4, <2>1, KeepPlace DEF Expunge, bounds
<1>5. ASSUME NEW s \in Sessions, ScanStep(s) PROVE KeepInv'
  BY <1>5, KeepMove, KeepReadCur, KeepReadNew, KeepRename, KeepSave DEF ScanStep
<1>6. ASSUME NEW m \in Msgs, Deliver(m) \/ PopGetNew(m) \/ PopDelete(m) PROVE KeepInv'
  <2>1. UNCHANGED <<db, pc, job, given, renames>>
    BY <1>6 DEF Deliver, PopGetNew, PopDelete, bounds
  <2> QED
    BY <1>6, <2>1, KeepPlace DEF Deliver, PopGetNew, PopDelete
<1>7. CASE UNCHANGED vars
  BY <1>7 DEF vars, bounds, KeepInv, KeepJob, MessageKeepsUid, Named, In
<1>8. ASSUME NEW s \in Sessions, Close(s) PROVE KeepInv'
  <2>1. UNCHANGED <<place, pc, job, db, given, renames>>
    BY <1>8 DEF Close, bounds
  <2> QED
    BY <2>1 DEF KeepInv, KeepJob, MessageKeepsUid, Named, In
<1> QED
  BY <1>1, <1>2, <1>3, <1>4, <1>5, <1>6, <1>7, <1>8, KeepCrash DEF Next, Command

\* Scans that hold the lock and see every file once keep KeepInv: what was given
\* is known to the scan, or its message is gone.
THEOREM KeepInvariance ==
  ASSUME StableScans
  PROVE  Spec => []KeepInv
<1>1. Init => KeepInv
  BY DEF Init, KeepInv, MessageKeepsUid
<1>2. KeepInv /\ ScanInv /\ ScanInv' /\ [Next]_vars => KeepInv'
  BY NextKeepInv
<1>3. Spec => []ScanInv
  BY ScanInvariance DEF StableScans
<1> QED
  BY <1>1, <1>2, <1>3, PTL DEF Spec

\* A message that a scan has given a UID keeps it for as long as the UIDVALIDITY
\* does not change, if no file is renamed while a scan reads cur
\* (imapscanclient.C:452-700).
THEOREM UidsAreKept ==
  ASSUME StableScans
  PROVE  Spec => []MessageKeepsUid
<1>1. KeepInv => MessageKeepsUid
  BY DEF KeepInv
<1> QED
  BY <1>1, KeepInvariance, PTL

-----------------------------------------------------------------------------
(* The next UID that STATUS tells                                           *)

\* The messages that wait are messages, and finitely many.
LEMMA WaitingFacts ==
  ASSUME OrderedScans, ScanInv, NEW T \in SUBSET Msgs
  PROVE  /\ IsFiniteSet(Waiting \cap T) /\ Cardinality(Waiting \cap T) \in Nat
         /\ Waiting \cap T \in SUBSET Msgs
<1>1. IsFiniteSet(Msgs) /\ Waiting \cap T \subseteq Msgs
  BY DEF OrderedScans, StableScans, LockedScans
<1> QED
  BY <1>1, FS_Subset, FS_CardinalityType

\* Counting messages as the files of them.
LEMMA CountFiles ==
  ASSUME OrderedScans, NEW W \in SUBSET Msgs, NEW F \in SUBSET (Msgs \X {1, 2}),
         \A m \in W : <<m, 1>> \in F
  PROVE  /\ Cardinality(W) \in Nat /\ Cardinality(F) \in Nat
         /\ Cardinality(W) <= Cardinality(F)
<1>1. IsFiniteSet(W) /\ IsFiniteSet(F)
  BY FreshFinite, FS_Subset DEF OrderedScans, StableScans, LockedScans
<1> DEFINE f == [m \in W |-> <<m, 1>>]
<1>2. f \in Injection(W, F)
  BY DEF Injection, IsInjective
<1> QED
  BY <1>1, <1>2, FS_Injection, FS_CardinalityType

\* The files that are to be numbered are as many as their messages.
LEMMA CountNumbering ==
  ASSUME OrderedScans, NEW j, j.fresh \in SUBSET (Msgs \X {1})
  PROVE  /\ Cardinality(j.fresh) \in Nat /\ IsFiniteSet(Numbering(j))
         /\ Cardinality(j.fresh) = Cardinality(Numbering(j))
         /\ \A m \in Numbering(j) : <<m, 1>> \in j.fresh /\ m \in Msgs
<1>1. /\ IsFiniteSet(j.fresh) /\ Numbering(j) \subseteq Msgs
      /\ j.fresh \in SUBSET (Msgs \X {1, 2})
  <2>1. j.fresh \in SUBSET (Msgs \X {1, 2})
    OBVIOUS
  <2> QED
    BY <2>1, FreshFinite DEF Numbering, OrderedScans, StableScans, LockedScans
<1>2. \A m \in Numbering(j) : <<m, 1>> \in j.fresh
  BY DEF Numbering
<1>3. IsFiniteSet(Numbering(j))
  BY <1>1, FS_Subset DEF OrderedScans, StableScans, LockedScans
<1>4. Cardinality(Numbering(j)) <= Cardinality(j.fresh)
  BY <1>1, <1>2, CountFiles
<1>5. Cardinality(j.fresh) <= Cardinality(Numbering(j))
  <2> DEFINE f == [x \in j.fresh |-> x[1]]
  <2>1. f \in [j.fresh -> Numbering(j)]
    BY DEF Numbering
  <2>2. \A x, y \in j.fresh : f[x] = f[y] => x = y
    OBVIOUS
  <2>3. f \in Injection(j.fresh, Numbering(j))
    BY <2>1, <2>2 DEF Injection, IsInjective
  <2> QED
    BY <1>1, <1>3, <2>3, FS_Injection
<1>6. Cardinality(Numbering(j)) \in Nat /\ Cardinality(j.fresh) \in Nat
  BY <1>1, <1>3, FS_CardinalityType
<1> QED
  BY <1>1, <1>2, <1>3, <1>4, <1>5, <1>6

\* Messages come in order, and scans move them; what is given may be expunged.
Forward ==
    /\ Onward
    /\ \A m \in Msgs :
          /\ place'[m] # "tmp"
          /\ place[m] = "cur" /\ place'[m] = "gone" => m \in Named
          /\ place[m] = "none" /\ place'[m] = "new" =>
                \A n \in Msgs : Order[n] < Order[m] => place[n] # "none"

\* Those that wait go on waiting, and only new ones join them.
LEMMA WaitingForward ==
  ASSUME OrderedScans, ScanInv, KeepInv, NextInv, Forward, given' = given
  PROVE  /\ Waiting \subseteq Waiting' /\ Named' = Named
         /\ Waiting \cap In("cur") \subseteq In("cur")'
         /\ In("none")' \subseteq In("none") /\ In("tmp")' = {}
         /\ \A T \in SUBSET Msgs : In("none") \cap T = {} => Waiting' \cap T = Waiting \cap T
         /\ \A m, n \in Msgs : Order[n] < Order[m] /\ place'[m] # "none" => place'[n] # "none"
<1>1. Named' = Named
  BY DEF Named
<1>2. \A m \in Msgs : place[m] # "tmp"
  BY DEF NextInv, In
<1>3. \A m \in Msgs :
        \/ place'[m] = place[m]
        \/ place[m] = "none" /\ place'[m] = "new"
        \/ place[m] = "new" /\ place'[m] = "cur"
        \/ place[m] = "cur" /\ place'[m] = "gone" /\ m \in Named
  BY <1>2 DEF Forward, Onward
<1>4. Waiting \subseteq Waiting' /\ Waiting \cap In("cur") \subseteq In("cur")'
  BY <1>1, <1>3 DEF Waiting, In
<1>5. In("none")' \subseteq In("none") /\ In("tmp")' = {}
  BY <1>2, <1>3 DEF In
<1>6. ASSUME NEW T \in SUBSET Msgs, In("none") \cap T = {}
      PROVE  Waiting' \cap T = Waiting \cap T
  <2>1. ASSUME NEW m \in Waiting' \cap T
        PROVE  m \in Waiting
    BY <1>1, <1>3, <1>6, <2>1 DEF Waiting, In
  <2> QED
    BY <1>4, <2>1
<1>7. ASSUME NEW m \in Msgs, NEW n \in Msgs, Order[n] < Order[m], place'[m] # "none"
      PROVE  place'[n] # "none"
  <2>1. place[m] # "none" \/ place'[m] = "new"
    BY <1>3, <1>7
  <2>2. place[n] # "none"
    BY <1>7, <2>1 DEF Forward, NextInv
  <2> QED
    BY <1>3, <2>2
<1> QED
  BY <1>1, <1>4, <1>5, <1>6, <1>7

\* A step that gives no UID and tells none keeps the invariant when what the
\* jobs do agrees with it.
LEMMA NextStep ==
  ASSUME OrderedScans, ScanInv, KeepInv, NextInv, Forward, given' = given,
         db' = db \/ db' = Nobody, now' \in Nat, now <= now', answered' = answered,
         \A s \in Sessions : view'[s] = view[s] \/ view'[s] = Nobody,
         \A s \in Sessions : pc'[s] # "idle" => NextJob(s)',
         \A s, t \in Sessions :
           /\ pc'[s] # "idle" /\ ~ job'[s].ro
           /\ answered[t] # Nobody /\ job'[s].uidv = answered[t].uidv
           => LeavesRoom(s, answered[t])'
  PROVE  NextInv'
<1>1. /\ Named' = Named /\ In("none")' \subseteq In("none") /\ In("tmp")' = {}
      /\ \A T \in SUBSET Msgs : In("none") \cap T = {} => Waiting' \cap T = Waiting \cap T
      /\ \A m, n \in Msgs : Order[n] < Order[m] /\ place'[m] # "none" => place'[n] # "none"
  BY WaitingForward
<1>2. \A s \in Sessions : view'[s] # Nobody /\ ~ view'[s].ro => Of(view'[s].uids) \subseteq Named'
  BY <1>1 DEF NextInv
<1>3. UidNextKept'
  BY DEF NextInv, UidNextKept
<1>4. ASSUME NEW t \in Sessions, NEW a, a = answered[t], a # Nobody
      PROVE  a \in Answered /\ AnswerInv(a)'
  <2>1. a \in Answered /\ AnswerInv(a) /\ a.there \in SUBSET Msgs /\ a.uidv \in Nat
    BY <1>4 DEF NextInv, Answered
  <2>2. Waiting' \cap a.there = Waiting \cap a.there
    BY <1>1, <2>1 DEF AnswerInv
  <2>3. now \in Nat
    BY ScanAssumption DEF ScanInv, TypeOK
  <2>4. a.uidv <= now'
    BY <2>1, <2>3 DEF AnswerInv
  <2>5. In("none")' \cap a.there = {}
    BY <1>1, <2>1 DEF AnswerInv
  <2>6. db' # Nobody /\ a.uidv = db'.uidv =>
          a.next <= db'.next + Cardinality(Waiting' \cap a.there)
    BY <2>1, <2>2 DEF AnswerInv
  <2>7. \A s \in Sessions :
          pc'[s] # "idle" /\ ~ job'[s].ro /\ job'[s].uidv = a.uidv => LeavesRoom(s, a)'
    BY <1>4
  <2> QED
    BY <2>1, <2>4, <2>5, <2>6, <2>7 DEF AnswerInv
<1>5. \A t \in Sessions :
        answered'[t] # Nobody => answered'[t] \in Answered /\ AnswerInv(answered[t])'
  BY <1>4
<1> QED
  BY <1>1, <1>2, <1>3, <1>5 DEF NextInv

\* What happens without the lock: mail is delivered, and expunged.
LEMMA NextPlace ==
  ASSUME OrderedScans, ScanInv, KeepInv, NextInv, NEW m \in Msgs, NEW where,
         \/ /\ place[m] = "none" /\ where = "new"
            /\ \A n \in Msgs : Order[n] < Order[m] => place[n] # "none"
         \/ place[m] = "cur" /\ where = "gone" /\ m \in Named,
         place' = [place EXCEPT ![m] = where],
         UNCHANGED <<db, now, pc, job, view, answered, given>>
  PROVE  NextInv'
<1>1. Forward
  BY DEF ScanInv, TypeOK, Forward, Onward, NextInv, In
<1>2. /\ Waiting \subseteq Waiting' /\ Named' = Named
      /\ In("none")' \subseteq In("none")
      /\ \A T \in SUBSET Msgs : In("none") \cap T = {} => Waiting' \cap T = Waiting \cap T
  BY <1>1, WaitingForward
<1>3. /\ Waiting' \cap In("cur")' = Waiting \cap In("cur") /\ In("new") \subseteq In("new")'
      /\ In("cur")' \subseteq In("cur")
  BY DEF ScanInv, TypeOK, Waiting, Named, In
<1>4. now \in Nat
  BY ScanAssumption DEF ScanInv, TypeOK
<1>5. ASSUME NEW s \in Sessions, pc[s] # "idle"
      PROVE  NextJob(s)'
  <2>1. NextJob(s)
    BY <1>5 DEF NextInv
  <2> QED
    BY <1>2, <1>3, <2>1 DEF NextJob
<1>6. ASSUME NEW s \in Sessions, NEW t \in Sessions, pc[s] # "idle", ~ job[s].ro,
             NEW a, a = answered[t], a # Nobody, job[s].uidv = a.uidv
      PROVE  LeavesRoom(s, a)'
  <2>1. a \in Answered /\ AnswerInv(a) /\ LeavesRoom(s, a)
    BY <1>6 DEF NextInv, AnswerInv
  <2>2. Waiting' \cap a.there = Waiting \cap a.there
    BY <1>2, <2>1 DEF AnswerInv, Answered
  <2> QED
    BY <2>1, <2>2 DEF LeavesRoom
<1>7. \A s, t \in Sessions :
        /\ pc'[s] # "idle" /\ ~ job'[s].ro
        /\ answered[t] # Nobody /\ job'[s].uidv = answered[t].uidv
        => LeavesRoom(s, answered[t])'
  BY <1>6
<1> QED
  BY <1>1, <1>4, <1>5, <1>7, NextStep

\* A scan begins, ...
LEMMA NextBegin ==
  ASSUME OrderedScans, ScanInv, ScanInv', KeepInv, NextInv, NEW s \in Sessions,
         NEW kind, Begin(s, kind, {}), place' = place, answered' = answered,
         view' = view \/ view' = [view EXCEPT ![s] = Nobody]
  PROVE  NextInv'
<1> DEFINE ro == ReadOnly(s, kind)
<1>1. /\ pc[s] = "idle" /\ lock = Nobody /\ db' = db /\ given' = given
      /\ DOMAIN job = Sessions /\ pc' = [pc EXCEPT ![s] = "open"]
  BY DEF Begin, OrderedScans, StableScans, LockedScans, ScanInv, TypeOK
<1>2. pc'[s] = "open" /\ \A t \in Sessions \ {s} : pc'[t] = "idle"
  BY <1>1, ScanAssumption DEF OrderedScans, StableScans, LockedScans, ScanInv, TypeOK
<1>3. now \in Nat /\ now' \in Nat /\ now <= now'
  <2>1. now \in Nat
    BY ScanAssumption DEF ScanInv, TypeOK
  <2>2. now' \in {now, now + 1}
    BY DEF Begin, Stamps
  <2> QED
    BY <2>1, <2>2
<1> DEFINE Starts(uidv, next, uids, made) ==
      /\ job' = [job EXCEPT ![s] = NewJob(kind, ro, {}, uidv, next, uids, made)]
      /\ \/ db # Nobody /\ uidv = db.uidv /\ uids = db.uids /\ next = db.next /\ ~ made
         \/ db = Nobody /\ uids = {} /\ uidv <= now' /\ (~ ro => uidv > now) /\ (ro => ~ made)
<1>4. PICK uidv, next, uids, made : Starts(uidv, next, uids, made)
  <2>1. ~ Fail("create")
    BY DEF Fail, OrderedScans, StableScans, LockedScans
  <2>2. CASE /\ db # Nobody
             /\ job' = [job EXCEPT ![s] =
                   NewJob(kind, ro, {}, db.uidv, db.next, db.uids, FALSE)]
    <3>1. Starts(db.uidv, db.next, db.uids, FALSE)
      BY <2>2
    <3> HIDE DEF Starts
    <3> QED
      BY <3>1
  <2>3. ASSUME db = Nobody, NEW t \in Stamps(ro), now' = t,
               job' = [job EXCEPT ![s] = NewJob(kind, ro, {}, t, 1, {}, ~ ro)]
        PROVE  \E uidv, next, uids, made : Starts(uidv, next, uids, made)
    <3>1. t <= now' /\ (~ ro => t > now)
      BY <1>3, <2>3 DEF Stamps, OrderedScans, StableScans, LockedScans
    <3>2. Starts(t, 1, {}, ~ ro)
      BY <2>3, <3>1
    <3> HIDE DEF Starts
    <3> QED
      BY <3>2
  <2>4. \/ /\ db # Nobody
           /\ job' = [job EXCEPT ![s] =
                 NewJob(kind, ro, {}, db.uidv, db.next, db.uids, FALSE)]
        \/ /\ db = Nobody
           /\ \E t \in Stamps(ro) :
                 now' = t /\ job' = [job EXCEPT ![s] = NewJob(kind, ro, {}, t, 1, {}, ~ ro)]
    BY <2>1 DEF Begin
  <2> HIDE DEF ro, Starts
  <2> QED
    BY <2>2, <2>3, <2>4
<1>5. /\ job'[s].known = uids /\ job'[s].uidv = uidv /\ job'[s].next = next
      /\ job'[s].ro = ro /\ job'[s].made = made
  BY <1>1, <1>4 DEF NewJob
<1>6. ro \in BOOLEAN /\ (db # Nobody => db.uidv \in Nat /\ db.uidv <= now)
  BY DEF ReadOnly, ScanInv, TypeOK, DbInv
<1> HIDE DEF ro
<1>7. uidv <= now' /\ (ro => ~ made)
  BY <1>3, <1>4, <1>6
<1>8. \A e \in uids : Given(uidv, e) \in given
  BY <1>4 DEF ScanInv, DbInv
<1>9. NextJob(s)'
  BY <1>1, <1>2, <1>4, <1>5, <1>7, <1>8 DEF NextJob, Given
<1>10. ASSUME NEW t \in Sessions, ~ ro, NEW a, a = answered[t], a # Nobody, uidv = a.uidv
       PROVE  LeavesRoom(s, a)'
  <2>1. a \in Answered /\ AnswerInv(a)
    BY <1>10 DEF NextInv
  <2>2. db # Nobody
    BY <1>3, <1>4, <1>10, <2>1 DEF AnswerInv, Answered
  <2>3. a.next <= next + Cardinality(Waiting \cap a.there) /\ ~ made
    BY <1>4, <1>10, <2>1, <2>2 DEF AnswerInv
  <2>4. Waiting' = Waiting
    BY <1>1 DEF Waiting, In, Named
  <2> QED
    BY <1>2, <1>5, <2>3, <2>4 DEF LeavesRoom
<1>11. Forward
  BY <1>1 DEF ScanInv, TypeOK, Forward, Onward, NextInv, In
<1>12. \A t \in Sessions : view'[t] = view[t] \/ view'[t] = Nobody
  BY DEF ScanInv, TypeOK
<1>13. \A r, t \in Sessions :
        /\ pc'[r] # "idle" /\ ~ job'[r].ro
        /\ answered[t] # Nobody /\ job'[r].uidv = answered[t].uidv
        => LeavesRoom(r, answered[t])'
  BY <1>2, <1>5, <1>10
<1>14. \A t \in Sessions : pc'[t] # "idle" => NextJob(t)'
  BY <1>2, <1>9
<1> QED
  BY <1>1, <1>3, <1>11, <1>12, <1>13, <1>14, NextStep

\* ... and its steps are the only ones of a scan.
LEMMA NextScan ==
  ASSUME OrderedScans, ScanInv, KeepInv, NextInv, Forward, NEW s \in Sessions,
         pc[s] # "idle", NEW step, pc' = [pc EXCEPT ![s] = step], given' = given,
         db' = db \/ db' = Nobody, now' = now, answered' = answered, view' = view,
         NextJob(s)', job'[s].ro = job[s].ro, job'[s].uidv = job[s].uidv,
         \A a \in Answered :
            ~ job[s].ro /\ AnswerInv(a) /\ LeavesRoom(s, a) => LeavesRoom(s, a)'
  PROVE  NextInv'
<1>1. \A t \in Sessions \ {s} : pc[t] = "idle"
  BY Alone DEF OrderedScans, StableScans, ScanInv
<1>2. \A t \in Sessions \ {s} : pc'[t] = "idle"
  BY <1>1 DEF ScanInv, TypeOK
<1>3. now' \in Nat /\ now <= now'
  BY ScanAssumption DEF ScanInv, TypeOK
<1>4. ASSUME NEW t \in Sessions, ~ job[s].ro, NEW a, a = answered[t], a # Nobody,
             job[s].uidv = a.uidv
      PROVE  LeavesRoom(s, a)'
  <2>1. a \in Answered /\ AnswerInv(a) /\ LeavesRoom(s, a)
    BY <1>4 DEF NextInv, AnswerInv
  <2> QED
    BY <1>4, <2>1
<1>5. \A r, t \in Sessions :
        /\ pc'[r] # "idle" /\ ~ job'[r].ro
        /\ answered[t] # Nobody /\ job'[r].uidv = answered[t].uidv
        => LeavesRoom(r, answered[t])'
  BY <1>2, <1>4
<1>6. \A t \in Sessions : pc'[t] # "idle" => NextJob(t)'
  BY <1>2
<1> QED
  BY <1>3, <1>5, <1>6, NextStep

\* Nothing is added, and the file is opened, ...
LEMMA NextOpen ==
  ASSUME OrderedScans, ScanInv, KeepInv, NextInv, NEW s \in Sessions, Move(s) \/ Open(s)
  PROVE  NextInv'
<1>1. Open(s)
  BY DEF Move, KeepInv, NextInv
<1>2. /\ pc[s] = "open" /\ pc' = [pc EXCEPT ![s] = "cur"] /\ pc'[s] = "cur"
      /\ job[s] \in Job /\ DOMAIN job = Sessions /\ (db' = db \/ db' = Nobody)
      /\ place' = place /\ given' = given /\ now' = now /\ view' = view
      /\ answered' = answered
  BY <1>1 DEF Open, ScanInv, TypeOK
<1> DEFINE j == [job[s] EXCEPT !.open = FALSE]
<1>3. /\ j.known = job[s].known /\ j.uidv = job[s].uidv /\ j.ro = job[s].ro
      /\ j.made = job[s].made /\ j.next = job[s].next
  BY <1>2 DEF Job
<1>4. job'[s] = job[s] \/ job'[s] = j
  <2>1. job' = job \/ job' = [job EXCEPT ![s].open = FALSE]
    BY <1>1 DEF Open
  <2>2. CASE job' = job
    BY <2>2
  <2>3. CASE job' = [job EXCEPT ![s].open = FALSE]
    <3>1. DOMAIN job = Sessions
      BY <1>2
    <3> QED
      BY <2>3, <3>1
  <2> QED
    BY <2>1, <2>2, <2>3
<1> HIDE DEF j
<1>5. NextJob(s)
  BY <1>2 DEF NextInv
<1>6. NextJob(s)'
  BY <1>2, <1>3, <1>4, <1>5 DEF NextJob
<1>7. Waiting' = Waiting
  BY <1>2 DEF Waiting, In, Named
<1>8. \A a \in Answered : LeavesRoom(s, a) => LeavesRoom(s, a)'
  BY <1>2, <1>3, <1>4, <1>7 DEF LeavesRoom
<1>9. Forward
  BY <1>2 DEF ScanInv, TypeOK, Forward, Onward, NextInv, In
<1> QED
  BY <1>2, <1>3, <1>4, <1>6, <1>8, <1>9, NextScan

\* ... cur is read, ...
LEMMA NextReadCur ==
  ASSUME OrderedScans, ScanInv, KeepInv, NextInv, NEW s \in Sessions, ReadCur(s)
  PROVE  NextInv'
<1>1. /\ pc[s] = "cur" /\ pc' = [pc EXCEPT ![s] = "new"] /\ pc'[s] = "new"
      /\ place' = place /\ db' = db /\ given' = given
      /\ job'[s].fresh = (In("cur") \ Of(job[s].known)) \X {1}
  BY ReadCurFacts DEF OrderedScans
<1>2. now' = now /\ view' = view /\ answered' = answered
  BY DEF ReadCur
<1>3. /\ job'[s].known = job[s].known /\ job'[s].uidv = job[s].uidv
      /\ job'[s].ro = job[s].ro /\ job'[s].made = job[s].made
      /\ job'[s].next = job[s].next /\ job'[s].kind = job[s].kind
  BY ReadCurFacts DEF OrderedScans
<1>4. Numbering(job'[s]) = In("cur") \ Of(job[s].known)
  BY <1>1, NumberingOf
<1>5. Waiting' = Waiting /\ Named' = Named /\ In("cur")' = In("cur")
  BY <1>1 DEF Waiting, In, Named
<1>6. NextJob(s) /\ (job[s].kind = "status" => job[s].ro)
  BY <1>1 DEF NextInv, KeepInv
<1>7. Of(job[s].known) \subseteq Named
  <2>1. \A e \in job[s].known : Given(job[s].uidv, e) \in given
    BY <1>6 DEF NextJob
  <2>2. \A v, e : Given(v, e).msg = e.msg
    BY DEF Given
  <2> QED
    BY <2>1, <2>2 DEF Of, Named
<1>8. Waiting \cap In("cur") \subseteq Numbering(job'[s])
  BY <1>4, <1>7 DEF Waiting
<1>9. ASSUME job[s].kind = "status", db # Nobody
      PROVE  job'[s].fresh \subseteq Msgs \X {1} /\ Numbering(job'[s]) \subseteq Waiting \cap In("cur")
  <2>1. Named \cap In("cur") \subseteq Of(job[s].known)
    BY <1>6, <1>9 DEF NextJob, KeepInv
  <2> QED
    BY <1>1, <1>4, <2>1 DEF Waiting, In
<1>10. NextJob(s)'
  BY <1>1, <1>2, <1>3, <1>5, <1>6, <1>8, <1>9 DEF NextJob
<1>11. \A a \in Answered : LeavesRoom(s, a) => LeavesRoom(s, a)'
  BY <1>1, <1>3, <1>5 DEF LeavesRoom
<1>12. Forward
  BY <1>1 DEF ScanInv, TypeOK, Forward, Onward, NextInv, In
<1> QED
  BY <1>1, <1>2, <1>3, <1>10, <1>11, <1>12, NextScan

\* ... new is read: STATUS counts all that wait, ...
LEMMA NextReadNew ==
  ASSUME OrderedScans, ScanInv, KeepInv, NextInv, NEW s \in Sessions, ReadNew(s)
  PROVE  NextInv'
<1>1. /\ pc[s] = "new" /\ place' = place /\ db' = db /\ given' = given
      /\ job'[s].kind = job[s].kind /\ job'[s].ro = job[s].ro
      /\ job'[s].uidv = job[s].uidv /\ job'[s].next = job[s].next
      /\ job'[s].known = job[s].known /\ job'[s].made = job[s].made
      /\ pc \in [Sessions -> {"idle", "move", "open", "cur", "new", "rename", "save"}]
      /\ place \in [Msgs -> {"none", "tmp", "new", "cur", "gone"}]
  BY ReadNewFacts DEF ScanInv, TypeOK
<1>2. now' = now /\ view' = view /\ answered' = answered
  BY DEF ReadNew
<1>3. /\ Waiting' = Waiting /\ Named' = Named /\ In("cur")' = In("cur")
      /\ In("new")' = In("new") /\ In("none")' = In("none")
  BY <1>1 DEF Waiting, In, Named
<1>4. NextJob(s) /\ Waiting \cap In("cur") \subseteq Numbering(job[s])
  BY <1>1 DEF NextInv, NextJob
<1>5. Forward
  BY <1>1 DEF Forward, Onward, NextInv, In
<1>6. CASE job[s].kind = "status"
  <2>1. /\ pc' = [pc EXCEPT ![s] = "save"] /\ pc'[s] = "save" /\ job[s].ro
        /\ job'[s].fresh = job[s].fresh /\ job'[s].batch = In("new")
        /\ job'[s].there = Msgs \ (In("none") \cup In("tmp"))
    BY <1>1, <1>6, ReadNewFacts DEF KeepInv
  <2>2. Numbering(job'[s]) = Numbering(job[s])
    BY <2>1 DEF Numbering
  <2>3. Named \cup In("cur") \subseteq job'[s].there /\ In("none") \cap job'[s].there = {}
    <3>1. \A m \in Named : m \in Msgs /\ place[m] \in {"cur", "gone"}
      BY KeepTypes DEF Named, KeepInv
    <3> QED
      BY <2>1, <3>1 DEF In
  <2>4. ASSUME NEW m \in job'[s].there, NEW n \in Msgs \ job'[s].there
        PROVE  Order[m] < Order[n]
    <3>1. m \in Msgs /\ place[m] # "none" /\ place[n] = "none"
      BY <1>1, <2>1, <2>4 DEF In, NextInv
    <3>2. ~ (Order[n] < Order[m]) /\ Order[m] # Order[n]
      BY <3>1, ScanAssumption DEF NextInv
    <3>3. Order[m] \in Nat /\ Order[n] \in Nat
      BY <3>1, ScanAssumption
    <3> QED
      BY <3>2, <3>3
  <2>5. job'[s].batch \subseteq In("new") \cap job'[s].there
    BY <2>1 DEF In
  <2>6. NextJob(s)'
    BY <1>1, <1>2, <1>3, <1>4, <1>6, <2>1, <2>2, <2>3, <2>4, <2>5 DEF NextJob
  <2> QED
    BY <1>1, <1>2, <1>5, <2>1, <2>6, NextScan
<1>7. CASE job[s].kind # "status"
  <2>1. /\ job'[s].batch \subseteq In("new")
        /\ pc' = [pc EXCEPT ![s] = IF job'[s].batch = {} THEN "save" ELSE "rename"]
        /\ job'[s].fresh = job[s].fresh \cup job'[s].batch \X {1}
        /\ job'[s].batch = In("new") \/ job'[s].more
        /\ job'[s].batch # {} \/ ~ job'[s].more
    BY <1>7, ReadNewFacts
  <2>2. pc'[s] = IF job'[s].batch = {} THEN "save" ELSE "rename"
    BY <1>1, <2>1
  <2>3. Numbering(job'[s]) = Numbering(job[s]) \cup job'[s].batch
    <3>1. {x[1] : x \in job'[s].batch \X {1}} = job'[s].batch
      <4>1. \A m \in job'[s].batch : <<m, 1>> \in job'[s].batch \X {1} /\ <<m, 1>>[1] = m
        OBVIOUS
      <4> QED
        BY <4>1
    <3> QED
      BY <2>1, <3>1 DEF Numbering
  <2>4. NextJob(s)'
    BY <1>1, <1>2, <1>3, <1>4, <1>7, <2>1, <2>2, <2>3 DEF NextJob
  <2>5. ASSUME pc'[s] = "save" \/ (pc'[s] = "rename" /\ ~ job'[s].more)
        PROVE  Waiting \subseteq Numbering(job'[s])
    <3>1. job'[s].batch = In("new")
      BY <2>1, <2>2, <2>5
    <3> QED
      BY <1>4, <2>3, <3>1 DEF Waiting
  <2>6. \A a \in Answered : LeavesRoom(s, a) => LeavesRoom(s, a)'
    BY <1>1, <1>3, <2>5 DEF LeavesRoom
  <2> QED
    BY <1>1, <1>2, <1>5, <2>1, <2>4, <2>6, NextScan
<1> QED
  BY <1>6, <1>7

\* ... other scans move it to cur, file by file, ...
LEMMA NextRename ==
  ASSUME OrderedScans, ScanInv, KeepInv, NextInv, NEW s \in Sessions, Rename(s)
  PROVE  NextInv'
<1>1. PICK m \in job[s].batch :
        /\ m \in Msgs /\ pc[s] = "rename" /\ db' = db /\ given' = given
        /\ place' = [place EXCEPT ![m] = IF @ = "new" THEN "cur" ELSE @]
        /\ job'[s].kind = job[s].kind /\ job'[s].ro = job[s].ro
        /\ job'[s].uidv = job[s].uidv /\ job'[s].next = job[s].next
        /\ job'[s].known = job[s].known /\ job'[s].made = job[s].made
        /\ job'[s].fresh = job[s].fresh
        /\ job'[s].batch = job[s].batch \ {m}
        /\ job'[s].more <=> job[s].more /\ place[m] = "new"
        /\ pc' = [pc EXCEPT ![s] = IF job[s].batch # {m} THEN "rename"
                                   ELSE IF job'[s].more THEN "new" ELSE "save"]
  BY RenameFacts
<1>2. now' = now /\ view' = view /\ answered' = answered
  BY DEF Rename
<1>3. NextJob(s)
  BY <1>1 DEF NextInv
<1>4. /\ job[s].kind # "status" /\ job[s].batch \subseteq In("new") \cap Numbering(job[s])
      /\ Waiting \cap In("cur") \subseteq Numbering(job[s])
  BY <1>1, <1>3 DEF NextJob
<1>5. place[m] = "new" /\ m \in Numbering(job[s])
  BY <1>4 DEF In
<1>6. /\ place' = [place EXCEPT ![m] = "cur"] /\ (job'[s].more <=> job[s].more)
      /\ place \in [Msgs -> {"none", "tmp", "new", "cur", "gone"}]
  BY <1>1, <1>5 DEF ScanInv, TypeOK
<1>7. PICK step \in {"rename", "new", "save"} :
        /\ pc' = [pc EXCEPT ![s] = step] /\ pc'[s] = step
        /\ step = "save" => ~ job'[s].more
  BY <1>1 DEF ScanInv, TypeOK
<1>8. /\ Waiting' = Waiting /\ Named' = Named
      /\ In("new")' = In("new") \ {m} /\ In("cur")' = In("cur") \cup {m}
  BY <1>1, <1>5, <1>6 DEF Waiting, In, Named
<1>9. Numbering(job'[s]) = Numbering(job[s])
  BY <1>1 DEF Numbering
<1>10. NextJob(s)'
  BY <1>1, <1>2, <1>3, <1>4, <1>5, <1>7, <1>8, <1>9 DEF NextJob
<1>11. \A a \in Answered : LeavesRoom(s, a) => LeavesRoom(s, a)'
  BY <1>1, <1>6, <1>7, <1>8, <1>9 DEF LeavesRoom
<1>12. Forward
  BY <1>1, <1>5, <1>6 DEF Forward, Onward, NextInv, In
<1> QED
  BY <1>1, <1>2, <1>7, <1>10, <1>11, <1>12, NextScan

\* STATUS answers, ...
LEMMA NextAnswer ==
  ASSUME OrderedScans, ScanInv, KeepInv, NextInv, NEW s \in Sessions, Save(s), job[s].ro
  PROVE  NextInv'
<1> DEFINE j == job[s]
           r == [uidv |-> j.uidv, there |-> j.there,
                 next |-> NextUid(j) + Cardinality(j.batch)]
<1>1. /\ pc[s] = "save" /\ j \in Job /\ place' = place /\ now' = now /\ db' = db
      /\ given' = given /\ DOMAIN answered = Sessions /\ DOMAIN view = Sessions
      /\ \A t \in Sessions : pc'[t] = "idle"
  <2>1. \A t \in Sessions \ {s} : pc[t] = "idle"
    BY Alone DEF Save, OrderedScans, StableScans, ScanInv
  <2>2. pc' = [pc EXCEPT ![s] = "idle"]
    BY DEF Save
  <2> QED
    BY <2>1, <2>2 DEF Save, Answer, ScanInv, SavingScans, TypeOK, NextInv
<1>2. /\ In("tmp")' = In("tmp") /\ In("none")' = In("none") /\ Named' = Named
      /\ Waiting' = Waiting
  BY <1>1 DEF In, Named, Waiting
<1>3. NextJob(s)
  BY <1>1 DEF NextInv
<1>4. \A t \in Sessions : view'[t] # Nobody /\ ~ view'[t].ro => Of(view'[t].uids) \subseteq Named
  <2> DEFINE v == [uidv |-> j.uidv, uids |-> Uids(j), ro |-> j.ro]
  <2>1. view' = view \/ view' = [view EXCEPT ![s] = v]
    BY DEF Save, Answer
  <2>2. v.ro
    OBVIOUS
  <2> HIDE DEF v
  <2> QED
    BY <1>1, <2>1, <2>2 DEF NextInv
<1>5. answered' = answered \/ (j.kind = "status" /\ answered' = [answered EXCEPT ![s] = r])
  BY DEF Save, Answer
<1>6. \A g \in given : g.msg \in Named
  BY DEF Named
<1>7. ASSUME NEW a, a \in Answered, AnswerInv(a)
      PROVE  AnswerInv(a)'
  BY <1>1, <1>2, <1>7 DEF AnswerInv
<1>8. ASSUME j.kind = "status", NEW a, a = r
      PROVE  a \in Answered /\ AnswerInv(a)' /\ Named \subseteq a.there
  <2>1. /\ Named \cup In("cur") \subseteq j.there /\ In("none") \cap j.there = {}
        /\ \A m \in j.there, n \in Msgs \ j.there : Order[m] < Order[n]
        /\ j.batch \subseteq In("new") \cap j.there
        /\ j.uidv <= now /\ ~ j.made
    BY <1>1, <1>3, <1>8 DEF NextJob
  <2>2. /\ j.uidv \in Nat /\ j.next \in Nat /\ j.there \in SUBSET Msgs
        /\ j.fresh \in SUBSET (Msgs \X {1, 2})
        /\ IsFiniteSet(Msgs) /\ IsFiniteSet(j.fresh) /\ Cardinality(j.fresh) \in Nat
        /\ IsFiniteSet(j.batch) /\ Cardinality(j.batch) \in Nat
    <3>1. /\ j.uidv \in Nat /\ j.next \in Nat /\ j.there \in SUBSET Msgs
          /\ j.fresh \in SUBSET (Msgs \X {1, 2}) /\ j.batch \in SUBSET Msgs
          /\ IsFiniteSet(Msgs)
      BY <1>1 DEF Job, OrderedScans, StableScans, LockedScans
    <3>2. IsFiniteSet(j.fresh) /\ IsFiniteSet(j.batch)
      BY <3>1, FreshFinite, FS_Subset
    <3> QED
      BY <3>1, <3>2, FS_CardinalityType
  <2>3. /\ a.uidv = j.uidv /\ a.there = j.there
        /\ a.next = j.next + Cardinality(j.fresh) + Cardinality(j.batch)
    BY <1>8, <2>2 DEF NextUid
  <2>4. a \in Answered
    BY <1>8, <2>2 DEF Answered, NextUid
  <2>5. ASSUME db # Nobody, a.uidv = db.uidv
        PROVE  a.next <= db.next + Cardinality(Waiting \cap a.there)
    <3>1. /\ j.fresh \subseteq Msgs \X {1} /\ Numbering(j) \subseteq Waiting \cap In("cur")
          /\ db.next = j.next
      BY <1>1, <1>3, <1>8, <2>1, <2>5 DEF NextJob
    <3>2. IsFiniteSet(Numbering(j)) /\ Cardinality(Numbering(j)) = Cardinality(j.fresh)
      BY <3>1, CountNumbering
    <3>3. j.batch \subseteq Waiting
      BY <2>1 DEF Waiting, KeepInv, Named, In
    <3>4. j.batch \cap Numbering(j) = {}
      BY <2>1, <3>1 DEF In
    <3>5. /\ IsFiniteSet(Numbering(j) \cup j.batch)
          /\ Cardinality(Numbering(j) \cup j.batch) = Cardinality(j.fresh) + Cardinality(j.batch)
      <4>1. Cardinality(Numbering(j) \cap j.batch) = 0
        BY <3>4, FS_EmptySet
      <4>2. Cardinality(Numbering(j) \cup j.batch)
              = Cardinality(Numbering(j)) + Cardinality(j.batch) - Cardinality(Numbering(j) \cap j.batch)
        BY <2>2, <3>2, FS_Union
      <4> QED
        BY <2>2, <3>2, <4>1, <4>2, FS_Union
    <3>6. Numbering(j) \cup j.batch \subseteq Waiting \cap j.there
      BY <2>1, <3>1, <3>3
    <3>7. IsFiniteSet(Waiting \cap j.there) /\ Cardinality(Waiting \cap j.there) \in Nat
      BY <2>2, WaitingFacts
    <3>8. Cardinality(Numbering(j) \cup j.batch) <= Cardinality(Waiting \cap j.there)
      BY <3>6, <3>7, FS_Subset
    <3> HIDE DEF j
    <3> QED
      BY <2>2, <2>3, <3>1, <3>5, <3>7, <3>8
  <2>6. AnswerInv(a)'
    BY <1>1, <1>2, <2>1, <2>3, <2>5 DEF AnswerInv
  <2> QED
    BY <2>1, <2>3, <2>4, <2>6
<1> HIDE DEF r, j
<1>9. ASSUME NEW t \in Sessions, NEW a, a = answered'[t], a # Nobody
      PROVE  /\ a \in Answered /\ AnswerInv(a)'
             /\ \A g \in given : g.uidv = a.uidv /\ g.msg \notin a.there => g.uid >= a.next
  <2>1. CASE a = answered[t]
    <3>1. a \in Answered /\ AnswerInv(a)
      BY <1>9, <2>1 DEF NextInv
    <3> QED
      BY <1>7, <1>9, <2>1, <3>1 DEF NextInv, UidNextKept
  <2>2. CASE j.kind = "status" /\ a = r
    BY <1>6, <1>8, <2>2
  <2> QED
    BY <1>1, <1>5, <1>9, <2>1, <2>2
<1>10. UidNextKept'
  BY <1>1, <1>9 DEF UidNextKept
<1>11. DOMAIN answered' = Sessions
  BY <1>1, <1>5
<1>12. \A t \in Sessions :
         answered'[t] # Nobody => answered'[t] \in Answered /\ AnswerInv(answered[t])'
  BY <1>9
<1> QED
  BY <1>1, <1>2, <1>4, <1>10, <1>11, <1>12 DEF NextInv

\* ... and other scans number the messages that waited.
LEMMA NextNumber ==
  ASSUME OrderedScans, ScanInv, KeepInv, NextInv, NEW s \in Sessions, Save(s), ~ job[s].ro
  PROVE  NextInv'
<1> DEFINE j == job[s]
           saves == ~ j.ro /\ j.open /\ Dirty(j)
<1>1. /\ pc[s] = "save" /\ j \in Job /\ JobInv(j) /\ DbInv /\ KeepJob(s) /\ NextJob(s)
      /\ place' = place /\ now' = now /\ j.kind # "status" /\ answered' = answered
      /\ DOMAIN view = Sessions /\ IsFiniteSet(Msgs)
      /\ \A t \in Sessions : pc'[t] = "idle"
  <2>1. \A t \in Sessions \ {s} : pc[t] = "idle"
    BY Alone DEF Save, OrderedScans, StableScans, ScanInv
  <2>2. pc' = [pc EXCEPT ![s] = "idle"] /\ pc[s] = "save"
    BY DEF Save
  <2>3. j.kind # "status" /\ place' = place /\ now' = now
    BY <2>2 DEF Save, KeepInv
  <2>4. answered' = answered
    BY <2>3 DEF Save, Answer
  <2> QED
    BY <2>1, <2>2, <2>3, <2>4
    DEF ScanInv, TypeOK, NextInv, KeepInv, OrderedScans, StableScans, LockedScans
<1>2. /\ In("tmp")' = In("tmp") /\ In("none")' = In("none")
      /\ In("new")' = In("new") /\ In("cur")' = In("cur")
  BY <1>1 DEF In
<1>3. /\ \A g \in given' : g \in given \/ \E e \in Uids(j) : g = Given(j.uidv, e)
      /\ \A e \in Uids(j) : Given(j.uidv, e) \in given'
      /\ given \subseteq given'
  <2>1. given' = given \cup {Given(j.uidv, e) : e \in Uids(j)}
    BY <1>1 DEF Save, Answer, Given
  <2> QED
    BY <2>1
<1>4. \A v, e : Given(v, e).uidv = v /\ Given(v, e).uid = e.uid /\ Given(v, e).msg = e.msg
  BY DEF Given
<1>5. \A t \in Sessions : view'[t] # Nobody /\ ~ view'[t].ro => Of(view'[t].uids) \subseteq Named'
  <2> DEFINE v == [uidv |-> j.uidv, uids |-> Uids(j), ro |-> j.ro]
  <2>1. view' = view \/ view' = [view EXCEPT ![s] = v]
    BY DEF Save, Answer
  <2>2. Named \subseteq Named' /\ Of(Uids(j)) \subseteq Named'
    BY <1>3, <1>4 DEF Named, Of
  <2>3. v.uids = Uids(j)
    OBVIOUS
  <2> HIDE DEF v, j
  <2> QED
    BY <1>1, <2>1, <2>2, <2>3 DEF NextInv
<1>6. db' = [uidv |-> j.uidv, next |-> NextUid(j), uids |-> Uids(j)] \/ db' = Nobody \/
      (db' = db /\ (db # Nobody => given' = given))
  <2>1. CASE db # Nobody /\ ~ saves
    <3>1. j.open /\ ~ Dirty(j)
      BY <1>1, <2>1 DEF JobInv
    <3>2. \A e \in Uids(j) : Given(j.uidv, e) \in given
      BY <1>1, <3>1, CleanGivesNothing
    <3>3. given' = given
      BY <1>3, <3>2
    <3>4. db' = db
      BY <3>1 DEF Save
    <3> QED
      BY <3>3, <3>4
  <2> QED
    BY <2>1 DEF Save
<1>7. /\ j.next \in Nat /\ j.uidv \in Nat /\ j.fresh \in SUBSET (Msgs \X {1})
      /\ Cardinality(j.fresh) \in Nat /\ j.fresh \in SUBSET (Msgs \X {1, 2})
  <2>1. j.fresh \in SUBSET (Msgs \X {1})
    BY <1>1 DEF KeepJob
  <2>2. Cardinality(j.fresh) \in Nat
    BY <2>1, CountNumbering
  <2> QED
    BY <1>1, <2>1, <2>2 DEF Job
<1>8. ASSUME NEW t \in Sessions, NEW a, a = answered[t], a # Nobody
      PROVE  a \in Answered /\ AnswerInv(a)'
  <2>1. a \in Answered /\ AnswerInv(a) /\ a.there \in SUBSET Msgs /\ a.next \in Nat
    BY <1>8 DEF NextInv, Answered
  <2>2. /\ a.uidv <= now' /\ In("none")' \cap a.there = {}
        /\ \A m \in a.there, n \in Msgs \ a.there : Order[m] < Order[n]
    BY <1>1, <1>2, <2>1 DEF AnswerInv
  <2>3. ASSUME db' # Nobody, a.uidv = db'.uidv
        PROVE  a.next <= db'.next + Cardinality(Waiting' \cap a.there)
    <3>1. CASE db' = [uidv |-> j.uidv, next |-> NextUid(j), uids |-> Uids(j)]
      <4>1. db'.uidv = j.uidv /\ db'.next = j.next + Cardinality(j.fresh)
        BY <3>1 DEF NextUid
      <4>2. LeavesRoom(s, a)
        BY <1>1, <2>1, <2>3, <4>1 DEF AnswerInv
      <4> DEFINE W == Waiting \cap a.there
      <4>3. a.next <= j.next + Cardinality(W) /\ W \subseteq Numbering(j)
        BY <1>1, <4>2 DEF LeavesRoom
      <4>4. \A m \in Numbering(j) : <<m, 1>> \in j.fresh /\ m \in Msgs
        BY <1>7, CountNumbering
      <4>5. Cardinality(W) \in Nat /\ Cardinality(W) <= Cardinality(j.fresh)
        <5>1. W \in SUBSET Msgs /\ \A m \in W : <<m, 1>> \in j.fresh
          BY <4>3, <4>4
        <5> HIDE DEF W, j
        <5> QED
          BY <1>7, <5>1, CountFiles
      <4>6. Cardinality(Waiting' \cap a.there) \in Nat
        <5>1. IsFiniteSet(Waiting' \cap a.there)
          BY <1>1, <2>1, FS_Subset
        <5> QED
          BY <5>1, FS_CardinalityType
      <4> HIDE DEF W, j
      <4> QED
        BY <1>7, <2>1, <4>1, <4>3, <4>5, <4>6
    <3>2. CASE db' = db /\ given' = given
      <4>1. Waiting' = Waiting
        BY <1>2, <3>2 DEF Waiting, Named
      <4> QED
        BY <2>1, <2>3, <3>2, <4>1 DEF AnswerInv
    <3> QED
      BY <1>6, <2>3, <3>1, <3>2
  <2> QED
    BY <1>1, <2>1, <2>2, <2>3 DEF AnswerInv
<1>9. ASSUME NEW t \in Sessions, NEW a, a = answered[t], a # Nobody,
             NEW g \in given', g.uidv = a.uidv, g.msg \notin a.there
      PROVE  g.uid >= a.next
  <2>1. a \in Answered /\ AnswerInv(a) /\ a.there \in SUBSET Msgs /\ a.next \in Nat
    BY <1>9 DEF NextInv, Answered
  <2>2. CASE g \in given
    BY <1>9, <2>2 DEF NextInv, UidNextKept
  <2>3. CASE g \notin given
    <3>1. PICK e \in Uids(j) : g = Given(j.uidv, e)
      BY <1>3, <2>3
    <3>2. e \in Numbered(j)
      BY <1>1, <2>3, <3>1 DEF Uids, JobInv, NextJob
    <3>3. PICK x \in j.fresh : e = [msg |-> x[1], uid |-> j.next + Cardinality(Below(j.fresh, x))]
      BY <3>2 DEF Numbered, Below
    <3>4. g.uidv = j.uidv /\ g.msg = x[1] /\ g.uid = j.next + Cardinality(Below(j.fresh, x))
      BY <1>4, <3>1, <3>3
    <3>5. x[1] \in Msgs /\ Below(j.fresh, x) \in SUBSET (Msgs \X {1, 2})
      BY <1>7 DEF Below
    <3>6. LeavesRoom(s, a)
      BY <1>1, <1>9, <2>1, <3>4 DEF AnswerInv
    <3> DEFINE W == Waiting \cap a.there
    <3>7. a.next <= j.next + Cardinality(W) /\ W \subseteq Numbering(j)
      BY <1>1, <3>6 DEF LeavesRoom
    <3>8. \A m \in W : <<m, 1>> \in Below(j.fresh, x)
      <4>1. \A m \in W : <<m, 1>> \in j.fresh /\ m \in a.there
        BY <1>7, <3>7, CountNumbering
      <4>2. \A m \in a.there : Order[m] < Order[x[1]]
        BY <1>9, <2>1, <3>4, <3>5 DEF AnswerInv
      <4> QED
        BY <4>1, <4>2 DEF Below, Before
    <3>9. /\ Cardinality(W) \in Nat /\ Cardinality(Below(j.fresh, x)) \in Nat
          /\ Cardinality(W) <= Cardinality(Below(j.fresh, x))
      <4>1. W \in SUBSET Msgs
        BY <2>1
      <4> HIDE DEF W, j
      <4> QED
        BY <3>5, <3>8, <4>1, CountFiles
    <3> HIDE DEF W, j
    <3> QED
      BY <1>7, <2>1, <3>4, <3>7, <3>9
  <2> QED
    BY <2>2, <2>3
<1> HIDE DEF j
<1>10. UidNextKept'
  BY <1>1, <1>9 DEF UidNextKept
<1>11. \A t \in Sessions :
         answered'[t] # Nobody => answered'[t] \in Answered /\ AnswerInv(answered[t])'
  BY <1>1, <1>8
<1> QED
  BY <1>1, <1>2, <1>5, <1>10, <1>11 DEF NextInv

\* ... or a session is killed.
LEMMA NextCrash ==
  ASSUME OrderedScans, ScanInv, KeepInv, NextInv, NEW s \in Sessions, Crash(s)
  PROVE  NextInv'
<1>1. \A t \in Sessions \ {s} : pc[t] = "idle"
  BY Alone DEF OrderedScans, StableScans, ScanInv, Crash
<1>2. \A t \in Sessions : pc'[t] = "idle"
  BY <1>1 DEF Crash, ScanInv, TypeOK
<1>3. Forward
  BY DEF Crash, Forward, Onward, ScanInv, TypeOK, NextInv, In
<1>4. now \in Nat
  BY ScanAssumption DEF ScanInv, TypeOK
<1>5. \A t \in Sessions : view'[t] = view[t] \/ view'[t] = Nobody
  BY DEF Crash, ScanInv, TypeOK
<1> QED
  BY <1>2, <1>3, <1>4, <1>5, NextStep DEF Crash

\* Every step keeps the invariant.
LEMMA NextNextInv ==
  ASSUME OrderedScans, ScanInv, ScanInv', KeepInv, NextInv, [Next]_vars
  PROVE  NextInv'
<1>1. ASSUME NEW s \in Sessions, Select(s) PROVE NextInv'
  <2>1. PICK kind \in {"select", "examine"} : Begin(s, kind, {})
    BY <1>1 DEF Select
  <2> QED
    BY <1>1, <2>1, NextBegin DEF Select
<1>2. ASSUME NEW s \in Sessions, Noop(s) \/ Status(s) PROVE NextInv'
  <2>1. PICK kind \in {"noop", "status"} : Begin(s, kind, {})
    BY <1>2 DEF Noop, Status
  <2> QED
    BY <1>2, <2>1, NextBegin DEF Noop, Status
<1>3. ASSUME NEW s \in Sessions, Append(s) PROVE NextInv'
  BY <1>3 DEF Append, Begin, OrderedScans
<1>4. ASSUME NEW s \in Sessions, Expunge(s) PROVE NextInv'
  <2>1. PICK m \in Of(view[s].uids) \cap In("cur") : place' = [place EXCEPT ![m] = "gone"]
    BY <1>4 DEF Expunge
  <2>2. m \in Msgs /\ place[m] = "cur" /\ m \in Named
    BY <1>4, <2>1 DEF Expunge, NextInv, In
  <2> QED
    BY <1>4, <2>1, <2>2, NextPlace DEF Expunge
<1>5. ASSUME NEW s \in Sessions, ScanStep(s) PROVE NextInv'
  <2>1. Save(s) => NextInv'
    BY NextAnswer, NextNumber
  <2> QED
    BY <1>5, <2>1, NextOpen, NextReadCur, NextReadNew, NextRename DEF ScanStep
<1>6. ASSUME NEW m \in Msgs, Deliver(m) PROVE NextInv'
  <2>1. /\ place[m] = "none" /\ \A n \in Msgs : Order[n] < Order[m] => place[n] # "none"
        /\ place' = [place EXCEPT ![m] = "new"]
        /\ UNCHANGED <<db, now, pc, job, view, answered, given>>
    BY <1>6 DEF Deliver, OrderedScans
  <2> QED
    BY <2>1, NextPlace
<1>7. ASSUME NEW m \in Msgs, PopGetNew(m) \/ PopDelete(m) PROVE NextInv'
  BY <1>7 DEF PopGetNew, PopDelete, OrderedScans
<1>8. ASSUME \/ UNCHANGED vars
             \/ \E s \in Sessions : Close(s)
      PROVE  NextInv'
  <2>1. /\ UNCHANGED <<place, db, now, pc, job, answered, given>>
        /\ \A s \in Sessions : view'[s] = view[s] \/ view'[s] = Nobody
        /\ now \in Nat /\ place \in [Msgs -> {"none", "tmp", "new", "cur", "gone"}]
    BY <1>8, ScanAssumption DEF vars, Close, ScanInv, TypeOK
  <2>2. Forward
    BY <2>1 DEF Forward, Onward, NextInv, In
  <2>3. \A s \in Sessions : pc'[s] # "idle" => NextJob(s)'
    BY <2>1 DEF NextInv, NextJob, Waiting, Named, In
  <2>4. ASSUME NEW s \in Sessions, NEW t \in Sessions, pc'[s] # "idle", ~ job'[s].ro,
               NEW a, a = answered[t], a # Nobody, job'[s].uidv = a.uidv
        PROVE  LeavesRoom(s, a)'
    <3>1. LeavesRoom(s, a)
      BY <2>1, <2>4 DEF NextInv, AnswerInv
    <3> QED
      BY <2>1, <3>1 DEF LeavesRoom, Waiting, Named, In
  <2>5. \A s, t \in Sessions :
          /\ pc'[s] # "idle" /\ ~ job'[s].ro
          /\ answered[t] # Nobody /\ job'[s].uidv = answered[t].uidv
          => LeavesRoom(s, answered[t])'
    BY <2>1, <2>4
  <2> QED
    BY <2>1, <2>2, <2>3, <2>5, NextStep
<1> QED
  BY <1>1, <1>2, <1>3, <1>4, <1>5, <1>6, <1>7, <1>8, NextCrash DEF Next, Command

\* A message that arrives after STATUS has told the next UID gets that one or a
\* larger one, if mail arrives in the order of its file names and nothing but
\* scans moves or adds messages (imapd.C:3884-3890).
THEOREM UidNextIsKept ==
  ASSUME OrderedScans
  PROVE  Spec => []UidNextKept
<1>1. Init => NextInv
  BY ScanAssumption DEF Init, NextInv, UidNextKept, In
<1>2. NextInv /\ KeepInv /\ ScanInv /\ ScanInv' /\ [Next]_vars => NextInv'
  BY NextNextInv
<1>3. NextInv => UidNextKept
  BY DEF NextInv
<1>4. Spec => []ScanInv
  BY ScanInvariance DEF OrderedScans, StableScans
<1>5. Spec => []KeepInv
  BY KeepInvariance DEF OrderedScans
<1> QED
  BY <1>1, <1>2, <1>3, <1>4, <1>5, PTL DEF Spec

-----------------------------------------------------------------------------
(* What NOOP merges                                                         *)

\* A UID that is in the middle of a scan below one that was given is in the
\* database.
LEMMA BelowIsOld ==
  ASSUME MergingScans, ScanInv, NEW s \in Sessions, pc[s] # "idle", MergeJob(s),
         ~ job[s].ro, db # Nobody, NEW e \in Uids(job[s]),
         NEW uid, NEW msg, [uidv |-> db.uidv, uid |-> uid, msg |-> msg] \in given, e.uid < uid
  PROVE  e \in db.uids
<1> DEFINE j == job[s]
<1>1. /\ j \in Job /\ JobInv(j) /\ IsFiniteSet(Msgs) /\ db.next \in Nat /\ uid \in Nat
      /\ DbInv
  BY DEF ScanInv, TypeOK, MergingScans, LockedScans
<1>2. uid < db.next
  <2> DEFINE g == [uidv |-> db.uidv, uid |-> uid, msg |-> msg]
  <2>1. g \in given /\ g.uidv = db.uidv /\ g.uid = uid
    OBVIOUS
  <2> HIDE DEF g
  <2> QED
    BY <1>1, <2>1 DEF DbInv, GivenBelow
<1>3. db.next <= j.next /\ \A d \in j.known : d \in db.uids \/ db.next <= d.uid
  BY DEF MergeJob
<1>4. \A d \in Numbered(j) : d.uid \in Nat /\ j.next <= d.uid
  BY <1>1, NumberedRange DEF Entry
<1>5. j.next \in Nat /\ \A d \in j.known : d.uid \in Nat
  BY <1>1 DEF Job, Entry
<1>6. e \in j.known \/ e \in Numbered(j)
  BY <1>1 DEF Uids, JobInv
<1> HIDE DEF j
<1>7. CASE e \in Numbered(j)
  BY <1>1, <1>2, <1>3, <1>4, <1>5, <1>7
<1>8. CASE e \in j.known
  BY <1>1, <1>2, <1>3, <1>5, <1>8
<1> QED
  BY <1>6, <1>7, <1>8

\* Nothing but a scan's job changes in the middle of it.
LEMMA MergeStep ==
  ASSUME MergingScans, ScanInv, MergeInv, NEW s \in Sessions, pc[s] # "idle",
         NEW step, pc' = [pc EXCEPT ![s] = step], UNCHANGED <<db, view, given>>,
         MergeJob(s)'
  PROVE  MergeInv'
<1>1. \A t \in Sessions \ {s} : pc[t] = "idle"
  BY Alone DEF MergingScans, ScanInv
<1>2. \A t \in Sessions \ {s} : pc'[t] = "idle"
  BY <1>1 DEF ScanInv, TypeOK
<1>3. \A v : MergeView(v) => MergeView(v)'
  BY DEF MergeView
<1> QED
  BY <1>2, <1>3 DEF MergeInv

LEMMA MergeScan ==
  ASSUME MergingScans, ScanInv, MergeInv, NEW s \in Sessions,
         Move(s) \/ Open(s) \/ ReadCur(s) \/ ReadNew(s) \/ Rename(s)
  PROVE  MergeInv'
<1>1. /\ pc[s] # "idle" /\ job[s] \in Job /\ DOMAIN job = Sessions /\ MergeJob(s)
      /\ \E step : pc' = [pc EXCEPT ![s] = step]
      /\ UNCHANGED <<view, given>>
  <2>1. pc[s] # "idle" /\ UNCHANGED <<view, given>> /\ \E step : pc' = [pc EXCEPT ![s] = step]
    BY DEF Move, Open, ReadCur, ReadNew, Rename
  <2> QED
    BY <2>1 DEF ScanInv, TypeOK, MergeInv
<1>2. db' = db
  BY DEF Move, Open, ReadCur, ReadNew, Rename, Fail, MergingScans
<1>3. CASE Move(s)
  <2>1. PICK m \in job[s].add :
          job' = [job EXCEPT ![s].known = @ \cup {[msg |-> m, uid |-> job[s].next]},
                             ![s].next = @ + 1]
    BY <1>3 DEF Move
  <2> DEFINE e == [msg |-> m, uid |-> job[s].next]
  <2>2. /\ job'[s].known = job[s].known \cup {e} /\ job'[s].next = job[s].next + 1
        /\ e.uid = job[s].next
        /\ job'[s].kind = job[s].kind /\ job'[s].ro = job[s].ro /\ job'[s].add = job[s].add
        /\ job'[s].open = job[s].open /\ job'[s].made = job[s].made
        /\ job'[s].uidv = job[s].uidv /\ job[s].next \in Nat
    BY <1>1, <2>1 DEF Job
  <2> HIDE DEF e
  <2>3. db # Nobody => db.next \in Nat
    BY DEF ScanInv, TypeOK
  <2>4. MergeJob(s)'
    BY <1>1, <1>2, <2>2, <2>3 DEF MergeJob
  <2> QED
    BY <1>1, <1>2, <2>4, MergeStep
<1>4. CASE Open(s)
  <2>1. job' = job
    BY <1>4 DEF Open, Fail, MergingScans
  <2>2. MergeJob(s)'
    BY <1>1, <1>2, <2>1 DEF MergeJob
  <2> QED
    BY <1>1, <1>2, <2>2, MergeStep
<1>5. CASE ReadCur(s) \/ ReadNew(s) \/ Rename(s)
  <2>1. MergeJob(s)'
    BY <1>1, <1>2, <1>5, ReadFacts DEF MergeJob
  <2> QED
    BY <1>1, <1>2, <2>1, MergeStep
<1> QED
  BY <1>3, <1>4, <1>5

\* A scan begins with what the database has.
LEMMA MergeBegin ==
  ASSUME MergingScans, ScanInv, MergeInv, NEW s \in Sessions, NEW kind,
         NEW add \in SUBSET Msgs, Begin(s, kind, add),
         kind = "noop" => view[s] # Nobody /\ view' = view,
         add # {} => kind = "append",
         view' = view \/ view' = [view EXCEPT ![s] = Nobody]
  PROVE  MergeInv'
<1> DEFINE ro == ReadOnly(s, kind)
<1>1. /\ pc[s] = "idle" /\ lock = Nobody /\ db' = db /\ given' = given /\ kind \in Kinds
      /\ DOMAIN job = Sessions
      /\ pc' = [pc EXCEPT ![s] = IF add = {} THEN "open" ELSE "move"]
  BY DEF Begin, MergingScans, LockedScans, ScanInv, TypeOK
<1>2. pc'[s] # "idle" /\ \A t \in Sessions \ {s} : pc'[t] = "idle"
  BY <1>1, ScanAssumption DEF MergingScans, LockedScans, ScanInv, TypeOK
<1>3. ro <=> kind = "status"
  BY <1>1 DEF ReadOnly, MergingScans, LockedScans, MergeInv, MergeView
<1> DEFINE Starts(uidv, next, uids, made) ==
      /\ job' = [job EXCEPT ![s] = NewJob(kind, ro, add, uidv, next, uids, made)]
      /\ \/ db # Nobody /\ uidv = db.uidv /\ uids = db.uids /\ next = db.next /\ ~ made
         \/ db = Nobody /\ (made \/ ro)
<1>4. PICK uidv, next, uids, made : Starts(uidv, next, uids, made)
  <2>1. ~ Fail("create")
    BY DEF Fail, MergingScans
  <2>2. CASE /\ db # Nobody
             /\ job' = [job EXCEPT ![s] =
                   NewJob(kind, ro, add, db.uidv, db.next, db.uids, FALSE)]
    <3>1. Starts(db.uidv, db.next, db.uids, FALSE)
      BY <2>2
    <3> HIDE DEF Starts
    <3> QED
      BY <3>1
  <2>3. ASSUME db = Nobody, NEW t \in Stamps(ro),
               job' = [job EXCEPT ![s] = NewJob(kind, ro, add, t, 1, {}, ~ ro)]
        PROVE  \E uidv, next, uids, made : Starts(uidv, next, uids, made)
    <3>1. Starts(t, 1, {}, ~ ro)
      BY <2>3
    <3> HIDE DEF Starts
    <3> QED
      BY <3>1
  <2>4. \/ /\ db # Nobody
           /\ job' = [job EXCEPT ![s] =
                 NewJob(kind, ro, add, db.uidv, db.next, db.uids, FALSE)]
        \/ /\ db = Nobody
           /\ \E t \in Stamps(ro) :
                 job' = [job EXCEPT ![s] = NewJob(kind, ro, add, t, 1, {}, ~ ro)]
    BY <2>1 DEF Begin
  <2> HIDE DEF ro, Starts
  <2> QED
    BY <2>2, <2>3, <2>4
<1>5. /\ job'[s].known = uids /\ job'[s].uidv = uidv /\ job'[s].next = next
      /\ job'[s].ro = ro /\ job'[s].made = made /\ job'[s].kind = kind
      /\ job'[s].add = add /\ job'[s].open = TRUE
  BY <1>1, <1>4 DEF NewJob
<1> HIDE DEF ro
<1>6. db # Nobody => db.next \in Nat
  BY DEF ScanInv, TypeOK
<1>7. kind = "noop" => view'[s] # Nobody
  OBVIOUS
<1>8. MergeJob(s)'
  BY <1>1, <1>3, <1>4, <1>5, <1>6, <1>7 DEF MergeJob
<1>9. \A t \in Sessions : view'[t] = view[t] \/ view'[t] = Nobody
  BY DEF ScanInv, TypeOK
<1>10. \A v : MergeView(v) => MergeView(v)'
  BY <1>1 DEF MergeView
<1> QED
  BY <1>1, <1>2, <1>8, <1>9, <1>10 DEF MergeInv

\* A scan that ends keeps to the UIDs that clients know of.
LEMMA MergeSave ==
  ASSUME MergingScans, ScanInv, MergeInv, NEW s \in Sessions, Save(s),
         given' = given \/ Numbers!Give
  PROVE  MergeInv'
<1> DEFINE j == job[s]
<1>1. /\ pc[s] # "idle" /\ j \in Job /\ MergeJob(s) /\ TypeOK /\ DbInv
      /\ pc' = [pc EXCEPT ![s] = "idle"] /\ Answer(s, j)
      /\ \A t \in Sessions \ {s} : pc[t] = "idle"
  BY Alone DEF Save, ScanInv, TypeOK, MergeInv, MergingScans
<1>2. \A t \in Sessions : pc'[t] = "idle"
  BY <1>1 DEF TypeOK
<1>3. \A g, h \in given' : g.uidv = h.uidv /\ g.uid = h.uid => g.msg = h.msg
  <2>1. CASE given' = given
    BY <2>1 DEF MergeInv
  <2>2. CASE Numbers!Give
    <3> SUFFICES ASSUME NEW g \in given', NEW h \in given', g.uidv = h.uidv, g.uid = h.uid
                 PROVE  g.msg = h.msg
      OBVIOUS
    <3>1. /\ \A x \in given : x.uid \in Nat
          /\ \A x \in given' \ given : \A y \in given : y.uidv = x.uidv => y.uid < x.uid
          /\ \A x, y \in given' \ given : y.uidv = x.uidv /\ y.uid = x.uid => y = x
      BY <1>1, <2>2 DEF Numbers!Give, TypeOK
    <3>2. CASE g \in given /\ h \in given
      BY <3>2 DEF MergeInv
    <3>3. CASE g \notin given /\ h \notin given
      BY <3>1, <3>3
    <3>4. CASE g \in given /\ h \notin given
      BY <3>1, <3>4
    <3>5. CASE g \notin given /\ h \in given
      BY <3>1, <3>5
    <3> QED
      BY <3>2, <3>3, <3>4, <3>5
  <2> QED
    BY <2>1, <2>2
<1>4. CASE j.ro
  <2>1. j.kind = "status" /\ db' = db /\ given' = given /\ view' = view
    BY <1>1, <1>4 DEF Save, Answer, MergeJob
  <2>2. \A v : MergeView(v) => MergeView(v)'
    BY <2>1 DEF MergeView
  <2> QED
    BY <1>2, <1>3, <2>1, <2>2 DEF MergeInv
<1>5. CASE ~ j.ro
  <2>1. /\ given' = given \cup {[uidv |-> j.uidv, uid |-> e.uid, msg |-> e.msg] : e \in Uids(j)}
        /\ JobInv(j) /\ j.kind # "status" /\ j.open
    BY <1>1, <1>5 DEF Answer, ScanInv, MergeJob
  <2>2. \/ Dirty(j) /\ db' = [uidv |-> j.uidv, next |-> NextUid(j), uids |-> Uids(j)]
        \/ ~ Dirty(j) /\ db' = db
    BY <1>5, <2>1 DEF Save, Fail, MergingScans
  <2>3. db' # Nobody /\ db'.uidv = j.uidv /\ db'.uids = Uids(j)
    <3>1. CASE Dirty(j)
      <4>1. db' = [uidv |-> j.uidv, next |-> NextUid(j), uids |-> Uids(j)]
        BY <2>2, <3>1
      <4>2. db' \in [uidv : Nat, next : Nat, uids : SUBSET [msg : Msgs, uid : Nat]]
        <5> HIDE DEF j
        <5>1. /\ Numbered(j) \subseteq Entry /\ j.found \subseteq Entry
              /\ NextUid(j) \in Nat /\ j.uidv \in Nat
          BY <1>1, NumberedRange DEF Job, MergingScans, LockedScans
        <5>2. Uids(j) \in SUBSET [msg : Msgs, uid : Nat]
          BY <5>1 DEF Uids, Entry
        <5> QED
          BY <4>1, <5>1, <5>2
      <4> QED
        BY <4>1, <4>2, ScanAssumption
    <3>2. CASE ~ Dirty(j)
      <4>1. j.fresh = {} /\ j.found = j.known /\ j.add = {} /\ ~ j.made
        BY <3>2 DEF Dirty
      <4>2. db # Nobody /\ db.uidv = j.uidv /\ db.uids = j.known
        BY <2>1, <4>1 DEF JobInv
      <4>3. Numbered(j) = {}
        BY <4>1 DEF Numbered
      <4> QED
        BY <2>2, <3>2, <4>1, <4>2, <4>3 DEF Uids
    <3> QED
      BY <3>1, <3>2
  <2>4. ASSUME NEW v, MergeView(v)
        PROVE  MergeView(v)'
    <3>1. /\ ~ v.ro /\ db # Nobody /\ db.uidv = j.uidv
          /\ \A d \in v.uids : Given(db.uidv, d) \in given
      BY <1>1, <2>4 DEF MergeView, MergeJob
    <3>2. ASSUME NEW d \in v.uids, NEW e \in Uids(j), e.uid < d.uid
          PROVE  e \in v.uids
      <4>1. [uidv |-> db.uidv, uid |-> d.uid, msg |-> d.msg] \in given
        BY <3>1 DEF Given
      <4>2. e \in db.uids
        BY <1>1, <1>5, <3>1, <3>2, <4>1, BelowIsOld
      <4> QED
        BY <2>4, <3>2, <4>2 DEF MergeView
    <3> QED
      BY <2>1, <2>3, <3>1, <3>2 DEF MergeView, Given
  <2>5. \A t \in Sessions :
          \/ view'[t] = view[t]
          \/ view'[t] = [uidv |-> j.uidv, uids |-> Uids(j), ro |-> j.ro]
    BY <1>1 DEF Answer, TypeOK
  <2>6. ASSUME NEW v, v = [uidv |-> j.uidv, uids |-> Uids(j), ro |-> j.ro]
        PROVE  MergeView(v)'
    <3>1. v.uids = Uids(j) /\ ~ v.ro
      BY <1>5, <2>6
    <3>2. \A d \in Uids(j) : Given(j.uidv, d) \in given'
      BY <2>1 DEF Given
    <3> QED
      BY <2>3, <3>1, <3>2 DEF MergeView, Given
  <2>7. ASSUME NEW t \in Sessions, view'[t] # Nobody
        PROVE  MergeView(view[t])'
    <3>1. PICK v : v = view'[t]
      OBVIOUS
    <3>2. MergeView(v)'
      <4>1. CASE view'[t] = view[t]
        <5>1. MergeView(v)
          BY <2>7, <3>1, <4>1 DEF MergeInv
        <5> QED
          BY <2>4, <5>1
      <4>2. CASE v = [uidv |-> j.uidv, uids |-> Uids(j), ro |-> j.ro]
        BY <2>6, <4>2
      <4> QED
        BY <2>5, <3>1, <4>1, <4>2
    <3> QED
      BY <3>1, <3>2 DEF MergeView
  <2> QED
    BY <1>2, <1>3, <2>7 DEF MergeInv
<1> QED
  BY <1>4, <1>5

\* Every step keeps the invariant.
LEMMA NextMergeInv ==
  ASSUME MergingScans, ScanInv, MergeInv, [Next]_vars
  PROVE  MergeInv'
<1>1. given' = given \/ Numbers!Give
  BY NextScanInv DEF MergingScans
<1>2. \A v : MergeView(v) /\ UNCHANGED <<db, given>> => MergeView(v)'
  BY DEF MergeView
<1>3. ASSUME NEW s \in Sessions, Select(s) PROVE MergeInv'
  <2>1. PICK kind \in {"select", "examine"} : Begin(s, kind, {})
    BY <1>3 DEF Select
  <2>2. view' = [view EXCEPT ![s] = Nobody]
    BY <1>3 DEF Select
  <2> QED
    BY <2>1, <2>2, MergeBegin
<1>4. ASSUME NEW s \in Sessions, Noop(s) PROVE MergeInv'
  <2>1. view[s] # Nobody /\ Begin(s, "noop", {}) /\ view' = view
    BY <1>4 DEF Noop
  <2> QED
    BY <2>1, MergeBegin
<1>5. ASSUME NEW s \in Sessions, Append(s) PROVE MergeInv'
  <2>1. PICK m \in In("none") : Begin(s, "append", {m})
    BY <1>5 DEF Append
  <2>2. view' = view /\ {m} \in SUBSET Msgs
    BY <1>5 DEF Append, In
  <2> QED
    BY <2>1, <2>2, MergeBegin
<1>6. ASSUME NEW s \in Sessions, Status(s) PROVE MergeInv'
  <2>1. Begin(s, "status", {}) /\ view' = view
    BY <1>6 DEF Status
  <2> QED
    BY <2>1, MergeBegin
<1>7. ASSUME NEW s \in Sessions, ScanStep(s) PROVE MergeInv'
  BY <1>1, <1>7, MergeScan, MergeSave DEF ScanStep
<1>8. ASSUME NEW s \in Sessions, Crash(s) PROVE MergeInv'
  <2>1. /\ \A t \in Sessions \ {s} : pc[t] = "idle"
        /\ DOMAIN pc = Sessions /\ DOMAIN view = Sessions
    BY <1>8, Alone DEF Crash, ScanInv, TypeOK, MergingScans
  <2>2. /\ \A t \in Sessions : pc'[t] = "idle"
        /\ \A t \in Sessions : view'[t] = view[t] \/ view'[t] = Nobody
        /\ UNCHANGED <<db, given>>
    BY <1>8, <2>1 DEF Crash
  <2> QED
    BY <1>2, <2>2 DEF MergeInv
<1>9. ASSUME UNCHANGED <<db, view, given, pc, job>> PROVE MergeInv'
  <2>1. \A s \in Sessions : MergeJob(s) => MergeJob(s)'
    BY <1>9 DEF MergeJob
  <2> QED
    BY <1>2, <1>9, <2>1 DEF MergeInv
<1>10. CASE UNCHANGED vars
  BY <1>9, <1>10 DEF vars
<1>11. ASSUME NEW s \in Sessions, Expunge(s) PROVE MergeInv'
  BY <1>9, <1>11 DEF Expunge
<1>12. ASSUME NEW m \in Msgs, Deliver(m) \/ PopGetNew(m) \/ PopDelete(m) PROVE MergeInv'
  BY <1>9, <1>12 DEF Deliver, PopGetNew, PopDelete
<1>13. ASSUME NEW s \in Sessions, Close(s) PROVE MergeInv'
  <2>1. /\ \A t \in Sessions : view'[t] = view[t] \/ view'[t] = Nobody
        /\ UNCHANGED <<db, given, pc, job>>
    BY <1>13 DEF Close, ScanInv, TypeOK
  <2>2. \A t \in Sessions : pc[t] # "idle" => job[t].kind # "noop" \/ view'[t] # Nobody
    BY <1>13 DEF Close, MergeInv, MergeJob, ScanInv, TypeOK
  <2>3. \A t \in Sessions : pc[t] # "idle" => MergeJob(t)'
    BY <2>1, <2>2 DEF MergeInv, MergeJob
  <2> QED
    BY <1>2, <2>1, <2>3 DEF MergeInv
<1> QED
  BY <1>3, <1>4, <1>5, <1>6, <1>7, <1>8, <1>10, <1>11, <1>12, <1>13 DEF Next, Command

\* What NOOP finds goes into what the client knows by the UIDs.
LEMMA SaveMerges ==
  ASSUME MergingScans, ScanInv, MergeInv, MergeInv', NEW s \in Sessions,
         pc[s] = "save", job[s].kind = "noop", Save(s),
         NEW d \in view[s].uids, NEW e \in view'[s].uids
  PROVE  /\ d.uid = e.uid => d.msg = e.msg
         /\ e.uid < d.uid => e \in view[s].uids
<1>1. /\ MergeJob(s) /\ ~ job[s].ro /\ view[s] # Nobody /\ DOMAIN view = Sessions
      /\ Answer(s, job[s])
  BY DEF MergeInv, MergeJob, Save, ScanInv, TypeOK
<1>2. MergeView(view[s]) /\ db # Nobody /\ job[s].uidv = db.uidv
  BY <1>1 DEF MergeInv, MergeView, MergeJob
<1>3. /\ e \in Uids(job[s])
      /\ given' = given \cup {Given(job[s].uidv, x) : x \in Uids(job[s])}
  BY <1>1 DEF Answer, Given
<1>4. Given(db.uidv, d) \in given
  BY <1>2 DEF MergeView
<1>5. ASSUME d.uid = e.uid PROVE d.msg = e.msg
  <2>1. Given(db.uidv, d) \in given' /\ Given(db.uidv, e) \in given'
    BY <1>2, <1>3, <1>4
  <2>2. \A x : /\ Given(db.uidv, x).uidv = db.uidv /\ Given(db.uidv, x).uid = x.uid
               /\ Given(db.uidv, x).msg = x.msg
    BY DEF Given
  <2> QED
    BY <1>5, <2>1, <2>2 DEF MergeInv
<1>6. ASSUME e.uid < d.uid PROVE e \in view[s].uids
  <2>1. [uidv |-> db.uidv, uid |-> d.uid, msg |-> d.msg] \in given
    BY <1>4 DEF Given
  <2>2. e \in db.uids
    BY <1>1, <1>2, <1>3, <1>6, <2>1, BelowIsOld
  <2> QED
    BY <1>2, <1>6, <2>2 DEF MergeView
<1> QED
  BY <1>5, <1>6

\* Who is about to save is given a view of the mailbox by that only.
LEMMA ShownBySave ==
  ASSUME LockedScans, ScanInv, [Next]_vars, NEW s \in Sessions, pc[s] = "save",
         view'[s] # view[s], view'[s] # Nobody
  PROVE  Save(s)
<1>1. DOMAIN view = Sessions /\ \A t \in Sessions \ {s} : pc[t] = "idle"
  BY Alone DEF ScanInv, TypeOK
<1>2. ASSUME NEW t \in Sessions, Save(t) PROVE t = s
  BY <1>1, <1>2 DEF Save
<1>3. ASSUME NEW t \in Sessions, Select(t) \/ Close(t) \/ Crash(t) PROVE FALSE
  <2>1. view' = [view EXCEPT ![t] = Nobody]
    BY <1>3 DEF Select, Close, Crash
  <2> QED
    BY <1>1, <2>1
<1>4. ASSUME NEW t \in Sessions,
             \/ Noop(t) \/ Append(t) \/ Status(t) \/ Expunge(t)
             \/ Move(t) \/ Open(t) \/ ReadCur(t) \/ ReadNew(t) \/ Rename(t)
      PROVE  FALSE
  <2>1. CASE Noop(t) \/ Append(t) \/ Status(t) \/ Expunge(t) \/ Move(t) \/ Open(t)
    BY <2>1 DEF Noop, Append, Status, Expunge, Move, Open
  <2>2. CASE ReadCur(t) \/ ReadNew(t)
    <3>1. UNCHANGED <<view, answered>>
      BY <2>2, Zenon DEF ReadCur, ReadNew
    <3> QED
      BY <3>1
  <2>3. CASE Rename(t)
    BY <2>3 DEF Rename
  <2> QED
    BY <1>4, <2>1, <2>2, <2>3
<1>5. ASSUME NEW m \in Msgs, Deliver(m) \/ PopGetNew(m) \/ PopDelete(m) PROVE FALSE
  BY <1>5 DEF Deliver, PopGetNew, PopDelete
<1>6. ~ UNCHANGED vars
  BY DEF vars
<1> QED
  BY <1>2, <1>3, <1>4, <1>5, <1>6 DEF Next, Command, ScanStep

\* Among scans that hold the lock and do not fail, of mailboxes that are open
\* for writing, doNoop() may go through the two lists of messages by their
\* UIDs: the same UID is the same message, and what is new comes last.
THEOREM NoopMergesByUid ==
  ASSUME MergingScans
  PROVE  Spec => NoopMerges
<1> DEFINE Merges ==
      \A s \in Sessions :
         pc[s] = "save" /\ job[s].kind = "noop" /\ view'[s] # view[s] /\ view'[s] # Nobody =>
           \A d \in view[s].uids, e \in view'[s].uids :
              /\ d.uid = e.uid => d.msg = e.msg
              /\ e.uid < d.uid => e \in view[s].uids
<1>1. Init => ScanInv /\ MergeInv
  <2>1. Init => MergeInv
    BY DEF Init, MergeInv
  <2> QED
    BY <2>1, InitScanInv DEF MergingScans
<1>2. ScanInv /\ MergeInv /\ [Next]_vars => ScanInv' /\ MergeInv'
  BY NextScanInv, NextMergeInv DEF MergingScans
<1>3. ScanInv /\ MergeInv /\ [Next]_vars => Merges
  <2> SUFFICES ASSUME ScanInv, MergeInv, [Next]_vars, NEW s \in Sessions,
                      pc[s] = "save", job[s].kind = "noop",
                      view'[s] # view[s], view'[s] # Nobody,
                      NEW d \in view[s].uids, NEW e \in view'[s].uids
               PROVE  /\ d.uid = e.uid => d.msg = e.msg
                      /\ e.uid < d.uid => e \in view[s].uids
    OBVIOUS
  <2>1. MergeInv'
    BY <1>2
  <2>2. Save(s)
    BY ShownBySave DEF MergingScans
  <2> QED
    BY <2>1, <2>2, SaveMerges
<1>4. ScanInv /\ MergeInv /\ [Next]_vars => [Merges]_vars
  BY <1>3
<1> HIDE DEF Merges
<1>5. Spec => [][Merges]_vars
  BY <1>1, <1>2, <1>4, PTL DEF Spec
<1> QED
  BY <1>5 DEF Merges, NoopMerges
=============================================================================
