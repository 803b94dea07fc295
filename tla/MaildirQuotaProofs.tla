------------------------- MODULE MaildirQuotaProofs -------------------------
(***************************************************************************)
(* Proofs about maildirsize, for any number of messages, any quota and any *)
(* number of counts and failures.  The argument of CountsAreExact: as long *)
(* as no two changes share a second, a change makes one directory newer    *)
(* than any count has seen, so what was counted is right while the latest  *)
(* time stamp, and that of new, are as they were (CountInv).  The argument *)
(* of DriftIsFromRaces: a step of one task changes the sum of the file, the *)
(* messages there are, and what that task has yet to write and to move; in *)
(* every step but the races that are named the four changes cancel.        *)
(***************************************************************************)
EXTENDS MaildirQuota, FiniteSetTheorems, TLAPS

--------------------------------------------------------------------------
(* The directories and their time stamps.                                  *)

LEMMA DirFacts ==
  /\ Len(Dirs) = 2 /\ Dirs[1] = "new" /\ Dirs[2] = "cur"
  /\ Range(Dirs) = {"new", "cur"}
  BY DEF Dirs, Range

\* The latest of the time stamps.
LEMMA LatestOf ==
  ASSUME NEW st \in [{"new", "cur"} -> Nat]
  PROVE  /\ st["new"] \in Nat /\ st["cur"] \in Nat
         /\ Max(Range(st)) = IF st["new"] >= st["cur"] THEN st["new"] ELSE st["cur"]
<1>1. Range(st) = {st["new"], st["cur"]}
  BY DEF Range
<1>2. Max(Range(st)) = CHOOSE x \in {st["new"], st["cur"]} :
                         \A y \in {st["new"], st["cur"]} : x >= y
  BY <1>1 DEF Max
<1> QED
  BY <1>2

LEMMA LatestFacts ==
  ASSUME TypeOK
  PROVE  /\ stamp["new"] \in Nat /\ stamp["cur"] \in Nat
         /\ Latest = IF stamp["new"] >= stamp["cur"] THEN stamp["new"] ELSE stamp["cur"]
<1>1. stamp \in [{"new", "cur"} -> Nat]
  BY DirFacts DEF TypeOK
<1> QED
  BY <1>1, LatestOf DEF Latest

LEMMA MaxFacts ==
  ASSUME NEW a \in Nat, NEW b \in Nat
  PROVE  Max({a, b}) = IF a >= b THEN a ELSE b
  BY DEF Max

\* A change gives its directories a time that is none before the latest, and a
\* later one if it has a second of its own.
LEMMA TouchFacts ==
  ASSUME TypeOK, NEW D \in SUBSET {"new", "cur"}, Touch(D)
  PROVE  /\ stamp' \in [{"new", "cur"} -> Nat] /\ calm' \in BOOLEAN
         /\ calm' => calm
         /\ stamp'["new"] >= stamp["new"] /\ stamp'["cur"] >= stamp["cur"]
         /\ "new" \in D /\ calm' => stamp'["new"] = Latest + 1
         /\ "cur" \in D /\ calm' => stamp'["cur"] = Latest + 1
         /\ "new" \notin D => stamp'["new"] = stamp["new"]
         /\ "cur" \notin D => stamp'["cur"] = stamp["cur"]
<1>1. stamp \in [{"new", "cur"} -> Nat] /\ calm \in BOOLEAN
  BY DirFacts DEF TypeOK
<1>2. Latest \in Nat /\ Latest >= stamp["new"] /\ Latest >= stamp["cur"]
  BY <1>1, LatestFacts
<1>3. PICK tm \in {Latest + 1, Latest} :
        /\ stamp' = [d \in DOMAIN stamp |-> IF d \in D THEN tm ELSE stamp[d]]
        /\ calm' = (calm /\ tm > Latest)
  BY DEF Touch
<1>4. tm \in Nat /\ tm >= Latest /\ (tm > Latest => tm = Latest + 1)
  BY <1>2, <1>3
<1>5. calm' \in BOOLEAN /\ (calm' => calm /\ tm > Latest)
  BY <1>3, Zenon
<1>6. /\ stamp' \in [{"new", "cur"} -> Nat]
      /\ stamp'["new"] = IF "new" \in D THEN tm ELSE stamp["new"]
      /\ stamp'["cur"] = IF "cur" \in D THEN tm ELSE stamp["cur"]
  BY <1>1, <1>3, <1>4
<1>7. stamp'["new"] >= stamp["new"] /\ stamp'["cur"] >= stamp["cur"]
  BY <1>1, <1>2, <1>4, <1>6
<1>8. calm' => tm = Latest + 1
  BY <1>4, <1>5
<1> QED
  BY <1>5, <1>6, <1>7, <1>8

\* The messages of a directory are finitely many, and those of both are these
\* and those.
LEMMA InFacts ==
  ASSUME TypeOK, NEW d \in {"new", "cur"}
  PROVE  /\ IsFiniteSet(In(d)) /\ Cardinality(In(d)) \in Nat
         /\ Cardinality(In(d)) <= Cardinality(Msgs) /\ Cardinality(Msgs) \in Nat
<1>1. In(d) \subseteq Msgs /\ IsFiniteSet(Msgs)
  BY QuotaAssumption DEF In
<1> QED
  BY <1>1, FS_Subset, FS_CardinalityType

LEMMA UsageSum ==
  ASSUME TypeOK
  PROVE  Usage = Cardinality(In("new")) + Cardinality(In("cur"))
<1>1. In("new") \cap In("cur") = {}
  BY DEF In
<1>2. IsFiniteSet(In("new")) /\ IsFiniteSet(In("cur"))
  BY InFacts
<1>3. /\ Cardinality(In("new") \cap In("cur")) = 0
      /\ Cardinality(In("new")) \in Nat /\ Cardinality(In("cur")) \in Nat
  BY <1>1, <1>2, FS_EmptySet, InFacts
<1>4. Cardinality(In("new") \cup In("cur"))
        = Cardinality(In("new")) + Cardinality(In("cur"))
             - Cardinality(In("new") \cap In("cur"))
  BY <1>2, FS_Union
<1> QED
  BY <1>3, <1>4 DEF Usage

--------------------------------------------------------------------------
(* The processes.                                                          *)

\* What TypeOK says of the process of task t.
Fits(t, p) ==
    /\ p \in Process
    /\ p.pc = "idle" => p = Idle
    /\ p.pc # "idle" => p.kind \in IF t[2] = "in" THEN Deliveries ELSE Removals
    /\ (p.dir # 0) <=> (p.pc \in {"stat", "read"})
    /\ p.dir = 1 => p.sum = 0
    /\ p.dir = 2 => p.sum <= Cardinality(Msgs)
    /\ p.sum <= Len(Dirs) * Cardinality(Msgs)

\* Kinds of t.
KindsOf(t) == IF t[2] = "in" THEN Deliveries ELSE Removals

LEMMA IdleFits ==
  ASSUME NEW t \in Tasks
  PROVE  /\ Fits(t, Idle)
         /\ Idle.pc = "idle" /\ Idle.kind = "none" /\ Idle.fd = "none"
         /\ Idle.dir = 0 /\ Idle.maxtime = 0 /\ Idle.sum = 0 /\ Idle.seen = 0
<1>1. Cardinality(Msgs) \in Nat /\ MaxTries - 1 \in Nat
  BY QuotaAssumption, FS_CardinalityType
<1>2. Idle \in Process
  BY <1>1, DirFacts DEF Idle, Process, Pcs
<1> QED
  BY <1>1, <1>2, DirFacts DEF Fits, Idle

LEMMA OpenFits ==
  ASSUME NEW t \in Tasks, NEW kind \in KindsOf(t)
  PROVE  /\ Fits(t, Open(kind))
         /\ Open(kind).kind = kind /\ Open(kind).fd = "current"
         /\ Open(kind).pc = "opened" /\ Open(kind).seen = 0
         /\ Open(kind).maxtime = 0
<1>1. Idle \in Process /\ Idle.dir = 0 /\ Idle.sum = 0 /\ Cardinality(Msgs) \in Nat
  BY IdleFits, QuotaAssumption, FS_CardinalityType DEF Fits
<1>2. kind \in Deliveries \cup Removals /\ "opened" \in Pcs
  BY DEF KindsOf, Pcs
<1>3. /\ Open(kind) \in Process
      /\ Open(kind).kind = kind /\ Open(kind).fd = "current"
      /\ Open(kind).pc = "opened" /\ Open(kind).seen = 0
      /\ Open(kind).maxtime = 0 /\ Open(kind).dir = 0 /\ Open(kind).sum = 0
  BY <1>1, <1>2 DEF Open, Idle, Process
<1> QED
  BY <1>1, <1>3, DirFacts DEF Fits, KindsOf

LEMMA NextProcess ==
  ASSUME NEW t \in Tasks, NEW p \in Process, p.kind \in KindsOf(t)
  PROVE  /\ Fits(t, Go(p)) /\ Fits(t, Refused(p)) /\ Fits(t, Count(p))
         /\ Go(p).pc = (IF p.kind = "after" THEN "move" ELSE "append")
         /\ Go(p).kind = p.kind /\ Go(p).fd = p.fd
         /\ Go(p).seen = 0 /\ Go(p).maxtime = 0 /\ Go(p).dir = 0
         /\ Refused(p) = IF p.kind \in Removals THEN Go(p) ELSE Idle
         /\ Count(p).pc = "stat" /\ Count(p).dir = 1 /\ Count(p).kind = p.kind
         /\ Count(p).fd = p.fd /\ Count(p).seen = p.seen /\ Count(p).maxtime = 0
<1>1. Cardinality(Msgs) \in Nat /\ MaxTries - 1 \in Nat
  BY QuotaAssumption, FS_CardinalityType
<1>2. /\ Go(p) \in Process
      /\ Go(p).pc = (IF p.kind = "after" THEN "move" ELSE "append")
      /\ Go(p).kind = p.kind /\ Go(p).fd = p.fd /\ Go(p).sum = 0
      /\ Go(p).seen = 0 /\ Go(p).maxtime = 0 /\ Go(p).dir = 0
  <2>1. /\ Go(p).pc = (IF p.kind = "after" THEN "move" ELSE "append")
        /\ Go(p).kind = p.kind /\ Go(p).fd = p.fd /\ Go(p).sum = 0
        /\ Go(p).seen = 0 /\ Go(p).maxtime = 0 /\ Go(p).dir = 0
    BY DEF Go, Idle
  <2>2. Idle \in Process
    BY IdleFits DEF Fits, KindsOf
  <2>3. /\ p.kind \in Deliveries \cup Removals \cup {"none"}
        /\ p.fd \in {"none", "current", "replaced"}
    BY DEF Process
  <2>4. ASSUME NEW pc \in Pcs
        PROVE  [Idle EXCEPT !.pc = pc, !.kind = p.kind, !.fd = p.fd] \in Process
    BY <2>2, <2>3 DEF Process
  <2>5. Go(p) \in Process
    BY <2>4 DEF Go, Pcs
  <2> QED
    BY <2>1, <2>5
<1>3. /\ Count(p) \in Process /\ Count(p).sum = 0
      /\ Count(p).pc = "stat" /\ Count(p).dir = 1 /\ Count(p).kind = p.kind
      /\ Count(p).fd = p.fd /\ Count(p).seen = p.seen /\ Count(p).maxtime = 0
  <2>1. 1 \in 0..Len(Dirs) /\ 0 \in Nat /\ "stat" \in Pcs
    BY DirFacts DEF Pcs
  <2>2. Count(p) \in Process
    BY <2>1 DEF Count, Process
  <2>3. /\ Count(p).sum = 0
        /\ Count(p).pc = "stat" /\ Count(p).dir = 1 /\ Count(p).kind = p.kind
        /\ Count(p).fd = p.fd /\ Count(p).seen = p.seen /\ Count(p).maxtime = 0
    BY DEF Count, Process
  <2> QED
    BY <2>2, <2>3
<1>4. Fits(t, Go(p))
  BY <1>1, <1>2, DirFacts DEF Fits, KindsOf
<1>5. Fits(t, Count(p))
  BY <1>1, <1>3, DirFacts DEF Fits, KindsOf
<1>6. Refused(p) = IF p.kind \in Removals THEN Go(p) ELSE Idle
  BY DEF Refused
<1> QED
  BY <1>2, <1>3, <1>4, <1>5, <1>6, IdleFits

\* After the first check the process goes on, is refused, or counts.
LEMMA CheckCases ==
  ASSUME NEW t \in Tasks, Check(t)
  PROVE  /\ task[t].pc = "opened" /\ task[t].fd = "current"
         /\ UNCHANGED <<place, stamp, calm, file, faults, unseen>>
         /\ \E q \in {Go(task[t]), Refused(task[t]), Count(task[t])} : SetTask(t, q)
  BY DEF Check

\* What PlaceInv says of the process of task t.
Finds(t, p, where) ==
    /\ p.kind \in Deliveries => (where = "none" <=> ~ (p.kind = "after" /\ p.pc = "append"))
    /\ p.kind = "trash" => where = "cur"
    /\ p.kind = "expunge" => where = "gone"
    /\ p.pc = "deleted" => p.kind = "expunge"
    /\ p.pc = "move" => /\ p.kind # "expunge"
                        /\ p.kind \in {"before", "trash"} => p.fd = "none"

\* The parts of the invariant that are about each process.
LEMMA ByTask ==
  /\ TypeOK <=>
       /\ place \in [Msgs -> {"none", "new", "cur", "gone"}]
       /\ stamp \in [Range(Dirs) -> Nat]
       /\ calm \in BOOLEAN
       /\ file \in [sum : Int, lines : 1..MaxLines, young : BOOLEAN]
       /\ task \in [Tasks -> Process]
       /\ \A t \in Tasks : Fits(t, task[t])
       /\ faults \in 0..MaxFaults
       /\ unseen \in 0..MaxUnseen
  /\ TypeOK => (PlaceInv <=> \A t \in Tasks : Finds(t, task[t], place[t[1]]))
<1>1. TypeOK => \A t \in Tasks : task[t] \in Process
  BY DEF TypeOK
<1>2. TypeOK <=>
       /\ place \in [Msgs -> {"none", "new", "cur", "gone"}]
       /\ stamp \in [Range(Dirs) -> Nat]
       /\ calm \in BOOLEAN
       /\ file \in [sum : Int, lines : 1..MaxLines, young : BOOLEAN]
       /\ task \in [Tasks -> Process]
       /\ \A t \in Tasks : Fits(t, task[t])
       /\ faults \in 0..MaxFaults
       /\ unseen \in 0..MaxUnseen
  BY <1>1 DEF TypeOK, Fits
<1>3. TypeOK => (PlaceInv <=> \A t \in Tasks : Finds(t, task[t], place[t[1]]))
  BY DEF PlaceInv, Finds
<1> QED
  BY <1>2, <1>3

\* The types, and the places of messages, after a step of task t.
LEMMA TaskStep ==
  ASSUME TypeOK, PlaceInv, NEW t \in Tasks, NEW q, SetTask(t, q), Fits(t, q),
         Finds(t, q, place'[t[1]]),
         place' \in [Msgs -> {"none", "new", "cur", "gone"}],
         \A u \in Tasks \ {t} : place'[u[1]] = place[u[1]]
                                  \/ Finds(u, task[u], place'[u[1]]),
         stamp' \in [{"new", "cur"} -> Nat], calm' \in BOOLEAN,
         file' \in [sum : Int, lines : 1..MaxLines, young : BOOLEAN],
         faults' \in 0..MaxFaults, unseen' \in 0..MaxUnseen
  PROVE  TypeOK' /\ PlaceInv'
<1>1. /\ task \in [Tasks -> Process] /\ \A u \in Tasks : Fits(u, task[u])
      /\ \A u \in Tasks : Finds(u, task[u], place[u[1]])
  BY ByTask
<1>2. /\ task' \in [Tasks -> Process]
      /\ \A u \in Tasks : task'[u] = IF u = t THEN q ELSE task[u]
  BY <1>1 DEF SetTask, Fits
<1>3. \A u \in Tasks : Fits(u, task'[u])
  BY <1>1, <1>2
<1>4. \A u \in Tasks : Finds(u, task'[u], place'[u[1]])
  BY <1>1, <1>2
<1>5. stamp' \in [Range(Dirs) -> Nat]
  BY DirFacts
<1>6. TypeOK'
  BY <1>2, <1>3, <1>5 DEF TypeOK, Fits
<1>7. PlaceInv'
  BY <1>4 DEF PlaceInv, Finds
<1> QED
  BY <1>6, <1>7

\* The types of what a step may leave as it is.
LEMMA Kept ==
  ASSUME TypeOK
  PROVE  /\ place \in [Msgs -> {"none", "new", "cur", "gone"}]
         /\ stamp \in [{"new", "cur"} -> Nat] /\ calm \in BOOLEAN
         /\ file \in [sum : Int, lines : 1..MaxLines, young : BOOLEAN]
         /\ faults \in 0..MaxFaults /\ unseen \in 0..MaxUnseen
         /\ file.sum \in Int /\ file.lines \in 1..MaxLines /\ file.young \in BOOLEAN
         /\ MaxLines \in Nat /\ MaxFaults \in Nat /\ MaxUnseen \in Nat
         /\ \A t \in Tasks : t[1] \in Msgs /\ t[2] \in {"in", "out"}
  BY DirFacts, QuotaAssumption DEF TypeOK, Tasks

\* A process that is not idle has a kind of its task, and its message is where
\* it looks for it.
LEMMA ProcessFacts ==
  ASSUME TypeOK, PlaceInv, NEW t \in Tasks
  PROVE  /\ task[t] \in Process /\ Fits(t, task[t])
         /\ Finds(t, task[t], place[t[1]])
         /\ task[t].pc # "idle" => task[t].kind \in KindsOf(t)
         /\ task[t].pc = "idle" => task[t] = Idle
  BY ByTask DEF Fits, KindsOf

LEMMA TypeStep ==
  ASSUME TypeOK, PlaceInv, Next
  PROVE  TypeOK' /\ PlaceInv'
<1>1. ASSUME NEW t \in Tasks, NEW p \in Process, p.kind \in KindsOf(t),
             p.kind = "trash" => place[t[1]] = "cur",
             p.kind = "expunge" => place[t[1]] = "gone",
             p.kind \in Deliveries => place[t[1]] = "none",
             NEW q \in {Go(p), Refused(p), Count(p)}
      PROVE  Fits(t, q) /\ Finds(t, q, place[t[1]])
  <2>1. CASE q = Go(p)
    BY <1>1, <2>1, NextProcess DEF Finds, Deliveries, KindsOf, Removals
  <2>2. CASE q = Count(p)
    BY <1>1, <2>2, NextProcess DEF Finds, Deliveries, KindsOf, Removals
  <2>3. CASE q = Idle
    BY <2>3, IdleFits DEF Finds, Deliveries
  <2>4. CASE q = Refused(p)
    BY <1>1, <2>1, <2>3, <2>4, NextProcess
  <2> QED
    BY <1>1, <2>1, <2>2, <2>4
<1>2. ASSUME NEW t \in Tasks, Deliver(t)
      PROVE  TypeOK' /\ PlaceInv'
  <2>1. PICK kind \in Deliveries : SetTask(t, Open(kind))
    BY <1>2 DEF Deliver
  <2>2. /\ t[2] = "in" /\ place[t[1]] = "none"
        /\ UNCHANGED <<place, stamp, calm, file, faults, unseen>>
    BY <1>2 DEF Deliver
  <2>3. kind \in KindsOf(t)
    BY <2>2 DEF KindsOf
  <2>4. Fits(t, Open(kind)) /\ Finds(t, Open(kind), place[t[1]])
    BY <2>1, <2>2, <2>3, OpenFits DEF Finds, Deliveries
  <2> QED
    BY <2>1, <2>2, <2>4, Kept, TaskStep
<1>3. ASSUME NEW t \in Tasks, Deleted(t)
      PROVE  TypeOK' /\ PlaceInv'
  <2>1. UNCHANGED <<place, stamp, calm, file, faults, unseen>>
    BY <1>3 DEF Deleted
  <2>2. PICK kind \in KindsOf(t) :
          /\ SetTask(t, Open(kind))
          /\ \/ kind = "expunge" /\ place[t[1]] = "gone"
             \/ kind = "trash" /\ place[t[1]] = "cur"
    <3>1. CASE task[t].pc = "deleted" /\ SetTask(t, Open("expunge"))
      BY <3>1, ProcessFacts DEF Finds
    <3>2. CASE t[2] = "out" /\ place[t[1]] = "cur" /\ SetTask(t, Open("trash"))
      BY <3>2 DEF KindsOf, Removals
    <3> QED
      BY <1>3, <3>1, <3>2 DEF Deleted
  <2>3. Fits(t, Open(kind)) /\ Finds(t, Open(kind), place[t[1]])
    BY <2>2, OpenFits DEF Finds, Deliveries
  <2> QED
    BY <2>1, <2>2, <2>3, Kept, TaskStep
<1>4. ASSUME NEW t \in Tasks, Unlink(t)
      PROVE  TypeOK' /\ PlaceInv'
  <2> DEFINE q == [Idle EXCEPT !.pc = "deleted", !.kind = "expunge"]
  <2>1. /\ t[2] = "out" /\ place[t[1]] = "cur" /\ SetTask(t, q)
        /\ place' = [place EXCEPT ![t[1]] = "gone"] /\ Touch({"cur"})
        /\ UNCHANGED <<file, faults, unseen>>
    BY <1>4 DEF Unlink
  <2>2. /\ q \in Process /\ q.pc = "deleted" /\ q.kind = "expunge"
        /\ q.dir = 0 /\ q.sum = 0
    BY IdleFits DEF Fits, Process, Idle, Removals, Pcs
  <2> HIDE DEF q
  <2>3. Fits(t, q)
    BY <2>1, <2>2, IdleFits DEF Fits, Removals
  <2>4. Finds(t, q, place'[t[1]])
    BY <2>1, <2>2, Kept DEF Finds, Deliveries
  <2>5. \A u \in Tasks \ {t} : place'[u[1]] = place[u[1]]
                                 \/ Finds(u, task[u], place'[u[1]])
    <3> SUFFICES ASSUME NEW u \in Tasks \ {t}, u[1] = t[1]
                 PROVE  Finds(u, task[u], place'[u[1]])
      BY <2>1, Kept
    <3>1. u[2] = "in"
      BY <2>1 DEF Tasks
    <3>2. task[u].kind \in Deliveries \cup {"none"}
      BY <3>1, ProcessFacts, IdleFits DEF KindsOf
    <3>3. Finds(u, task[u], place[u[1]])
      BY ProcessFacts
    <3> QED
      BY <2>1, <3>2, <3>3, Kept DEF Finds, Deliveries
  <2>6. stamp' \in [{"new", "cur"} -> Nat] /\ calm' \in BOOLEAN
    BY <2>1, TouchFacts
  <2>7. place' \in [Msgs -> {"none", "new", "cur", "gone"}]
    BY <2>1, Kept
  <2> QED
    BY <2>1, <2>3, <2>4, <2>5, <2>6, <2>7, Kept, TaskStep
<1>5. ASSUME NEW t \in Tasks, Stat(t)
      PROVE  TypeOK' /\ PlaceInv'
  <2> DEFINE p == task[t]
             tm == stamp[Dirs[p.dir]]
             q == [p EXCEPT !.pc = "read", !.maxtime = Max({@, tm}),
                            !.seen = IF p.dir = 1 THEN tm ELSE @]
  <2>1. /\ p.pc = "stat" /\ SetTask(t, q)
        /\ UNCHANGED <<place, stamp, calm, file, faults, unseen>>
    BY <1>5 DEF Stat
  <2>2. p \in Process /\ Fits(t, p) /\ Finds(t, p, place[t[1]])
    BY ProcessFacts
  <2>3. p.dir \in {1, 2} /\ p.maxtime \in Nat /\ p.seen \in Nat
    BY <2>1, <2>2, DirFacts DEF Fits, Process
  <2>4. tm \in Nat
    BY <2>3, DirFacts, LatestFacts
  <2>5. Max({p.maxtime, tm}) \in Nat
    BY <2>3, <2>4, MaxFacts
  <2>6. /\ q \in Process /\ q.pc = "read" /\ q.kind = p.kind /\ q.dir = p.dir
        /\ q.sum = p.sum /\ q.fd = p.fd
    BY <2>2, <2>3, <2>4, <2>5 DEF Process, Pcs
  <2>7. Fits(t, q) /\ Finds(t, q, place[t[1]])
    BY <2>1, <2>2, <2>6 DEF Fits, Finds
  <2> HIDE DEF q
  <2> QED
    BY <2>1, <2>7, Kept, TaskStep
<1>6. ASSUME NEW t \in Tasks, Read(t)
      PROVE  TypeOK' /\ PlaceInv'
  <2> DEFINE p == task[t]
             sum == p.sum + Cardinality(In(Dirs[p.dir]))
             r == [p EXCEPT !.pc = "stat", !.sum = sum, !.dir = @ + 1]
             q == [p EXCEPT !.pc = "rename", !.sum = sum, !.dir = 0]
  <2>1. /\ p.pc = "read" /\ SetTask(t, IF p.dir < Len(Dirs) THEN r ELSE q)
        /\ UNCHANGED <<place, stamp, calm, file, faults, unseen>>
    BY <1>6 DEF Read
  <2>2. p \in Process /\ Fits(t, p) /\ Finds(t, p, place[t[1]])
    BY ProcessFacts
  <2>3. p.dir \in {1, 2} /\ p.sum \in Nat
    BY <2>1, <2>2, DirFacts DEF Fits, Process
  <2>4. /\ Cardinality(In(Dirs[p.dir])) \in Nat /\ Cardinality(Msgs) \in Nat
        /\ Cardinality(In(Dirs[p.dir])) <= Cardinality(Msgs)
    BY <2>3, DirFacts, InFacts
  <2>5. /\ sum \in Nat
        /\ p.dir = 1 => sum <= Cardinality(Msgs)
        /\ sum <= 2 * Cardinality(Msgs)
    BY <2>2, <2>3, <2>4 DEF Fits
  <2> HIDE DEF sum
  <2>6. CASE p.dir = 1
    <3>1. /\ r \in Process /\ r.pc = "stat" /\ r.kind = p.kind /\ r.dir = 2
          /\ r.sum = sum /\ r.fd = p.fd
      <4>1. 2 \in 0..Len(Dirs) /\ "stat" \in Pcs /\ p.dir + 1 = 2
        BY <2>6, DirFacts DEF Pcs
      <4> QED
        BY <2>2, <2>5, <4>1 DEF Process
    <3>2. Fits(t, r) /\ Finds(t, r, place[t[1]])
      BY <2>1, <2>2, <2>5, <2>6, <3>1, DirFacts DEF Fits, Finds
    <3>3. SetTask(t, r)
      BY <2>1, <2>6, DirFacts
    <3> HIDE DEF r
    <3> QED
      BY <2>1, <3>2, <3>3, Kept, TaskStep
  <2>7. CASE p.dir = 2
    <3>1. /\ q \in Process /\ q.pc = "rename" /\ q.kind = p.kind /\ q.dir = 0
          /\ q.sum = sum /\ q.fd = p.fd
      <4>1. 0 \in 0..Len(Dirs) /\ "rename" \in Pcs
        BY DirFacts DEF Pcs
      <4> QED
        BY <2>2, <2>5, <4>1 DEF Process
    <3>2. Fits(t, q) /\ Finds(t, q, place[t[1]])
      BY <2>1, <2>2, <2>5, <3>1, DirFacts DEF Fits, Finds
    <3>3. SetTask(t, q)
      BY <2>1, <2>7, DirFacts
    <3> HIDE DEF q
    <3> QED
      BY <2>1, <3>2, <3>3, Kept, TaskStep
  <2> QED
    BY <2>3, <2>6, <2>7
<1>7. ASSUME NEW t \in Tasks, Rename(t)
      PROVE  TypeOK' /\ PlaceInv'
  <2> DEFINE after(u) == IF u = t THEN [task[u] EXCEPT !.pc = "restat", !.fd = "current"]
                         ELSE IF task[u].fd = "current"
                              THEN [task[u] EXCEPT !.fd = "replaced"] ELSE task[u]
  <2>1. /\ task[t].pc = "rename" /\ task' = [u \in Tasks |-> after(u)]
        /\ file' = [sum |-> task[t].sum, lines |-> 1, young |-> TRUE]
        /\ UNCHANGED <<place, stamp, calm, faults, unseen>>
    BY <1>7 DEF Rename
  <2>2. ASSUME NEW u \in Tasks
        PROVE  Fits(u, after(u)) /\ Finds(u, after(u), place[u[1]])
    <3>1. task[u] \in Process /\ Fits(u, task[u]) /\ Finds(u, task[u], place[u[1]])
      BY ProcessFacts
    <3>2. CASE u = t
      <4>1. /\ after(u) \in Process /\ after(u).pc = "restat"
            /\ after(u).kind = task[u].kind /\ after(u).dir = task[u].dir
            /\ after(u).sum = task[u].sum
        BY <3>1, <3>2 DEF Process, Pcs
      <4> HIDE DEF after
      <4> QED
        BY <2>1, <3>1, <3>2, <4>1 DEF Fits, Finds
    <3>3. CASE u # t /\ task[u].fd = "current"
      <4>1. /\ after(u) \in Process /\ after(u).pc = task[u].pc
            /\ after(u).kind = task[u].kind /\ after(u).dir = task[u].dir
            /\ after(u).sum = task[u].sum
        BY <3>1, <3>3 DEF Process
      <4>2. task[u].pc # "idle"
        BY <3>1, <3>3, IdleFits DEF Fits
      <4> HIDE DEF after
      <4> QED
        BY <3>1, <3>3, <4>1, <4>2 DEF Fits, Finds
    <3> QED
      BY <3>1, <3>2, <3>3
  <2>3. file' \in [sum : Int, lines : 1..MaxLines, young : BOOLEAN]
    <3>1. task[t].sum \in Int /\ 1 \in 1..MaxLines
      BY ProcessFacts, QuotaAssumption DEF Process
    <3> QED
      BY <2>1, <3>1
  <2>4. /\ task' \in [Tasks -> Process]
        /\ \A u \in Tasks : Fits(u, task'[u]) /\ Finds(u, task'[u], place'[u[1]])
    BY <2>1, <2>2 DEF Fits
  <2> HIDE DEF after
  <2>5. stamp' \in [Range(Dirs) -> Nat]
    BY <2>1 DEF TypeOK
  <2>6. TypeOK'
    BY <2>1, <2>3, <2>4, <2>5, Kept DEF TypeOK, Fits
  <2>7. PlaceInv'
    BY <2>4 DEF PlaceInv, Finds
  <2> QED
    BY <2>6, <2>7
<1>8. ASSUME NEW t \in Tasks, task[t].pc \in {"opened", "rename", "restat"}
      PROVE  LET p == task[t]
                 again == Count([p EXCEPT !.tries = @ + 1])
             IN /\ \A q \in {Go(p), Refused(p), Count(p), Go([p EXCEPT !.fd = "none"])} :
                     Fits(t, q) /\ Finds(t, q, place[t[1]])
                /\ p.kind \in Deliveries /\ p.tries + 1 < MaxTries =>
                     Fits(t, again) /\ Finds(t, again, place[t[1]])
  <2> DEFINE p == task[t]
  <2>1. /\ p \in Process /\ Finds(t, p, place[t[1]]) /\ p.kind \in KindsOf(t)
    BY <1>8, ProcessFacts
  <2>2. /\ p.kind = "trash" => place[t[1]] = "cur"
        /\ p.kind = "expunge" => place[t[1]] = "gone"
        /\ p.kind \in Deliveries => place[t[1]] = "none"
    BY <1>8, <2>1 DEF Finds
  <2>3. ASSUME NEW q \in {Go(p), Refused(p), Count(p)}
        PROVE  Fits(t, q) /\ Finds(t, q, place[t[1]])
    BY <1>1, <2>1, <2>2
  <2>4. ASSUME p.kind \in Deliveries, p.tries + 1 < MaxTries
        PROVE  LET q == Count([p EXCEPT !.tries = @ + 1])
               IN Fits(t, q) /\ Finds(t, q, place[t[1]])
    <3> DEFINE r == [p EXCEPT !.tries = @ + 1]
    <3>1. p.tries \in Nat /\ MaxTries \in Nat
      BY <2>1, QuotaAssumption DEF Process
    <3>2. r \in Process /\ r.kind = p.kind
      BY <2>1, <2>4, <3>1 DEF Process
    <3> HIDE DEF r
    <3>3. Fits(t, Count(r)) /\ Finds(t, Count(r), place[t[1]])
      BY <1>1, <2>1, <2>2, <3>2
    <3> QED
      BY <3>3 DEF r
  <2>5. LET q == Go([p EXCEPT !.fd = "none"])
        IN Fits(t, q) /\ Finds(t, q, place[t[1]])
    <3> DEFINE r == [p EXCEPT !.fd = "none"]
    <3>1. r \in Process /\ r.kind = p.kind
      BY <2>1 DEF Process
    <3> HIDE DEF r
    <3>2. Fits(t, Go(r)) /\ Finds(t, Go(r), place[t[1]])
      BY <1>1, <2>1, <2>2, <3>1
    <3> QED
      BY <3>2 DEF r
  <2> QED
    BY <2>3, <2>4, <2>5
<1>9. ASSUME NEW t \in Tasks, CountFails(t) \/ Accept(t) \/ CountAgain(t) \/ Punt(t)
      PROVE  TypeOK' /\ PlaceInv'
  <2> DEFINE p == task[t]
             again == Count([p EXCEPT !.tries = @ + 1])
             punted == Go([p EXCEPT !.fd = "none"])
  <2>1. UNCHANGED <<place, stamp, calm, file, unseen>> /\ faults' \in 0..MaxFaults
    BY <1>9, Kept DEF CountFails, Fails, Accept, CountAgain, Punt
  <2>2. task[t].pc \in {"rename", "restat"}
    BY <1>9 DEF CountFails, Accept, CountAgain, Punt
  <2>3. PICK q : /\ SetTask(t, q)
                 /\ \/ q \in {Go(p), Refused(p), punted}
                    \/ q = again /\ p.kind \notin Removals /\ p.tries + 1 < MaxTries
    <3>1. CASE CountFails(t)
      BY <3>1 DEF CountFails
    <3>2. CASE Accept(t)
      BY <3>2 DEF Accept
    <3>3. CASE CountAgain(t)
      BY <3>3 DEF CountAgain
    <3>4. CASE Punt(t)
      BY <3>4 DEF Punt
    <3> QED
      BY <1>9, <3>1, <3>2, <3>3, <3>4
  <2>4. p.kind \notin Removals => p.kind \in Deliveries
    BY <2>2, ProcessFacts DEF KindsOf
  <2>5. Fits(t, q) /\ Finds(t, q, place[t[1]])
    BY <1>8, <2>2, <2>3, <2>4
  <2> QED
    BY <2>1, <2>3, <2>5, Kept, TaskStep
<1>10. ASSUME NEW t \in Tasks, Move(t)
       PROVE  TypeOK' /\ PlaceInv'
  <2> DEFINE p == task[t]
             q == IF p.kind = "after" THEN [p EXCEPT !.pc = "append"] ELSE Idle
  <2>1. /\ p.pc = "move" /\ SetTask(t, q) /\ UNCHANGED <<file, faults, unseen>>
        /\ \/ /\ p.kind \in Deliveries
              /\ place' = [place EXCEPT ![t[1]] = "new"] /\ Touch({"new"})
           \/ /\ p.kind = "trash"
              /\ place' = [place EXCEPT ![t[1]] = "gone"] /\ Touch({"cur"})
    BY <1>10 DEF Move
  <2>2. /\ p \in Process /\ Fits(t, p) /\ Finds(t, p, place[t[1]])
        /\ p.kind \in KindsOf(t)
    BY <2>1, ProcessFacts
  <2>3. Fits(t, q) /\ Finds(t, q, place'[t[1]])
    <3>1. CASE p.kind = "after"
      <4>1. /\ q \in Process /\ q.pc = "append" /\ q.kind = p.kind /\ q.dir = p.dir
            /\ q.sum = p.sum
        BY <2>2, <3>1 DEF Process, Pcs
      <4>2. place'[t[1]] = "new"
        BY <2>1, <3>1, Kept
      <4> HIDE DEF q
      <4> QED
        BY <2>1, <2>2, <3>1, <4>1, <4>2 DEF Fits, Finds
    <3>2. CASE p.kind # "after"
      BY <3>2, IdleFits DEF Finds, Deliveries
    <3> QED
      BY <3>1, <3>2
  <2> HIDE DEF q
  <2>4. \A u \in Tasks \ {t} : place'[u[1]] = place[u[1]]
                                 \/ Finds(u, task[u], place'[u[1]])
    <3> SUFFICES ASSUME NEW u \in Tasks \ {t}, u[1] = t[1]
                 PROVE  Finds(u, task[u], place'[u[1]])
      BY <2>1, Kept
    <3>1. u[2] # t[2] /\ u[2] \in {"in", "out"} /\ t[2] \in {"in", "out"}
      BY DEF Tasks
    <3>2. Finds(u, task[u], place[u[1]]) /\ task[u].kind \in KindsOf(u) \cup {"none"}
      BY ProcessFacts, IdleFits
    <3>3. place[u[1]] = place[t[1]] /\ place'[u[1]] = place'[t[1]]
      OBVIOUS
    <3>4. CASE p.kind \in Deliveries
      <4>1. place[t[1]] = "none" /\ place'[t[1]] = "new"
        BY <2>1, <2>2, <3>4, Kept DEF Finds
      <4>2. u[2] = "out"
        BY <2>2, <3>1, <3>4 DEF KindsOf, Deliveries, Removals
      <4> QED
        BY <3>2, <3>3, <4>1, <4>2 DEF Finds, KindsOf, Deliveries, Removals
    <3>5. CASE p.kind = "trash"
      <4>1. place[t[1]] = "cur" /\ place'[t[1]] = "gone"
        BY <2>1, <2>2, <3>5, Kept DEF Finds, Deliveries
      <4>2. u[2] = "in"
        BY <2>2, <3>1, <3>5 DEF KindsOf, Deliveries, Removals
      <4> QED
        BY <3>2, <3>3, <4>1, <4>2 DEF Finds, KindsOf, Deliveries, Removals
    <3> QED
      BY <2>1, <3>4, <3>5
  <2>5. stamp' \in [{"new", "cur"} -> Nat] /\ calm' \in BOOLEAN
    BY <2>1, TouchFacts
  <2>6. place' \in [Msgs -> {"none", "new", "cur", "gone"}]
    BY <2>1, Kept
  <2> QED
    BY <2>1, <2>3, <2>4, <2>5, <2>6, Kept, TaskStep
<1>11. ASSUME NEW t \in Tasks, AddQuota(t) \/ AppendFails(t)
       PROVE  TypeOK' /\ PlaceInv'
  <2> DEFINE p == task[t]
             q == Closed(p)
  <2>1. /\ p.pc = "append" /\ SetTask(t, q)
        /\ UNCHANGED <<place, stamp, calm, unseen>> /\ faults' \in 0..MaxFaults
        /\ file' \in {file, [sum |-> file.sum + Delta(t),
                             lines |-> Min({file.lines + 1, MaxLines}), young |-> TRUE]}
    BY <1>11, Kept DEF AddQuota, AppendFails, Fails
  <2>2. /\ p \in Process /\ Fits(t, p) /\ Finds(t, p, place[t[1]])
        /\ p.kind \in KindsOf(t)
    BY <2>1, ProcessFacts
  <2>3. Fits(t, q) /\ Finds(t, q, place[t[1]])
    <3>1. CASE p.kind \in {"before", "trash"}
      <4>1. /\ q \in Process /\ q.pc = "move" /\ q.kind = p.kind /\ q.dir = p.dir
            /\ q.sum = p.sum /\ q.fd = "none"
        BY <2>2, <3>1 DEF Process, Pcs, Closed
      <4> HIDE DEF q
      <4> QED
        BY <2>1, <2>2, <3>1, <4>1 DEF Fits, Finds
    <3>2. CASE p.kind \notin {"before", "trash"}
      BY <3>2, IdleFits DEF Finds, Deliveries, Closed
    <3> QED
      BY <3>1, <3>2
  <2>4. file' \in [sum : Int, lines : 1..MaxLines, young : BOOLEAN]
    <3>1. Delta(t) \in Int
      BY DEF Delta
    <3>2. Min({file.lines + 1, MaxLines}) \in 1..MaxLines
      BY Kept DEF Min
    <3>3. file.sum + Delta(t) \in Int
      BY <3>1, Kept
    <3>4. [sum |-> file.sum + Delta(t), lines |-> Min({file.lines + 1, MaxLines}),
           young |-> TRUE] \in [sum : Int, lines : 1..MaxLines, young : BOOLEAN]
      BY <3>2, <3>3
    <3>5. file \in [sum : Int, lines : 1..MaxLines, young : BOOLEAN]
      BY Kept
    <3> QED
      BY <2>1, <3>4, <3>5, Zenon
  <2> HIDE DEF q
  <2> QED
    BY <2>1, <2>3, <2>4, Kept, TaskStep
<1>12. ASSUME NEW m \in Msgs, Seen(m) \/ RemovedUnseen(m)
       PROVE  TypeOK' /\ PlaceInv'
  <2>1. /\ UNCHANGED <<file, task, faults>> /\ unseen' \in 0..MaxUnseen
        /\ \E D \in SUBSET {"new", "cur"} : Touch(D)
        /\ \/ place[m] = "new" /\ place' = [place EXCEPT ![m] = "cur"]
           \/ /\ place[m] = "cur" /\ place' = [place EXCEPT ![m] = "gone"]
              /\ task[<<m, "out">>].pc = "idle"
    BY <1>12, Kept DEF Seen, RemovedUnseen
  <2>2. stamp' \in [Range(Dirs) -> Nat] /\ calm' \in BOOLEAN
    BY <2>1, TouchFacts, DirFacts
  <2>3. place' \in [Msgs -> {"none", "new", "cur", "gone"}]
    BY <2>1, Kept
  <2>4. TypeOK'
    BY <2>1, <2>2, <2>3 DEF TypeOK
  <2>5. ASSUME NEW u \in Tasks
        PROVE  Finds(u, task[u], place'[u[1]])
    <3>1. Finds(u, task[u], place[u[1]]) /\ u[1] \in Msgs
      BY ProcessFacts, Kept
    <3>2. CASE u[1] # m
      <4>1. place'[u[1]] = place[u[1]]
        BY <2>1, <3>1, <3>2, Kept
      <4> QED
        BY <3>1, <4>1
    <3>3. CASE u[1] = m /\ u[2] = "in"
      <4>1. task[u].kind \in Deliveries \cup {"none"}
        BY <3>3, ProcessFacts, IdleFits DEF KindsOf
      <4> QED
        BY <2>1, <3>1, <3>3, <4>1, Kept DEF Finds, Deliveries
    <3>4. CASE u[1] = m /\ u[2] = "out"
      <4>1. task[u].kind \in Removals \cup {"none"}
        BY <3>4, ProcessFacts, IdleFits DEF KindsOf
      <4>2. u = <<m, "out">>
        BY <3>4 DEF Tasks
      <4>3. CASE place[m] = "new"
        <5>1. place'[m] = "cur" /\ place[m] = "new"
          BY <2>1, <4>3, Kept
        <5> QED
          BY <3>1, <3>4, <4>1, <5>1 DEF Finds, Removals, Deliveries
      <4>4. CASE task[u].pc = "idle"
        BY <4>4, ProcessFacts, IdleFits DEF Finds, Deliveries
      <4> QED
        BY <2>1, <4>2, <4>3, <4>4
    <3> QED
      BY <3>2, <3>3, <3>4, Kept
  <2> QED
    BY <2>1, <2>4, <2>5 DEF PlaceInv, Finds
<1>13. ASSUME Age
       PROVE  TypeOK' /\ PlaceInv'
  BY <1>13, Kept DEF Age, TypeOK, PlaceInv
<1>14. ASSUME NEW t \in Tasks, Crash(t)
       PROVE  TypeOK' /\ PlaceInv'
  <2>1. SetTask(t, Idle) /\ UNCHANGED <<place, stamp, calm, file, unseen>>
    BY <1>14 DEF Crash
  <2>2. faults' \in 0..MaxFaults
    BY <1>14, Kept DEF Crash, Fails
  <2>3. Fits(t, Idle) /\ Finds(t, Idle, place[t[1]])
    BY IdleFits DEF Finds, Deliveries
  <2> QED
    BY <2>1, <2>2, <2>3, Kept, TaskStep
<1>15. ASSUME NEW t \in Tasks, Check(t) \/ NoQuota(t)
       PROVE  TypeOK' /\ PlaceInv'
  <2> DEFINE p == task[t]
  <2>1. UNCHANGED <<place, stamp, calm, file, unseen>> /\ faults' \in 0..MaxFaults
    BY <1>15, CheckCases, Kept DEF NoQuota, Fails
  <2>2. p.pc = "opened"
    BY <1>15, CheckCases DEF NoQuota
  <2>3. PICK q \in {Go(p), Refused(p), Count(p), Go([p EXCEPT !.fd = "none"])} :
          SetTask(t, q)
    <3>1. CASE Check(t)
      BY <3>1, CheckCases
    <3>2. CASE NoQuota(t)
      BY <3>2 DEF NoQuota
    <3> QED
      BY <1>15, <3>1, <3>2
  <2>4. Fits(t, q) /\ Finds(t, q, place[t[1]])
    BY <1>8, <2>2, <2>3
  <2> QED
    BY <2>1, <2>3, <2>4, Kept, TaskStep
<1> QED
  BY <1>2, <1>3, <1>4, <1>5, <1>6, <1>7, <1>9, <1>10, <1>11, <1>12, <1>13, <1>14,
     <1>15 DEF Next, Step

--------------------------------------------------------------------------
(* The counts.                                                             *)

\* What CountInv says of a process.
Right(p) ==
    /\ p.maxtime <= Latest
    /\ p.seen <= stamp["new"]
    /\ calm /\ stamp["new"] = p.seen =>
         /\ p.pc = "stat" /\ p.dir = 2 => p.sum = Cardinality(In("new"))
         /\ p.maxtime = Latest =>
              /\ p.pc = "read" /\ p.dir = 2 => p.sum = Cardinality(In("new"))
              /\ p.pc \in {"rename", "restat"} => p.sum = Usage

LEMMA CountByTask == CountInv <=> \A t \in Tasks : Right(task[t])
  BY DEF CountInv, Right

\* One that does not count, or begins to, has nothing to be right about.
LEMMA RightNotCounting ==
  ASSUME TypeOK, NEW p, p.maxtime = 0, p.seen <= stamp["new"],
         \/ p.pc \in {"idle", "deleted", "opened", "move", "append"}
         \/ p.dir = 1 /\ p.pc = "stat"
  PROVE  Right(p)
<1>1. 0 <= Latest
  BY LatestFacts
<1>2. p.pc \notin {"read", "rename", "restat"} /\ (p.pc = "stat" => p.dir = 1)
  OBVIOUS
<1> QED
  BY <1>1, <1>2 DEF Right

LEMMA RightIdle ==
  ASSUME TypeOK
  PROVE  Right(Idle) /\ 0 <= stamp["new"]
<1>1. Idle.pc = "idle" /\ Idle.maxtime = 0 /\ Idle.seen = 0
  BY DEF Idle
<1>2. 0 <= stamp["new"]
  BY LatestFacts
<1>3. Idle.seen <= stamp["new"]
  BY <1>1, <1>2
<1> QED
  BY <1>1, <1>2, <1>3, RightNotCounting

\* A change of a directory makes what was counted before it look old.
LEMMA RightTouched ==
  ASSUME TypeOK, NEW D \in SUBSET {"new", "cur"}, D # {}, Touch(D),
         "new" \notin D => In("new")' = In("new"),
         NEW p \in Process, Right(p)
  PROVE  Right(p)'
<1>1. /\ stamp["new"] \in Nat /\ stamp["cur"] \in Nat /\ Latest \in Nat
      /\ Latest = IF stamp["new"] >= stamp["cur"] THEN stamp["new"] ELSE stamp["cur"]
  BY LatestFacts
<1>2. /\ stamp' \in [{"new", "cur"} -> Nat]
      /\ calm' => calm
      /\ stamp'["new"] >= stamp["new"] /\ stamp'["cur"] >= stamp["cur"]
      /\ "new" \in D /\ calm' => stamp'["new"] = Latest + 1
      /\ "cur" \in D /\ calm' => stamp'["cur"] = Latest + 1
      /\ "new" \notin D => stamp'["new"] = stamp["new"]
  BY TouchFacts
<1>3. /\ stamp'["new"] \in Nat /\ stamp'["cur"] \in Nat
      /\ Latest' = IF stamp'["new"] >= stamp'["cur"] THEN stamp'["new"] ELSE stamp'["cur"]
  BY <1>2, LatestOf DEF Latest
<1>4. p.maxtime \in Nat /\ p.seen \in Nat /\ p.maxtime <= Latest /\ p.seen <= stamp["new"]
  BY DEF Process, Right
<1>5. p.maxtime <= Latest' /\ p.seen <= stamp'["new"]
  BY <1>1, <1>2, <1>3, <1>4
<1>6. ASSUME calm'
      PROVE  /\ p.maxtime # Latest'
             /\ "new" \in D => stamp'["new"] # p.seen
  <2>1. "new" \in D \/ "cur" \in D
    OBVIOUS
  <2>2. Latest' > Latest
    BY <1>1, <1>2, <1>3, <1>6, <2>1
  <2>3. "new" \in D => stamp'["new"] > Latest /\ p.seen <= Latest
    BY <1>1, <1>2, <1>4, <1>6
  <2> QED
    BY <1>1, <1>3, <1>4, <2>2, <2>3
<1>7. ASSUME calm', stamp'["new"] = p.seen, p.pc = "stat", p.dir = 2
      PROVE  p.sum = Cardinality(In("new"))'
  <2>1. "new" \notin D /\ calm /\ stamp["new"] = p.seen
    BY <1>2, <1>6, <1>7
  <2>2. p.sum = Cardinality(In("new"))
    BY <1>7, <2>1 DEF Right
  <2> QED
    BY <2>1, <2>2
<1> QED
  BY <1>5, <1>6, <1>7 DEF Right

LEMMA CountStep ==
  ASSUME TypeOK, PlaceInv, CountInv, TypeOK', Next
  PROVE  CountInv'
<1>0. /\ \A u \in Tasks : Right(task[u]) /\ task[u] \in Process
      /\ \A u \in Tasks : task'[u] \in Process
  BY CountByTask, ProcessFacts DEF TypeOK
<1>1. ASSUME UNCHANGED <<place, stamp, calm>>, \A u \in Tasks : Right(task'[u])
      PROVE  CountInv'
  <2>1. Latest' = Latest /\ In("new")' = In("new") /\ Usage' = Usage
    BY <1>1 DEF Latest, In, Usage
  <2> QED
    BY <1>1, <2>1 DEF CountInv, Right
<1>2. ASSUME UNCHANGED <<place, stamp, calm>>, NEW t \in Tasks, NEW q, SetTask(t, q),
             Right(q)
      PROVE  CountInv'
  <2>1. \A u \in Tasks : task'[u] = IF u = t THEN q ELSE task[u]
    BY <1>2 DEF SetTask, TypeOK
  <2> QED
    BY <1>0, <1>1, <1>2, <2>1
<1>3. ASSUME NEW t \in Tasks, NEW p \in Process, p.kind \in KindsOf(t),
             p.seen <= stamp["new"],
             NEW q \in {Go(p), Refused(p), Count(p)}
      PROVE  Right(q)
  <2>1. CASE q = Go(p)
    <3>1. q.pc \in {"move", "append"} /\ q.maxtime = 0 /\ q.seen = 0
      BY <1>3, <2>1, NextProcess
    <3> QED
      BY <3>1, RightIdle, RightNotCounting
  <2>2. CASE q = Count(p)
    <3>1. q.pc = "stat" /\ q.dir = 1 /\ q.maxtime = 0 /\ q.seen = p.seen
      BY <1>3, <2>2, NextProcess
    <3> QED
      BY <1>3, <3>1, RightNotCounting
  <2>3. CASE q = Idle
    BY <2>3, RightIdle
  <2> QED
    BY <1>3, <2>1, <2>2, <2>3, NextProcess
<1>4. ASSUME NEW D \in SUBSET {"new", "cur"}, D # {}, Touch(D),
             "new" \notin D => In("new")' = In("new"),
             \A u \in Tasks : Right(task'[u])
      PROVE  CountInv'
  <2>1. ASSUME NEW u \in Tasks, NEW p \in Process, p = task'[u]
        PROVE  Right(p)'
    <3>1. Right(p)
      BY <1>4, <2>1
    <3> QED
      BY <1>4, <3>1, RightTouched
  <2> QED
    BY <1>0, <2>1 DEF CountInv, Right
<1>5. ASSUME NEW t \in Tasks, Deliver(t) \/ Deleted(t)
      PROVE  CountInv'
  <2>1. UNCHANGED <<place, stamp, calm>>
    BY <1>5 DEF Deliver, Deleted
  <2>2. PICK kind \in KindsOf(t) : SetTask(t, Open(kind))
    <3>1. CASE Deliver(t)
      BY <3>1 DEF Deliver, KindsOf
    <3>2. CASE Deleted(t)
      <4>1. task[t].pc = "deleted" => t[2] = "out"
        <5>1. ASSUME task[t].pc = "deleted"
              PROVE  t[2] = "out"
          <6>1. task[t].kind = "expunge" /\ task[t].kind \in KindsOf(t)
            BY <5>1, ProcessFacts DEF Finds
          <6> QED
            BY <6>1, Kept DEF KindsOf, Deliveries
        <5> QED
          BY <5>1
      <4> QED
        BY <3>2, <4>1 DEF Deleted, KindsOf, Removals
    <3> QED
      BY <1>5, <3>1, <3>2
  <2>3. Right(Open(kind))
    BY OpenFits, RightIdle, RightNotCounting
  <2> QED
    BY <1>2, <2>1, <2>2, <2>3
<1>6. ASSUME NEW t \in Tasks, Unlink(t)
      PROVE  CountInv'
  <2> DEFINE q == [Idle EXCEPT !.pc = "deleted", !.kind = "expunge"]
  <2>1. /\ place[t[1]] = "cur" /\ place' = [place EXCEPT ![t[1]] = "gone"]
        /\ Touch({"cur"}) /\ SetTask(t, q)
    BY <1>6 DEF Unlink
  <2>2. In("new")' = In("new")
    BY <2>1, Kept DEF In
  <2>3. q.pc = "deleted" /\ q.seen = 0 /\ q.maxtime = 0
    BY DEF Idle
  <2> HIDE DEF q
  <2>4. \A u \in Tasks : task'[u] = IF u = t THEN q ELSE task[u]
    BY <2>1 DEF SetTask, TypeOK
  <2>5. Right(q)
    BY <2>3, RightIdle, RightNotCounting
  <2> QED
    BY <1>0, <1>4, <2>1, <2>2, <2>4, <2>5
<1>7. ASSUME NEW t \in Tasks, Stat(t)
      PROVE  CountInv'
  <2> DEFINE p == task[t]
             tm == stamp[Dirs[p.dir]]
             q == [p EXCEPT !.pc = "read", !.maxtime = Max({@, tm}),
                            !.seen = IF p.dir = 1 THEN tm ELSE @]
  <2>1. p.pc = "stat" /\ SetTask(t, q) /\ UNCHANGED <<place, stamp, calm>>
    BY <1>7 DEF Stat
  <2>2. p \in Process /\ Fits(t, p) /\ Right(p)
    BY <1>0, ProcessFacts
  <2>3. p.dir \in {1, 2} /\ p.maxtime \in Nat /\ p.seen \in Nat
    BY <2>1, <2>2, DirFacts DEF Fits, Process
  <2>4. /\ tm = IF p.dir = 1 THEN stamp["new"] ELSE stamp["cur"]
        /\ tm \in Nat /\ tm <= Latest /\ Latest \in Nat /\ stamp["new"] \in Nat
    BY <2>3, DirFacts, LatestFacts
  <2>5. Max({p.maxtime, tm}) = IF p.maxtime >= tm THEN p.maxtime ELSE tm
    BY <2>3, <2>4, MaxFacts
  <2>6. /\ q.pc = "read" /\ q.dir = p.dir /\ q.sum = p.sum
        /\ q.maxtime = IF p.maxtime >= tm THEN p.maxtime ELSE tm
        /\ q.seen = IF p.dir = 1 THEN tm ELSE p.seen
    BY <2>2, <2>5 DEF Process
  <2> HIDE DEF q, tm
  <2>7. q.maxtime <= Latest /\ q.seen <= stamp["new"]
    BY <2>2, <2>3, <2>4, <2>6 DEF Right
  <2>8. ASSUME calm, stamp["new"] = q.seen, q.dir = 2
        PROVE  q.sum = Cardinality(In("new"))
    <3>1. p.dir = 2 /\ q.seen = p.seen
      BY <2>6, <2>8
    <3> QED
      BY <2>1, <2>2, <2>6, <2>8, <3>1 DEF Right
  <2>9. Right(q)
    BY <2>6, <2>7, <2>8 DEF Right
  <2> QED
    BY <1>2, <2>1, <2>9
<1>8. ASSUME NEW t \in Tasks, Read(t)
      PROVE  CountInv'
  <2> DEFINE p == task[t]
             sum == p.sum + Cardinality(In(Dirs[p.dir]))
             r == [p EXCEPT !.pc = "stat", !.sum = sum, !.dir = @ + 1]
             q == [p EXCEPT !.pc = "rename", !.sum = sum, !.dir = 0]
  <2>1. /\ p.pc = "read" /\ SetTask(t, IF p.dir < Len(Dirs) THEN r ELSE q)
        /\ UNCHANGED <<place, stamp, calm>>
    BY <1>8 DEF Read
  <2>2. p \in Process /\ Fits(t, p) /\ Right(p)
    BY <1>0, ProcessFacts
  <2>3. p.dir \in {1, 2}
    BY <2>1, <2>2, DirFacts DEF Fits, Process
  <2>4. CASE p.dir = 1
    <3>1. /\ r.pc = "stat" /\ r.dir = 2 /\ r.sum = p.sum + Cardinality(In("new"))
          /\ r.maxtime = p.maxtime /\ r.seen = p.seen
      BY <2>2, <2>4, DirFacts DEF Process
    <3>2. p.sum = 0 /\ Cardinality(In("new")) \in Nat
      BY <2>2, <2>4, InFacts DEF Fits
    <3>3. SetTask(t, r)
      BY <2>1, <2>4, DirFacts
    <3> HIDE DEF r
    <3>4. Right(r)
      BY <2>2, <3>1, <3>2 DEF Right
    <3> QED
      BY <1>2, <2>1, <3>3, <3>4
  <2>5. CASE p.dir = 2
    <3>1. /\ q.pc = "rename" /\ q.sum = p.sum + Cardinality(In("cur"))
          /\ q.maxtime = p.maxtime /\ q.seen = p.seen
      BY <2>2, <2>5, DirFacts DEF Process
    <3>2. Usage = Cardinality(In("new")) + Cardinality(In("cur"))
      BY UsageSum
    <3>3. SetTask(t, q)
      BY <2>1, <2>5, DirFacts
    <3> HIDE DEF q
    <3>4. Right(q)
      BY <2>1, <2>2, <2>5, <3>1, <3>2 DEF Right
    <3> QED
      BY <1>2, <2>1, <3>3, <3>4
  <2> QED
    BY <2>3, <2>4, <2>5
<1>9. ASSUME NEW t \in Tasks, Rename(t)
      PROVE  CountInv'
  <2>1. /\ task[t].pc = "rename" /\ UNCHANGED <<place, stamp, calm>>
        /\ task' = [u \in Tasks |->
             IF u = t THEN [task[u] EXCEPT !.pc = "restat", !.fd = "current"]
             ELSE IF task[u].fd = "current" THEN [task[u] EXCEPT !.fd = "replaced"]
             ELSE task[u]]
    BY <1>9 DEF Rename
  <2>2. ASSUME NEW u \in Tasks
        PROVE  Right(task'[u])
    <3>1. task[u] \in Process /\ Right(task[u])
      BY <1>0
    <3>2. /\ task'[u].maxtime = task[u].maxtime /\ task'[u].seen = task[u].seen
          /\ task'[u].dir = task[u].dir /\ task'[u].sum = task[u].sum
          /\ task'[u].pc = IF u = t THEN "restat" ELSE task[u].pc
      BY <2>1, <3>1 DEF Process
    <3>3. task[t].pc = "rename"
      BY <2>1
    <3> QED
      BY <3>1, <3>2, <3>3 DEF Right
  <2> QED
    BY <1>1, <2>1, <2>2
<1>10. ASSUME NEW t \in Tasks,
              \/ Check(t) \/ NoQuota(t)
              \/ CountFails(t) \/ Accept(t) \/ CountAgain(t) \/ Punt(t)
       PROVE  CountInv'
  <2> DEFINE p == task[t]
             again == [p EXCEPT !.tries = @ + 1]
             punted == [p EXCEPT !.fd = "none"]
  <2>1. UNCHANGED <<place, stamp, calm>>
    BY <1>10, CheckCases DEF NoQuota, CountFails, Accept, CountAgain, Punt
  <2>2. p.pc \in {"opened", "rename", "restat"}
    BY <1>10, CheckCases DEF NoQuota, CountFails, Accept, CountAgain, Punt
  <2>3. /\ p \in Process /\ p.kind \in KindsOf(t) /\ p.seen <= stamp["new"]
    BY <1>0, <2>2, ProcessFacts DEF Right
  <2>4. PICK q : /\ SetTask(t, q)
                 /\ \/ q \in {Go(p), Refused(p), Count(p), Go(punted)}
                    \/ q = Count(again) /\ p.tries + 1 < MaxTries
    <3>1. CASE CountFails(t)
      BY <3>1 DEF CountFails
    <3>2. CASE Accept(t)
      BY <3>2 DEF Accept
    <3>3. CASE CountAgain(t)
      BY <3>3 DEF CountAgain
    <3>4. CASE Punt(t)
      BY <3>4 DEF Punt
    <3>5. CASE Check(t)
      BY <3>5, CheckCases
    <3>6. CASE NoQuota(t)
      BY <3>6 DEF NoQuota
    <3> QED
      BY <1>10, <3>1, <3>2, <3>3, <3>4, <3>5, <3>6
  <2>5. punted \in Process /\ punted.kind = p.kind /\ punted.seen = p.seen
    BY <2>3 DEF Process
  <2>6. ASSUME p.tries + 1 < MaxTries
        PROVE  again \in Process /\ again.kind = p.kind /\ again.seen = p.seen
    <3>1. p.tries \in Nat /\ MaxTries \in Nat
      BY <2>3, QuotaAssumption DEF Process
    <3> QED
      BY <2>3, <2>6, <3>1 DEF Process
  <2> HIDE DEF again, punted
  <2>7. Right(q)
    <3>1. CASE q \in {Go(p), Refused(p), Count(p)}
      BY <1>3, <2>3, <3>1
    <3>2. CASE q = Go(punted)
      BY <1>3, <2>3, <2>5, <3>2
    <3>3. CASE q = Count(again) /\ p.tries + 1 < MaxTries
      BY <1>3, <2>3, <2>6, <3>3
    <3> QED
      BY <2>4, <3>1, <3>2, <3>3
  <2> QED
    BY <1>2, <2>1, <2>4, <2>7
<1>11. ASSUME NEW t \in Tasks, Move(t)
       PROVE  CountInv'
  <2> DEFINE p == task[t]
             q == IF p.kind = "after" THEN [p EXCEPT !.pc = "append"] ELSE Idle
  <2>1. /\ p.pc = "move" /\ SetTask(t, q)
        /\ \/ /\ p.kind \in Deliveries
              /\ place' = [place EXCEPT ![t[1]] = "new"] /\ Touch({"new"})
           \/ /\ p.kind = "trash"
              /\ place' = [place EXCEPT ![t[1]] = "gone"] /\ Touch({"cur"})
    BY <1>11 DEF Move
  <2>2. p \in Process /\ Right(p) /\ Finds(t, p, place[t[1]])
    BY <1>0, ProcessFacts
  <2>3. Right(q)
    <3>1. CASE p.kind = "after"
      <4>1. q.pc = "append" /\ q.maxtime = p.maxtime /\ q.seen = p.seen
        BY <2>2, <3>1 DEF Process
      <4> HIDE DEF q
      <4> QED
        BY <2>2, <4>1 DEF Right
    <3>2. CASE p.kind # "after"
      BY <3>2, RightIdle
    <3> QED
      BY <3>1, <3>2
  <2> HIDE DEF q
  <2>4. \A u \in Tasks : task'[u] = IF u = t THEN q ELSE task[u]
    BY <2>1 DEF SetTask, TypeOK
  <2>5. \A u \in Tasks : Right(task'[u])
    BY <1>0, <2>3, <2>4
  <2>6. CASE Touch({"new"})
    BY <1>4, <2>5, <2>6
  <2>7. CASE /\ p.kind = "trash" /\ Touch({"cur"})
             /\ place' = [place EXCEPT ![t[1]] = "gone"]
    <3>1. place[t[1]] = "cur"
      BY <2>2, <2>7 DEF Finds
    <3>2. In("new")' = In("new")
      BY <2>7, <3>1, Kept DEF In
    <3> QED
      BY <1>4, <2>5, <2>7, <3>2
  <2> QED
    BY <2>1, <2>6, <2>7
<1>12. ASSUME NEW t \in Tasks, AddQuota(t) \/ AppendFails(t)
       PROVE  CountInv'
  <2> DEFINE p == task[t]
             q == Closed(p)
  <2>1. SetTask(t, q) /\ UNCHANGED <<place, stamp, calm>>
    BY <1>12 DEF AddQuota, AppendFails
  <2>2. p \in Process /\ Right(p)
    BY <1>0
  <2>3. Right(q)
    <3>1. CASE p.kind \in {"before", "trash"}
      <4>1. q.pc = "move" /\ q.maxtime = p.maxtime /\ q.seen = p.seen
        BY <2>2, <3>1 DEF Process, Closed
      <4> HIDE DEF q
      <4> QED
        BY <2>2, <4>1 DEF Right
    <3>2. CASE p.kind \notin {"before", "trash"}
      BY <3>2, RightIdle DEF Closed
    <3> QED
      BY <3>1, <3>2
  <2> QED
    BY <1>2, <2>1, <2>3
<1>13. ASSUME NEW m \in Msgs, Seen(m) \/ RemovedUnseen(m)
       PROVE  CountInv'
  <2>1. UNCHANGED task
    BY <1>13 DEF Seen, RemovedUnseen
  <2>2. CASE Seen(m)
    <3>1. Touch({"new", "cur"})
      BY <2>2 DEF Seen
    <3> QED
      BY <1>0, <1>4, <2>1, <3>1
  <2>3. CASE RemovedUnseen(m)
    <3>1. /\ Touch({"cur"}) /\ place[m] = "cur"
          /\ place' = [place EXCEPT ![m] = "gone"]
      BY <2>3 DEF RemovedUnseen
    <3>2. In("new")' = In("new")
      BY <3>1, Kept DEF In
    <3> QED
      BY <1>0, <1>4, <2>1, <3>1, <3>2
  <2> QED
    BY <1>13, <2>2, <2>3
<1>14. ASSUME Age
       PROVE  CountInv'
  BY <1>0, <1>1, <1>14 DEF Age
<1>15. ASSUME NEW t \in Tasks, Crash(t)
       PROVE  CountInv'
  <2>1. SetTask(t, Idle) /\ UNCHANGED <<place, stamp, calm>>
    BY <1>15 DEF Crash
  <2>2. Right(Idle)
    BY RightIdle
  <2> QED
    BY <1>2, <2>1, <2>2
<1> QED
  BY <1>5, <1>6, <1>7, <1>8, <1>9, <1>10, <1>11, <1>12, <1>13, <1>14, <1>15
     DEF Next, Step

--------------------------------------------------------------------------
(* The total.                                                              *)

LEMMA TasksFinite ==
  ASSUME NEW T \in SUBSET Tasks
  PROVE  IsFiniteSet(T) /\ Cardinality(T) \in Nat
<1>1. IsFiniteSet({"in", "out"})
  <2>1. IsFiniteSet({} \cup {"in"})
    BY FS_EmptySet, FS_AddElement
  <2>2. IsFiniteSet(({} \cup {"in"}) \cup {"out"})
    BY <2>1, FS_AddElement
  <2>3. {"in", "out"} = ({} \cup {"in"}) \cup {"out"}
    OBVIOUS
  <2> QED
    BY <2>2, <2>3
<1>2. IsFiniteSet(Tasks)
  BY <1>1, FS_Product, QuotaAssumption DEF Tasks
<1>3. IsFiniteSet(T)
  BY <1>2, FS_Subset
<1> QED
  BY <1>3, FS_CardinalityType

\* One task more adds what it adds.
LEMMA NetAdd ==
  ASSUME NEW T \in SUBSET Tasks, NEW t \in Tasks, t \notin T
  PROVE  Net(T) \in Int /\ Net(T \cup {t}) = Net(T) + Delta(t)
<1> DEFINE I(S) == {u \in S : u[2] = "in"}
           O(S) == {u \in S : u[2] = "out"}
<1>1. t[2] \in {"in", "out"}
  BY DEF Tasks
<1>2. I(T) \in SUBSET Tasks /\ O(T) \in SUBSET Tasks
  OBVIOUS
<1>3. /\ IsFiniteSet(I(T)) /\ IsFiniteSet(O(T))
      /\ Cardinality(I(T)) \in Nat /\ Cardinality(O(T)) \in Nat
  BY <1>2, TasksFinite
<1>4. Net(T) = Cardinality(I(T)) - Cardinality(O(T))
  BY DEF Net
<1>5. Net(T \cup {t}) = Cardinality(I(T \cup {t})) - Cardinality(O(T \cup {t}))
  BY DEF Net
<1>6. CASE t[2] = "in"
  <2>1. I(T \cup {t}) = I(T) \cup {t} /\ O(T \cup {t}) = O(T) /\ t \notin I(T)
    BY <1>6
  <2> HIDE DEF I, O
  <2>2. Cardinality(I(T) \cup {t}) = Cardinality(I(T)) + 1
    BY <1>3, <2>1, FS_AddElement
  <2>3. /\ Cardinality(I(T \cup {t})) = Cardinality(I(T)) + 1
        /\ Cardinality(O(T \cup {t})) = Cardinality(O(T))
    BY <2>1, <2>2
  <2>4. Net(T) \in Int /\ Net(T \cup {t}) = Net(T) + 1
    BY <1>3, <1>4, <1>5, <2>3
  <2>5. Delta(t) = 1
    BY <1>6 DEF Delta
  <2> QED
    BY <2>4, <2>5
<1>7. CASE t[2] = "out"
  <2>1. O(T \cup {t}) = O(T) \cup {t} /\ I(T \cup {t}) = I(T) /\ t \notin O(T)
    BY <1>7
  <2> HIDE DEF I, O
  <2>2. Cardinality(O(T) \cup {t}) = Cardinality(O(T)) + 1
    BY <1>3, <2>1, FS_AddElement
  <2>3. /\ Cardinality(O(T \cup {t})) = Cardinality(O(T)) + 1
        /\ Cardinality(I(T \cup {t})) = Cardinality(I(T))
    BY <2>1, <2>2
  <2>4. Net(T) + Delta(t) = Net(T) - 1
    <3>1. Net(T) \in Int
      BY <1>3, <1>4
    <3> QED
      BY <1>7, <3>1 DEF Delta
  <2>5. Net(T) \in Int /\ Net(T \cup {t}) = Net(T) - 1
    BY <1>3, <1>4, <1>5, <2>3
  <2> QED
    BY <2>4, <2>5
<1> QED
  BY <1>1, <1>6, <1>7

Value(b, t) == IF b THEN Delta(t) ELSE 0

\* Sets of tasks that differ in t only.
LEMMA NetChange ==
  ASSUME NEW T \in SUBSET Tasks, NEW S \in SUBSET Tasks, NEW t \in Tasks,
         T \ {t} = S \ {t}
  PROVE  /\ Net(T) \in Int /\ Net(S) \in Int
         /\ Net(S) - Net(T) = Value(t \in S, t) - Value(t \in T, t)
<1> DEFINE R == T \ {t}
<1>1. /\ Net(R) \in Int /\ Net(R \cup {t}) = Net(R) + Delta(t)
      /\ Delta(t) \in Int
  BY NetAdd DEF Delta
<1>2. /\ T = IF t \in T THEN R \cup {t} ELSE R
      /\ S = IF t \in S THEN R \cup {t} ELSE R
  OBVIOUS
<1> HIDE DEF R
<1>3. /\ Net(T) = IF t \in T THEN Net(R) + Delta(t) ELSE Net(R)
      /\ Net(S) = IF t \in S THEN Net(R) + Delta(t) ELSE Net(R)
  BY <1>1, <1>2
<1> QED
  BY <1>1, <1>3 DEF Value

\* How many messages there are, after one of them has changed its place.
LEMMA UsageChange ==
  ASSUME TypeOK, NEW m \in Msgs, NEW w \in {"none", "new", "cur", "gone"},
         place' = [place EXCEPT ![m] = w]
  PROVE  /\ Usage \in Nat
         /\ place[m] = "none" /\ w = "new" => Usage' = Usage + 1
         /\ place[m] = "cur" /\ w = "gone" => Usage' = Usage - 1
         /\ place[m] = "new" /\ w = "cur" => Usage' = Usage
<1> DEFINE B == In("new") \cup In("cur")
           C == {k \in Msgs : place'[k] \in {"new", "cur"}}
<1>1. /\ B = {k \in Msgs : place[k] \in {"new", "cur"}}
      /\ (In("new") \cup In("cur"))' = C
  BY DEF In
<1>2. IsFiniteSet(B) /\ IsFiniteSet(C) /\ Cardinality(B) \in Nat
  BY <1>1, QuotaAssumption, FS_Subset, FS_CardinalityType
<1>3. \A k \in Msgs : place'[k] = IF k = m THEN w ELSE place[k]
  BY Kept
<1>4. Usage = Cardinality(B) /\ Usage' = Cardinality(C)
  BY <1>1 DEF Usage
<1>5. ASSUME place[m] = "none", w = "new"
      PROVE  Usage' = Usage + 1
  <2>1. C = B \cup {m} /\ m \notin B
    BY <1>1, <1>3, <1>5
  <2> HIDE DEF B, C
  <2> QED
    BY <1>2, <1>4, <2>1, FS_AddElement
<1>6. ASSUME place[m] = "cur", w = "gone"
      PROVE  Usage' = Usage - 1
  <2>1. C = B \ {m} /\ m \in B
    BY <1>1, <1>3, <1>6
  <2> HIDE DEF B, C
  <2> QED
    BY <1>2, <1>4, <2>1, FS_RemoveElement
<1>7. ASSUME place[m] = "new", w = "cur"
      PROVE  Usage' = Usage
  <2>1. C = B
    BY <1>1, <1>3, <1>7
  <2> HIDE DEF B, C
  <2> QED
    BY <1>4, <2>1
<1> QED
  BY <1>2, <1>4, <1>5, <1>6, <1>7

Writes(p) ==
    \/ p.pc = "deleted"
    \/ p.fd = "current" /\ (p.kind \in Removals \/ p.pc \in {"move", "append"})
Moves(p) ==
    \/ p.kind = "trash"
    \/ p.kind = "after" /\ p.pc = "move"
    \/ p.kind = "before" /\ p.pc \in {"append", "move"}

\* A step of one task leaves Drift as it is, if what it does now and what it is
\* going to do are together the same.
LEMMA DriftKept ==
  ASSUME TypeOK, NEW t \in Tasks, NEW q, SetTask(t, q),
         Usage \in Int, Usage' \in Int, file'.sum \in Int,
         file'.sum - Usage' + Value(Writes(q), t) - Value(Moves(q), t)
           = file.sum - Usage + Value(Writes(task[t]), t) - Value(Moves(task[t]), t)
  PROVE  Drift' = Drift
<1> DEFINE W == {u \in Tasks : Writes(task[u])}
           M == {u \in Tasks : Moves(task[u])}
           V == {u \in Tasks : Writes(task'[u])}
           N == {u \in Tasks : Moves(task'[u])}
<1>1. \A u \in Tasks : task'[u] = IF u = t THEN q ELSE task[u]
  BY DEF SetTask, TypeOK
<1>2. W \ {t} = V \ {t} /\ M \ {t} = N \ {t}
  BY <1>1
<1>3. /\ t \in W <=> Writes(task[t])
      /\ t \in V <=> Writes(q)
      /\ t \in M <=> Moves(task[t])
      /\ t \in N <=> Moves(q)
  BY <1>1
<1>4. /\ Net(W) \in Int /\ Net(V) \in Int /\ Net(M) \in Int /\ Net(N) \in Int
      /\ Net(V) - Net(W) = Value(t \in V, t) - Value(t \in W, t)
      /\ Net(N) - Net(M) = Value(t \in N, t) - Value(t \in M, t)
  BY <1>2, NetChange
<1>5. /\ Drift = file.sum - Usage + Net(W) - Net(M)
      /\ Drift' = file'.sum - Usage' + Net(V) - Net(N)
  BY DEF Drift, Unwritten, Unmoved, Writes, Moves, Net
<1> HIDE DEF W, V, M, N
<1>6. file.sum \in Int
  BY Kept
<1>7. /\ Value(Writes(q), t) \in Int /\ Value(Writes(task[t]), t) \in Int
      /\ Value(Moves(q), t) \in Int /\ Value(Moves(task[t]), t) \in Int
  BY DEF Value, Delta
<1>8. /\ Net(V) - Net(W) = Value(Writes(q), t) - Value(Writes(task[t]), t)
      /\ Net(N) - Net(M) = Value(Moves(q), t) - Value(Moves(task[t]), t)
  BY <1>3, <1>4 DEF Value
<1> DEFINE a == file.sum - Usage
           b == file'.sum - Usage'
           w1 == Net(W) w2 == Net(V) n1 == Net(M) n2 == Net(N)
           x1 == Value(Writes(task[t]), t) x2 == Value(Writes(q), t)
           y1 == Value(Moves(task[t]), t)  y2 == Value(Moves(q), t)
<1>9. a \in Int /\ b \in Int
  BY <1>6
<1>10. /\ w1 \in Int /\ w2 \in Int /\ n1 \in Int /\ n2 \in Int
       /\ x1 \in Int /\ x2 \in Int /\ y1 \in Int /\ y2 \in Int
       /\ w2 - w1 = x2 - x1 /\ n2 - n1 = y2 - y1
       /\ b + x2 - y2 = a + x1 - y1
  BY <1>4, <1>7, <1>8
<1>11. Drift = a + w1 - n1 /\ Drift' = b + w2 - n2
  BY <1>5
<1> HIDE DEF a, b, w1, w2, n1, n2, x1, x2, y1, y2
<1> QED
  BY <1>9, <1>10, <1>11

LEMMA UsageInt == TypeOK => Usage \in Int
<1>1. ASSUME TypeOK
      PROVE  Usage \in Int
  <2>1. Cardinality(In("new")) \in Nat /\ Cardinality(In("cur")) \in Nat
    BY <1>1, InFacts
  <2> QED
    BY <1>1, <2>1, UsageSum
<1> QED
  BY <1>1

\* A step that changes neither the file nor a message.
LEMMA DriftStill ==
  ASSUME TypeOK, NEW t \in Tasks, NEW q, SetTask(t, q), UNCHANGED <<place, file>>,
         \/ (Writes(q) <=> Writes(task[t])) /\ (Moves(q) <=> Moves(task[t]))
         \/ (Writes(q) <=> Moves(q)) /\ (Writes(task[t]) <=> Moves(task[t]))
  PROVE  Drift' = Drift
<1>1. Usage' = Usage /\ file'.sum = file.sum
  BY DEF Usage, In
<1>2. Usage \in Int /\ file.sum \in Int
  BY UsageInt, Kept
<1>3. /\ Value(Writes(q), t) \in Int /\ Value(Writes(task[t]), t) \in Int
      /\ Value(Moves(q), t) \in Int /\ Value(Moves(task[t]), t) \in Int
  BY DEF Value, Delta
<1>4. \/ /\ Value(Writes(q), t) = Value(Writes(task[t]), t)
         /\ Value(Moves(q), t) = Value(Moves(task[t]), t)
      \/ /\ Value(Writes(q), t) = Value(Moves(q), t)
         /\ Value(Writes(task[t]), t) = Value(Moves(task[t]), t)
  BY DEF Value
<1>5. file'.sum - Usage' + Value(Writes(q), t) - Value(Moves(q), t)
        = file.sum - Usage + Value(Writes(task[t]), t) - Value(Moves(task[t]), t)
  BY <1>1, <1>2, <1>3, <1>4
<1> QED
  BY <1>1, <1>2, <1>5, DriftKept

\* What the process writes and moves when it opens the file, goes on or counts.
LEMMA NextWrites ==
  ASSUME NEW t \in Tasks, NEW p \in Process, p.kind \in KindsOf(t), p.fd = "current",
         NEW q \in {Go(p), Refused(p), Count(p)}
  PROVE  /\ p.kind \in Deliveries => (Writes(q) <=> Moves(q))
         /\ p.kind = "trash" => Writes(q) /\ Moves(q)
         /\ p.kind = "expunge" => Writes(q) /\ ~ Moves(q)
<1>1. p.kind \in Deliveries \cup Removals
  BY DEF KindsOf
<1>2. ~ Writes(Idle) /\ ~ Moves(Idle)
  BY DEF Writes, Moves, Idle
<1>3. CASE q = Go(p)
  <2>1. /\ q.pc = (IF p.kind = "after" THEN "move" ELSE "append")
        /\ q.kind = p.kind /\ q.fd = "current"
    BY <1>3, NextProcess
  <2> QED
    BY <1>1, <2>1 DEF Writes, Moves, Deliveries, Removals
<1>4. CASE q = Count(p)
  <2>1. q.pc = "stat" /\ q.kind = p.kind /\ q.fd = "current"
    BY <1>4, NextProcess
  <2> QED
    BY <1>1, <2>1 DEF Writes, Moves, Deliveries, Removals
<1>5. CASE q = Refused(p)
  <2>1. q = IF p.kind \in Removals THEN Go(p) ELSE Idle
    BY <1>5, NextProcess
  <2> QED
    BY <1>1, <1>2, <1>3, <2>1 DEF Deliveries, Removals
<1> QED
  BY <1>3, <1>4, <1>5

LEMMA DriftStep ==
  ASSUME TypeOK, PlaceInv, TypeOK', Next,
         \A t \in Tasks : ~ (Rename(t) \/ NoQuota(t) \/ Punt(t)),
         \A t \in Tasks : ~ (CountFails(t) \/ AppendFails(t) \/ Crash(t)),
         \A t \in Tasks : ~ (Accept(t) /\ task[t].fd # "current"),
         \A m \in Msgs : ~ RemovedUnseen(m)
  PROVE  Drift' = Drift
<1>0. ~ Writes(Idle) /\ ~ Moves(Idle)
  BY DEF Writes, Moves, Idle
<1>1. ASSUME NEW t \in Tasks, Deliver(t)
      PROVE  Drift' = Drift
  <2>1. PICK kind \in Deliveries : SetTask(t, Open(kind))
    BY <1>1 DEF Deliver
  <2>2. kind \in KindsOf(t) /\ task[t] = Idle /\ UNCHANGED <<place, file>>
    BY <1>1, ProcessFacts DEF Deliver, KindsOf
  <2>3. Open(kind).pc = "opened" /\ Open(kind).kind = kind
    BY <2>2, OpenFits
  <2>4. ~ Writes(Open(kind)) /\ ~ Moves(Open(kind))
    BY <2>1, <2>3 DEF Writes, Moves, Deliveries, Removals
  <2> QED
    BY <1>0, <2>1, <2>2, <2>4, DriftStill
<1>2. ASSUME NEW t \in Tasks, Deleted(t)
      PROVE  Drift' = Drift
  <2>1. UNCHANGED <<place, file>>
    BY <1>2 DEF Deleted
  <2>2. CASE task[t].pc = "deleted" /\ SetTask(t, Open("expunge"))
    <3>1. task[t].kind = "expunge" /\ "expunge" \in KindsOf(t)
      BY <2>2, ProcessFacts DEF Finds
    <3>2. Writes(task[t]) /\ ~ Moves(task[t])
      BY <2>2, <3>1 DEF Writes, Moves
    <3>3. Writes(Open("expunge")) /\ ~ Moves(Open("expunge"))
      BY <3>1, OpenFits DEF Writes, Moves, Removals
    <3> QED
      BY <2>1, <2>2, <3>2, <3>3, DriftStill
  <2>3. CASE /\ t[2] = "out" /\ task[t].pc = "idle"
             /\ SetTask(t, Open("trash"))
    <3>1. task[t] = Idle /\ "trash" \in KindsOf(t)
      BY <2>3, ProcessFacts DEF KindsOf, Removals
    <3>2. Writes(Open("trash")) /\ Moves(Open("trash"))
      BY <3>1, OpenFits DEF Writes, Moves, Removals
    <3> QED
      BY <1>0, <2>1, <2>3, <3>1, <3>2, DriftStill
  <2> QED
    BY <1>2, <2>2, <2>3 DEF Deleted
<1>3. ASSUME NEW t \in Tasks, Unlink(t)
      PROVE  Drift' = Drift
  <2> DEFINE q == [Idle EXCEPT !.pc = "deleted", !.kind = "expunge"]
  <2>1. /\ t[2] = "out" /\ task[t] = Idle /\ place[t[1]] = "cur"
        /\ place' = [place EXCEPT ![t[1]] = "gone"] /\ SetTask(t, q)
        /\ file' = file
    BY <1>3, ProcessFacts DEF Unlink
  <2>2. Writes(q) /\ ~ Moves(q)
    BY DEF Writes, Moves, Idle
  <2> HIDE DEF q
  <2>3. Usage \in Nat /\ Usage' = Usage - 1
    BY <2>1, Kept, UsageChange
  <2>4. /\ Value(Writes(q), t) = -1 /\ Value(Moves(q), t) = 0
        /\ Value(Writes(task[t]), t) = 0 /\ Value(Moves(task[t]), t) = 0
    BY <1>0, <2>1, <2>2 DEF Value, Delta
  <2>5. file.sum \in Int /\ file'.sum = file.sum
    BY <2>1, Kept
  <2>6. /\ Usage \in Int /\ Usage' \in Int
        /\ file'.sum - Usage' + Value(Writes(q), t) - Value(Moves(q), t)
             = file.sum - Usage + Value(Writes(task[t]), t) - Value(Moves(task[t]), t)
    BY <2>3, <2>4, <2>5
  <2> QED
    BY <2>1, <2>5, <2>6, DriftKept
<1>4. ASSUME NEW t \in Tasks, Stat(t) \/ Read(t)
      PROVE  Drift' = Drift
  <2> DEFINE p == task[t]
  <2>1. p \in Process /\ p.pc \in {"stat", "read"} /\ UNCHANGED <<place, file>>
    BY <1>4, ProcessFacts DEF Stat, Read
  <2>2. PICK q : /\ SetTask(t, q) /\ q.kind = p.kind /\ q.fd = p.fd
                 /\ q.pc \in {"stat", "read", "rename"}
    <3> DEFINE tm == stamp[Dirs[p.dir]]
               sum == p.sum + Cardinality(In(Dirs[p.dir]))
               next == [p EXCEPT !.pc = "read", !.maxtime = Max({@, tm}),
                                 !.seen = IF p.dir = 1 THEN tm ELSE @]
               first == [p EXCEPT !.pc = "stat", !.sum = sum, !.dir = @ + 1]
               last == [p EXCEPT !.pc = "rename", !.sum = sum, !.dir = 0]
    <3>1. CASE Stat(t)
      <4>1. SetTask(t, next)
        BY <3>1 DEF Stat
      <4>2. next.kind = p.kind /\ next.fd = p.fd /\ next.pc = "read"
        BY <2>1 DEF Process
      <4> HIDE DEF next
      <4> QED
        BY <4>1, <4>2
    <3>2. CASE Read(t)
      <4>1. SetTask(t, first) \/ SetTask(t, last)
        BY <3>2 DEF Read
      <4>2. /\ first.kind = p.kind /\ first.fd = p.fd /\ first.pc = "stat"
            /\ last.kind = p.kind /\ last.fd = p.fd /\ last.pc = "rename"
        BY <2>1 DEF Process
      <4> HIDE DEF first, last
      <4> QED
        BY <4>1, <4>2
    <3> QED
      BY <1>4, <3>1, <3>2
  <2>3. (Writes(q) <=> Writes(p)) /\ (Moves(q) <=> Moves(p))
    BY <2>1, <2>2 DEF Writes, Moves
  <2> QED
    BY <2>1, <2>2, <2>3, DriftStill
<1>5. ASSUME NEW t \in Tasks, Check(t) \/ Accept(t)
      PROVE  Drift' = Drift
  <2> DEFINE p == task[t]
  <2>1. /\ p \in Process /\ p.kind \in KindsOf(t) /\ p.pc \in {"opened", "restat"}
        /\ p.fd = "current" /\ UNCHANGED <<place, file>>
    <3>1. CASE Check(t)
      BY <3>1, CheckCases, ProcessFacts
    <3>2. CASE Accept(t)
      BY <3>2, ProcessFacts DEF Accept
    <3> QED
      BY <1>5, <3>1, <3>2
  <2>2. PICK q \in {Go(p), Refused(p), Count(p)} : SetTask(t, q)
    BY <1>5, CheckCases DEF Accept
  <2>3. /\ p.kind \in Deliveries => (Writes(q) <=> Moves(q))
        /\ p.kind = "trash" => Writes(q) /\ Moves(q)
        /\ p.kind = "expunge" => Writes(q) /\ ~ Moves(q)
    BY <2>1, <2>2, NextWrites
  <2>4. /\ p.kind \in Deliveries => ~ Writes(p) /\ ~ Moves(p)
        /\ p.kind = "trash" => Writes(p) /\ Moves(p)
        /\ p.kind = "expunge" => Writes(p) /\ ~ Moves(p)
    BY <2>1 DEF Writes, Moves, Deliveries, Removals
  <2>5. p.kind \in Deliveries \cup Removals
    BY <2>1 DEF KindsOf
  <2> QED
    BY <2>1, <2>2, <2>3, <2>4, <2>5, DriftStill DEF Removals
<1>6. ASSUME NEW t \in Tasks, CountAgain(t)
      PROVE  Drift' = Drift
  <2> DEFINE p == task[t]
             r == [p EXCEPT !.tries = @ + 1]
  <2>1. /\ p \in Process /\ p.kind \in KindsOf(t) /\ p.pc = "restat"
        /\ UNCHANGED <<place, file>>
        /\ SetTask(t, IF p.kind \in Removals THEN Go(p) ELSE Count(r))
    BY <1>6, ProcessFacts DEF CountAgain
  <2>2. CASE p.kind \in Removals
    <3>1. Go(p).pc = "append" /\ Go(p).kind = p.kind /\ Go(p).fd = p.fd
      BY <2>1, <2>2, NextProcess DEF Removals
    <3>2. (Writes(Go(p)) <=> Writes(p)) /\ (Moves(Go(p)) <=> Moves(p))
      BY <2>1, <2>2, <3>1 DEF Writes, Moves, Removals
    <3> QED
      BY <2>1, <2>2, <3>2, DriftStill
  <2>3. CASE p.kind \notin Removals
    <3>1. p.kind \in Deliveries
      BY <2>1, <2>3 DEF KindsOf
    <3>2. Count(r).pc = "stat" /\ Count(r).kind = p.kind /\ Count(r).fd = p.fd
      BY <2>1 DEF Count, Process
    <3>3. (Writes(Count(r)) <=> Writes(p)) /\ (Moves(Count(r)) <=> Moves(p))
      BY <2>1, <2>3, <3>1, <3>2 DEF Writes, Moves, Deliveries
    <3> QED
      BY <2>1, <2>3, <3>3, DriftStill
  <2> QED
    BY <2>2, <2>3
<1>7. ASSUME NEW t \in Tasks, Move(t)
      PROVE  Drift' = Drift
  <2> DEFINE p == task[t]
             q == IF p.kind = "after" THEN [p EXCEPT !.pc = "append"] ELSE Idle
  <2>1. /\ p.pc = "move" /\ SetTask(t, q) /\ file' = file
        /\ \/ /\ p.kind \in Deliveries
              /\ place' = [place EXCEPT ![t[1]] = "new"]
           \/ /\ p.kind = "trash"
              /\ place' = [place EXCEPT ![t[1]] = "gone"]
    BY <1>7 DEF Move
  <2>2. p \in Process /\ Finds(t, p, place[t[1]]) /\ p.kind \in KindsOf(t)
    BY <2>1, ProcessFacts
  <2>3. p.kind \in Deliveries <=> t[2] = "in"
    BY <2>2, Kept DEF KindsOf, Deliveries, Removals
  <2>4. Writes(p) <=> Writes(q)
    <3>1. CASE p.kind = "after"
      <4>1. q.pc = "append" /\ q.kind = "after" /\ q.fd = p.fd
        BY <2>2, <3>1 DEF Process
      <4> HIDE DEF q
      <4> QED
        BY <2>1, <3>1, <4>1 DEF Writes
    <3>2. CASE p.kind # "after"
      <4>1. p.kind \in {"before", "trash"} /\ p.fd = "none"
        BY <2>1, <2>2, <3>2 DEF Finds, Deliveries
      <4> QED
        BY <1>0, <2>1, <3>2, <4>1 DEF Writes
    <3> QED
      BY <3>1, <3>2
  <2>5. Moves(p) /\ ~ Moves(q)
    <3>1. CASE p.kind = "after"
      <4>1. q.pc = "append" /\ q.kind = "after"
        BY <2>2, <3>1 DEF Process
      <4> HIDE DEF q
      <4> QED
        BY <2>1, <3>1, <4>1 DEF Moves
    <3>2. CASE p.kind # "after"
      BY <1>0, <2>1, <3>2 DEF Moves, Deliveries
    <3> QED
      BY <3>1, <3>2
  <2> HIDE DEF q
  <2>6. Usage \in Nat /\ Usage' = Usage + Delta(t)
    <3>1. CASE p.kind \in Deliveries /\ place' = [place EXCEPT ![t[1]] = "new"]
      <4>1. place[t[1]] = "none"
        BY <2>1, <2>2, <3>1 DEF Finds
      <4>2. Delta(t) = 1
        BY <2>3, <3>1 DEF Delta
      <4> QED
        BY <3>1, <4>1, <4>2, Kept, UsageChange
    <3>2. CASE p.kind = "trash" /\ place' = [place EXCEPT ![t[1]] = "gone"]
      <4>1. place[t[1]] = "cur"
        BY <2>2, <3>2 DEF Finds
      <4>2. Usage \in Nat /\ Usage' = Usage - 1
        BY <3>2, <4>1, Kept, UsageChange
      <4>3. t[2] # "in"
        BY <2>3, <3>2 DEF Deliveries
      <4> QED
        BY <4>2, <4>3 DEF Delta
    <3> QED
      BY <2>1, <3>1, <3>2
  <2>7. /\ Value(Writes(q), t) = Value(Writes(p), t) /\ Value(Writes(p), t) \in Int
        /\ Value(Moves(q), t) = 0 /\ Value(Moves(p), t) = Delta(t) /\ Delta(t) \in Int
    BY <2>4, <2>5 DEF Value, Delta
  <2>8. file.sum \in Int /\ file'.sum = file.sum
    BY <2>1, Kept
  <2>9. /\ Usage \in Int /\ Usage' \in Int
        /\ file'.sum - Usage' + Value(Writes(q), t) - Value(Moves(q), t)
             = file.sum - Usage + Value(Writes(p), t) - Value(Moves(p), t)
    BY <2>6, <2>7, <2>8
  <2> QED
    BY <2>1, <2>8, <2>9, DriftKept
<1>8. ASSUME NEW t \in Tasks, AddQuota(t)
      PROVE  Drift' = Drift
  <2> DEFINE p == task[t]
             q == Closed(p)
  <2>1. /\ p.pc = "append" /\ SetTask(t, q) /\ UNCHANGED place
        /\ file'.sum = IF p.fd = "current" THEN file.sum + Delta(t) ELSE file.sum
    BY <1>8 DEF AddQuota
  <2>2. p \in Process /\ Finds(t, p, place[t[1]]) /\ p.kind \in KindsOf(t)
    BY <2>1, ProcessFacts
  <2>3. p.kind \in {"before", "trash"} => q.pc = "move" /\ q.fd = "none" /\ q.kind = p.kind
    BY <2>2 DEF Process, Closed
  <2>4. p.kind \notin {"before", "trash"} => q = Idle
    BY DEF Closed
  <2> HIDE DEF q
  <2>5. ~ Writes(q) /\ (Writes(p) <=> p.fd = "current")
    <3>1. ~ Writes(q)
      BY <1>0, <2>3, <2>4 DEF Writes
    <3> QED
      BY <2>1, <3>1 DEF Writes
  <2>6. Moves(q) <=> Moves(p)
    <3>1. CASE p.kind \in {"before", "trash"}
      BY <2>1, <2>3, <3>1 DEF Moves
    <3>2. CASE p.kind \notin {"before", "trash"}
      BY <1>0, <2>1, <2>4, <3>2 DEF Moves
    <3> QED
      BY <3>1, <3>2
  <2>7. /\ Value(Writes(q), t) = 0
        /\ Value(Writes(p), t) = (IF p.fd = "current" THEN Delta(t) ELSE 0)
        /\ Value(Moves(q), t) = Value(Moves(p), t) /\ Value(Moves(p), t) \in Int
        /\ Delta(t) \in Int
    BY <2>5, <2>6 DEF Value, Delta
  <2>8. Usage' = Usage /\ Usage \in Int /\ file.sum \in Int
    BY <2>1, UsageInt, Kept DEF Usage, In
  <2>9. /\ file'.sum \in Int
        /\ file'.sum - Usage' + Value(Writes(q), t) - Value(Moves(q), t)
             = file.sum - Usage + Value(Writes(p), t) - Value(Moves(p), t)
    BY <2>1, <2>7, <2>8
  <2> QED
    BY <2>1, <2>8, <2>9, DriftKept
<1>9. ASSUME UNCHANGED task, file'.sum = file.sum, Usage' = Usage
      PROVE  Drift' = Drift
  BY <1>9 DEF Drift, Unwritten, Unmoved, Net
<1>10. ASSUME NEW m \in Msgs, Seen(m)
       PROVE  Drift' = Drift
  <2>1. Usage' = Usage
    BY <1>10, UsageChange DEF Seen
  <2> QED
    BY <1>9, <1>10, <2>1 DEF Seen
<1>11. ASSUME Age
       PROVE  Drift' = Drift
  <2>1. file'.sum = file.sum
    BY <1>11, Kept DEF Age, TypeOK
  <2>2. Usage' = Usage /\ UNCHANGED task
    BY <1>11 DEF Age, Usage, In
  <2> QED
    BY <1>9, <2>1, <2>2
<1> QED
  BY <1>1, <1>2, <1>3, <1>4, <1>5, <1>6, <1>7, <1>8, <1>10, <1>11 DEF Next, Step

--------------------------------------------------------------------------
(* The theorems.                                                           *)

\* Every process counts, writes and moves what its task says, and a count is
\* right for as long as the time stamps stay as it has seen them
\* (maildirquota.C:395-551, 553-628).
THEOREM QuotaInvariance == Spec => []QuotaInv
<1>1. Init => QuotaInv
  <2> SUFFICES ASSUME Init
               PROVE  QuotaInv
    OBVIOUS
  <2>1. \A t \in Tasks : task[t] = Idle
    BY DEF Init
  <2>2. Idle \in Process /\ \A t \in Tasks : Fits(t, Idle)
    <3>1. MaxTries - 1 \in Nat
      BY QuotaAssumption
    <3>2. Idle \in Process
      BY <3>1, DirFacts DEF Idle, Process, Pcs
    <3> QED
      BY <3>2, IdleFits
  <2>3. /\ place \in [Msgs -> {"none", "new", "cur", "gone"}]
        /\ stamp \in [Range(Dirs) -> Nat] /\ calm \in BOOLEAN
        /\ file \in [sum : Int, lines : 1..MaxLines, young : BOOLEAN]
        /\ faults \in 0..MaxFaults /\ unseen \in 0..MaxUnseen
    BY QuotaAssumption DEF Init
  <2>4. task \in [Tasks -> Process]
    BY <2>2 DEF Init
  <2>5. TypeOK
    BY <2>1, <2>2, <2>3, <2>4, ByTask
  <2>6. PlaceInv
    BY <2>1 DEF PlaceInv, Idle, Deliveries
  <2>7. CountInv
    BY <2>1, <2>5, RightIdle, CountByTask
  <2> QED
    BY <2>5, <2>6, <2>7 DEF QuotaInv
<1>2. QuotaInv /\ [Next]_vars => QuotaInv'
  <2>1. CASE Next
    BY <2>1, TypeStep, CountStep DEF QuotaInv
  <2>2. CASE UNCHANGED vars
    BY <2>2 DEF vars, QuotaInv, TypeOK, PlaceInv, CountInv, Latest, Usage, In
  <2> QED
    BY <2>1, <2>2
<1> QED
  BY <1>1, <1>2, PTL DEF Spec

\* What a process holds fits what it is doing, it counts a directory that
\* exists, and it counts no more than MaxTries times (maildirquota.C:395-550, 879-890).
THEOREM TypeCorrect == Spec => []TypeOK
<1>1. QuotaInv => TypeOK
  BY DEF QuotaInv
<1> QED
  BY <1>1, QuotaInvariance, PTL

\* The second look at the time stamps finds every change, if changes do not
\* share a second and new is as it was: a count that is accepted is the number
\* of messages in the maildir (maildirquota.C:517).
THEOREM CountsAreExact == Spec => CountsExact
<1>1. QuotaInv /\ [Next]_vars =>
        [\A t \in Tasks :
           (Accept(t) /\ calm /\ stamp[Dirs[1]] = task[t].seen)
             => task[t].sum = Usage]_vars
  <2> SUFFICES ASSUME QuotaInv, NEW t \in Tasks, Accept(t), calm,
                      stamp[Dirs[1]] = task[t].seen
               PROVE  task[t].sum = Usage
    OBVIOUS
  <2>1. Right(task[t])
    BY CountByTask DEF QuotaInv
  <2>2. task[t].pc = "restat" /\ task[t].maxtime = Latest
    BY DEF Accept, Disturbed
  <2>3. stamp["new"] = task[t].seen
    BY DirFacts
  <2> QED
    BY <2>1, <2>2, <2>3 DEF Right
<1> QED
  BY <1>1, QuotaInvariance, PTL DEF Spec, CountsExact

\* The deliveries and removals under way, each in its own order and however
\* many there are, do not throw the total off (maildirquota.C:553-628,
\* 844-919).
THEOREM DriftIsFromRaces == Spec => DriftOnlyFromRaces
<1>1. QuotaInv /\ QuotaInv' /\ [Next]_vars =>
        [Drift' # Drift =>
           \/ \E t \in Tasks : Rename(t) \/ NoQuota(t) \/ Punt(t)
           \/ \E t \in Tasks : CountFails(t) \/ AppendFails(t) \/ Crash(t)
           \/ \E t \in Tasks : Accept(t) /\ task[t].fd # "current"
           \/ \E m \in Msgs : RemovedUnseen(m)]_vars
  BY DriftStep DEF QuotaInv
<1> QED
  BY <1>1, QuotaInvariance, PTL DEF Spec, DriftOnlyFromRaces
=============================================================================
