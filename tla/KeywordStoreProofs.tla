------------------------ MODULE KeywordStoreProofs ------------------------
(***************************************************************************)
(* Proofs about the keyword store, for any number of processes, messages,  *)
(* updates and chunks of time.                                             *)
(*                                                                         *)
(* The types hold of all operations.  Those that take the lock of the      *)
(* maildir (LockedLoads) are scans, and maildirkw -l.  Their invariant     *)
(* KeywordInv follows a load through the directory:                        *)
(*                                                                         *)
(*   Finds     in the middle of readdir() every file is still to come, or  *)
(*             was returned, and of those aged only the largest is left;   *)
(*   Found     the load knows all the files there are;                     *)
(*   Kept      the acknowledged keywords of a message are in its newest    *)
(*             update or, if there is none, both in :list and in the       *)
(*             largest aged update.                                        *)
(*                                                                         *)
(* Those that do not lock have a weaker one, UnlockedInv, for BriefLoads:  *)
(*                                                                         *)
(*   Stored    the acknowledged keywords are in the newest update or, if   *)
(*             there is none, in the largest aged update;                  *)
(*   Blank     or there never was an update, and nobody knows of any;      *)
(*   BriefInv  a load goes by the time it is, and of each message whose    *)
(*             aged name it goes by there is one that is no smaller.       *)
(***************************************************************************)
EXTENDS KeywordStore, WellFoundedInduction, TLAPS

-----------------------------------------------------------------------------
(* Types                                                                    *)

States == {"idle", "link", "deliver", "again", "scan", "open", "save", "clean"}
Aged   == [n : Chunks, content : Content, mtime : 0..MaxTime]

\* The chunk after a time has a number.
LEMMA ChunkOf ==
  /\ Chunks \subseteq Nat \ {0}
  /\ \A t \in 0..MaxTime : t \div ChunkTicks + 1 \in Chunks
<1>1. ChunkTicks \in Nat \ {0} /\ MaxTime \in Nat
  BY KeywordAssumption
<1>2. MaxTime \div ChunkTicks \in Nat
  BY <1>1
<1>3. \A t \in 0..MaxTime : t \div ChunkTicks \in Nat /\ t \div ChunkTicks <= MaxTime \div ChunkTicks
  BY <1>1
<1> QED
  BY <1>2, <1>3 DEF Chunks

\* No update has the number of none.
LEMMA Contained ==
  /\ Empty \in Content /\ NoFile \notin Content
  /\ (updates \in 0..MaxUpdates /\ updates < MaxUpdates => updates + 1 \in Content)
BY KeywordAssumption DEF Empty, Content, NoFile

\* The files of the directory are named by messages and chunks.
LEMMA DirectoryType ==
  ASSUME TypeOK
  PROVE  /\ Directory \in SUBSET (Msgs \X ({0} \cup Chunks))
         /\ \A m \in Msgs : newest[m] # NoFile => <<m, 0>> \in Directory
         /\ \A m \in Msgs : \A f \in aged[m] : <<m, f.n>> \in Directory
<1>1. \A m \in Msgs : aged[m] \in SUBSET Aged
  BY DEF TypeOK, Aged
<1>2. \A m \in Msgs : Names(m) \in SUBSET (Msgs \X ({0} \cup Chunks))
  BY <1>1 DEF Names, Aged
<1>3. \A m \in Msgs : newest[m] # NoFile => <<m, 0>> \in Names(m)
  BY DEF Names
<1>4. \A m \in Msgs : \A f \in aged[m] : <<m, f.n>> \in Names(m)
  BY DEF Names
<1> QED
  BY <1>2, <1>3, <1>4 DEF Directory

\* A load that begins.
LEMMA NewLoadFacts ==
  ASSUME TypeOK, NEW accept \in SUBSET Msgs, NEW l, l = NewLoad(accept)
  PROVE  /\ l \in LoadState /\ NoLoad \in LoadState
         /\ l.t = now /\ l.todo = Directory /\ l.found_newest = {}
         /\ l.most_recent = [m \in Msgs |-> 0] /\ l.accept = accept
         /\ \A m \in Msgs : l.may[m] = {committed[m]}
<1>1. NoLoad \in LoadState
  BY KeywordAssumption, Contained DEF NoLoad, LoadState
<1>2. /\ now \in 0..MaxTime /\ [m \in Msgs |-> {committed[m]}] \in [Msgs -> SUBSET Content]
      /\ Directory \in SUBSET (Msgs \X ({0} \cup Chunks))
  BY DirectoryType DEF TypeOK
<1> DEFINE may == [m \in Msgs |-> {committed[m]}]
<1>3. l = [NoLoad EXCEPT !.t = now, !.todo = Directory, !.accept = accept, !.may = may]
  BY DEF NewLoad
<1>4. /\ l.found_newest = NoLoad.found_newest /\ l.most_recent = NoLoad.most_recent
      /\ l.t = now /\ l.todo = Directory /\ l.accept = accept /\ l.may = may
      /\ l \in LoadState
  BY <1>1, <1>2, <1>3 DEF LoadState
<1>5. NoLoad.found_newest = {} /\ NoLoad.most_recent = [m \in Msgs |-> 0]
  BY DEF NoLoad
<1> QED
  BY <1>1, <1>4, <1>5

\* A name that is forgotten.
LEMMA ForgetFacts ==
  ASSUME TypeOK, NEW name, NEW loads, loads = Forget(ld, name)
  PROVE  /\ loads \in [Procs -> LoadState]
         /\ \A q \in Procs :
              /\ loads[q].t = ld[q].t /\ loads[q].todo = ld[q].todo \ {name}
              /\ loads[q].got = ld[q].got /\ loads[q].found_newest = ld[q].found_newest
              /\ loads[q].most_recent = ld[q].most_recent
              /\ loads[q].keywords = ld[q].keywords /\ loads[q].pending = ld[q].pending
              /\ loads[q].accept = ld[q].accept /\ loads[q].may = ld[q].may
<1> SUFFICES ASSUME NEW q \in Procs
             PROVE  /\ loads[q] \in LoadState
                    /\ loads[q].t = ld[q].t /\ loads[q].todo = ld[q].todo \ {name}
                    /\ loads[q].got = ld[q].got /\ loads[q].found_newest = ld[q].found_newest
                    /\ loads[q].most_recent = ld[q].most_recent
                    /\ loads[q].keywords = ld[q].keywords /\ loads[q].pending = ld[q].pending
                    /\ loads[q].accept = ld[q].accept /\ loads[q].may = ld[q].may
  BY DEF Forget
<1>1. loads[q] = [ld[q] EXCEPT !.todo = @ \ {name}]
  BY DEF Forget
<1>2. ld[q] \in LoadState
  BY DEF TypeOK
<1> QED
  BY <1>1, <1>2 DEF LoadState

\* readdir() returns the file of a newest update, ...
LEMMA ScanNewestFacts ==
  ASSUME TypeOK, NEW p \in Procs, NEW m \in Msgs, ScanNewest(p, m)
  PROVE  /\ TypeOK'
         /\ ld'[p].todo = ld[p].todo \ {<<m, 0>>} /\ ld'[p].got = ld[p].got \cup {<<m, 0>>}
         /\ ld'[p].found_newest = ld[p].found_newest \cup {m}
         /\ ld'[p].most_recent = ld[p].most_recent /\ ld'[p].accept = ld[p].accept
         /\ ld'[p].may = ld[p].may
<1> DEFINE l == [ld[p] EXCEPT !.found_newest = @ \cup {m}, !.got = @ \cup {<<m, 0>>},
                              !.todo = @ \ {<<m, 0>>}]
<1>1. ld[p] \in LoadState /\ ld \in [Procs -> LoadState]
  BY DEF TypeOK
<1>2. ld' = [ld EXCEPT ![p] = l]
  BY <1>1 DEF ScanNewest, LoadState
<1>3. /\ l \in LoadState /\ l.todo = ld[p].todo \ {<<m, 0>>}
      /\ l.got = ld[p].got \cup {<<m, 0>>} /\ l.found_newest = ld[p].found_newest \cup {m}
      /\ l.most_recent = ld[p].most_recent /\ l.accept = ld[p].accept /\ l.may = ld[p].may
  <2>1. <<m, 0>> \in Msgs \X ({0} \cup Chunks)
    OBVIOUS
  <2> QED
    BY <1>1, <2>1 DEF LoadState
<1> HIDE DEF l
<1>4. ld' \in [Procs -> LoadState] /\ ld'[p] = l
  BY <1>1, <1>2, <1>3
<1>5. TypeOK'
  BY <1>4 DEF ScanNewest, TypeOK, files
<1> QED
  BY <1>3, <1>4, <1>5

\* What a step leaves of the load of another process.
Alike(q) ==
    /\ pc'[q] = pc[q] /\ ld'[q].t = ld[q].t /\ ld'[q].got = ld[q].got
    /\ ld'[q].most_recent = ld[q].most_recent /\ ld'[q].keywords = ld[q].keywords

\* ... or that of an aged one, where the lesser of two is removed.
FindsAged(p, m, f) ==
    LET recent == ld[p].most_recent[m]
        lesser == IF recent < f.n THEN recent ELSE f.n
        larger == IF recent < f.n THEN f.n ELSE recent
    IN  /\ f.n \in Chunks /\ recent \in {0} \cup Chunks
        /\ <<m, f.n>> \notin ld[p].got
        /\ aged' = [aged EXCEPT ![m] = IF recent = 0 THEN @ ELSE Without(m, lesser)]
        /\ ld'[p].todo = (IF recent = 0 THEN ld[p].todo
                          ELSE ld[p].todo \ {<<m, lesser>>}) \ {<<m, f.n>>}
        /\ ld'[p].got = ld[p].got \cup {<<m, f.n>>}
        /\ ld'[p].most_recent = [ld[p].most_recent EXCEPT ![m] = larger]

\* readdir() returns the file of an aged update.
LEMMA ScanAgedFacts ==
  ASSUME TypeOK, NEW p \in Procs, NEW m \in Msgs, ScanAged(p, m)
  PROVE  /\ TypeOK'
         /\ \E f \in aged[m] : FindsAged(p, m, f)
         /\ ld'[p].found_newest = ld[p].found_newest /\ ld'[p].accept = ld[p].accept
         /\ ld'[p].may = ld[p].may /\ ld'[p].t = ld[p].t
         /\ ld'[p].keywords = ld[p].keywords /\ \A q \in Procs \ {p} : Alike(q)
<1>1. /\ ld \in [Procs -> LoadState] /\ aged \in [Msgs -> SUBSET Aged]
      /\ ld[p].most_recent \in [Msgs -> {0} \cup Chunks]
  BY DEF TypeOK, Aged, LoadState
<1> DEFINE recent == ld[p].most_recent[m]
<1>2. PICK f \in aged[m] :
        LET lesser == IF recent < f.n THEN recent ELSE f.n
            larger == IF recent < f.n THEN f.n ELSE recent
        IN  /\ <<m, f.n>> \notin ld[p].got
            /\ aged' = [aged EXCEPT ![m] = IF recent = 0 THEN @ ELSE Without(m, lesser)]
            /\ ld' = [(IF recent = 0 THEN ld ELSE Forget(ld, <<m, lesser>>))
                        EXCEPT ![p].most_recent[m] = larger,
                               ![p].got = @ \cup {<<m, f.n>>},
                               ![p].todo = @ \ {<<m, f.n>>}]
  BY DEF ScanAged
<1> DEFINE lesser == IF recent < f.n THEN recent ELSE f.n
           larger == IF recent < f.n THEN f.n ELSE recent
           loads  == IF recent = 0 THEN ld ELSE Forget(ld, <<m, lesser>>)
           l      == [loads[p] EXCEPT !.most_recent = [@ EXCEPT ![m] = larger],
                                      !.got = @ \cup {<<m, f.n>>},
                                      !.todo = @ \ {<<m, f.n>>}]
<1>3. f.n \in Chunks /\ recent \in {0} \cup Chunks /\ larger \in {0} \cup Chunks
  BY <1>1 DEF Aged
<1> HIDE DEF lesser, larger
<1>4. /\ loads \in [Procs -> LoadState]
      /\ loads[p].todo = IF recent = 0 THEN ld[p].todo ELSE ld[p].todo \ {<<m, lesser>>}
      /\ loads[p].got = ld[p].got /\ loads[p].found_newest = ld[p].found_newest
      /\ loads[p].most_recent = ld[p].most_recent
      /\ loads[p].accept = ld[p].accept /\ loads[p].may = ld[p].may
      /\ \A q \in Procs : /\ loads[q].t = ld[q].t /\ loads[q].got = ld[q].got
                           /\ loads[q].most_recent = ld[q].most_recent
                           /\ loads[q].keywords = ld[q].keywords
  <2>1. CASE recent = 0
    BY <1>1, <2>1
  <2>2. CASE recent # 0
    <3>1. loads = Forget(ld, <<m, lesser>>)
      BY <2>2
    <3> HIDE DEF loads
    <3> QED
      BY <2>2, <3>1, ForgetFacts
  <2> QED
    BY <2>1, <2>2
<1> HIDE DEF loads
<1>5. ld' = [loads EXCEPT ![p] = l]
  <2>1. ld' = [loads EXCEPT ![p].most_recent[m] = larger, ![p].got = @ \cup {<<m, f.n>>},
                            ![p].todo = @ \ {<<m, f.n>>}]
    BY <1>2 DEF loads, lesser, larger
  <2> QED
    BY <1>4, <2>1 DEF LoadState
<1>6. /\ l \in LoadState /\ l.todo = loads[p].todo \ {<<m, f.n>>}
      /\ l.got = loads[p].got \cup {<<m, f.n>>} /\ l.found_newest = loads[p].found_newest
      /\ l.most_recent = [loads[p].most_recent EXCEPT ![m] = larger]
      /\ l.accept = loads[p].accept /\ l.may = loads[p].may
      /\ l.t = loads[p].t /\ l.keywords = loads[p].keywords
  <2>1. <<m, f.n>> \in Msgs \X ({0} \cup Chunks)
    BY <1>3
  <2>2. loads[p] \in LoadState
    BY <1>4
  <2> QED
    BY <1>3, <2>1, <2>2 DEF LoadState
<1> HIDE DEF l
<1>7. ld' \in [Procs -> LoadState] /\ ld'[p] = l
  BY <1>4, <1>5, <1>6
<1>8. aged' \in [Msgs -> SUBSET Aged]
  BY <1>1, <1>2 DEF Without
<1>9. TypeOK'
  BY <1>7, <1>8 DEF ScanAged, TypeOK, Aged
<1>10. FindsAged(p, m, f)
  BY <1>2, <1>3, <1>4, <1>6, <1>7 DEF FindsAged, lesser, larger
<1>11. \A q \in Procs \ {p} : Alike(q)
  BY <1>4, <1>5 DEF ScanAged, Alike
<1> QED
  BY <1>4, <1>6, <1>7, <1>9, <1>10, <1>11

\* readdir() is done.
LEMMA ScanEndFacts ==
  ASSUME TypeOK, NEW p \in Procs, ScanEnd(p)
  PROVE  /\ TypeOK' /\ ld'[p].pending = Statuses(ld[p])
         /\ ld'[p].found_newest = ld[p].found_newest
         /\ ld'[p].most_recent = ld[p].most_recent /\ ld'[p].accept = ld[p].accept
         /\ ld'[p].may = ld[p].may
<1> DEFINE l == [ld[p] EXCEPT !.pending = Statuses(ld[p]), !.got = {}]
<1>1. ld[p] \in LoadState /\ ld \in [Procs -> LoadState]
  BY DEF TypeOK
<1>2. Statuses(ld[p]) \in SUBSET Msgs
  BY <1>1 DEF Statuses, LoadState
<1>3. ld' = [ld EXCEPT ![p] = l]
  BY <1>1 DEF ScanEnd, LoadState
<1>4. /\ l \in LoadState /\ l.pending = Statuses(ld[p])
      /\ l.found_newest = ld[p].found_newest /\ l.most_recent = ld[p].most_recent
      /\ l.accept = ld[p].accept /\ l.may = ld[p].may
  BY <1>1, <1>2 DEF LoadState
<1> HIDE DEF l
<1>5. ld' \in [Procs -> LoadState] /\ ld'[p] = l
  BY <1>1, <1>3, <1>4
<1>6. TypeOK'
  BY <1>5 DEF ScanEnd, TypeOK, files
<1> QED
  BY <1>4, <1>5, <1>6

\* An update is read.
LEMMA TryOpenFacts ==
  ASSUME TypeOK, NEW p \in Procs, NEW m \in Msgs, TryOpen(p, m)
  PROVE  /\ TypeOK' /\ ld'[p].pending = ld[p].pending \ {m}
         /\ ld'[p].found_newest = ld[p].found_newest
         /\ ld'[p].most_recent = ld[p].most_recent /\ ld'[p].accept = ld[p].accept
         /\ ld'[p].may = ld[p].may
         /\ ld'[p].keywords[m] \in Candidates(ld[p], m)
         /\ \A n \in Msgs \ {m} : ld'[p].keywords[n] = ld[p].keywords[n]
<1>1. ld[p] \in LoadState /\ ld \in [Procs -> LoadState]
  BY DEF TypeOK
<1>2. PICK c \in Candidates(ld[p], m) :
        ld' = [ld EXCEPT ![p].keywords[m] = c, ![p].pending = @ \ {m}]
  BY DEF TryOpen
<1>3. c \in Content
  <2>1. newest[m] \in Content \cup {NoFile} /\ aged[m] \in SUBSET Aged
    BY DEF TypeOK, Aged
  <2> QED
    BY <2>1 DEF Candidates, Aged
<1> DEFINE l == [ld[p] EXCEPT !.keywords = [@ EXCEPT ![m] = c], !.pending = @ \ {m}]
<1>4. ld' = [ld EXCEPT ![p] = l]
  BY <1>1, <1>2 DEF LoadState
<1>5. /\ l \in LoadState /\ l.pending = ld[p].pending \ {m}
      /\ l.found_newest = ld[p].found_newest /\ l.most_recent = ld[p].most_recent
      /\ l.accept = ld[p].accept /\ l.may = ld[p].may
      /\ l.keywords[m] = c /\ \A n \in Msgs \ {m} : l.keywords[n] = ld[p].keywords[n]
  BY <1>1, <1>3 DEF LoadState
<1> HIDE DEF l
<1>6. ld' \in [Procs -> LoadState] /\ ld'[p] = l
  BY <1>1, <1>4, <1>5
<1>7. TypeOK'
  BY <1>6 DEF TryOpen, TypeOK, files
<1> QED
  BY <1>5, <1>6, <1>7

\* A load begins, or begins again.
LEMMA LoadBegins ==
  ASSUME TypeOK, NEW p \in Procs, NEW accept \in SUBSET Msgs,
         ld' = [ld EXCEPT ![p] = NewLoad(accept)],
         pc' = [pc EXCEPT ![p] = "scan"], UNCHANGED <<now, files, committed>>,
         msg' \in [Msgs -> {"coming", "cur", "gone"}],
         lock' \in Procs \cup {Nobody}, updates' \in 0..MaxUpdates,
         job' \in [Procs -> {NoJob} \cup [m : Msgs, content : Content]],
         \A q \in Procs \ {p} : job'[q] = job[q]
  PROVE  /\ TypeOK' /\ ld'[p] = NewLoad(accept)
<1>1. NewLoad(accept) \in LoadState
  BY NewLoadFacts
<1> QED
  BY <1>1 DEF TypeOK, files

\* :list is read, ...
LEMMA ReadListFacts ==
  ASSUME TypeOK, NEW p \in Procs, ReadList(p)
  PROVE  /\ TypeOK' /\ ld'[p].pending = Statuses(ld[p])
         /\ ld'[p].found_newest = ld[p].found_newest
         /\ ld'[p].most_recent = ld[p].most_recent /\ ld'[p].accept = ld[p].accept
         /\ ld'[p].may = ld[p].may
         /\ \A m \in Msgs : ld'[p].keywords[m] = IF m \in Statuses(ld[p])
                                                 THEN ld[p].keywords[m] ELSE list[m]
         /\ \/ pc' = [pc EXCEPT ![p] = "save"]
            \/ pc' = [pc EXCEPT ![p] = "clean"] /\ ld[p].found_newest = {}
<1> DEFINE k == ld[p]
           keywords == [m \in Msgs |-> IF m \in Statuses(k) THEN k.keywords[m] ELSE list[m]]
           listed == {m \in Msgs \ Statuses(k) : list[m] # Empty}
           save == \/ k.found_newest # {}
                   \/ ~ (Statuses(k) \cup listed \subseteq k.accept)
                   \/ nameless /\ Scanning(p)
           l == [k EXCEPT !.keywords = keywords, !.nameless = nameless,
                          !.save_required = save, !.pending = Statuses(k)]
<1>1. k \in LoadState /\ ld \in [Procs -> LoadState]
  BY DEF TypeOK
<1>2. Statuses(k) \in SUBSET Msgs /\ keywords \in [Msgs -> Content] /\ nameless \in BOOLEAN
  BY <1>1 DEF Statuses, LoadState, TypeOK
<1>3. save \in BOOLEAN
  BY DEF Scanning
<1>4. ld' = [ld EXCEPT ![p] = l]
  BY <1>1 DEF ReadList, LoadState
<1> HIDE DEF keywords, save
<1>5. /\ l \in LoadState /\ l.pending = Statuses(k)
      /\ l.found_newest = k.found_newest /\ l.most_recent = k.most_recent
      /\ l.accept = k.accept /\ l.may = k.may /\ l.keywords = keywords
      /\ l.save_required = save
  BY <1>1, <1>2, <1>3 DEF LoadState
<1> HIDE DEF l
<1>6. ld' \in [Procs -> LoadState] /\ ld'[p] = l
  BY <1>1, <1>4, <1>5
<1>7. pc' = [pc EXCEPT ![p] = IF save THEN "save" ELSE "clean"]
  BY <1>5, <1>6 DEF ReadList
<1>8. TypeOK'
  BY <1>6, <1>7 DEF ReadList, TypeOK, files
<1>9. ~ save => k.found_newest = {}
  BY DEF save
<1> QED
  BY <1>5, <1>6, <1>7, <1>8, <1>9 DEF keywords

\* ... and replaced.
LEMMA SaveListFacts ==
  ASSUME TypeOK, NEW p \in Procs, SaveList(p)
  PROVE  /\ TypeOK'
         /\ p \notin Storers \cup Appenders => \A m \in ld[p].accept : list'[m] = ld[p].keywords[m]
<1>1. ld[p] \in LoadState
  BY DEF TypeOK
<1>2. ld[p].keywords \in [Msgs -> Content] /\ ld[p].nameless \in BOOLEAN /\ ld[p].accept \subseteq Msgs
  BY <1>1 DEF LoadState
<1>3. list' \in [Msgs -> Content]
  BY <1>2, Contained DEF SaveList
<1>4. nameless' \in BOOLEAN
  BY <1>2 DEF SaveList
<1>5. TypeOK'
  BY <1>3, <1>4 DEF SaveList, TypeOK
<1> QED
  BY <1>2, <1>5 DEF SaveList

\* The age that cleanup() gives a newest update.
Age(p, m) ==
    LET tn == ld[p].t \div ChunkTicks
    IN  IF tn + 1 < ld[p].most_recent[m] THEN ld[p].most_recent[m] ELSE tn + 1

LEMMA AgeFacts ==
  ASSUME TypeOK, NEW p \in Procs, NEW m \in Msgs
  PROVE  /\ Age(p, m) \in Chunks /\ Age(p, m) \in Nat /\ ld[p].most_recent[m] \in Nat
         /\ ld[p].most_recent[m] <= Age(p, m)
<1>1. ld[p] \in LoadState
  BY DEF TypeOK
<1>2. ld[p].t \in 0..MaxTime /\ ld[p].most_recent[m] \in {0} \cup Chunks
  BY <1>1 DEF LoadState
<1> DEFINE next == ld[p].t \div ChunkTicks + 1
<1>3. next \in Chunks /\ Chunks \subseteq Nat \ {0}
  BY <1>2, ChunkOf
<1> DEFINE recent == ld[p].most_recent[m]
<1>4. Age(p, m) = IF next < recent THEN recent ELSE next
  BY DEF Age
<1> HIDE DEF next
<1>5. recent \in {0} \cup Chunks /\ recent \in Nat /\ next \in Nat
  <2>1. recent \in {0} \cup Chunks
    BY <1>2
  <2> HIDE DEF recent
  <2>2. {0} \cup Chunks \subseteq Nat
    BY <1>3
  <2> QED
    BY <1>3, <2>1, <2>2
<1> HIDE DEF recent
<1>6. CASE next < recent
  <2>1. recent # 0
    BY <1>5, <1>6
  <2> QED
    BY <1>4, <1>5, <1>6, <2>1 DEF recent
<1>7. CASE ~ (next < recent)
  BY <1>3, <1>4, <1>5, <1>7 DEF recent
<1> QED
  BY <1>6, <1>7

\* cleanup() ages a newest update, ...
LEMMA RenameNewestFacts ==
  ASSUME TypeOK, NEW p \in Procs, NEW m \in Msgs, RenameNewest(p, m)
  PROVE  /\ TypeOK' /\ ld'[p].pending = ld[p].pending \ {m}
         /\ ld'[p].found_newest = ld[p].found_newest
         /\ ld'[p].most_recent = ld[p].most_recent /\ ld'[p].accept = ld[p].accept
         /\ ld'[p].keywords = ld[p].keywords /\ ld'[p].may = ld[p].may
         /\ ld'[p].t = ld[p].t /\ \A q \in Procs \ {p} : Alike(q)
<1>1. /\ ld[p] \in LoadState /\ ld \in [Procs -> LoadState] /\ now \in 0..MaxTime
      /\ newest \in [Msgs -> Content \cup {NoFile}] /\ aged \in [Msgs -> SUBSET Aged]
  BY DEF TypeOK, Aged
<1>2. CASE newest[m] = NoFile
  <2> DEFINE l == [ld[p] EXCEPT !.pending = @ \ {m}]
  <2>1. ld' = [ld EXCEPT ![p] = l]
    BY <1>1, <1>2 DEF RenameNewest, LoadState
  <2>2. /\ l \in LoadState /\ l.pending = ld[p].pending \ {m}
        /\ l.found_newest = ld[p].found_newest /\ l.most_recent = ld[p].most_recent
        /\ l.accept = ld[p].accept /\ l.keywords = ld[p].keywords /\ l.may = ld[p].may
        /\ l.t = ld[p].t
    BY <1>1 DEF LoadState
  <2> HIDE DEF l
  <2>3. ld' \in [Procs -> LoadState] /\ ld'[p] = l
    BY <1>1, <2>1, <2>2
  <2>4. TypeOK'
    BY <1>2, <2>3 DEF RenameNewest, TypeOK
  <2>5. \A q \in Procs \ {p} : Alike(q)
    BY <1>1, <2>1 DEF RenameNewest, Alike
  <2> QED
    BY <2>2, <2>3, <2>4, <2>5
<1>3. CASE newest[m] # NoFile
  <2> DEFINE loads == Forget(ld, <<m, 0>>)
             l == [loads[p] EXCEPT !.pending = @ \ {m}]
  <2>1. /\ loads \in [Procs -> LoadState]
        /\ loads[p].found_newest = ld[p].found_newest
        /\ loads[p].most_recent = ld[p].most_recent /\ loads[p].keywords = ld[p].keywords
        /\ loads[p].pending = ld[p].pending
        /\ loads[p].accept = ld[p].accept /\ loads[p].may = ld[p].may
        /\ \A q \in Procs : /\ loads[q].t = ld[q].t /\ loads[q].got = ld[q].got
                             /\ loads[q].most_recent = ld[q].most_recent
                             /\ loads[q].keywords = ld[q].keywords
    BY ForgetFacts
  <2>2. ld' = [loads EXCEPT ![p].pending = @ \ {m}]
    BY <1>3 DEF RenameNewest
  <2> HIDE DEF loads
  <2>3. ld' = [loads EXCEPT ![p] = l]
    BY <2>1, <2>2 DEF LoadState
  <2>4. /\ l \in LoadState /\ l.pending = loads[p].pending \ {m}
        /\ l.found_newest = loads[p].found_newest /\ l.most_recent = loads[p].most_recent
        /\ l.accept = loads[p].accept /\ l.keywords = loads[p].keywords
        /\ l.may = loads[p].may /\ l.t = loads[p].t
    BY <2>1 DEF LoadState
  <2> HIDE DEF l
  <2>5. ld' \in [Procs -> LoadState] /\ ld'[p] = l
    BY <2>1, <2>3, <2>4
  <2> DEFINE new == [n |-> Age(p, m), content |-> newest[m], mtime |-> now]
  <2>6. new \in Aged
    BY <1>1, <1>3, AgeFacts DEF Aged
  <2>7. /\ newest' = [newest EXCEPT ![m] = NoFile]
        /\ aged' = [aged EXCEPT ![m] = Without(m, Age(p, m)) \cup {new}]
    BY <1>3 DEF RenameNewest, Age
  <2> HIDE DEF new
  <2>8. newest' \in [Msgs -> Content \cup {NoFile}] /\ aged' \in [Msgs -> SUBSET Aged]
    BY <1>1, <2>6, <2>7 DEF Without
  <2>9. TypeOK'
    BY <2>5, <2>8 DEF RenameNewest, TypeOK, Aged
  <2>10. \A q \in Procs \ {p} : Alike(q)
    BY <2>1, <2>3 DEF RenameNewest, Alike
  <2> QED
    BY <2>1, <2>4, <2>5, <2>9, <2>10
<1> QED
  BY <1>2, <1>3

\* ... or removes an aged one.
LEMMA DeleteIfAgedFacts ==
  ASSUME TypeOK, NEW p \in Procs, NEW m \in Msgs, DeleteIfAged(p, m)
  PROVE  /\ TypeOK' /\ ld'[p].pending = ld[p].pending \ {m}
         /\ ld'[p].found_newest = ld[p].found_newest
         /\ ld'[p].most_recent = ld[p].most_recent /\ ld'[p].accept = ld[p].accept
         /\ ld'[p].keywords = ld[p].keywords /\ ld'[p].may = ld[p].may
         /\ \E old \in SUBSET aged[m] : aged' = [aged EXCEPT ![m] = @ \ old]
<1> DEFINE old == {f \in aged[m] : f.n = ld[p].most_recent[m] /\ f.mtime + AgeTicks < ld[p].t}
           name == <<m, ld[p].most_recent[m]>>
           loads == IF old = {} THEN ld ELSE Forget(ld, name)
           l == [loads[p] EXCEPT !.pending = @ \ {m}]
<1>1. /\ ld[p] \in LoadState /\ ld \in [Procs -> LoadState]
      /\ aged \in [Msgs -> SUBSET Aged]
  BY DEF TypeOK, Aged
<1>2. /\ ld' = [loads EXCEPT ![p].pending = @ \ {m}]
      /\ aged' = [aged EXCEPT ![m] = @ \ old]
  BY DEF DeleteIfAged
<1> HIDE DEF name
<1>3. /\ loads \in [Procs -> LoadState]
      /\ loads[p].found_newest = ld[p].found_newest
      /\ loads[p].most_recent = ld[p].most_recent /\ loads[p].keywords = ld[p].keywords
      /\ loads[p].pending = ld[p].pending
      /\ loads[p].accept = ld[p].accept /\ loads[p].may = ld[p].may
  <2>1. CASE old = {}
    BY <1>1, <2>1
  <2>2. CASE old # {}
    <3>1. loads = Forget(ld, name)
      BY <2>2
    <3> HIDE DEF loads, old
    <3> QED
      BY <3>1, ForgetFacts
  <2> QED
    BY <2>1, <2>2
<1> HIDE DEF loads, old
<1>4. ld' = [loads EXCEPT ![p] = l]
  BY <1>2, <1>3 DEF LoadState
<1>5. /\ l \in LoadState /\ l.pending = loads[p].pending \ {m}
      /\ l.found_newest = loads[p].found_newest /\ l.most_recent = loads[p].most_recent
      /\ l.accept = loads[p].accept /\ l.keywords = loads[p].keywords
      /\ l.may = loads[p].may
  BY <1>3 DEF LoadState
<1> HIDE DEF l
<1>6. ld' \in [Procs -> LoadState] /\ ld'[p] = l
  BY <1>3, <1>4, <1>5
<1>7. aged' \in [Msgs -> SUBSET Aged]
  BY <1>1, <1>2
<1>8. TypeOK'
  BY <1>6, <1>7 DEF DeleteIfAged, TypeOK, Aged
<1>9. old \in SUBSET aged[m]
  BY DEF old
<1> QED
  BY <1>2, <1>3, <1>5, <1>6, <1>8, <1>9

\* The keywords of an update, and the message it is for.
LEMMA JobFacts ==
  ASSUME TypeOK, updates < MaxUpdates, NEW m \in Msgs, NEW c \in Contents
  PROVE  /\ Job(m, c) \in [m : Msgs, content : Content] /\ Job(m, c) # NoJob
         /\ Job(m, c).m = m
<1>1. c \in Content
  BY Contained DEF TypeOK, Contents
<1>2. Job(m, c) \in [m : Msgs, content : Content] /\ Job(m, c).m = m
  BY <1>1 DEF Job
<1>3. NoJob.m = "none" /\ "none" \notin Msgs
  BY KeywordAssumption DEF NoJob
<1> QED
  BY <1>2, <1>3

\* An operation begins, ...
LEMMA TypeBegin ==
  ASSUME TypeOK, NEW p \in Procs,
         Scan(p) \/ Request(p) \/ BeginAdd(p) \/ BeginAppend(p)
  PROVE  TypeOK'
<1>1. updates \in 0..MaxUpdates /\ (updates < MaxUpdates => updates + 1 \in 0..MaxUpdates)
  BY KeywordAssumption DEF TypeOK
<1>2. Cur \in SUBSET Msgs /\ Msgs \in SUBSET Msgs
  BY DEF Cur
<1>3. job \in [Procs -> {NoJob} \cup [m : Msgs, content : Content]]
  BY DEF TypeOK
<1>4. CASE Scan(p)
  <2>1. /\ ld' = [ld EXCEPT ![p] = NewLoad(Cur)] /\ pc' = [pc EXCEPT ![p] = "scan"]
        /\ UNCHANGED <<now, files, msg, job, committed, updates>>
        /\ lock' \in Procs \cup {Nobody}
    BY <1>4 DEF Scan, TypeOK
  <2> QED
    BY <1>2, <2>1, LoadBegins DEF TypeOK
<1>5. CASE Request(p)
  <2>1. PICK m \in Cur, c \in Contents : job' = [job EXCEPT ![p] = Job(m, c)]
    BY <1>5 DEF Request
  <2>2. Job(m, c) \in [m : Msgs, content : Content] /\ Job(m, c) # NoJob
    BY <1>2, <1>5, JobFacts DEF Request
  <2> QED
    BY <1>1, <1>5, <2>1, <2>2 DEF Request, TypeOK, files
<1>6. CASE BeginAdd(p)
  <2>1. \/ UNCHANGED <<updates, job>>
        \/ /\ updates < MaxUpdates /\ updates' = updates + 1
           /\ \E m \in Cur, c \in Contents : job' = [job EXCEPT ![p] = Job(m, c)]
    BY <1>6 DEF BeginAdd
  <2>2. /\ job' \in [Procs -> {NoJob} \cup [m : Msgs, content : Content]]
        /\ updates' \in 0..MaxUpdates /\ \A q \in Procs \ {p} : job'[q] = job[q]
    <3>1. CASE UNCHANGED <<updates, job>>
      BY <1>1, <1>3, <3>1
    <3>2. ASSUME updates < MaxUpdates, updates' = updates + 1,
                 NEW m \in Cur, NEW c \in Contents, job' = [job EXCEPT ![p] = Job(m, c)]
          PROVE  /\ job' \in [Procs -> {NoJob} \cup [m : Msgs, content : Content]]
                 /\ updates' \in 0..MaxUpdates /\ \A q \in Procs \ {p} : job'[q] = job[q]
      <4>1. Job(m, c) \in [m : Msgs, content : Content]
        BY <1>2, <3>2, JobFacts
      <4> QED
        BY <1>1, <1>3, <3>2, <4>1
    <3> QED
      BY <2>1, <3>1, <3>2
  <2>3. /\ ld' = [ld EXCEPT ![p] = NewLoad(Msgs)] /\ pc' = [pc EXCEPT ![p] = "scan"]
        /\ UNCHANGED <<now, files, msg, committed>> /\ lock' = p
    BY <1>6 DEF BeginAdd
  <2> QED
    BY <1>2, <2>2, <2>3, LoadBegins DEF TypeOK
<1>7. CASE BeginAppend(p)
  <2>1. PICK m \in Msgs : job' = [job EXCEPT ![p] = Job(m, updates + 1)]
    BY <1>7 DEF BeginAppend
  <2>2. /\ Job(m, updates + 1) \in [m : Msgs, content : Content]
        /\ Job(m, updates + 1) # NoJob
    BY <1>7, JobFacts DEF BeginAppend, Contents
  <2> QED
    BY <1>1, <1>7, <2>1, <2>2 DEF BeginAppend, TypeOK, files
<1> QED
  BY <1>4, <1>5, <1>6, <1>7

\* ... updates, ...
LEMMA LinkLoads ==
  ASSUME TypeOK, NEW p \in Procs, Link(p)
  PROVE  ld' \in [Procs -> LoadState] /\ ld'[p] = NoLoad
<1> DEFINE m == job[p].m
           c == job[p].content
<1>1. m \in Msgs /\ c \in Content
  BY DEF TypeOK, Link
<1> HIDE DEF m, c
<1>2. NoLoad \in LoadState
  BY NewLoadFacts
<1>3. \A q \in Procs : [ld[q] EXCEPT !.may[m] = @ \cup {c}] \in LoadState
  <2> SUFFICES ASSUME NEW q \in Procs
               PROVE  [ld[q] EXCEPT !.may[m] = @ \cup {c}] \in LoadState
    OBVIOUS
  <2>1. ld[q] \in LoadState
    BY DEF TypeOK
  <2>2. [ld[q].may EXCEPT ![m] = @ \cup {c}] \in [Msgs -> SUBSET Content]
    BY <1>1, <2>1 DEF LoadState
  <2>3. [ld[q] EXCEPT !.may[m] = @ \cup {c}]
          = [ld[q] EXCEPT !.may = [ld[q].may EXCEPT ![m] = @ \cup {c}]]
    BY <2>1 DEF LoadState
  <2> QED
    BY <2>1, <2>2, <2>3 DEF LoadState
<1>4. ld' = [q \in Procs |->
               IF q = p THEN NoLoad
               ELSE IF Loading(q) THEN [ld[q] EXCEPT !.may[m] = @ \cup {c}]
               ELSE ld[q]]
  BY DEF Link, m, c
<1>5. \A q \in Procs : ld[q] \in LoadState
  BY DEF TypeOK
<1> HIDE DEF Loading
<1> QED
  BY <1>2, <1>3, <1>4, <1>5

LEMMA TypeUpdate ==
  ASSUME TypeOK, NEW p \in Procs, Update(p)
  PROVE  TypeOK'
<1>1. CASE Link(p)
  <2>1. job[p].m \in Msgs /\ job[p].content \in Content
    BY <1>1 DEF TypeOK, Link
  <2>2. ld' \in [Procs -> LoadState]
    BY <1>1, LinkLoads
  <2> QED
    BY <1>1, <2>1, <2>2 DEF Link, TypeOK, Release
<1>2. CASE LinkExists(p)
  <2>1. Msgs \in SUBSET Msgs
    OBVIOUS
  <2> QED
    BY <1>2, <2>1, LoadBegins DEF LinkExists, Release, TypeOK
<1>3. CASE Deliver(p)
  <2>1. job[p].m \in Msgs
    BY <1>3 DEF TypeOK, Deliver
  <2> DEFINE accept == Cur \cup {job[p].m}
  <2>2. accept \in SUBSET Msgs
    BY <2>1 DEF Cur
  <2>3. ld' = [ld EXCEPT ![p] = NewLoad(accept)] /\ pc' = [pc EXCEPT ![p] = "scan"]
    BY <1>3 DEF Deliver
  <2>4. /\ msg' \in [Msgs -> {"coming", "cur", "gone"}]
        /\ lock' \in Procs \cup {Nobody} /\ updates' \in 0..MaxUpdates
        /\ job' \in [Procs -> {NoJob} \cup [m : Msgs, content : Content]]
        /\ \A q \in Procs \ {p} : job'[q] = job[q]
        /\ UNCHANGED <<now, files, committed>>
    BY <1>3 DEF Deliver, TypeOK
  <2> HIDE DEF accept
  <2> QED
    BY <2>2, <2>3, <2>4, LoadBegins
<1> QED
  BY <1>1, <1>2, <1>3 DEF Update

\* ... loads, and ends; ...
LEMMA TypeLoad ==
  ASSUME TypeOK, NEW p \in Procs, Load(p)
  PROVE  TypeOK'
<1>1. ASSUME NEW m \in Msgs, OpenFails(p, m)
      PROVE  TypeOK'
  <2>1. ld[p] \in LoadState
    BY DEF TypeOK
  <2>2. ld[p].accept \in SUBSET Msgs /\ ld' = [ld EXCEPT ![p] = NewLoad(ld[p].accept)]
    BY <1>1, <2>1 DEF OpenFails, LoadState, TypeOK
  <2> QED
    BY <1>1, <2>2, LoadBegins DEF OpenFails, TypeOK
<1>2. ASSUME LoadEnd(p)
      PROVE  TypeOK'
  <2>1. NoLoad \in LoadState
    BY NewLoadFacts
  <2>2. ld' \in [Procs -> LoadState]
    BY <1>2, <2>1 DEF LoadEnd, TypeOK
  <2>3. lock' \in Procs \cup {Nobody}
    BY <1>2 DEF LoadEnd, Release, TypeOK
  <2>4. PICK step \in {"idle", "again", "link"} :
          pc' = [pc EXCEPT ![p] = step] /\ (step = "link" => job[p] # NoJob)
    BY <1>2 DEF LoadEnd, Scanning
  <2> QED
    BY <1>2, <2>2, <2>3, <2>4 DEF LoadEnd, TypeOK, files
<1> QED
  BY <1>1, <1>2, ScanNewestFacts, ScanAgedFacts, ScanEndFacts, TryOpenFacts, ReadListFacts,
     SaveListFacts, RenameNewestFacts, DeleteIfAgedFacts DEF Load

\* ... and time passes, messages go and processes die.
LEMMA NextType ==
  ASSUME TypeOK, [Next]_vars
  PROVE  TypeOK'
<1>1. ASSUME NEW p \in Procs, Crash(p) PROVE TypeOK'
  <2>1. NoLoad \in LoadState
    BY NewLoadFacts
  <2> QED
    BY <1>1, <2>1 DEF Crash, TypeOK, files, Release
<1>2. ASSUME NEW m \in Msgs, Expunge(m) PROVE TypeOK'
  BY <1>2 DEF Expunge, TypeOK, files
<1>3. CASE Tick
  <2>1. now' \in 0..MaxTime
    BY <1>3, KeywordAssumption DEF Tick, TypeOK
  <2> QED
    BY <1>3, <2>1 DEF Tick, TypeOK, files
<1>4. CASE UNCHANGED vars
  BY <1>4 DEF vars, TypeOK
<1> QED
  BY <1>1, <1>2, <1>3, <1>4, TypeBegin, TypeUpdate, TypeLoad DEF Next

LEMMA InitType ==
  ASSUME Init
  PROVE  TypeOK
<1>1. NoLoad \in LoadState
  BY KeywordAssumption, Contained DEF NoLoad, LoadState
<1>2. now \in 0..MaxTime /\ updates \in 0..MaxUpdates
  BY KeywordAssumption DEF Init
<1>3. /\ newest \in [Msgs -> Content \cup {NoFile}] /\ list \in [Msgs -> Content]
      /\ committed \in [Msgs -> Content]
  BY Contained DEF Init
<1>4. /\ job \in [Procs -> {NoJob} \cup [m : Msgs, content : Content]]
      /\ ld \in [Procs -> LoadState]
  BY <1>1 DEF Init
<1>5. \A p \in Procs : pc[p] = "idle"
  BY DEF Init
<1> QED
  BY <1>2, <1>3, <1>4, <1>5 DEF Init, TypeOK

-----------------------------------------------------------------------------
(* Loads and updates that hold the lock                                     *)

\* Only one process has begun something, and it is no writer but an adder.
LEMMA OnlyOne ==
  ASSUME LockedLoads, KeywordInv, NEW p \in Procs, pc[p] # "idle"
  PROVE  /\ lock = p /\ LoadInv(p) /\ ld[p] \in LoadState
         /\ \A q \in Procs \ {p} : pc[q] = "idle"
         /\ pc[p] \in {"scan", "open", "save", "clean", "link"}
         /\ p \notin Storers \cup Appenders
BY DEF LockedLoads, KeywordInv, TypeOK

\* The messages that matter are those of the folder, unless an adder is at one.
LEMMA LiveFacts ==
  /\ Live \in SUBSET Msgs /\ Cur \subseteq Live
  /\ (lock' = lock /\ job' = job /\ msg' = msg => Live' = Live)
  /\ (lock = Nobody /\ Nobody \notin Procs => Live = Cur)
BY DEF Live, Cur

\* A step of a load keeps the invariant when what it knows agrees with it.
LEMMA LoadStep ==
  ASSUME LockedLoads, KeywordInv, TypeOK', NEW p \in Procs, pc[p] # "idle",
         NEW step \in {"scan", "open", "save", "clean", "link"},
         pc' = [pc EXCEPT ![p] = step],
         step = "link" => p \in Adders /\ job[p] # NoJob,
         lock' = lock, job' = job, msg' = msg, LoadInv(p)', \A m \in Live : Kept(m)'
  PROVE  KeywordInv'
<1>1. lock = p /\ \A q \in Procs \ {p} : pc[q] = "idle"
  BY OnlyOne
<1>2. pc'[p] = step /\ \A q \in Procs \ {p} : pc'[q] = "idle"
  BY <1>1 DEF KeywordInv, TypeOK
<1>3. Live' = Live
  BY LiveFacts
<1>4. \A q \in Procs : q \notin Adders => job'[q] = NoJob
  BY DEF KeywordInv
<1> QED
  BY <1>1, <1>2, <1>3, <1>4 DEF KeywordInv

\* What is kept goes on being kept as long as the files and updates stay.
LEMMA KeptSame ==
  ASSUME KeywordInv, UNCHANGED <<newest, aged, list, committed>>
  PROVE  \A m \in Live : Kept(m)'
BY DEF KeywordInv, Kept, Largest

LEMMA ScanNewestStep ==
  ASSUME LockedLoads, KeywordInv, NEW p \in Procs, NEW m \in Msgs, ScanNewest(p, m)
  PROVE  KeywordInv'
<1>1. /\ pc[p] = "scan" /\ pc' = pc /\ pc' = [pc EXCEPT ![p] = "scan"] /\ pc'[p] = "scan"
      /\ newest[m] # NoFile
      /\ UNCHANGED <<newest, aged, list, committed, lock, job, msg>>
  BY DEF ScanNewest, files, KeywordInv, TypeOK
<1>2. /\ TypeOK' /\ LoadInv(p)
      /\ ld'[p].todo = ld[p].todo \ {<<m, 0>>} /\ ld'[p].got = ld[p].got \cup {<<m, 0>>}
      /\ ld'[p].found_newest = ld[p].found_newest \cup {m}
      /\ ld'[p].most_recent = ld[p].most_recent /\ ld'[p].accept = ld[p].accept
      /\ ld'[p].may = ld[p].may
  BY <1>1, ScanNewestFacts, OnlyOne DEF KeywordInv
<1>3. \A n \in Msgs : \A f \in aged[n] : f.n # 0
  BY ChunkOf DEF KeywordInv, TypeOK
<1>4. Live' = Live
  BY <1>1, LiveFacts
<1>5. ASSUME NEW n \in Msgs
      PROVE  Finds(ld[p], n)'
  <2>1. Finds(ld[p], n)
    BY <1>1, <1>2 DEF LoadInv
  <2> QED
    BY <1>1, <1>2, <1>3, <2>1 DEF Finds
<1>6. LoadInv(p)'
  BY <1>1, <1>2, <1>4, <1>5 DEF LoadInv
<1> QED
  BY <1>1, <1>2, <1>6, KeptSame, LoadStep

LEMMA ScanAgedStep ==
  ASSUME LockedLoads, KeywordInv, NEW p \in Procs, NEW m \in Msgs, ScanAged(p, m)
  PROVE  KeywordInv'
<1>1. /\ pc[p] = "scan" /\ pc' = pc /\ pc' = [pc EXCEPT ![p] = "scan"] /\ pc'[p] = "scan"
      /\ UNCHANGED <<newest, list, committed, lock, job, msg>>
  BY DEF ScanAged, KeywordInv, TypeOK
<1>2. /\ TypeOK' /\ LoadInv(p) /\ ld[p] \in LoadState /\ aged \in [Msgs -> SUBSET Aged]
      /\ ld'[p].found_newest = ld[p].found_newest /\ ld'[p].accept = ld[p].accept
      /\ ld'[p].may = ld[p].may
  BY <1>1, ScanAgedFacts, OnlyOne DEF KeywordInv, TypeOK, Aged
<1>3. PICK f \in aged[m] : FindsAged(p, m, f)
  BY ScanAgedFacts DEF KeywordInv
<1> DEFINE recent == ld[p].most_recent[m]
           lesser == IF recent < f.n THEN recent ELSE f.n
           larger == IF recent < f.n THEN f.n ELSE recent
<1>4. /\ f.n \in Nat \ {0} /\ recent \in Nat /\ <<m, f.n>> \notin ld[p].got
      /\ aged' = [aged EXCEPT ![m] = IF recent = 0 THEN @ ELSE Without(m, lesser)]
      /\ ld'[p].todo = (IF recent = 0 THEN ld[p].todo
                        ELSE ld[p].todo \ {<<m, lesser>>}) \ {<<m, f.n>>}
      /\ ld'[p].got = ld[p].got \cup {<<m, f.n>>}
      /\ ld'[p].most_recent = [ld[p].most_recent EXCEPT ![m] = larger]
  BY <1>3, ChunkOf DEF FindsAged
<1>5. /\ larger \in Nat \ {0} /\ lesser \in Nat
      /\ recent = 0 => larger = f.n
      /\ lesser <= larger /\ {lesser, larger} = {recent, f.n}
  BY <1>4
<1>6. \A n \in Msgs : \A g \in aged[n] : g.n \in Nat \ {0}
  <2>1. \A n \in Msgs : \A g \in aged[n] : g.n \in Chunks
    BY <1>2 DEF Aged
  <2> QED
    BY <2>1, ChunkOf
<1>7. Finds(ld[p], m) /\ \A n \in Msgs : Finds(ld[p], n)
  BY <1>1, <1>2 DEF LoadInv
<1>8. recent # 0 => /\ recent # f.n /\ lesser # larger
                    /\ \E r \in aged[m] : r.n = recent
  <2>1. recent # 0 => <<m, recent>> \in ld[p].got /\ \E r \in aged[m] : r.n = recent
    BY <1>7 DEF Finds
  <2> QED
    BY <1>4, <1>5, <2>1
<1>9. /\ ld'[p].most_recent[m] = larger
      /\ \A n \in Msgs \ {m} : /\ ld'[p].most_recent[n] = ld[p].most_recent[n]
                               /\ aged'[n] = aged[n]
      /\ aged'[m] = IF recent = 0 THEN aged[m] ELSE {g \in aged[m] : g.n # lesser}
  <2>1. ld[p].most_recent \in [Msgs -> {0} \cup Chunks]
    BY <1>2 DEF LoadState
  <2> HIDE DEF larger, lesser
  <2> QED
    BY <1>2, <1>4, <2>1 DEF Without
<1> HIDE DEF recent, lesser, larger
<1>10. \E g \in aged'[m] : g.n = larger
  BY <1>3, <1>5, <1>8, <1>9
<1>11. Live' = Live
  BY <1>1, LiveFacts
<1>12. ASSUME NEW n \in Msgs
       PROVE  Finds(ld[p], n)'
  <2>1. CASE n = m
    <3>1. newest'[m] # NoFile => m \in ld'[p].found_newest \/ <<m, 0>> \in ld'[p].todo
      <4>1. newest[m] # NoFile => m \in ld[p].found_newest \/ <<m, 0>> \in ld[p].todo
        BY <1>7 DEF Finds
      <4>2. recent # 0 => lesser # 0
        BY <1>4, <1>5
      <4> QED
        BY <1>1, <1>2, <1>4, <4>1, <4>2
    <3>2. m \in ld'[p].found_newest => newest'[m] # NoFile
      BY <1>1, <1>2, <1>7 DEF Finds
    <3>3. <<m, larger>> \in ld'[p].got
      <4>1. recent # 0 => <<m, recent>> \in ld[p].got
        BY <1>7 DEF Finds, recent
      <4>2. larger = f.n \/ (recent # 0 /\ larger = recent)
        BY <1>4, <1>5
      <4> QED
        BY <1>4, <4>1, <4>2
    <3>4. ASSUME NEW g \in aged'[m]
          PROVE  g.n = larger \/ <<m, g.n>> \in ld'[p].todo
      <4>1. g \in aged[m] /\ (recent # 0 => g.n # lesser)
        BY <1>9
      <4>2. g.n = recent \/ <<m, g.n>> \in ld[p].todo
        BY <1>7, <4>1 DEF Finds, recent
      <4>3. CASE recent = 0
        BY <1>4, <1>5, <1>6, <4>1, <4>2, <4>3
      <4>4. CASE recent # 0
        BY <1>4, <1>5, <4>1, <4>2, <4>4
      <4> QED
        BY <4>3, <4>4
    <3> QED
      BY <1>9, <1>10, <2>1, <3>1, <3>2, <3>3, <3>4 DEF Finds
  <2>2. CASE n # m
    <3>1. Finds(ld[p], n)
      BY <1>7
    <3>2. \A k : <<n, k>> \in ld[p].todo => <<n, k>> \in ld'[p].todo
      BY <1>4, <2>2
    <3>3. ld[p].got \subseteq ld'[p].got
      BY <1>4
    <3> QED
      BY <1>1, <1>2, <1>9, <2>2, <3>1, <3>2, <3>3 DEF Finds
  <2> QED
    BY <2>1, <2>2
<1>13. LoadInv(p)'
  BY <1>1, <1>2, <1>11, <1>12 DEF LoadInv
<1>14. ASSUME NEW n \in Live
       PROVE  Kept(n)'
  <2>1. Kept(n) /\ n \in Msgs
    BY LiveFacts DEF KeywordInv
  <2>2. ASSUME NEW g \in aged'[n], \A h \in aged'[n] : h.n <= g.n
        PROVE  g \in Largest(n)
    <3>1. CASE aged'[n] = aged[n]
      BY <2>2, <3>1 DEF Largest
    <3>2. CASE n = m /\ recent # 0
      <4>1. g \in aged[m] /\ larger <= g.n
        BY <1>9, <1>10, <2>2, <3>2
      <4>2. ASSUME NEW h \in aged[m]
            PROVE  h.n <= g.n
        <5>1. CASE h.n = lesser
          BY <1>5, <1>6, <4>1, <5>1
        <5>2. CASE h.n # lesser
          BY <1>9, <2>2, <3>2, <5>2
        <5> QED
          BY <5>1, <5>2
      <4> QED
        BY <3>2, <4>1, <4>2 DEF Largest
    <3> QED
      BY <1>9, <2>1, <3>1, <3>2
  <2>3. \A g \in Largest(n)' : g \in Largest(n)
    BY <2>2 DEF Largest
  <2> QED
    BY <1>1, <2>1, <2>3 DEF Kept
<1> QED
  BY <1>1, <1>2, <1>13, <1>14, LoadStep

LEMMA ScanEndStep ==
  ASSUME LockedLoads, KeywordInv, NEW p \in Procs, ScanEnd(p)
  PROVE  KeywordInv'
<1>1. /\ pc[p] = "scan" /\ pc' = [pc EXCEPT ![p] = "open"] /\ pc'[p] = "open"
      /\ ld[p].todo = {}
      /\ UNCHANGED <<newest, aged, list, committed, lock, job, msg>>
  BY DEF ScanEnd, files, KeywordInv, TypeOK
<1>2. /\ TypeOK' /\ LoadInv(p) /\ ld'[p].pending = Statuses(ld[p])
      /\ ld'[p].found_newest = ld[p].found_newest
      /\ ld'[p].most_recent = ld[p].most_recent /\ ld'[p].accept = ld[p].accept
      /\ ld'[p].may = ld[p].may
  BY <1>1, ScanEndFacts, OnlyOne DEF KeywordInv
<1>3. Live' = Live
  BY <1>1, LiveFacts
<1>4. ASSUME NEW n \in Msgs
      PROVE  Found(ld[p], n)'
  <2>1. Finds(ld[p], n)
    BY <1>1, <1>2 DEF LoadInv
  <2> QED
    BY <1>1, <1>2, <2>1 DEF Finds, Found
<1>5. Statuses(ld'[p]) = ld'[p].pending
  BY <1>2 DEF Statuses
<1>6. LoadInv(p)'
  BY <1>1, <1>2, <1>3, <1>4, <1>5 DEF LoadInv
<1> QED
  BY <1>1, <1>2, <1>6, KeptSame, LoadStep

\* An update that is read is the last one of its message.
LEMMA ReadsCommitted ==
  ASSUME KeywordInv, NEW p \in Procs, LoadInv(p), pc[p] = "open", NEW m \in Live,
         NEW c \in Candidates(ld[p], m)
  PROVE  c = committed[m]
<1>1. m \in Msgs /\ Kept(m) /\ Found(ld[p], m)
  BY LiveFacts DEF KeywordInv, LoadInv
<1>2. CASE m \in ld[p].found_newest
  BY <1>1, <1>2 DEF Candidates, Found, Kept
<1>3. CASE m \notin ld[p].found_newest
  <2>1. PICK f \in aged[m] : f.n = ld[p].most_recent[m] /\ c = f.content
    BY <1>3 DEF Candidates
  <2>2. ld[p].most_recent[m] \in Nat
    BY AgeFacts, <1>1 DEF KeywordInv
  <2>3. f \in Largest(m)
    BY <1>1, <2>1, <2>2 DEF Found, Largest
  <2> QED
    BY <1>1, <1>3, <2>1, <2>3 DEF Found, Kept
<1> QED
  BY <1>2, <1>3

LEMMA TryOpenStep ==
  ASSUME LockedLoads, KeywordInv, NEW p \in Procs, NEW m \in Msgs, TryOpen(p, m)
  PROVE  KeywordInv'
<1>1. /\ pc[p] = "open" /\ pc' = pc /\ pc' = [pc EXCEPT ![p] = "open"] /\ pc'[p] = "open"
      /\ UNCHANGED <<newest, aged, list, committed, lock, job, msg>>
  BY DEF TryOpen, files, KeywordInv, TypeOK
<1>2. /\ TypeOK' /\ LoadInv(p) /\ ld'[p].pending = ld[p].pending \ {m}
      /\ ld'[p].found_newest = ld[p].found_newest
      /\ ld'[p].most_recent = ld[p].most_recent /\ ld'[p].accept = ld[p].accept
      /\ ld'[p].may = ld[p].may
      /\ ld'[p].keywords[m] \in Candidates(ld[p], m)
      /\ \A n \in Msgs \ {m} : ld'[p].keywords[n] = ld[p].keywords[n]
  BY <1>1, TryOpenFacts, OnlyOne DEF KeywordInv
<1>3. Live' = Live /\ Live \in SUBSET Msgs
  BY <1>1, LiveFacts
<1>4. ASSUME NEW n \in Msgs
      PROVE  Found(ld[p], n)'
  <2>1. Found(ld[p], n)
    BY <1>1, <1>2 DEF LoadInv
  <2> QED
    BY <1>1, <1>2, <2>1 DEF Found
<1>5. Statuses(ld'[p]) = Statuses(ld[p])
  BY <1>2 DEF Statuses
<1>6. ASSUME NEW n \in Live, n \in Statuses(ld'[p]) \ ld'[p].pending
      PROVE  ld'[p].keywords[n] = committed'[n]
  <2>1. CASE n = m
    BY <1>1, <1>2, <1>6, <2>1, ReadsCommitted
  <2>2. CASE n # m
    BY <1>1, <1>2, <1>3, <1>5, <1>6, <2>2 DEF LoadInv
  <2> QED
    BY <2>1, <2>2
<1>7. LoadInv(p)'
  BY <1>1, <1>2, <1>3, <1>4, <1>6 DEF LoadInv
<1> QED
  BY <1>1, <1>2, <1>7, KeptSame, LoadStep

LEMMA ReadListStep ==
  ASSUME LockedLoads, KeywordInv, NEW p \in Procs, ReadList(p)
  PROVE  KeywordInv'
<1>1. /\ pc[p] = "open" /\ ld[p].pending = {}
      /\ UNCHANGED <<newest, aged, list, committed, lock, job, msg>>
  BY DEF ReadList, files
<1>2. /\ TypeOK' /\ LoadInv(p) /\ ld'[p].pending = Statuses(ld[p])
      /\ ld'[p].found_newest = ld[p].found_newest
      /\ ld'[p].most_recent = ld[p].most_recent /\ ld'[p].accept = ld[p].accept
      /\ ld'[p].may = ld[p].may
      /\ \A m \in Msgs : ld'[p].keywords[m] = IF m \in Statuses(ld[p])
                                              THEN ld[p].keywords[m] ELSE list[m]
  BY <1>1, ReadListFacts, OnlyOne DEF KeywordInv
<1>3. PICK step \in {"save", "clean"} :
        /\ pc' = [pc EXCEPT ![p] = step] /\ pc'[p] = step
        /\ step = "clean" => ld[p].found_newest = {}
  BY ReadListFacts DEF KeywordInv, TypeOK
<1>4. Live' = Live /\ Live \in SUBSET Msgs
  BY <1>1, LiveFacts
<1>5. \A n \in Msgs : Found(ld[p], n)
  BY <1>1, <1>2 DEF LoadInv
<1>6. \A n \in Msgs : Found(ld[p], n)'
  BY <1>1, <1>2, <1>5 DEF Found
<1>7. \A n \in Msgs : newest[n] # NoFile => n \in Statuses(ld[p])
  BY <1>5 DEF Found, Statuses
<1>8. \A n \in Live : ld'[p].keywords[n] = committed[n]
  <2> SUFFICES ASSUME NEW n \in Live PROVE ld'[p].keywords[n] = committed[n]
    OBVIOUS
  <2>1. n \in Msgs /\ Kept(n)
    BY <1>4 DEF KeywordInv
  <2>2. CASE n \in Statuses(ld[p])
    BY <1>1, <1>2, <2>1, <2>2 DEF LoadInv
  <2>3. CASE n \notin Statuses(ld[p])
    BY <1>2, <1>7, <2>1, <2>3 DEF Kept
  <2> QED
    BY <2>2, <2>3
<1>9. ASSUME step = "clean", NEW n \in Live
      PROVE  list[n] = committed[n]
  BY <1>3, <1>4, <1>5, <1>9 DEF Found, KeywordInv, Kept
<1>10. LoadInv(p)'
  BY <1>1, <1>2, <1>3, <1>4, <1>6, <1>7, <1>8, <1>9 DEF LoadInv
<1> QED
  BY <1>1, <1>2, <1>3, <1>10, KeptSame, LoadStep

LEMMA SaveListStep ==
  ASSUME LockedLoads, KeywordInv, NEW p \in Procs, SaveList(p)
  PROVE  KeywordInv'
<1>1. /\ pc[p] = "save" /\ pc' = [pc EXCEPT ![p] = "clean"] /\ pc'[p] = "clean"
      /\ UNCHANGED <<newest, aged, committed, lock, job, msg, ld>>
  BY DEF SaveList, KeywordInv, TypeOK
<1>2. TypeOK' /\ LoadInv(p) /\ \A m \in ld[p].accept : list'[m] = ld[p].keywords[m]
  BY <1>1, SaveListFacts, OnlyOne DEF KeywordInv
<1>3. Live' = Live /\ Live \in SUBSET Msgs
  BY <1>1, LiveFacts
<1>4. \A n \in Live : list'[n] = committed[n] /\ ld[p].keywords[n] = committed[n]
  BY <1>1, <1>2 DEF LoadInv
<1>5. \A n \in Msgs : Found(ld[p], n)
  BY <1>1, <1>2 DEF LoadInv
<1>6. \A n \in Msgs : Found(ld[p], n)'
  BY <1>1, <1>5 DEF Found
<1>7. LoadInv(p)'
  BY <1>1, <1>2, <1>3, <1>4, <1>6 DEF LoadInv
<1>8. ASSUME NEW n \in Live
      PROVE  Kept(n)'
  <2>1. Kept(n)
    BY DEF KeywordInv
  <2> QED
    BY <1>1, <1>4, <2>1 DEF Kept, Largest
<1> QED
  BY <1>1, <1>2, <1>7, <1>8, LoadStep

\* A newest update of a message becomes the largest aged one.
LEMMA RenameNewestStep ==
  ASSUME LockedLoads, KeywordInv, NEW p \in Procs, NEW m \in Msgs, RenameNewest(p, m)
  PROVE  KeywordInv'
<1>1. /\ pc[p] = "clean" /\ pc' = pc /\ pc' = [pc EXCEPT ![p] = "clean"] /\ pc'[p] = "clean"
      /\ m \in ld[p].pending /\ m \in ld[p].found_newest
      /\ UNCHANGED <<list, committed, lock, job, msg>>
  BY DEF RenameNewest, KeywordInv, TypeOK
<1>2. /\ TypeOK' /\ LoadInv(p) /\ ld'[p].pending = ld[p].pending \ {m}
      /\ ld'[p].found_newest = ld[p].found_newest
      /\ ld'[p].most_recent = ld[p].most_recent /\ ld'[p].accept = ld[p].accept
      /\ ld'[p].keywords = ld[p].keywords /\ ld'[p].may = ld[p].may
  BY <1>1, RenameNewestFacts, OnlyOne DEF KeywordInv
<1>3. Live' = Live /\ Live \in SUBSET Msgs
  BY <1>1, LiveFacts
<1>4. newest[m] # NoFile /\ \A f \in aged[m] : f.n = ld[p].most_recent[m]
  BY <1>1, <1>2 DEF LoadInv, Found
<1>5. Age(p, m) \in Nat /\ \A f \in aged[m] : f.n \in Nat /\ f.n <= Age(p, m)
  BY <1>4, AgeFacts DEF KeywordInv
<1> DEFINE new == [n |-> Age(p, m), content |-> newest[m], mtime |-> now]
<1>6. /\ newest' = [newest EXCEPT ![m] = NoFile]
      /\ aged' = [aged EXCEPT ![m] = Without(m, Age(p, m)) \cup {new}]
  BY <1>4 DEF RenameNewest, Age
<1>7. new.n = Age(p, m) /\ new.content = newest[m]
  OBVIOUS
<1> HIDE DEF new
<1>8. /\ newest'[m] = NoFile /\ aged'[m] = Without(m, Age(p, m)) \cup {new}
      /\ \A n \in Msgs \ {m} : newest'[n] = newest[n] /\ aged'[n] = aged[n]
  BY <1>6 DEF KeywordInv, TypeOK
<1>9. \A n \in Msgs \ {m} : Found(ld[p], n) => Found(ld[p], n)'
  <2> SUFFICES ASSUME NEW n \in Msgs \ {m}, Found(ld[p], n) PROVE Found(ld[p], n)'
    OBVIOUS
  <2> QED
    BY <1>2, <1>8 DEF Found
<1>10. \A n \in Live : list[n] = committed[n] /\ ld[p].keywords[n] = committed[n]
  BY <1>1, <1>2 DEF LoadInv
<1>11. LoadInv(p)'
  <2>1. Live' \subseteq ld'[p].accept /\ \A n \in Msgs : committed'[n] \in ld'[p].may[n]
    BY <1>1, <1>2, <1>3 DEF LoadInv
  <2>2. ASSUME NEW n \in Msgs, n \in ld'[p].pending
        PROVE  Found(ld[p], n)'
    BY <1>1, <1>2, <1>9, <2>2 DEF LoadInv
  <2>3. ASSUME NEW n \in Msgs, newest'[n] # NoFile
        PROVE  n \in ld'[p].pending
    BY <1>1, <1>2, <1>8, <2>3 DEF LoadInv
  <2> QED
    BY <1>1, <1>2, <1>3, <1>10, <2>1, <2>2, <2>3 DEF LoadInv
<1>12. ASSUME NEW n \in Live
       PROVE  Kept(n)'
  <2>1. Kept(n) /\ n \in Msgs
    BY <1>3 DEF KeywordInv
  <2>2. CASE n = m
    <3>1. newest[m] = committed[m]
      BY <1>4, <2>1, <2>2 DEF Kept
    <3>2. ASSUME NEW f \in aged'[m], \A g \in aged'[m] : g.n <= f.n
          PROVE  f = new
      <4>1. CASE f \in Without(m, Age(p, m))
        BY <1>5, <1>7, <1>8, <3>2, <4>1 DEF Without
      <4> QED
        BY <1>8, <3>2, <4>1
    <3>3. \A f \in Largest(m)' : f.content = committed[m]
      BY <1>7, <3>1, <3>2 DEF Largest
    <3> QED
      BY <1>1, <1>8, <1>10, <2>2, <3>3 DEF Kept
  <2>3. CASE n # m
    BY <1>1, <1>8, <2>1, <2>3 DEF Kept, Largest
  <2> QED
    BY <2>2, <2>3
<1> QED
  BY <1>1, <1>2, <1>11, <1>12, LoadStep

\* An aged update that is removed was the largest, and is in :list.
LEMMA DeleteIfAgedStep ==
  ASSUME LockedLoads, KeywordInv, NEW p \in Procs, NEW m \in Msgs, DeleteIfAged(p, m)
  PROVE  KeywordInv'
<1>1. /\ pc[p] = "clean" /\ pc' = pc /\ pc' = [pc EXCEPT ![p] = "clean"] /\ pc'[p] = "clean"
      /\ m \in ld[p].pending /\ m \notin ld[p].found_newest
      /\ UNCHANGED <<newest, list, committed, lock, job, msg>>
  BY DEF DeleteIfAged, KeywordInv, TypeOK
<1>2. /\ TypeOK' /\ LoadInv(p) /\ ld'[p].pending = ld[p].pending \ {m}
      /\ ld'[p].found_newest = ld[p].found_newest
      /\ ld'[p].most_recent = ld[p].most_recent /\ ld'[p].accept = ld[p].accept
      /\ ld'[p].keywords = ld[p].keywords /\ ld'[p].may = ld[p].may
  BY <1>1, DeleteIfAgedFacts, OnlyOne DEF KeywordInv
<1>3. PICK old \in SUBSET aged[m] : aged' = [aged EXCEPT ![m] = @ \ old]
  BY DeleteIfAgedFacts DEF KeywordInv
<1>4. Live' = Live /\ Live \in SUBSET Msgs
  BY <1>1, LiveFacts
<1>5. aged'[m] = aged[m] \ old /\ \A n \in Msgs \ {m} : aged'[n] = aged[n]
  BY <1>3 DEF KeywordInv, TypeOK
<1>6. Found(ld[p], m) /\ newest[m] = NoFile
  BY <1>1, <1>2 DEF LoadInv, Found
<1>7. ASSUME NEW n \in Msgs, Found(ld[p], n)
      PROVE  Found(ld[p], n)'
  <2>1. aged'[n] \subseteq aged[n]
    BY <1>5
  <2> QED
    BY <1>1, <1>2, <1>7, <2>1 DEF Found
<1>8. LoadInv(p)'
  <2>1. /\ Live' \subseteq ld'[p].accept /\ \A n \in Msgs : committed'[n] \in ld'[p].may[n]
        /\ \A n \in Live : list[n] = committed[n] /\ ld[p].keywords[n] = committed[n]
    BY <1>1, <1>2, <1>4 DEF LoadInv
  <2>2. ASSUME NEW n \in Msgs, n \in ld'[p].pending
        PROVE  Found(ld[p], n)'
    BY <1>1, <1>2, <1>7, <2>2 DEF LoadInv
  <2>3. ASSUME NEW n \in Msgs, newest'[n] # NoFile
        PROVE  n \in ld'[p].pending
    BY <1>1, <1>2, <1>6, <2>3 DEF LoadInv
  <2> QED
    BY <1>1, <1>2, <1>4, <2>1, <2>2, <2>3 DEF LoadInv
<1>9. ASSUME NEW n \in Live
      PROVE  Kept(n)'
  <2>1. Kept(n) /\ n \in Msgs
    BY <1>4 DEF KeywordInv
  <2>2. CASE n = m
    <3>1. \A f \in aged[m] : f.n = ld[p].most_recent[m] /\ f.n <= f.n
      BY <1>6, AgeFacts DEF Found, KeywordInv
    <3>2. \A f \in aged'[m] : f \in Largest(m)
      BY <1>5, <3>1 DEF Largest
    <3>3. \A f \in Largest(m)' : f \in Largest(m)
      BY <3>2 DEF Largest
    <3> QED
      BY <1>1, <2>1, <2>2, <3>3 DEF Kept
  <2>3. CASE n # m
    BY <1>1, <1>5, <2>1, <2>3 DEF Kept, Largest
  <2> QED
    BY <2>2, <2>3
<1> QED
  BY <1>1, <1>2, <1>8, <1>9, LoadStep

\* A load that begins has yet to read all there is.
LEMMA NewLoadFinds ==
  ASSUME TypeOK, NEW accept \in SUBSET Msgs, NEW l, l = NewLoad(accept), NEW m \in Msgs
  PROVE  Finds(l, m)
<1>1. /\ l.todo = Directory /\ l.found_newest = {} /\ l.most_recent[m] = 0
  BY NewLoadFacts
<1>2. /\ newest[m] # NoFile => <<m, 0>> \in Directory
      /\ \A f \in aged[m] : <<m, f.n>> \in Directory
  BY DirectoryType
<1> QED
  BY <1>1, <1>2 DEF Finds

\* A load that begins, or begins again, has the messages that matter.
LEMMA BeginStep ==
  ASSUME LockedLoads, KeywordInv, NEW p \in Procs, NEW accept \in SUBSET Msgs,
         \A q \in Procs \ {p} : pc[q] = "idle" /\ lock # q,
         pc' = [pc EXCEPT ![p] = "scan"], lock' = p, ld' = [ld EXCEPT ![p] = NewLoad(accept)],
         UNCHANGED <<files, msg, committed>>, TypeOK',
         \A q \in Procs : q # p \/ q \notin Adders => job'[q] = NoJob,
         Live' \subseteq Live, Live' \subseteq accept
  PROVE  KeywordInv'
<1>1. /\ pc'[p] = "scan" /\ \A q \in Procs \ {p} : pc'[q] = "idle"
      /\ ld'[p] = NewLoad(accept)
      /\ UNCHANGED <<newest, aged, list, committed>>
  BY DEF KeywordInv, TypeOK, files
<1>2. /\ ld'[p].accept = accept /\ \A m \in Msgs : ld'[p].may[m] = {committed[m]}
  BY <1>1, NewLoadFacts DEF KeywordInv
<1>3. ASSUME NEW m \in Msgs
      PROVE  Finds(ld[p], m)'
  <2> DEFINE l == NewLoad(accept)
  <2>1. Finds(l, m)
    BY NewLoadFinds DEF KeywordInv
  <2> HIDE DEF l
  <2>2. ld'[p] = l
    BY <1>1 DEF l
  <2> QED
    BY <1>1, <2>1, <2>2 DEF Finds
<1>4. LoadInv(p)'
  BY <1>1, <1>2, <1>3 DEF LoadInv
<1>5. \A m \in Live : Kept(m)'
  BY <1>1, KeptSame
<1> QED
  BY <1>1, <1>4, <1>5 DEF KeywordInv

\* Nothing has begun when nobody holds the lock.
LEMMA AllIdle ==
  ASSUME LockedLoads, KeywordInv, lock = Nobody
  PROVE  \A q \in Procs : pc[q] = "idle" /\ lock # q /\ job[q] = NoJob
BY KeywordAssumption DEF KeywordInv, Nobody

LEMMA NoJobFacts == NoJob.m \notin Msgs /\ Nobody \notin Procs
BY KeywordAssumption DEF NoJob, Nobody

LEMMA ScanStep ==
  ASSUME LockedLoads, KeywordInv, NEW p \in Procs, Scan(p)
  PROVE  KeywordInv'
<1>1. /\ lock = Nobody /\ lock' = p /\ pc' = [pc EXCEPT ![p] = "scan"]
      /\ ld' = [ld EXCEPT ![p] = NewLoad(Cur)]
      /\ UNCHANGED <<files, msg, job, committed>>
  BY DEF Scan, LockedLoads
<1>2. \A q \in Procs : pc[q] = "idle" /\ lock # q /\ job[q] = NoJob
  BY <1>1, AllIdle
<1>3. Live' \subseteq Cur /\ Cur \subseteq Live /\ Cur \in SUBSET Msgs
  BY <1>1, <1>2, NoJobFacts DEF Live, Cur
<1>4. TypeOK'
  BY TypeBegin DEF KeywordInv
<1>5. Live' \subseteq Live
  BY <1>3
<1> QED
  BY <1>1, <1>2, <1>3, <1>4, <1>5, BeginStep

LEMMA BeginAddStep ==
  ASSUME LockedLoads, KeywordInv, NEW p \in Procs, BeginAdd(p)
  PROVE  KeywordInv'
<1>1. /\ lock = Nobody /\ lock' = p /\ pc' = [pc EXCEPT ![p] = "scan"]
      /\ ld' = [ld EXCEPT ![p] = NewLoad(Msgs)]
      /\ UNCHANGED <<files, msg, committed>> /\ p \in Adders
  BY DEF BeginAdd
<1>2. \A q \in Procs : pc[q] = "idle" /\ lock # q /\ job[q] = NoJob
  BY <1>1, AllIdle
<1>3. PICK m \in Cur, c \in Contents : job' = [job EXCEPT ![p] = Job(m, c)]
  BY <1>2 DEF BeginAdd
<1>4. job'[p] = Job(m, c) /\ \A q \in Procs \ {p} : job'[q] = job[q]
  BY <1>3 DEF KeywordInv, TypeOK
<1>5. Live' \subseteq Cur /\ Cur \subseteq Live /\ Cur \in SUBSET Msgs
  BY <1>1, <1>2, <1>4 DEF Live, Cur, Job
<1>6. TypeOK'
  BY TypeBegin DEF KeywordInv
<1>7. Live' \subseteq Live /\ Live' \subseteq Msgs /\ Msgs \in SUBSET Msgs
  BY <1>5
<1>8. \A q \in Procs \ {p} : job'[q] = NoJob
  BY <1>2, <1>4
<1> QED
  BY <1>1, <1>2, <1>4, <1>6, <1>7, <1>8, BeginStep

LEMMA OpenFailsStep ==
  ASSUME LockedLoads, KeywordInv, NEW p \in Procs, NEW m \in Msgs, OpenFails(p, m)
  PROVE  KeywordInv'
<1>1. /\ pc[p] = "open" /\ pc' = [pc EXCEPT ![p] = "scan"]
      /\ ld' = [ld EXCEPT ![p] = NewLoad(ld[p].accept)]
      /\ UNCHANGED <<files, msg, lock, job, committed>>
  BY DEF OpenFails, KeywordInv, TypeOK
<1>2. /\ lock = p /\ LoadInv(p) /\ \A q \in Procs \ {p} : pc[q] = "idle" /\ lock # q
      /\ ld[p].accept \in SUBSET Msgs
  BY <1>1, OnlyOne DEF LoadState
<1>3. Live' = Live /\ Live \subseteq ld[p].accept
  BY <1>1, <1>2, LiveFacts DEF LoadInv
<1>4. TypeOK'
  BY TypeLoad DEF Load, KeywordInv
<1>5. \A q \in Procs : q # p \/ q \notin Adders => job'[q] = NoJob
  BY <1>1, <1>2 DEF KeywordInv
<1> DEFINE accept == ld[p].accept
<1>6. accept \in SUBSET Msgs /\ Live' \subseteq accept /\ Live' \subseteq Live
  BY <1>2, <1>3
<1>7. ld' = [ld EXCEPT ![p] = NewLoad(accept)]
  BY <1>1
<1> HIDE DEF accept
<1> QED
  BY <1>1, <1>2, <1>4, <1>5, <1>6, <1>7, BeginStep

\* An operation is over, and all that is left to keep is what the folder has.
LEMMA EndStep ==
  ASSUME LockedLoads, KeywordInv, TypeOK', NEW p \in Procs, pc[p] # "idle",
         pc' = [pc EXCEPT ![p] = "idle"], lock' = Nobody, job'[p] = NoJob,
         \A q \in Procs \ {p} : job'[q] = job[q], msg' = msg, \A m \in Cur : Kept(m)'
  PROVE  KeywordInv'
<1>1. \A q \in Procs : pc'[q] = "idle"
  BY OnlyOne DEF KeywordInv, TypeOK
<1>2. \A q \in Procs : job'[q] = NoJob
  BY OnlyOne DEF KeywordInv
<1>3. Live' = Cur
  BY NoJobFacts DEF Live, Cur
<1> QED
  BY <1>1, <1>2, <1>3, NoJobFacts DEF KeywordInv

LEMMA LoadEndStep ==
  ASSUME LockedLoads, KeywordInv, NEW p \in Procs, LoadEnd(p)
  PROVE  KeywordInv'
<1>1. /\ pc[p] = "clean" /\ ld[p].pending = {}
      /\ UNCHANGED <<newest, aged, list, committed, job, msg>>
  BY DEF LoadEnd, files
<1>2. lock = p /\ LoadInv(p)
  BY <1>1, OnlyOne
<1>3. TypeOK'
  BY TypeLoad DEF Load, KeywordInv
<1>4. \A m \in Live : Kept(m)'
  BY <1>1, KeptSame
<1>5. CASE Scanning(p)
  <2>1. pc' = [pc EXCEPT ![p] = "idle"] /\ lock' = Nobody
    BY <1>2, <1>5 DEF LoadEnd, Release
  <2>2. job'[p] = NoJob /\ \A q \in Procs \ {p} : job'[q] = job[q]
    BY <1>1, <1>5 DEF Scanning
  <2> QED
    BY <1>1, <1>3, <1>4, <2>1, <2>2, EndStep, LiveFacts
<1>6. CASE ~ Scanning(p)
  <2>1. p \in Adders /\ job[p] # NoJob
    BY <1>6 DEF Scanning, KeywordInv
  <2>2. pc' = [pc EXCEPT ![p] = "link"] /\ lock' = lock /\ ld' = ld /\ pc'[p] = "link"
    BY <1>2, <1>6, <2>1 DEF LoadEnd, KeywordInv, TypeOK
  <2>3. Live' = Live
    BY <1>1, <2>2, LiveFacts
  <2>4. LoadInv(p)'
    BY <1>1, <1>2, <2>2, <2>3 DEF LoadInv
  <2> QED
    BY <1>1, <1>3, <1>4, <2>1, <2>2, <2>4, LoadStep
<1> QED
  BY <1>5, <1>6

LEMMA LinkStep ==
  ASSUME LockedLoads, KeywordInv, NEW p \in Procs, Link(p)
  PROVE  KeywordInv'
<1> DEFINE m == job[p].m
           c == job[p].content
<1>1. pc[p] = "link" /\ lock = p /\ p \notin Appenders
  BY OnlyOne DEF Link
<1>2. m \in Msgs /\ c \in Content
  BY DEF Link, KeywordInv, TypeOK
<1> HIDE DEF m, c
<1>3. /\ newest' = [newest EXCEPT ![m] = c] /\ committed' = [committed EXCEPT ![m] = c]
      /\ pc' = [pc EXCEPT ![p] = "idle"] /\ job' = [job EXCEPT ![p] = NoJob]
      /\ lock' = Nobody /\ UNCHANGED <<aged, list, msg>>
  BY <1>1 DEF Link, m, c, Release
<1>4. TypeOK'
  BY TypeUpdate DEF Update, KeywordInv
<1>5. job'[p] = NoJob /\ \A q \in Procs \ {p} : job'[q] = job[q]
  BY <1>3 DEF KeywordInv, TypeOK
<1>6. ASSUME NEW n \in Cur
      PROVE  Kept(n)'
  <2>1. n \in Msgs /\ Kept(n) /\ newest \in [Msgs -> Content \cup {NoFile}]
        /\ committed \in [Msgs -> Content]
    BY LiveFacts DEF KeywordInv, TypeOK
  <2>2. CASE n = m
    <3>1. newest'[m] = c /\ committed'[m] = c
      BY <1>2, <1>3, <2>1
    <3> QED
      BY <1>2, <2>2, <3>1, Contained DEF Kept
  <2>3. CASE n # m
    <3>1. newest'[n] = newest[n] /\ committed'[n] = committed[n]
      BY <1>3, <2>1, <2>3
    <3> QED
      BY <1>3, <2>1, <3>1 DEF Kept, Largest
  <2> QED
    BY <2>2, <2>3
<1> QED
  BY <1>1, <1>3, <1>4, <1>5, <1>6, EndStep

LEMMA CrashStep ==
  ASSUME LockedLoads, KeywordInv, NEW p \in Procs, Crash(p)
  PROVE  KeywordInv'
<1>1. /\ pc[p] # "idle" /\ pc' = [pc EXCEPT ![p] = "idle"]
      /\ job' = [job EXCEPT ![p] = NoJob]
      /\ UNCHANGED <<newest, aged, list, committed, msg>>
  BY DEF Crash, files
<1>2. lock' = Nobody
  BY <1>1, OnlyOne DEF Crash, Release
<1>3. TypeOK'
  BY NextType DEF Next, KeywordInv
<1>4. job'[p] = NoJob /\ \A q \in Procs \ {p} : job'[q] = job[q]
  BY <1>1 DEF KeywordInv, TypeOK
<1>5. \A m \in Cur : Kept(m)'
  BY <1>1, KeptSame, LiveFacts
<1> QED
  BY <1>1, <1>2, <1>3, <1>4, <1>5, EndStep

\* Time passes or a message goes: there is only less to keep.
LEMMA OutsideStep ==
  ASSUME LockedLoads, KeywordInv, TypeOK',
         UNCHANGED <<files, lock, pc, job, ld, committed>>, Live' \subseteq Live
  PROVE  KeywordInv'
<1>1. UNCHANGED <<newest, aged, list>>
  BY DEF files
<1>2. ASSUME NEW p \in Procs, LoadInv(p)
      PROVE  LoadInv(p)'
  <2>1. \A m \in Msgs : (Finds(ld[p], m) => Finds(ld[p], m)') /\ (Found(ld[p], m) => Found(ld[p], m)')
    BY <1>1 DEF Finds, Found
  <2>2. Live' \subseteq ld'[p].accept /\ \A m \in Msgs : committed'[m] \in ld'[p].may[m]
    BY <1>2 DEF LoadInv
  <2> QED
    BY <1>1, <1>2, <2>1, <2>2 DEF LoadInv, Statuses
<1>3. \A m \in Live : Kept(m)'
  BY <1>1, KeptSame
<1> QED
  BY <1>2, <1>3 DEF KeywordInv

\* Every step keeps the invariant.
LEMMA NextKeywordInv ==
  ASSUME LockedLoads, KeywordInv, [Next]_vars
  PROVE  KeywordInv'
<1>1. TypeOK'
  BY NextType DEF KeywordInv
<1>2. \A p \in Procs : ~ Request(p) /\ ~ BeginAppend(p)
  BY DEF LockedLoads, Request, BeginAppend
<1>3. \A p \in Procs : ~ LinkExists(p) /\ ~ Deliver(p)
  <2>1. ASSUME NEW p \in Procs, LinkExists(p)
        PROVE  FALSE
    <3>1. pc[p] = "link" /\ newest[job[p].m] # NoFile /\ job[p].m \in Msgs
      BY <2>1 DEF LinkExists, KeywordInv, TypeOK
    <3>2. LoadInv(p)
      BY <3>1, OnlyOne
    <3> QED
      BY <3>1, <3>2 DEF LoadInv
  <2> QED
    BY <2>1 DEF Deliver, KeywordInv
<1>4. ASSUME NEW p \in Procs, Load(p)
      PROVE  KeywordInv'
  BY <1>4, ScanNewestStep, ScanAgedStep, TryOpenStep, OpenFailsStep, RenameNewestStep,
     DeleteIfAgedStep, ScanEndStep, ReadListStep, SaveListStep, LoadEndStep DEF Load
<1>5. ASSUME NEW m \in Msgs, Expunge(m)
      PROVE  KeywordInv'
  <2>1. Live' \subseteq Live
    BY <1>5 DEF Expunge, Live, KeywordInv, TypeOK
  <2> QED
    BY <1>1, <1>5, <2>1, OutsideStep DEF Expunge
<1>6. CASE Tick
  <2>1. Live' = Live
    BY <1>6, LiveFacts DEF Tick
  <2> QED
    BY <1>1, <1>6, <2>1, OutsideStep DEF Tick
<1>7. CASE UNCHANGED vars
  <2>1. Live' = Live
    BY <1>7, LiveFacts DEF vars
  <2> QED
    BY <1>1, <1>7, <2>1, OutsideStep DEF vars, files
<1> QED
  BY <1>2, <1>3, <1>4, <1>5, <1>6, <1>7, ScanStep, BeginAddStep, LinkStep, CrashStep
  DEF Next, Update

LEMMA InitKeywordInv ==
  ASSUME LockedLoads, Init
  PROVE  KeywordInv
<1>1. TypeOK
  BY InitType
<1>2. \A p \in Procs : pc[p] = "idle" /\ job[p] = NoJob /\ lock # p
  BY NoJobFacts DEF Init
<1>3. \A m \in Msgs : Kept(m)
  BY DEF Init, Kept, Largest
<1> QED
  BY <1>1, <1>2, <1>3, LiveFacts DEF KeywordInv

-----------------------------------------------------------------------------
(* Loads and updates that do not hold the lock                              *)

\* A step that leaves the updates as they are, and that gathers nothing of a
\* message without any, keeps the invariant.
LEMMA FilesSame ==
  ASSUME UnlockedInv, TypeOK', NEW p \in Procs,
         UNCHANGED <<now, newest, aged, committed>>,
         \A q \in Procs \ {p} : Alike(q), Loading(p)' => BriefInv(p)',
         \A n \in Msgs : newest[n] = NoFile /\ aged[n] = {} /\ Blank(n) =>
            list'[n] = Empty /\ ld'[p].keywords[n] = Empty
  PROVE  UnlockedInv'
<1>1. ASSUME NEW q \in Procs, Loading(q)'
      PROVE  BriefInv(q)'
  <2>1. CASE q = p
    BY <1>1, <2>1
  <2>2. CASE q # p
    <3>1. Alike(q)
      BY <2>2
    <3>2. Loading(q)
      BY <1>1, <3>1 DEF Alike, Loading
    <3>3. BriefInv(q)
      BY <3>2 DEF UnlockedInv
    <3> QED
      BY <3>1, <3>3 DEF Alike, BriefInv
  <2> QED
    BY <2>1, <2>2
<1>2. ASSUME NEW n \in Msgs
      PROVE  /\ Stored(n)'
             /\ newest'[n] = NoFile /\ aged'[n] = {} => Blank(n)'
             /\ \A f \in aged'[n] : f.n <= now' \div ChunkTicks + 1
  <2>1. Stored(n)' /\ \A f \in aged'[n] : f.n <= now' \div ChunkTicks + 1
    BY DEF UnlockedInv, Stored, Largest
  <2>2. ASSUME newest[n] = NoFile, aged[n] = {}
        PROVE  Blank(n)'
    <3>1. Blank(n)
      BY <2>2 DEF UnlockedInv
    <3>2. list'[n] = Empty /\ ld'[p].keywords[n] = Empty
      BY <2>2, <3>1
    <3>3. \A q \in Procs \ {p} : ld'[q].keywords[n] = Empty
      BY <3>1 DEF Alike, Blank
    <3> QED
      BY <3>1, <3>2, <3>3 DEF Blank
  <2> QED
    BY <2>1, <2>2
<1> QED
  BY <1>1, <1>2 DEF UnlockedInv

\* A load that goes on, and has read no other name, is as good as it was.
LEMMA GoesOn ==
  ASSUME UnlockedInv, NEW p \in Procs, Loading(p), UNCHANGED <<now, aged>>,
         ld'[p].t = ld[p].t, ld'[p].most_recent = ld[p].most_recent,
         pc'[p] = "scan" => pc[p] = "scan" /\ ld[p].got \subseteq ld'[p].got
  PROVE  BriefInv(p)'
<1>1. BriefInv(p)
  BY DEF UnlockedInv
<1> QED
  BY <1>1 DEF BriefInv

\* A load that begins has read no name.
LEMMA BeginsBrief ==
  ASSUME UnlockedInv, NEW p \in Procs, NEW accept \in SUBSET Msgs,
         ld'[p] = NewLoad(accept), now' = now
  PROVE  BriefInv(p)' /\ \A n \in Msgs : ld'[p].keywords[n] = Empty
<1>1. TypeOK
  BY DEF UnlockedInv
<1>2. ld'[p].t = now /\ ld'[p].most_recent = [m \in Msgs |-> 0]
  BY <1>1, NewLoadFacts
<1>3. ld'[p].keywords = NoLoad.keywords
  BY DEF NewLoad, NoLoad
<1>4. \A n \in Msgs : ld'[p].keywords[n] = Empty
  BY <1>3 DEF NoLoad
<1> QED
  BY <1>2, <1>4 DEF BriefInv

\* An operation begins, a load starts over or ends, or a process dies.
LEMMA BetweenLoads ==
  ASSUME UnlockedInv, TypeOK', NEW p \in Procs,
         \/ Scan(p) \/ Request(p) \/ BeginAdd(p) \/ BeginAppend(p)
         \/ LinkExists(p) \/ Deliver(p) \/ LoadEnd(p) \/ Crash(p)
         \/ \E m \in Msgs : OpenFails(p, m)
  PROVE  UnlockedInv'
<1>1. ld \in [Procs -> LoadState] /\ pc \in [Procs -> States] /\ TypeOK
  BY DEF UnlockedInv, TypeOK, States
<1>2. UNCHANGED <<now, newest, aged, list, committed>>
  BY DEF Scan, Request, BeginAdd, BeginAppend, LinkExists, Deliver, LoadEnd, Crash,
         OpenFails, files
<1>3. CASE \E accept \in SUBSET Msgs : /\ ld' = [ld EXCEPT ![p] = NewLoad(accept)]
                                       /\ pc' = [pc EXCEPT ![p] = "scan"]
  <2>1. PICK accept \in SUBSET Msgs : /\ ld' = [ld EXCEPT ![p] = NewLoad(accept)]
                                      /\ pc' = [pc EXCEPT ![p] = "scan"]
    BY <1>3
  <2>2. ld'[p] = NewLoad(accept)
    BY <1>1, <2>1
  <2>3. \A q \in Procs \ {p} : Alike(q)
    BY <1>1, <2>1 DEF Alike
  <2>4. BriefInv(p)' /\ \A n \in Msgs : ld'[p].keywords[n] = Empty
    BY <1>2, <2>2, BeginsBrief
  <2>5. \A n \in Msgs : Blank(n) => list'[n] = Empty
    BY <1>2 DEF Blank
  <2> QED
    BY <1>2, <2>3, <2>4, <2>5, FilesSame
<1>4. CASE \E step \in {"idle", "again", "link"} :
             /\ pc' = [pc EXCEPT ![p] = step]
             /\ ld' = ld \/ ld' = [ld EXCEPT ![p] = NoLoad]
  <2>1. PICK step \in {"idle", "again", "link"} :
             /\ pc' = [pc EXCEPT ![p] = step]
             /\ ld' = ld \/ ld' = [ld EXCEPT ![p] = NoLoad]
    BY <1>4
  <2>2. \A q \in Procs \ {p} : Alike(q)
    BY <1>1, <2>1 DEF Alike
  <2>3. ~ Loading(p)'
    BY <1>1, <2>1 DEF Loading
  <2>4. ld'[p] = ld[p] \/ ld'[p] = NoLoad
    BY <1>1, <2>1
  <2>5. \A n \in Msgs : NoLoad.keywords[n] = Empty
    BY DEF NoLoad
  <2>6. \A n \in Msgs : Blank(n) => list'[n] = Empty /\ ld'[p].keywords[n] = Empty
    BY <1>2, <2>4, <2>5 DEF Blank
  <2> QED
    BY <1>2, <2>2, <2>3, <2>6, FilesSame
<1>5. ASSUME NEW m \in Msgs, OpenFails(p, m)
      PROVE  \E accept \in SUBSET Msgs : /\ ld' = [ld EXCEPT ![p] = NewLoad(accept)]
                                         /\ pc' = [pc EXCEPT ![p] = "scan"]
  <2>1. ld[p].accept \in SUBSET Msgs
    BY <1>1 DEF LoadState
  <2>2. ld' = [ld EXCEPT ![p] = NewLoad(ld[p].accept)] /\ pc' = [pc EXCEPT ![p] = "scan"]
    BY <1>1, <1>5 DEF OpenFails
  <2> QED
    BY <2>1, <2>2
<1>6. Deliver(p) => Cur \cup {job[p].m} \in SUBSET Msgs
  BY <1>1 DEF Deliver, TypeOK, Cur
<1>7. Cur \in SUBSET Msgs /\ Msgs \in SUBSET Msgs
  BY DEF Cur
<1>8. Scan(p) \/ BeginAdd(p) \/ LinkExists(p) \/ Deliver(p) =>
        \E accept \in SUBSET Msgs : /\ ld' = [ld EXCEPT ![p] = NewLoad(accept)]
                                    /\ pc' = [pc EXCEPT ![p] = "scan"]
  <2>1. Scan(p) => ld' = [ld EXCEPT ![p] = NewLoad(Cur)] /\ pc' = [pc EXCEPT ![p] = "scan"]
    BY DEF Scan
  <2>2. BeginAdd(p) \/ LinkExists(p) =>
          ld' = [ld EXCEPT ![p] = NewLoad(Msgs)] /\ pc' = [pc EXCEPT ![p] = "scan"]
    BY DEF BeginAdd, LinkExists
  <2>3. Deliver(p) => /\ ld' = [ld EXCEPT ![p] = NewLoad(Cur \cup {job[p].m})]
                      /\ pc' = [pc EXCEPT ![p] = "scan"]
    BY DEF Deliver
  <2> QED
    BY <1>6, <1>7, <2>1, <2>2, <2>3, Zenon
<1>9. Request(p) \/ BeginAppend(p) \/ Crash(p) =>
        \E step \in {"idle", "again", "link"} :
             /\ pc' = [pc EXCEPT ![p] = step]
             /\ ld' = ld \/ ld' = [ld EXCEPT ![p] = NoLoad]
  BY DEF Request, BeginAppend, Crash
<1>10. LoadEnd(p) => \E step \in {"idle", "again", "link"} :
             /\ pc' = [pc EXCEPT ![p] = step]
             /\ ld' = ld \/ ld' = [ld EXCEPT ![p] = NoLoad]
  BY DEF LoadEnd
<1> QED
  BY <1>3, <1>4, <1>5, <1>8, <1>9, <1>10

\* What a load gathers does not change what it knows of others' names.
LEMMA GatherFacts ==
  ASSUME TypeOK, NEW p \in Procs,
         \/ ScanEnd(p) \/ ReadList(p) \/ SaveList(p)
         \/ \E m \in Msgs : ScanNewest(p, m) \/ TryOpen(p, m)
  PROVE  /\ ld'[p].t = ld[p].t /\ ld'[p].most_recent = ld[p].most_recent
         /\ pc'[p] = "scan" => pc[p] = "scan" /\ ld[p].got \subseteq ld'[p].got
         /\ Loading(p) /\ \A q \in Procs \ {p} : Alike(q)
         /\ UNCHANGED <<now, newest, aged, committed>>
<1>1. ld \in [Procs -> LoadState] /\ pc \in [Procs -> States] /\ ld[p] \in LoadState
  BY DEF TypeOK, States
<1>2. ASSUME NEW m \in Msgs, ScanNewest(p, m)
      PROVE  /\ ld'[p].t = ld[p].t /\ ld'[p].most_recent = ld[p].most_recent
             /\ ld[p].got \subseteq ld'[p].got /\ pc[p] = "scan" /\ pc'[p] = "scan"
             /\ \A q \in Procs \ {p} : ld'[q] = ld[q] /\ pc'[q] = pc[q]
             /\ UNCHANGED <<now, newest, aged, committed>>
  BY <1>1, <1>2 DEF ScanNewest, LoadState, files
<1>3. ASSUME NEW m \in Msgs, TryOpen(p, m)
      PROVE  /\ ld'[p].t = ld[p].t /\ ld'[p].most_recent = ld[p].most_recent
             /\ pc[p] = "open" /\ pc'[p] = "open"
             /\ \A q \in Procs \ {p} : ld'[q] = ld[q] /\ pc'[q] = pc[q]
             /\ UNCHANGED <<now, newest, aged, committed>>
  <2>1. PICK c \in Candidates(ld[p], m) :
          ld' = [ld EXCEPT ![p].keywords[m] = c, ![p].pending = @ \ {m}]
    BY <1>3 DEF TryOpen
  <2>2. ld' = [ld EXCEPT ![p] = [ld[p] EXCEPT !.keywords = [@ EXCEPT ![m] = c],
                                              !.pending = @ \ {m}]]
    BY <1>1, <2>1 DEF LoadState
  <2>3. pc[p] = "open" /\ pc' = pc /\ UNCHANGED <<now, newest, aged, committed>>
    BY <1>3 DEF TryOpen, files
  <2>4. ld'[p].t = ld[p].t /\ ld'[p].most_recent = ld[p].most_recent
    BY <1>1, <2>2 DEF LoadState
  <2> QED
    BY <1>1, <2>2, <2>3, <2>4
<1>4. ASSUME ScanEnd(p)
      PROVE  /\ ld'[p].t = ld[p].t /\ ld'[p].most_recent = ld[p].most_recent
             /\ pc[p] = "scan" /\ pc'[p] = "open"
             /\ \A q \in Procs \ {p} : ld'[q] = ld[q] /\ pc'[q] = pc[q]
             /\ UNCHANGED <<now, newest, aged, committed>>
  BY <1>1, <1>4 DEF ScanEnd, LoadState, files
<1>5. ASSUME ReadList(p)
      PROVE  /\ ld'[p].t = ld[p].t /\ ld'[p].most_recent = ld[p].most_recent
             /\ pc[p] = "open" /\ pc'[p] \in {"save", "clean"}
             /\ \A q \in Procs \ {p} : ld'[q] = ld[q] /\ pc'[q] = pc[q]
             /\ UNCHANGED <<now, newest, aged, committed>>
  BY <1>1, <1>5 DEF ReadList, LoadState, files
<1>6. ASSUME SaveList(p)
      PROVE  /\ ld' = ld /\ pc[p] = "save" /\ pc'[p] = "clean"
             /\ \A q \in Procs \ {p} : pc'[q] = pc[q]
             /\ UNCHANGED <<now, newest, aged, committed>>
  BY <1>1, <1>6 DEF SaveList
<1>7. /\ ld'[p].t = ld[p].t /\ ld'[p].most_recent = ld[p].most_recent
      /\ pc'[p] = "scan" => pc[p] = "scan" /\ ld[p].got \subseteq ld'[p].got
      /\ pc[p] \in {"scan", "open", "save"}
      /\ UNCHANGED <<now, newest, aged, committed>>
  BY <1>2, <1>3, <1>4, <1>5, <1>6
<1>8. \A q \in Procs \ {p} : ld'[q] = ld[q] /\ pc'[q] = pc[q]
  BY <1>2, <1>3, <1>4, <1>5, <1>6
<1> QED
  BY <1>7, <1>8 DEF Alike, Loading

\* A load of a message without updates gathers no keywords of it.
LEMMA GatherStep ==
  ASSUME UnlockedInv, TypeOK', NEW p \in Procs,
         \/ ScanEnd(p) \/ ReadList(p) \/ SaveList(p)
         \/ \E m \in Msgs : ScanNewest(p, m) \/ TryOpen(p, m)
  PROVE  UnlockedInv'
<1>1. TypeOK /\ ld[p] \in LoadState /\ ld \in [Procs -> LoadState]
  BY DEF UnlockedInv, TypeOK
<1>2. /\ ld'[p].t = ld[p].t /\ ld'[p].most_recent = ld[p].most_recent
      /\ pc'[p] = "scan" => pc[p] = "scan" /\ ld[p].got \subseteq ld'[p].got
      /\ Loading(p) /\ \A q \in Procs \ {p} : Alike(q)
      /\ UNCHANGED <<now, newest, aged, committed>>
  BY <1>1, GatherFacts
<1>3. BriefInv(p)'
  BY <1>2, GoesOn
<1>4. ASSUME NEW n \in Msgs, newest[n] = NoFile, aged[n] = {}, Blank(n)
      PROVE  list'[n] = Empty /\ ld'[p].keywords[n] = Empty
  <2>1. list[n] = Empty /\ ld[p].keywords[n] = Empty
    BY <1>4 DEF Blank
  <2>2. ASSUME NEW m \in Msgs, ScanNewest(p, m)
        PROVE  list' = list /\ ld'[p].keywords = ld[p].keywords
    BY <1>1, <2>2 DEF ScanNewest, LoadState, files
  <2>3. ASSUME ScanEnd(p)
        PROVE  list' = list /\ ld'[p].keywords = ld[p].keywords
    BY <1>1, <2>3 DEF ScanEnd, LoadState, files
  <2>4. ASSUME NEW m \in Msgs, TryOpen(p, m)
        PROVE  list' = list /\ ld'[p].keywords[n] = ld[p].keywords[n]
    <3>1. Candidates(ld[p], n) = {}
      BY <1>4 DEF Candidates
    <3>2. n # m /\ list' = list
      BY <1>1, <2>4, <3>1, TryOpenFacts DEF TryOpen, files
    <3> QED
      BY <1>1, <2>4, <3>2, TryOpenFacts
  <2>5. ASSUME ReadList(p)
        PROVE  list' = list /\ ld'[p].keywords[n] = Empty
    <3>1. ld'[p].keywords[n] = IF n \in Statuses(ld[p]) THEN ld[p].keywords[n] ELSE list[n]
      BY <1>1, <2>5, ReadListFacts
    <3>2. list' = list
      BY <2>5 DEF ReadList, files
    <3> QED
      BY <2>1, <3>1, <3>2, Zenon
  <2>6. ASSUME SaveList(p)
        PROVE  list'[n] = Empty /\ ld' = ld
    BY <2>1, <2>6 DEF SaveList
  <2> QED
    BY <2>1, <2>2, <2>3, <2>4, <2>5, <2>6
<1> QED
  BY <1>2, <1>3, <1>4, FilesSame

\* No aged update is old enough to be deleted.
LEMMA DeleteNothing ==
  ASSUME BriefLoads, UnlockedInv, TypeOK', NEW p \in Procs, NEW m \in Msgs, DeleteIfAged(p, m)
  PROVE  UnlockedInv'
<1>1. /\ TypeOK /\ ld[p] \in LoadState /\ ld \in [Procs -> LoadState]
      /\ aged \in [Msgs -> SUBSET Aged]
  BY DEF UnlockedInv, TypeOK, Aged
<1> DEFINE old == {f \in aged[m] : f.n = ld[p].most_recent[m] /\ f.mtime + AgeTicks < ld[p].t}
<1>2. old = {}
  <2>1. MaxTime \in Nat /\ AgeTicks \in Nat /\ MaxTime <= AgeTicks
    BY KeywordAssumption DEF BriefLoads
  <2>2. ld[p].t \in 0..MaxTime
    BY <1>1 DEF LoadState
  <2>3. \A f \in aged[m] : f.mtime \in 0..MaxTime
    BY <1>1 DEF Aged
  <2> QED
    BY <2>1, <2>2, <2>3
<1>3. aged' = aged /\ ld' = [ld EXCEPT ![p].pending = @ \ {m}]
  <2>1. aged' = [aged EXCEPT ![m] = @ \ old]
    BY DEF DeleteIfAged
  <2>2. ld' = [(IF old = {} THEN ld ELSE Forget(ld, <<m, ld[p].most_recent[m]>>))
                  EXCEPT ![p].pending = @ \ {m}]
    BY DEF DeleteIfAged
  <2> HIDE DEF old
  <2> QED
    BY <1>1, <1>2, <2>1, <2>2
<1>4. /\ pc[p] = "clean" /\ pc' = pc /\ UNCHANGED <<now, newest, list, committed>>
  BY DEF DeleteIfAged
<1>5. /\ ld'[p].t = ld[p].t /\ ld'[p].most_recent = ld[p].most_recent
      /\ ld'[p].keywords = ld[p].keywords
  BY <1>1, <1>3 DEF LoadState
<1>6. \A q \in Procs \ {p} : Alike(q)
  BY <1>1, <1>3, <1>4 DEF Alike
<1>7. BriefInv(p)'
  BY <1>3, <1>4, <1>5, GoesOn DEF Loading
<1>8. \A n \in Msgs : Blank(n) => list'[n] = Empty /\ ld'[p].keywords[n] = Empty
  BY <1>4, <1>5 DEF Blank
<1> QED
  BY <1>3, <1>4, <1>6, <1>7, <1>8, FilesSame

\* The numbers of aged updates, and the one an update gets now.
LEMMA AgedNumbers ==
  ASSUME TypeOK, NEW m \in Msgs
  PROVE  /\ \A f \in aged[m] : f.n \in Nat \ {0} /\ f.content \in Content
         /\ now \div ChunkTicks + 1 \in Nat
         /\ \A p \in Procs : ld[p].most_recent[m] \in Nat
<1>1. \A f \in aged[m] : f.n \in Chunks /\ f.content \in Content
  BY DEF TypeOK
<1>2. \A p \in Procs : ld[p].most_recent[m] \in {0} \cup Chunks
  BY DEF TypeOK, LoadState
<1>3. now \in 0..MaxTime
  BY DEF TypeOK
<1>4. Chunks \subseteq Nat \ {0} /\ now \div ChunkTicks + 1 \in Chunks
  BY <1>3, ChunkOf
<1>5. now \div ChunkTicks + 1 \in Nat
  BY <1>4
<1>6. \A f \in aged[m] : f.n \in Nat \ {0} /\ f.content \in Content
  BY <1>1, <1>4
<1>7. \A p \in Procs : ld[p].most_recent[m] \in Nat
  <2>1. {0} \cup Chunks \subseteq Nat
    BY <1>4
  <2> QED
    BY <1>2, <2>1, Zenon
<1> QED
  BY <1>5, <1>6, <1>7

\* A step on the aged updates of one message that leaves, for each of them, one
\* that is at least as large keeps the invariant.
LEMMA GrowsStep ==
  ASSUME UnlockedInv, TypeOK', NEW p \in Procs, NEW m \in Msgs,
         UNCHANGED <<now, list, committed>>, ld'[p].keywords = ld[p].keywords,
         \A q \in Procs \ {p} : Alike(q), Loading(p)' => BriefInv(p)',
         \A n \in Msgs \ {m} : newest'[n] = newest[n] /\ aged'[n] = aged[n],
         aged'[m] # {}, Stored(m)',
         \A f \in aged[m] : \E g \in aged'[m] : f.n <= g.n,
         \A f \in aged'[m] : f.n <= now \div ChunkTicks + 1
  PROVE  UnlockedInv'
<1>1. ASSUME NEW q \in Procs, Loading(q)'
      PROVE  BriefInv(q)'
  <2>1. CASE q = p
    BY <1>1, <2>1
  <2>2. CASE q # p
    <3>1. Alike(q)
      BY <2>2
    <3>2. Loading(q)
      BY <1>1, <3>1 DEF Alike, Loading
    <3>3. BriefInv(q)
      BY <3>2 DEF UnlockedInv
    <3>4. ASSUME NEW n \in Msgs, ld[q].most_recent[n] # 0
          PROVE  \E g \in aged'[n] : ld[q].most_recent[n] <= g.n
      <4>1. PICK f \in aged[n] : ld[q].most_recent[n] <= f.n
        BY <3>3, <3>4 DEF BriefInv
      <4>2. CASE n # m
        BY <4>1, <4>2
      <4>3. CASE n = m
        <5>1. PICK g \in aged'[m] : f.n <= g.n
          BY <4>1, <4>3
        <5>2. g.n \in Nat
          <6>1. \A h \in aged'[m] : h.n \in Chunks
            BY DEF TypeOK
          <6> QED
            BY <6>1, ChunkOf
        <5>3. f.n \in Nat /\ ld[q].most_recent[n] \in Nat
          BY <4>1, AgedNumbers DEF UnlockedInv
        <5> QED
          BY <4>1, <4>3, <5>1, <5>2, <5>3
      <4> QED
        BY <4>2, <4>3
    <3> QED
      BY <3>1, <3>3, <3>4 DEF Alike, BriefInv
  <2> QED
    BY <2>1, <2>2
<1>2. ASSUME NEW n \in Msgs
      PROVE  /\ Stored(n)'
             /\ newest'[n] = NoFile /\ aged'[n] = {} => Blank(n)'
             /\ \A f \in aged'[n] : f.n <= now' \div ChunkTicks + 1
  <2>1. CASE n = m
    BY <2>1
  <2>2. CASE n # m
    <3>1. newest'[n] = newest[n] /\ aged'[n] = aged[n]
      BY <2>2
    <3>2. Stored(n)' /\ \A f \in aged'[n] : f.n <= now' \div ChunkTicks + 1
      BY <3>1 DEF UnlockedInv, Stored, Largest
    <3>3. ASSUME newest[n] = NoFile, aged[n] = {}
          PROVE  Blank(n)'
      <4>1. Blank(n)
        BY <3>3 DEF UnlockedInv
      <4> QED
        BY <4>1 DEF Alike, Blank
    <3> QED
      BY <3>1, <3>2, <3>3
  <2> QED
    BY <2>1, <2>2
<1> QED
  BY <1>1, <1>2 DEF UnlockedInv

\* found_aged() removes the lesser of two names, never the largest there is:
\* the other is that name, or is no larger than one that has replaced it.
LEMMA ScanAgedGrows ==
  ASSUME UnlockedInv, TypeOK', NEW p \in Procs, NEW m \in Msgs, ScanAged(p, m)
  PROVE  UnlockedInv'
<1>1. TypeOK /\ ld[p] \in LoadState /\ aged \in [Msgs -> SUBSET Aged]
  BY DEF UnlockedInv, TypeOK, Aged
<1>2. /\ pc[p] = "scan" /\ pc' = pc /\ UNCHANGED <<now, newest, list, committed>>
  BY DEF ScanAged
<1>3. PICK f \in aged[m] : FindsAged(p, m, f)
  BY <1>1, ScanAgedFacts
<1>4. /\ ld'[p].t = ld[p].t /\ ld'[p].keywords = ld[p].keywords
      /\ \A q \in Procs \ {p} : Alike(q)
  BY <1>1, ScanAgedFacts
<1> DEFINE recent == ld[p].most_recent[m]
           lesser == IF recent < f.n THEN recent ELSE f.n
           larger == IF recent < f.n THEN f.n ELSE recent
<1>5. /\ f.n \in Nat \ {0} /\ recent \in Nat /\ <<m, f.n>> \notin ld[p].got
      /\ aged' = [aged EXCEPT ![m] = IF recent = 0 THEN @ ELSE Without(m, lesser)]
      /\ ld'[p].got = ld[p].got \cup {<<m, f.n>>}
      /\ ld'[p].most_recent = [ld[p].most_recent EXCEPT ![m] = larger]
  BY <1>3, ChunkOf DEF FindsAged
<1>6. /\ larger \in Nat \ {0} /\ lesser \in Nat
      /\ recent = 0 => larger = f.n
      /\ lesser <= larger /\ {lesser, larger} = {recent, f.n}
  BY <1>5
<1>7. /\ ld'[p].most_recent[m] = larger
      /\ \A n \in Msgs \ {m} : /\ ld'[p].most_recent[n] = ld[p].most_recent[n]
                               /\ aged'[n] = aged[n]
      /\ aged'[m] = IF recent = 0 THEN aged[m] ELSE {g \in aged[m] : g.n # lesser}
  <2>1. ld[p].most_recent \in [Msgs -> {0} \cup Chunks]
    BY <1>1 DEF LoadState
  <2> HIDE DEF larger, lesser
  <2> QED
    BY <1>1, <1>5, <2>1 DEF Without
<1>8. BriefInv(p)
  BY <1>2 DEF UnlockedInv, Loading
<1>9. recent # 0 => recent # f.n /\ \E r \in aged[m] : recent <= r.n
  BY <1>5, <1>8, <1>2 DEF BriefInv
<1>10. \A g \in aged[m] : g.n \in Nat \ {0}
  BY <1>1, AgedNumbers
<1> HIDE DEF recent, lesser, larger
<1>11. PICK h \in aged'[m] : larger <= h.n
  <2>1. CASE recent = 0
    BY <1>3, <1>5, <1>6, <1>7, <2>1
  <2>2. CASE recent # 0 /\ larger = f.n
    <3>1. lesser # f.n
      BY <1>6, <1>9, <2>2
    <3> QED
      BY <1>3, <1>5, <1>7, <2>2, <3>1
  <2>3. CASE recent # 0 /\ larger = recent
    <3>1. PICK r \in aged[m] : recent <= r.n
      BY <1>9, <2>3
    <3>2. lesser # recent /\ lesser < recent
      BY <1>5, <1>6, <1>9, <2>3
    <3>3. r.n # lesser
      BY <1>5, <1>6, <1>10, <3>1, <3>2
    <3> QED
      BY <1>7, <2>3, <3>1, <3>3
  <2> QED
    BY <1>6, <2>1, <2>2, <2>3
<1>12. aged'[m] \subseteq aged[m] /\ h \in aged[m]
  BY <1>7, <1>11
<1>13. ASSUME NEW g \in aged[m]
       PROVE  \E r \in aged'[m] : g.n <= r.n
  <2>1. CASE g \in aged'[m]
    BY <1>10, <2>1
  <2>2. CASE g \notin aged'[m]
    <3>1. g.n = lesser
      BY <1>7, <2>2
    <3>2. g.n <= h.n
      BY <1>6, <1>10, <1>11, <1>12, <3>1
    <3> QED
      BY <3>2
  <2> QED
    BY <2>1, <2>2
<1>14. ASSUME NEW g \in aged'[m], \A r \in aged'[m] : r.n <= g.n
       PROVE  g \in Largest(m)
  <2>1. ASSUME NEW r \in aged[m]
        PROVE  r.n <= g.n
    <3>1. PICK s \in aged'[m] : r.n <= s.n
      BY <1>13
    <3>2. s.n <= g.n
      BY <1>14
    <3>3. s \in aged[m] /\ g \in aged[m]
      BY <1>12
    <3> QED
      BY <1>10, <3>1, <3>2, <3>3
  <2> QED
    BY <1>12, <2>1 DEF Largest
<1>15. Stored(m)'
  <2>1. \A g \in Largest(m)' : g \in Largest(m)
    BY <1>14 DEF Largest
  <2>2. Stored(m)
    BY DEF UnlockedInv
  <2> QED
    BY <1>2, <2>1, <2>2 DEF Stored
<1>16. BriefInv(p)'
  <2>1. ld'[p].t = now'
    BY <1>2, <1>4, <1>8 DEF BriefInv
  <2>2. ASSUME NEW n \in Msgs, ld'[p].most_recent[n] # 0
        PROVE  /\ \E g \in aged'[n] : ld'[p].most_recent[n] <= g.n
               /\ <<n, ld'[p].most_recent[n]>> \in ld'[p].got
    <3>1. CASE n = m
      <4>1. recent # 0 => <<m, recent>> \in ld[p].got
        BY <1>2, <1>8 DEF BriefInv, recent
      <4>2. <<m, larger>> \in ld'[p].got
        BY <1>5, <1>6, <4>1
      <4> QED
        BY <1>7, <1>11, <3>1, <4>2
    <3>2. CASE n # m
      <4>1. /\ ld'[p].most_recent[n] = ld[p].most_recent[n] /\ aged'[n] = aged[n]
            /\ ld[p].got \subseteq ld'[p].got
        BY <1>5, <1>7, <3>2
      <4> QED
        BY <1>2, <1>8, <2>2, <4>1 DEF BriefInv
    <3> QED
      BY <3>1, <3>2
  <2> QED
    BY <2>1, <2>2 DEF BriefInv
<1>17. \A g \in aged'[m] : g.n <= now \div ChunkTicks + 1
  BY <1>12 DEF UnlockedInv
<1> QED
  BY <1>2, <1>4, <1>7, <1>11, <1>13, <1>15, <1>16, <1>17, GrowsStep

\* cleanup() names an update by the chunk it is now, which no aged update of
\* the message exceeds: it becomes the largest.
LEMMA RenameGrows ==
  ASSUME UnlockedInv, TypeOK', NEW p \in Procs, NEW m \in Msgs, RenameNewest(p, m)
  PROVE  UnlockedInv'
<1>1. /\ TypeOK /\ aged \in [Msgs -> SUBSET Aged] /\ newest \in [Msgs -> Content \cup {NoFile}]
  BY DEF UnlockedInv, TypeOK, Aged
<1>2. pc[p] = "clean" /\ pc' = pc /\ UNCHANGED <<now, list, committed>>
  BY DEF RenameNewest
<1>3. /\ ld'[p].t = ld[p].t /\ ld'[p].keywords = ld[p].keywords
      /\ ld'[p].most_recent = ld[p].most_recent /\ \A q \in Procs \ {p} : Alike(q)
  BY <1>1, RenameNewestFacts
<1>4. Loading(p) /\ BriefInv(p)
  BY <1>2 DEF UnlockedInv, Loading
<1>5. CASE newest[m] = NoFile
  <2>1. newest' = newest /\ aged' = aged
    BY <1>5 DEF RenameNewest
  <2>2. BriefInv(p)'
    BY <1>2, <1>3, <1>4, <2>1, GoesOn
  <2>3. \A n \in Msgs : Blank(n) => list'[n] = Empty /\ ld'[p].keywords[n] = Empty
    BY <1>2, <1>3 DEF Blank
  <2> QED
    BY <1>2, <1>3, <2>1, <2>2, <2>3, FilesSame
<1>6. CASE newest[m] # NoFile
  <2> DEFINE age == now \div ChunkTicks + 1
             new == [n |-> age, content |-> newest[m], mtime |-> now]
  <2>1. age \in Nat /\ \A f \in aged[m] : f.n \in Nat /\ f.n <= age
    BY <1>1, AgedNumbers DEF UnlockedInv
  <2>2. Age(p, m) = age
    <3>1. ld[p].t = now
      BY <1>4 DEF BriefInv
    <3>2. Age(p, m) = IF age < ld[p].most_recent[m] THEN ld[p].most_recent[m] ELSE age
      BY <3>1 DEF Age
    <3>3. ld[p].most_recent[m] \in Nat
      BY <1>1, AgedNumbers
    <3> HIDE DEF age
    <3>4. ld[p].most_recent[m] <= age
      <4>1. CASE ld[p].most_recent[m] = 0
        BY <2>1, <4>1
      <4>2. CASE ld[p].most_recent[m] # 0
        <5>1. PICK f \in aged[m] : ld[p].most_recent[m] <= f.n
          BY <1>4, <4>2 DEF BriefInv
        <5> QED
          BY <2>1, <3>3, <5>1
      <4> QED
        BY <4>1, <4>2
    <3> QED
      BY <2>1, <3>2, <3>3, <3>4
  <2>3. /\ newest' = [newest EXCEPT ![m] = NoFile]
        /\ aged' = [aged EXCEPT ![m] = Without(m, age) \cup {new}]
    BY <1>6, <2>2 DEF RenameNewest, Age
  <2> HIDE DEF age
  <2>4. /\ newest'[m] = NoFile /\ aged'[m] = {f \in aged[m] : f.n # age} \cup {new}
        /\ \A n \in Msgs \ {m} : newest'[n] = newest[n] /\ aged'[n] = aged[n]
        /\ new.n = age /\ new.content = newest[m]
    BY <1>1, <2>3 DEF Without
  <2> HIDE DEF new
  <2>5. \A f \in aged'[m] : f.n <= age
    BY <2>1, <2>4
  <2>6. new \in aged'[m] /\ \A f \in aged[m] : f.n <= new.n
    BY <2>1, <2>4
  <2>7. Stored(m)'
    <3>1. \A f \in Largest(m)' : f = new
      <4> SUFFICES ASSUME NEW f \in aged'[m], \A g \in aged'[m] : g.n <= f.n
                   PROVE  f = new
        BY DEF Largest
      <4>1. age <= f.n
        BY <2>4, <2>6
      <4>2. f \in aged[m] => f.n \in Nat /\ f.n <= age
        BY <2>1
      <4> QED
        BY <2>1, <2>4, <4>1, <4>2
    <3>2. newest[m] = committed[m]
      BY <1>6 DEF UnlockedInv, Stored
    <3> QED
      BY <1>2, <2>4, <3>1, <3>2 DEF Stored
  <2>8. BriefInv(p)'
    <3>1. ASSUME NEW n \in Msgs, ld[p].most_recent[n] # 0
          PROVE  \E g \in aged'[n] : ld[p].most_recent[n] <= g.n
      <4>1. PICK f \in aged[n] : ld[p].most_recent[n] <= f.n
        BY <1>4, <3>1 DEF BriefInv
      <4>2. CASE n # m
        BY <2>4, <4>1, <4>2
      <4>3. CASE n = m
        <5>1. ld[p].most_recent[m] \in Nat
          BY <1>1, AgedNumbers
        <5> QED
          BY <2>1, <2>4, <2>6, <4>1, <4>3, <5>1
      <4> QED
        BY <4>2, <4>3
    <3> QED
      BY <1>2, <1>3, <1>4, <3>1 DEF BriefInv
  <2>9. \A f \in aged[m] : \E g \in aged'[m] : f.n <= g.n
    BY <2>6
  <2>10. aged'[m] # {} /\ \A f \in aged'[m] : f.n <= now \div ChunkTicks + 1
    BY <2>5, <2>6 DEF age
  <2> QED
    BY <1>2, <1>3, <2>4, <2>7, <2>8, <2>9, <2>10, GrowsStep
<1> QED
  BY <1>5, <1>6

\* link() adds a file where there was none, and acknowledges it.
LEMMA LinkAdds ==
  ASSUME UnlockedInv, TypeOK', NEW p \in Procs, Link(p)
  PROVE  UnlockedInv'
<1> DEFINE m == job[p].m
           c == job[p].content
<1>1. TypeOK /\ m \in Msgs /\ c \in Content
  BY DEF Link, UnlockedInv, TypeOK
<1>2. /\ newest' = [newest EXCEPT ![m] = c] /\ committed' = [committed EXCEPT ![m] = c]
      /\ UNCHANGED <<now, aged, list>>
  BY DEF Link
<1>3. /\ ld' = [q \in Procs |->
                  IF q = p THEN NoLoad
                  ELSE IF Loading(q) THEN [ld[q] EXCEPT !.may[m] = @ \cup {c}]
                  ELSE ld[q]]
      /\ \E step \in {"deliver", "idle"} : pc' = [pc EXCEPT ![p] = step]
  BY DEF Link
<1> HIDE DEF m, c
<1>4. newest'[m] = c /\ committed'[m] = c /\ c # NoFile
  BY <1>1, <1>2, Contained DEF TypeOK
<1>5. \A n \in Msgs \ {m} : newest'[n] = newest[n] /\ committed'[n] = committed[n]
  BY <1>1, <1>2 DEF TypeOK
<1>6. ASSUME NEW q \in Procs \ {p}
      PROVE  Alike(q)
  <2>1. ld[q] \in LoadState /\ pc'[q] = pc[q]
    BY <1>1, <1>3 DEF TypeOK
  <2>2. ld'[q] = [ld[q] EXCEPT !.may[m] = @ \cup {c}] \/ ld'[q] = ld[q]
    BY <1>3
  <2>3. CASE ld'[q] = [ld[q] EXCEPT !.may[m] = @ \cup {c}]
    BY <2>1, <2>3 DEF LoadState, Alike
  <2>4. CASE ld'[q] = ld[q]
    BY <2>1, <2>4 DEF Alike
  <2> QED
    BY <2>2, <2>3, <2>4
<1>7. ~ Loading(p)' /\ \A n \in Msgs : ld'[p].keywords[n] = Empty
  <2>1. ld'[p] = NoLoad
    BY <1>3
  <2>2. pc'[p] \in {"deliver", "idle"}
    BY <1>1, <1>3 DEF TypeOK
  <2> QED
    BY <2>1, <2>2 DEF Loading, NoLoad
<1>8. ASSUME NEW q \in Procs, Loading(q)'
      PROVE  BriefInv(q)'
  <2>1. q # p
    BY <1>7, <1>8
  <2>2. Alike(q)
    BY <1>6, <2>1
  <2>3. Loading(q)
    BY <1>8, <2>2 DEF Alike, Loading
  <2>4. BriefInv(q)
    BY <2>3 DEF UnlockedInv
  <2> QED
    BY <1>2, <2>2, <2>4 DEF Alike, BriefInv
<1>9. ASSUME NEW n \in Msgs
      PROVE  /\ Stored(n)'
             /\ newest'[n] = NoFile /\ aged'[n] = {} => Blank(n)'
             /\ \A f \in aged'[n] : f.n <= now' \div ChunkTicks + 1
  <2>1. \A f \in aged'[n] : f.n <= now' \div ChunkTicks + 1
    BY <1>2 DEF UnlockedInv
  <2>2. CASE n = m
    BY <1>4, <2>1, <2>2 DEF Stored
  <2>3. CASE n # m
    <3>1. newest'[n] = newest[n] /\ committed'[n] = committed[n]
      BY <1>5, <2>3
    <3>2. Stored(n)'
      BY <1>2, <3>1 DEF UnlockedInv, Stored, Largest
    <3>3. ASSUME newest[n] = NoFile, aged[n] = {}
          PROVE  Blank(n)'
      <4>1. Blank(n)
        BY <3>3 DEF UnlockedInv
      <4> QED
        BY <1>2, <1>6, <1>7, <3>1, <4>1 DEF Alike, Blank
    <3> QED
      BY <1>2, <2>1, <3>1, <3>2, <3>3
  <2> QED
    BY <2>2, <2>3
<1> QED
  BY <1>8, <1>9 DEF UnlockedInv

\* Time passes only between loads.
LEMMA TickBetween ==
  ASSUME BriefLoads, UnlockedInv, TypeOK', Tick
  PROVE  UnlockedInv'
<1>1. TypeOK /\ now' = now + 1 /\ UNCHANGED <<newest, aged, list, committed, pc, ld>>
  BY DEF Tick, files, UnlockedInv
<1>2. \A p \in Procs : ~ Loading(p)
  <2> SUFFICES ASSUME NEW p \in Procs, Loading(p)
               PROVE  FALSE
    OBVIOUS
  <2>1. now < ld[p].t + MaxStall /\ MaxStall = 0
    BY DEF Tick, BriefLoads
  <2>2. ld[p].t = now
    BY DEF UnlockedInv, BriefInv
  <2>3. now \in Nat
    BY <1>1 DEF TypeOK
  <2> QED
    BY <2>1, <2>2, <2>3
<1>3. \A p \in Procs : ~ Loading(p)'
  BY <1>1, <1>2 DEF Loading
<1>4. now \in Nat /\ ChunkTicks \in Nat \ {0}
  BY <1>1, KeywordAssumption DEF TypeOK
<1>5. now \div ChunkTicks <= (now + 1) \div ChunkTicks /\ (now + 1) \div ChunkTicks \in Nat
      /\ now \div ChunkTicks \in Nat
  BY <1>4
<1>6. ASSUME NEW n \in Msgs
      PROVE  /\ Stored(n)'
             /\ newest'[n] = NoFile /\ aged'[n] = {} => Blank(n)'
             /\ \A f \in aged'[n] : f.n <= now' \div ChunkTicks + 1
  <2>1. \A f \in aged[n] : f.n \in Nat /\ f.n <= now \div ChunkTicks + 1
    BY <1>1, AgedNumbers DEF UnlockedInv
  <2>2. \A f \in aged'[n] : f.n <= now' \div ChunkTicks + 1
    BY <1>1, <1>5, <2>1
  <2> QED
    BY <1>1, <2>2 DEF UnlockedInv, Stored, Largest, Blank
<1> QED
  BY <1>3, <1>6 DEF UnlockedInv

\* Every step keeps the invariant.
LEMMA NextUnlockedInv ==
  ASSUME BriefLoads, UnlockedInv, [Next]_vars
  PROVE  UnlockedInv'
<1>1. TypeOK'
  BY NextType DEF UnlockedInv
<1>2. ASSUME NEW p \in Procs, Load(p)
      PROVE  UnlockedInv'
  BY <1>1, <1>2, GatherStep, ScanAgedGrows, RenameGrows, DeleteNothing, BetweenLoads DEF Load
<1>3. ASSUME NEW p \in Procs,
             \/ Scan(p) \/ Request(p) \/ BeginAdd(p) \/ BeginAppend(p) \/ Update(p) \/ Crash(p)
      PROVE  UnlockedInv'
  BY <1>1, <1>3, BetweenLoads, LinkAdds DEF Update
<1>4. ASSUME UNCHANGED <<now, newest, aged, list, pc, ld, committed>>
      PROVE  UnlockedInv'
  BY <1>1, <1>4 DEF UnlockedInv, BriefInv, Loading, Stored, Largest, Blank
<1>5. ASSUME NEW m \in Msgs, Expunge(m)
      PROVE  UnlockedInv'
  BY <1>4, <1>5 DEF Expunge, files
<1>6. UNCHANGED vars => UnlockedInv'
  BY <1>4 DEF vars
<1> QED
  BY <1>1, <1>2, <1>3, <1>5, <1>6, TickBetween DEF Next

LEMMA InitUnlockedInv ==
  ASSUME Init
  PROVE  UnlockedInv
<1>1. TypeOK
  BY InitType
<1>2. \A p \in Procs : ~ Loading(p) /\ ld[p] = NoLoad
  BY DEF Init, Loading
<1>3. \A m \in Msgs : NoLoad.keywords[m] = Empty
  BY DEF NoLoad
<1>4. \A m \in Msgs : newest[m] = NoFile /\ aged[m] = {} /\ committed[m] = Empty /\ list[m] = Empty
  BY DEF Init
<1> QED
  BY <1>1, <1>2, <1>3, <1>4 DEF UnlockedInv, Stored, Largest, Blank

-----------------------------------------------------------------------------
(* Results                                                                  *)

\* A set of numbers that is not empty has a least one.
LEMMA Least ==
  ASSUME NEW T \in SUBSET Nat, T # {}
  PROVE  \E x \in T : \A y \in T : x <= y
<1>1. PICK x \in T : \A y \in T : ~ (<<y, x>> \in OpToRel(<, Nat))
  BY NatLessThanWellFounded, WFMin, Zenon
<1>2. \A y \in T : ~ (y < x)
  BY <1>1 DEF OpToRel
<1> QED
  BY <1>2

\* The latest of a message's aged updates is one with the largest number.
LEMMA LatestIsLargest ==
  ASSUME TypeOK, NEW m \in Msgs, aged[m] # {}
  PROVE  Latest(m) \in Largest(m)
<1> DEFINE bound == MaxTime \div ChunkTicks + 1
           T == {bound - f.n : f \in aged[m]}
<1>1. MaxTime \div ChunkTicks \in Nat
  BY KeywordAssumption
<1>2. bound \in Nat /\ Chunks = 1..bound
  BY <1>1 DEF Chunks
<1> HIDE DEF bound
<1>3. \A f \in aged[m] : f.n \in 1..bound
  BY <1>2 DEF TypeOK
<1>4. T \in SUBSET Nat /\ T # {}
  BY <1>2, <1>3
<1>5. PICK x \in T : \A y \in T : x <= y
  BY <1>4, Least
<1>6. PICK f \in aged[m] : x = bound - f.n
  OBVIOUS
<1>7. \A g \in aged[m] : g.n <= f.n
  <2> SUFFICES ASSUME NEW g \in aged[m] PROVE g.n <= f.n
    OBVIOUS
  <2>1. x <= bound - g.n
    BY <1>5
  <2> QED
    BY <1>2, <1>3, <1>6, <2>1
<1>8. \E g \in aged[m] : \A h \in aged[m] : h.n <= g.n
  BY <1>7
<1> QED
  BY <1>8 DEF Latest, Largest

\* Every variable holds a value of its kind, whoever locks and whoever not.
THEOREM TypeCorrect == Spec => []TypeOK
<1>1. Init => TypeOK
  BY InitType
<1>2. TypeOK /\ [Next]_vars => TypeOK'
  BY NextType
<1> QED
  BY <1>1, <1>2, PTL DEF Spec

\* The invariant holds of scans and of maildirkw -l when all take the lock.
THEOREM KeywordInvariance == ASSUME LockedLoads PROVE Spec => []KeywordInv
<1>1. Init => KeywordInv
  BY InitKeywordInv
<1>2. KeywordInv /\ [Next]_vars => KeywordInv'
  BY NextKeywordInv
<1> QED
  BY <1>1, <1>2, PTL DEF Spec

\* Under the lock no acknowledged update is lost, neither to cleanup(), which
\* renames and removes updates, nor to a :list that replaces another, nor to
\* the death of a process anywhere in between.
THEOREM NoUpdateIsLost == ASSUME LockedLoads PROVE Spec => []NoLostUpdate
<1>1. KeywordInv => NoLostUpdate
  <2> SUFFICES ASSUME KeywordInv, NEW m \in Cur
               PROVE  Effective(m) = committed[m]
    BY DEF NoLostUpdate
  <2>1. m \in Msgs /\ Kept(m)
    BY LiveFacts DEF KeywordInv
  <2>2. newest[m] = NoFile /\ aged[m] # {} => Latest(m).content = committed[m]
    BY <2>1, LatestIsLargest DEF KeywordInv, Kept
  <2> QED
    BY <2>1, <2>2 DEF Effective, Kept
<1> QED
  BY <1>1, KeywordInvariance, PTL

\* Under the lock the latest aged update of a message is always in :list too,
\* on which delete_if_aged() relies.
THEOREM AgedIsListed == ASSUME LockedLoads PROVE Spec => []AgedInList
<1>1. KeywordInv => AgedInList
  <2> SUFFICES ASSUME KeywordInv, NEW m \in Cur, newest[m] = NoFile, aged[m] # {}
               PROVE  Latest(m).content = list[m]
    BY DEF AgedInList
  <2>1. m \in Msgs /\ Kept(m)
    BY LiveFacts DEF KeywordInv
  <2> QED
    BY <2>1, LatestIsLargest DEF KeywordInv, Kept
<1> QED
  BY <1>1, KeywordInvariance, PTL

\* Under the lock a load that is about to return has the keywords of the last
\* acknowledged update of every message.
THEOREM LoadsAreFresh == ASSUME LockedLoads PROVE Spec => []FreshLoad
<1>1. KeywordInv => FreshLoad
  <2> SUFFICES ASSUME KeywordInv, NEW p \in Procs, pc[p] \in {"save", "clean"},
                      NEW m \in ld[p].accept \cap Cur
               PROVE  ld[p].keywords[m] \in ld[p].may[m]
    BY DEF FreshLoad
  <2>1. LoadInv(p)
    BY DEF KeywordInv
  <2> QED
    BY <2>1, LiveFacts DEF LoadInv
<1> QED
  BY <1>1, KeywordInvariance, PTL

\* Under the lock an adder replaces the very keywords that it changed.
THEOREM AddsSeeLatest == ASSUME LockedLoads PROVE Spec => AddSeesLatest
<1>1. KeywordInv /\ [Next]_vars =>
        \A p \in Adders :
          pc[p] = "link" /\ newest' # newest /\ job'[p] # job[p] =>
            ld[p].keywords[job[p].m] = committed[job[p].m]
  <2> SUFFICES ASSUME KeywordInv, NEW p \in Adders, pc[p] = "link"
               PROVE  ld[p].keywords[job[p].m] = committed[job[p].m]
    OBVIOUS
  <2>1. p \in Procs
    BY DEF Procs, Writers
  <2>2. lock = p /\ LoadInv(p) /\ job[p].m \in Msgs
    BY <2>1 DEF KeywordInv, TypeOK
  <2>3. job[p].m \in Live
    BY <2>1, <2>2 DEF Live
  <2> QED
    BY <2>2, <2>3 DEF LoadInv
<1> QED
  BY <1>1, KeywordInvariance, PTL DEF Spec, AddSeesLatest

\* The invariant of loads and updates that need not lock.
THEOREM UnlockedInvariance == ASSUME BriefLoads PROVE Spec => []UnlockedInv
<1>1. Init => UnlockedInv
  BY InitUnlockedInv
<1>2. UnlockedInv /\ [Next]_vars => UnlockedInv'
  BY NextUnlockedInv
<1> QED
  BY <1>1, <1>2, PTL DEF Spec

\* With or without the lock, no acknowledged update of STORE, of maildirkw, of
\* APPEND or COPY is lost to the loads of others, nor to the death of any, as
\* long as no load lasts from one chunk into the next and none is deleted yet.
THEOREM NoUpdateIsLostUnlocked == ASSUME BriefLoads PROVE Spec => []NoLostUpdate
<1>1. UnlockedInv => NoLostUpdate
  <2> SUFFICES ASSUME UnlockedInv, NEW m \in Cur
               PROVE  Effective(m) = committed[m]
    BY DEF NoLostUpdate
  <2>1. m \in Msgs /\ TypeOK
    BY DEF Cur, UnlockedInv
  <2>2. CASE newest[m] # NoFile
    BY <2>1, <2>2 DEF Effective, UnlockedInv, Stored
  <2>3. CASE newest[m] = NoFile /\ aged[m] # {}
    <3>1. Latest(m).content = committed[m]
      BY <2>1, <2>3, LatestIsLargest DEF UnlockedInv, Stored
    <3> QED
      BY <2>3, <3>1 DEF Effective
  <2>4. CASE newest[m] = NoFile /\ aged[m] = {}
    BY <2>1, <2>4 DEF Effective, UnlockedInv, Blank
  <2> QED
    BY <2>2, <2>3, <2>4
<1> QED
  BY <1>1, UnlockedInvariance, PTL
=============================================================================
