--------------------------- MODULE Pop3UidlProofs ---------------------------
(***************************************************************************)
(* Proofs about the UIDLs of POP3 sessions, for any number of sessions,    *)
(* messages, files that are lost or cannot be saved, and files that are    *)
(* renamed while a session reads cur.                                      *)
(*                                                                         *)
(* What clients were told must be in the file, or in the list of the only  *)
(* session that is logging in, or belong to a file that was lost, or to a  *)
(* message that was renamed while it was looked for (Pop3Inv).  Most steps *)
(* change neither a session that has read cur nor what was told (Quiet);   *)
(* the others are a session that is opened (Opening), the steps of logging *)
(* in before it, and a file that is lost.                                  *)
(***************************************************************************)
EXTENDS Pop3Uidl, FiniteSetTheorems, TLAPS

--------------------------------------------------------------------------
(* Names, and lists of them.                                               *)

\* A set of names is finite.
LEMMA NamesFinite ==
  ASSUME NEW S \in SUBSET Names
  PROVE  IsFiniteSet(S) /\ Cardinality(S) \in Nat
<1>1. IsFiniteSet({TRUE})
  BY FS_Singleton
<1>2. IsFiniteSet({TRUE} \cup {FALSE})
  BY <1>1, FS_AddElement
<1>3. IsFiniteSet(BOOLEAN)
  <2>1. BOOLEAN = {TRUE} \cup {FALSE}
    OBVIOUS
  <2> QED
    BY <1>2, <2>1
<1>4. IsFiniteSet(Names)
  BY <1>3, Pop3Assumption, FS_Product DEF Names
<1>5. IsFiniteSet(S)
  BY <1>4, FS_Subset
<1> QED
  BY <1>5, FS_CardinalityType

\* A name is one of a message.
LEMMA NameFacts ==
  /\ \A x \in Names : x[1] \in Msgs
  /\ \A m \in Msgs : NameOf(m) \in Names /\ NameOf(m)[1] = m
<1>1. \A x \in Names : x[1] \in Msgs
  BY DEF Names
<1>2. ASSUME NEW m \in Msgs
      PROVE  NameOf(m) \in Names /\ NameOf(m)[1] = m
  <2>1. (m \in seen) \in BOOLEAN
    OBVIOUS
  <2> QED
    BY <2>1 DEF NameOf, Names
<1> QED
  BY <1>1, <1>2

\* A listing of names has these, each of them once.
LEMMA ListingFacts ==
  ASSUME NEW S \in SUBSET Names, NEW l \in Listings(S)
  PROVE  /\ l \in Seq(Names) /\ IsInjective(l) /\ Range(l) = S
         /\ S # {} => l # << >>
<1> DEFINE n == Cardinality(S)
<1>1. n \in Nat /\ IsFiniteSet(S)
  BY NamesFinite
<1>2. l \in [1..n -> S] /\ IsInjective(l)
  BY DEF Listings
<1>3. l \in Seq(Names)
  BY <1>1, <1>2
<1>4. IsFiniteSet(1..n) /\ Cardinality(1..n) = n
  BY <1>1, FS_Interval
<1>5. l \in Injection(1..n, S)
  BY <1>2 DEF Injection
<1>6. l \in Surjection(1..n, S)
  BY <1>1, <1>4, <1>5, FS_Injection
<1>7. Range(l) = S
  <2>1. DOMAIN l = 1..n
    BY <1>2
  <2> QED
    BY <1>2, <1>6, <2>1 DEF Surjection, Range
<1>8. ASSUME S # {}
      PROVE  l # << >>
  <2>1. DOMAIN l # {}
    BY <1>7, <1>8 DEF Range
  <2> QED
    BY <2>1
<1> QED
  BY <1>2, <1>3, <1>7, <1>8

\* The empty list, and that of one name.
LEMMA ShortLists ==
  /\ IsInjective(<< >>) /\ Range(<< >>) = {} /\ << >> \in Seq(Names)
  /\ \A x \in Names : /\ <<x>> \in Seq(Names) /\ IsInjective(<<x>>)
                      /\ Range(<<x>>) = {x}
  BY DEF IsInjective, Range

\* A list, its entries and its numbers.
LEMMA ListFacts ==
  ASSUME NEW l \in Seq(Names)
  PROVE  /\ Range(l) \in SUBSET Names
         /\ l # << >> => Head(l) \in Range(l) /\ Range(l) # {}
         /\ \A i \in DOMAIN l : l[i] \in Range(l)
         /\ DOMAIN l = 1..Len(l) /\ DOMAIN l \subseteq Nat /\ Len(l) \in Nat
  BY DEF Range

\* The index of an entry.
LEMMA IndexFacts ==
  ASSUME NEW l, NEW x \in Range(l)
  PROVE  Index(l, x) \in DOMAIN l /\ l[Index(l, x)] = x
<1>1. \E i \in DOMAIN l : l[i] = x
  BY DEF Range
<1> QED
  BY <1>1 DEF Index

\* The entries of A that come up to x.
UpTo(l, x, A) == {i \in 1..Index(l, x) : l[i] \in A}

\* Entry x of A is at most as far in A as there are entries in A, ...
LEMMA RankRange ==
  ASSUME NEW l \in Seq(Names), IsInjective(l), NEW A \in SUBSET Range(l), NEW x \in A
  PROVE  Cardinality(UpTo(l, x, A)) \in 1..Cardinality(A)
<1> DEFINE U == UpTo(l, x, A)
           f == [i \in U |-> l[i]]
<1>1. Index(l, x) \in DOMAIN l /\ l[Index(l, x)] = x
  BY IndexFacts
<1>2. DOMAIN l = 1..Len(l) /\ Len(l) \in Nat
  BY ListFacts
<1>3. U \in SUBSET (1..Index(l, x)) /\ Index(l, x) \in U /\ U \subseteq DOMAIN l
  BY <1>1, <1>2 DEF UpTo
<1>4. IsFiniteSet(A) /\ Cardinality(A) \in Nat
  BY ListFacts, NamesFinite
<1>5. f \in [U -> A] /\ \A i, j \in U : f[i] = f[j] => i = j
  BY <1>3 DEF UpTo, IsInjective
<1>6. f \in Injection(U, A)
  BY <1>5 DEF Injection, IsInjective
<1>7. IsFiniteSet(U) /\ Cardinality(U) <= Cardinality(A)
  BY <1>4, <1>6, FS_Injection
<1>8. Cardinality(U) \in Nat /\ Cardinality(U) # 0
  BY <1>3, <1>7, FS_CardinalityType, FS_EmptySet
<1> HIDE DEF U
<1>9. Cardinality(U) \in 1..Cardinality(A)
  BY <1>4, <1>7, <1>8
<1> QED
  BY <1>9 DEF U

\* ... and no two are equally far.
LEMMA RankInjective ==
  ASSUME NEW l \in Seq(Names), IsInjective(l), NEW A \in SUBSET Range(l),
         NEW x \in A, NEW y \in A,
         Cardinality(UpTo(l, x, A)) = Cardinality(UpTo(l, y, A))
  PROVE  x = y
<1>1. ASSUME NEW a \in A, NEW b \in A, Index(l, a) < Index(l, b)
      PROVE  Cardinality(UpTo(l, a, A)) # Cardinality(UpTo(l, b, A))
  <2>1. /\ Index(l, a) \in DOMAIN l /\ Index(l, b) \in DOMAIN l
        /\ l[Index(l, b)] = b
    BY IndexFacts
  <2>2. DOMAIN l \subseteq Nat /\ DOMAIN l = 1..Len(l) /\ Len(l) \in Nat
    BY ListFacts
  <2>3. UpTo(l, a, A) \subseteq UpTo(l, b, A)
    BY <1>1, <2>1, <2>2 DEF UpTo
  <2>4. Index(l, b) \in UpTo(l, b, A) /\ Index(l, b) \notin UpTo(l, a, A)
    BY <1>1, <2>1, <2>2 DEF UpTo
  <2>5. IsFiniteSet(UpTo(l, b, A))
    <3>1. IsFiniteSet(1..Index(l, b))
      BY <2>1, <2>2, FS_Interval
    <3> QED
      BY <3>1, FS_Subset DEF UpTo
  <2> QED
    BY <2>3, <2>4, <2>5, FS_Subset
<1>2. /\ Index(l, x) \in DOMAIN l /\ Index(l, y) \in DOMAIN l
      /\ l[Index(l, x)] = x /\ l[Index(l, y)] = y
  BY IndexFacts
<1>3. Index(l, x) \in Nat /\ Index(l, y) \in Nat
  BY <1>2, ListFacts
<1>4. Index(l, x) = Index(l, y)
  BY <1>1, <1>3
<1> QED
  BY <1>2, <1>4

\* The names of x's message up to x are at least one, and x is the only one if
\* no other entry is of that message.
LEMMA NthFacts ==
  ASSUME NEW l \in Seq(Names), IsInjective(l), NEW x \in Range(l)
  PROVE  LET nth == Cardinality({i \in 1..Index(l, x) : l[i][1] = x[1]})
         IN /\ nth \in Nat \ {0}
            /\ (\A y \in Range(l) : y[1] = x[1] => y = x) => nth = 1
<1> DEFINE U == {i \in 1..Index(l, x) : l[i][1] = x[1]}
<1>1. Index(l, x) \in DOMAIN l /\ l[Index(l, x)] = x
  BY IndexFacts
<1>2. DOMAIN l = 1..Len(l) /\ Len(l) \in Nat
  BY ListFacts
<1>3. U \in SUBSET (1..Index(l, x)) /\ Index(l, x) \in U /\ U \subseteq DOMAIN l
  BY <1>1, <1>2
<1>4. IsFiniteSet(1..Index(l, x))
  BY <1>1, <1>2, FS_Interval
<1>5. IsFiniteSet(U)
  BY <1>3, <1>4, FS_Subset
<1>6. Cardinality(U) \in Nat /\ Cardinality(U) # 0
  BY <1>3, <1>5, FS_CardinalityType, FS_EmptySet
<1>7. ASSUME \A y \in Range(l) : y[1] = x[1] => y = x
      PROVE  Cardinality(U) = 1
  <2>1. ASSUME NEW i \in U
        PROVE  i = Index(l, x)
    <3>1. i \in DOMAIN l /\ l[i] \in Range(l) /\ l[i][1] = x[1]
      BY <1>3, ListFacts
    <3>2. l[i] = x
      BY <1>7, <3>1
    <3> QED
      BY <1>1, <3>1, <3>2 DEF IsInjective
  <2>2. U = {Index(l, x)}
    BY <1>3, <2>1
  <2> HIDE DEF U
  <2> QED
    BY <2>2, FS_Singleton
<1> QED
  BY <1>6, <1>7

--------------------------------------------------------------------------
(* The types.                                                              *)

LEMMA Constants ==
  /\ NoUid \in Uids /\ NoUids \in [Names -> Uids]
  /\ NoList \in List
  /\ Out \in Session
<1>1. NoUid \in Uids /\ NoUids \in [Names -> Uids]
  BY DEF NoUid, NoUids, Uids
<1>2. NoList \in List
  BY <1>1 DEF NoList, List
<1>3. << >> \in Seq(Names)
  OBVIOUS
<1>4. Out \in Session
  BY <1>1, <1>3 DEF Out, Session
<1> QED
  BY <1>1, <1>2, <1>4

\* What TypeOK says of a session.
Fits(t) ==
    /\ t \in Session
    /\ t.pc \in {"reading", "scanned", "save"} => IsInjective(t.list)
    /\ t.deleted \subseteq DOMAIN t.list
    /\ t.deleted # {} => t.pc \in {"open", "quit"}

\* Every session of a state that is typed is one that fits.
LEMMA TypedSessions ==
  TypeOK => /\ sess \in [Sessions -> Session]
            /\ \A s \in Sessions : Fits(sess[s])
  BY DEF TypeOK, Fits, LoggingIn

\* The session that is left when t is opened.
Open(t) == [Out EXCEPT !.pc = "open", !.list = t.list]

\* It has nothing but the list of t, and fits.
LEMMA OpenFields ==
  ASSUME NEW t, t.list \in Seq(Names)
  PROVE  /\ Open(t) \in Session /\ Fits(Open(t))
         /\ Open(t).pc = "open" /\ Open(t).list = t.list
         /\ Open(t).uid = NoUids
         /\ Open(t).deleted = {} /\ Open(t).asked = {}
<1>1. /\ Open(t) \in Session
      /\ Open(t).pc = "open" /\ Open(t).list = t.list
      /\ Open(t).uid = NoUids
      /\ Open(t).deleted = {} /\ Open(t).asked = {}
  BY Constants DEF Open, Out, Session
<1> QED
  BY <1>1 DEF Fits

\* What a file that is renamed, comes or goes does to a session.
LEMMA DisturbFields ==
  ASSUME NEW t \in Session, NEW x \in Names
  PROVE  /\ Disturb(t, x) \in Session
         /\ Fits(t) => Fits(Disturb(t, x))
         /\ t.pc # "reading" => Disturb(t, x) = t
         /\ Disturb(t, x).pc = t.pc /\ Disturb(t, x).list = t.list
         /\ Disturb(t, x).uid = t.uid
         /\ Disturb(t, x).deleted = t.deleted /\ Disturb(t, x).asked = t.asked
         /\ t.pc = "reading" => /\ Disturb(t, x).names = t.names \cup {x}
                                /\ Disturb(t, x).steady = t.steady \ {x[1]}
<1>1. CASE t.pc = "reading"
  <2> DEFINE d == [t EXCEPT !.names = t.names \cup {x}, !.steady = t.steady \ {x[1]}]
  <2>1. Disturb(t, x) = d
    BY <1>1 DEF Disturb
  <2>2. /\ d \in Session /\ d.pc = t.pc /\ d.list = t.list /\ d.uid = t.uid
        /\ d.deleted = t.deleted /\ d.asked = t.asked
        /\ d.names = t.names \cup {x} /\ d.steady = t.steady \ {x[1]}
    BY DEF Session
  <2> HIDE DEF d
  <2> QED
    BY <1>1, <2>1, <2>2 DEF Fits
<1>2. CASE t.pc # "reading"
  BY <1>2 DEF Disturb
<1> QED
  BY <1>1, <1>2

\* The sessions keep their types when one becomes t, ...
LEMMA SessionTyped ==
  ASSUME TypeOK, NEW s \in Sessions, NEW t, SetSession(s, t)
  PROVE  /\ \A r \in Sessions : sess'[r] = IF r = s THEN t ELSE sess[r]
         /\ Fits(t) => /\ sess' \in [Sessions -> Session]
                       /\ \A r \in Sessions : Fits(sess'[r])
<1>1. \A r \in Sessions : sess'[r] = IF r = s THEN t ELSE sess[r]
  BY DEF TypeOK, SetSession
<1>2. ASSUME Fits(t)
      PROVE  sess' \in [Sessions -> Session]
  BY <1>2 DEF TypeOK, SetSession, Fits
<1> QED
  BY <1>1, <1>2, TypedSessions

\* ... is opened, ...
LEMMA OpenedTyped ==
  ASSUME TypeOK, NEW s \in Sessions, NEW t, Opened(s, t), t.list \in Seq(Names)
  PROVE  /\ sess' \in [Sessions -> Session]
         /\ \A r \in Sessions : Fits(sess'[r])
         /\ \A r \in Sessions : sess'[r] = IF r = s THEN Open(t) ELSE sess[r]
<1>1. SetSession(s, Open(t))
  BY DEF Opened, Open
<1> QED
  BY <1>1, OpenFields, SessionTyped

\* ... or when the others are disturbed.
LEMMA DisturbedTyped ==
  ASSUME TypeOK, NEW x \in Names, NEW S \in SUBSET Sessions, NEW t, Fits(t),
         sess' = [r \in Sessions |-> IF r \in S THEN t ELSE Disturb(sess[r], x)]
  PROVE  /\ sess' \in [Sessions -> Session]
         /\ \A r \in Sessions : Fits(sess'[r])
         /\ \A r \in Sessions : sess'[r] = IF r \in S THEN t ELSE Disturb(sess[r], x)
<1>1. \A r \in Sessions : sess'[r] = IF r \in S THEN t ELSE Disturb(sess[r], x)
  OBVIOUS
<1>2. \A r \in Sessions : Fits(Disturb(sess[r], x))
  BY TypedSessions, DisturbFields
<1>3. \A r \in Sessions : Fits(sess'[r])
  BY <1>1, <1>2
<1>4. sess' \in [Sessions -> Session]
  <2>1. \A r \in Sessions : sess'[r] \in Session
    BY <1>3 DEF Fits
  <2> QED
    BY <2>1
<1> QED
  BY <1>1, <1>3, <1>4

\* What ReadList(s) reads and gives, by name.
Saved == IF file.exists THEN file ELSE [NoList EXCEPT !.uidv = now]
SavedLines(m) == {y \in Names : y[1] = m /\ Saved.uid[y] # NoUid}
NewOnes(s) ==
    {x \in Entries(s) :
       Cardinality({i \in 1..Index(sess[s].list, x) : sess[s].list[i][1] = x[1]})
         > Cardinality(SavedLines(x[1]))}
RankOf(s, x) == Cardinality(UpTo(sess[s].list, x, NewOnes(s)))
ReadUid(s, line) ==
    [x \in Names |-> IF x \in NewOnes(s)
                     THEN [n |-> Saved.nextuid - 1 + RankOf(s, x), uidv |-> Saved.uidv]
                     ELSE IF x \in Entries(s) THEN Saved.uid[line[x]] ELSE NoUid]
Read(s, line) ==
    [sess[s] EXCEPT !.uid = ReadUid(s, line), !.isnew = NewOnes(s), !.uidv = Saved.uidv,
                    !.nextuid = Saved.nextuid + Cardinality(NewOnes(s))]
Matches(s, line) ==
    /\ line \in [Entries(s) \ NewOnes(s) -> Names]
    /\ IsInjective(line)
    /\ \A x \in Entries(s) \ NewOnes(s) : line[x] \in SavedLines(x[1])

\* The step of ReadList in these names.
LEMMA ReadListNames ==
  ASSUME NEW s \in Sessions, ReadList(s)
  PROVE  /\ sess[s].pc = "scanned"
         /\ \E line : /\ Matches(s, line)
                      /\ \/ /\ SetSession(s, [Read(s, line) EXCEPT !.pc = "save"])
                            /\ shown' = shown
                         \/ NewOnes(s) = {} /\ Opened(s, Read(s, line))
         /\ UNCHANGED <<place, seen, file, now, raced, torn, faults>>
<1>1. sess[s].pc = "scanned" /\ UNCHANGED <<place, seen, file, now, raced, torn, faults>>
  BY DEF ReadList
<1>2. PICK line \in [Entries(s) \ NewOnes(s) -> Names] :
        /\ IsInjective(line)
        /\ \A x \in DOMAIN line : line[x] \in SavedLines(x[1])
        /\ \/ /\ SetSession(s, [Read(s, line) EXCEPT !.pc = "save"])
              /\ shown' = shown
           \/ NewOnes(s) = {} /\ Opened(s, Read(s, line))
  BY DEF ReadList, Read, ReadUid, NewOnes, RankOf, UpTo, SavedLines, Saved
<1>3. Matches(s, line)
  BY <1>2 DEF Matches
<1> QED
  BY <1>1, <1>2, <1>3

\* What is saved is a list: the file, or one that is empty.
LEMMA SavedTyped ==
  ASSUME TypeOK
  PROVE  /\ Saved \in List
         /\ file.exists => Saved = file
         /\ ~ file.exists => /\ Saved.uidv = now /\ Saved.uid = NoUids
                             /\ Saved.nextuid = 1
<1>1. now \in Nat /\ file \in List
  BY Pop3Assumption DEF TypeOK
<1> QED
  BY <1>1, Constants DEF Saved, List, NoList

\* The entries of a session, and the new ones.
LEMMA EntriesFacts ==
  ASSUME TypeOK, NEW s \in Sessions, sess[s].pc = "scanned"
  PROVE  /\ sess[s] \in Session /\ sess[s].list \in Seq(Names) /\ IsInjective(sess[s].list)
         /\ Entries(s) \in SUBSET Names /\ NewOnes(s) \in SUBSET Entries(s)
         /\ Cardinality(NewOnes(s)) \in Nat
         /\ \A x \in NewOnes(s) : RankOf(s, x) \in 1..Cardinality(NewOnes(s))
         /\ \A x, y \in NewOnes(s) : RankOf(s, x) = RankOf(s, y) => x = y
<1>1. sess[s] \in Session /\ sess[s].list \in Seq(Names) /\ IsInjective(sess[s].list)
  BY TypedSessions DEF Fits, Session
<1>2. Entries(s) \in SUBSET Names /\ NewOnes(s) \in SUBSET Entries(s)
  BY <1>1, ListFacts DEF Entries, NewOnes
<1>3. NewOnes(s) \in SUBSET Range(sess[s].list)
  BY <1>2 DEF Entries
<1>4. Cardinality(NewOnes(s)) \in Nat
  BY <1>2, NamesFinite
<1>5. \A x \in NewOnes(s) : RankOf(s, x) \in 1..Cardinality(NewOnes(s))
  BY <1>1, <1>3, RankRange DEF RankOf
<1>6. \A x, y \in NewOnes(s) : RankOf(s, x) = RankOf(s, y) => x = y
  BY <1>1, <1>3, RankInjective DEF RankOf
<1> QED
  BY <1>1, <1>2, <1>4, <1>5, <1>6

\* The fields of what is read.
LEMMA ReadFields ==
  ASSUME TypeOK, NEW s \in Sessions, sess[s].pc = "scanned", NEW line, Matches(s, line)
  PROVE  /\ Read(s, line).list = sess[s].list
         /\ Read(s, line).uid = ReadUid(s, line) /\ Read(s, line).isnew = NewOnes(s)
         /\ Read(s, line).uidv = Saved.uidv /\ Read(s, line).pc = sess[s].pc
         /\ Read(s, line).enomem = sess[s].enomem
         /\ Read(s, line).names = sess[s].names
         /\ Read(s, line).deleted = sess[s].deleted
         /\ Read(s, line).asked = sess[s].asked
         /\ Read(s, line).nextuid = Saved.nextuid + Cardinality(NewOnes(s))
         /\ Read(s, line) \in Session
<1>1. sess[s] \in Session
  BY EntriesFacts
<1>2. /\ Read(s, line).list = sess[s].list
      /\ Read(s, line).uid = ReadUid(s, line) /\ Read(s, line).isnew = NewOnes(s)
      /\ Read(s, line).uidv = Saved.uidv /\ Read(s, line).pc = sess[s].pc
      /\ Read(s, line).enomem = sess[s].enomem
      /\ Read(s, line).names = sess[s].names
      /\ Read(s, line).deleted = sess[s].deleted
      /\ Read(s, line).asked = sess[s].asked
      /\ Read(s, line).nextuid = Saved.nextuid + Cardinality(NewOnes(s))
  BY <1>1 DEF Read, Session
<1>3. /\ Entries(s) \in SUBSET Names /\ NewOnes(s) \in SUBSET Entries(s)
      /\ Cardinality(NewOnes(s)) \in Nat
  BY EntriesFacts
<1>4. /\ Saved.nextuid \in Nat \ {0} /\ Saved.uidv \in Nat
      /\ Saved.uid \in [Names -> Uids]
  BY SavedTyped DEF List
<1>5. ReadUid(s, line) \in [Names -> Uids]
  <2>1. ASSUME NEW x \in NewOnes(s)
        PROVE  [n |-> Saved.nextuid - 1 + RankOf(s, x), uidv |-> Saved.uidv] \in Uids
    <3>1. RankOf(s, x) \in Nat
      BY <1>3, EntriesFacts
    <3>2. Saved.nextuid - 1 + RankOf(s, x) \in Nat
      BY <3>1, <1>4
    <3> QED
      BY <3>2, <1>4 DEF Uids
  <2>2. \A x \in Entries(s) \ NewOnes(s) : line[x] \in Names
    BY DEF Matches
  <2>3. \A x \in Entries(s) \ NewOnes(s) : Saved.uid[line[x]] \in Uids
    BY <1>4, <2>2
  <2>4. ASSUME NEW x \in Names
        PROVE  ReadUid(s, line)[x] \in Uids
    <3>1. CASE x \in NewOnes(s)
      BY <2>1, <3>1 DEF ReadUid
    <3>2. CASE x \notin NewOnes(s)
      BY <2>3, <3>2, Constants DEF ReadUid
    <3> QED
      BY <3>1, <3>2
  <2> QED
    BY <2>4 DEF ReadUid
<1>6. Saved.nextuid + Cardinality(NewOnes(s)) \in Nat
  BY <1>3, <1>4
<1>7. NewOnes(s) \in SUBSET Names
  BY <1>3
<1> HIDE DEF Read
<1>8. Read(s, line) \in Session
  BY <1>1, <1>4, <1>5, <1>6, <1>7 DEF Read, Session
<1> QED
  BY <1>2, <1>8

\* The session that has read the list and has to save it.
ReadForSave(s, line) == [Read(s, line) EXCEPT !.pc = "save"]

\* Its fields, and that it fits.
LEMMA ReadForSaveFields ==
  ASSUME TypeOK, NEW s \in Sessions, sess[s].pc = "scanned", NEW line, Matches(s, line)
  PROVE  LET t == ReadForSave(s, line)
         IN /\ t \in Session /\ t.pc = "save" /\ Fits(t)
            /\ t.list = sess[s].list /\ t.names = sess[s].names
            /\ t.uid = ReadUid(s, line) /\ t.isnew = NewOnes(s) /\ t.uidv = Saved.uidv
            /\ t.deleted = {}
            /\ t.nextuid = Saved.nextuid + Cardinality(NewOnes(s))
<1> DEFINE r == Read(s, line)
           t == ReadForSave(s, line)
<1>1. r \in Session
  BY ReadFields
<1>2. t = [r EXCEPT !.pc = "save"]
  BY DEF ReadForSave
<1> HIDE DEF r, t
<1>3. /\ t \in Session /\ t.pc = "save" /\ t.list = r.list /\ t.names = r.names
      /\ t.uid = r.uid /\ t.isnew = r.isnew /\ t.uidv = r.uidv
      /\ t.deleted = r.deleted /\ t.nextuid = r.nextuid
  BY <1>1, <1>2 DEF Session
<1>4. /\ r.list = sess[s].list /\ r.names = sess[s].names /\ r.uid = ReadUid(s, line)
      /\ r.isnew = NewOnes(s) /\ r.uidv = Saved.uidv /\ r.deleted = sess[s].deleted
      /\ r.nextuid = Saved.nextuid + Cardinality(NewOnes(s))
  BY ReadFields DEF r
<1>5. sess[s].deleted = {} /\ IsInjective(sess[s].list)
  BY TypedSessions, EntriesFacts DEF Fits
<1>6. Fits(t)
  BY <1>3, <1>4, <1>5 DEF Fits
<1> QED
  BY <1>3, <1>4, <1>5, <1>6 DEF t

\* A file that gets another name.
LEMMA RenamedFacts ==
  ASSUME TypeOK, NEW m \in Msgs, Renamed(m)
  PROVE  /\ seen' \subseteq Msgs /\ torn' \in [Msgs -> 0..MaxRenames]
         /\ m \in seen' <=> m \notin seen
         /\ \A k \in Msgs : k # m => (k \in seen' <=> k \in seen)
         /\ \A k \in Msgs : torn[k] # 0 => torn'[k] # 0
         /\ (\E s \in Sessions : sess[s].pc = "reading") => torn'[m] # 0
<1>1. /\ seen' \subseteq Msgs
      /\ m \in seen' <=> m \notin seen
      /\ \A k \in Msgs : k # m => (k \in seen' <=> k \in seen)
  BY DEF TypeOK, Renamed
<1>2. torn \in [Msgs -> 0..MaxRenames] /\ MaxRenames \in Nat
  BY Pop3Assumption DEF TypeOK
<1>3. CASE \E s \in Sessions : sess[s].pc = "reading"
  <2>1. torn[m] < MaxRenames /\ torn' = [torn EXCEPT ![m] = torn[m] + 1]
    BY <1>3 DEF Renamed
  <2>2. torn[m] + 1 \in 0..MaxRenames /\ torn[m] + 1 # 0
    BY <1>2, <2>1
  <2>3. torn' \in [Msgs -> 0..MaxRenames]
    BY <1>2, <2>1, <2>2
  <2>4. \A k \in Msgs : torn'[k] = IF k = m THEN torn[m] + 1 ELSE torn[k]
    BY <1>2, <2>1
  <2> QED
    BY <1>1, <2>2, <2>3, <2>4
<1>4. CASE ~ \E s \in Sessions : sess[s].pc = "reading"
  BY <1>1, <1>2, <1>4 DEF Renamed
<1> QED
  BY <1>3, <1>4

\* A name that has not the flag is one of a message that has not.
LEMMA NotSeen ==
  ASSUME NEW x \in Names, NameOf(x[1]) = x, ~ x[2]
  PROVE  x[1] \notin seen
<1> SUFFICES ASSUME x[1] \in seen
             PROVE  FALSE
  OBVIOUS
<1>1. NameOf(x[1]) = <<x[1], TRUE>>
  BY DEF NameOf
<1>2. x[2] = TRUE
  BY <1>1
<1> QED
  BY <1>2

\* A command makes session s to t, which is not logging in, ...
Becomes(s, t) ==
    /\ Fits(t) /\ t.pc \in {"out", "open", "quit"}
    /\ t.uid \in {NoUids, sess[s].uid}
    /\ sess[s].pc = "save" => t.uid = NoUids
    /\ sess[s].deleted \subseteq sess[s].asked => t.deleted \subseteq t.asked

\* ... and disturbs the others, by removing or renaming the file x.
OthersDisturbed(s, t, x) ==
    sess' = [r \in Sessions |-> IF r \in {s} THEN t ELSE Disturb(sess[r], x)]

Removing(s, t, x) ==
    /\ Cleanup(s) /\ Present(x)
    /\ place' = [place EXCEPT ![x[1]] = "gone"]
    /\ UNCHANGED <<seen, torn>>
    /\ OthersDisturbed(s, t, x)

Renaming(s, t, x) ==
    /\ place[x[1]] = "there" /\ Renamed(x[1]) /\ UNCHANGED place
    /\ x = <<x[1], TRUE>> /\ x[1] \notin seen
    /\ OthersDisturbed(s, t, x)

\* A command makes one session another that fits, and at most one file goes or
\* gets another name, which disturbs the others.
LEMMA CommandSessions ==
  ASSUME TypeOK, NEW s \in Sessions,
         \/ Retr(s) \/ Dele(s) \/ Rset(s) \/ Quit(s)
         \/ Cleanup(s) \/ CleanupEnds(s) \/ Disconnect(s)
  PROVE  \E t : /\ Becomes(s, t)
                /\ \/ SetSession(s, t) /\ UNCHANGED <<place, seen, torn>>
                   \/ \E x \in Names : Removing(s, t, x) \/ Renaming(s, t, x)
<1>1. sess[s] \in Session /\ Fits(sess[s])
  BY TypedSessions DEF Fits
<1>2. sess[s].list \in Seq(Names)
  BY <1>1 DEF Session
<1>3. CASE Retr(s)
  <2>1. PICK i \in Numbers(s) :
          LET x == sess[s].list[i]
          IN /\ sess[s].pc = "open"
             /\ ~ x[2] /\ Present(x) /\ Renamed(x[1]) /\ UNCHANGED place
             /\ sess' = [r \in Sessions |->
                           IF r = s THEN [sess[r] EXCEPT !.list[i] = <<x[1], TRUE>>]
                           ELSE Disturb(sess[r], <<x[1], TRUE>>)]
    BY <1>3 DEF Retr
  <2> DEFINE x == sess[s].list[i]
             y == <<x[1], TRUE>>
             t == [sess[s] EXCEPT !.list = [sess[s].list EXCEPT ![i] = y]]
  <2>2. i \in DOMAIN sess[s].list /\ x \in Names
    BY <1>2, ListFacts DEF Numbers
  <2>3. y \in Names /\ y[1] = x[1] /\ x[1] \in Msgs
    BY <2>2 DEF Names
  <2>4. sess' = [r \in Sessions |-> IF r \in {s} THEN t ELSE Disturb(sess[r], y)]
    BY <2>1
  <2>5. [sess[s].list EXCEPT ![i] = y] \in Seq(Names)
    BY <1>2, <2>2, <2>3
  <2>6. DOMAIN [sess[s].list EXCEPT ![i] = y] = DOMAIN sess[s].list
    OBVIOUS
  <2>7. /\ t \in Session /\ t.pc = "open" /\ t.uid = sess[s].uid
        /\ t.deleted = sess[s].deleted /\ t.asked = sess[s].asked
        /\ DOMAIN t.list = DOMAIN sess[s].list
    <3> DEFINE l == [sess[s].list EXCEPT ![i] = y]
    <3>1. l \in Seq(Names) /\ DOMAIN l = DOMAIN sess[s].list
      BY <2>5, <2>6
    <3> HIDE DEF l
    <3>2. [sess[s] EXCEPT !.list = l] \in Session
      BY <1>1, <3>1 DEF Session
    <3> QED
      BY <1>1, <2>1, <3>1, <3>2 DEF Session, l
  <2>8. Fits(t)
    BY <1>1, <2>7 DEF Fits
  <2>9. x[1] \notin seen
    BY <2>1, <2>2, NotSeen DEF Present
  <2>10. place[x[1]] = "there" /\ Renamed(x[1]) /\ UNCHANGED place
    BY <2>1 DEF Present
  <2>11. sess[s].pc = "open"
    BY <2>1
  <2> HIDE DEF t, x
  <2>12. Renaming(s, t, y)
    BY <2>3, <2>4, <2>9, <2>10 DEF Renaming, OthersDisturbed
  <2>13. Becomes(s, t)
    BY <2>7, <2>8, <2>11 DEF Becomes
  <2> QED
    BY <2>3, <2>12, <2>13
<1>4. CASE Cleanup(s)
  <2>1. PICK i \in sess[s].deleted :
          LET x == sess[s].list[i]
              t == [sess[s] EXCEPT !.deleted = sess[s].deleted \ {i}]
          IN /\ sess[s].pc = "quit"
             /\ IF Present(x)
                THEN /\ place' = [place EXCEPT ![x[1]] = "gone"]
                     /\ sess' = [r \in Sessions |-> IF r = s THEN t
                                                    ELSE Disturb(sess[r], x)]
                ELSE SetSession(s, t) /\ UNCHANGED place
             /\ UNCHANGED <<seen, torn>>
    BY <1>4 DEF Cleanup
  <2> DEFINE x == sess[s].list[i]
             t == [sess[s] EXCEPT !.deleted = sess[s].deleted \ {i}]
  <2>2. /\ t \in Session /\ t.pc = "quit" /\ t.uid = sess[s].uid /\ t.list = sess[s].list
        /\ t.deleted = sess[s].deleted \ {i} /\ t.asked = sess[s].asked
    BY <1>1, <2>1 DEF Session
  <2>3. Fits(t)
    BY <1>1, <2>2 DEF Fits
  <2>4. x \in Names
    BY <1>1, <1>2, ListFacts DEF Fits
  <2>5. \/ SetSession(s, t) /\ UNCHANGED <<place, seen, torn>>
        \/ /\ Present(x) /\ place' = [place EXCEPT ![x[1]] = "gone"]
           /\ UNCHANGED <<seen, torn>>
           /\ sess' = [r \in Sessions |-> IF r \in {s} THEN t ELSE Disturb(sess[r], x)]
    BY <2>1
  <2>6. sess[s].pc = "quit"
    BY <2>1
  <2> HIDE DEF t, x
  <2>7. Becomes(s, t)
    BY <2>2, <2>3, <2>6 DEF Becomes
  <2>8. \/ SetSession(s, t) /\ UNCHANGED <<place, seen, torn>>
        \/ Removing(s, t, x)
    BY <1>4, <2>5 DEF Removing, OthersDisturbed
  <2> QED
    BY <2>4, <2>7, <2>8
<1>5. CASE Dele(s)
  <2>1. PICK i \in Numbers(s) :
          /\ sess[s].pc = "open"
          /\ SetSession(s, [sess[s] EXCEPT !.deleted = sess[s].deleted \cup {i},
                                           !.asked = sess[s].asked \cup {i}])
    BY <1>5 DEF Dele
  <2> DEFINE t == [sess[s] EXCEPT !.deleted = sess[s].deleted \cup {i},
                                  !.asked = sess[s].asked \cup {i}]
  <2>2. i \in DOMAIN sess[s].list /\ i \in Nat
    BY <1>2, ListFacts DEF Numbers
  <2>3. /\ t \in Session /\ t.list = sess[s].list /\ t.pc = "open" /\ t.uid = sess[s].uid
        /\ t.deleted = sess[s].deleted \cup {i} /\ t.asked = sess[s].asked \cup {i}
    BY <1>1, <2>1, <2>2 DEF Session
  <2>4. SetSession(s, t) /\ UNCHANGED <<place, seen, torn>>
    BY <1>5, <2>1 DEF Dele
  <2> HIDE DEF t
  <2>5. Fits(t)
    BY <1>1, <2>2, <2>3 DEF Fits
  <2> QED
    BY <2>1, <2>3, <2>4, <2>5 DEF Becomes
<1>6. CASE Rset(s)
  <2> DEFINE t == [sess[s] EXCEPT !.deleted = {}, !.asked = {}]
  <2>1. /\ t \in Session /\ t.list = sess[s].list /\ t.pc = "open" /\ t.uid = sess[s].uid
        /\ t.deleted = {} /\ t.asked = {}
    BY <1>1, <1>6 DEF Session, Rset
  <2>2. SetSession(s, t) /\ UNCHANGED <<place, seen, torn>> /\ sess[s].pc = "open"
    BY <1>6 DEF Rset
  <2> HIDE DEF t
  <2>3. Fits(t)
    BY <2>1 DEF Fits
  <2> QED
    BY <2>1, <2>2, <2>3 DEF Becomes
<1>7. CASE Quit(s)
  <2> DEFINE t == [sess[s] EXCEPT !.pc = "quit"]
  <2>1. /\ t \in Session /\ t.list = sess[s].list /\ t.pc = "quit" /\ t.uid = sess[s].uid
        /\ t.deleted = sess[s].deleted /\ t.asked = sess[s].asked
    BY <1>1 DEF Session
  <2>2. SetSession(s, t) /\ UNCHANGED <<place, seen, torn>> /\ sess[s].pc = "open"
    BY <1>7 DEF Quit
  <2> HIDE DEF t
  <2>3. Fits(t)
    BY <1>1, <2>1 DEF Fits
  <2> QED
    BY <2>1, <2>2, <2>3 DEF Becomes
<1>8. CASE CleanupEnds(s) \/ Disconnect(s)
  <2>1. /\ Out.pc = "out" /\ Out.uid = NoUids /\ Out.deleted = {} /\ Out.asked = {}
    BY DEF Out
  <2>2. Fits(Out)
    BY <2>1, Constants DEF Fits
  <2>3. SetSession(s, Out) /\ UNCHANGED <<place, seen, torn>>
    BY <1>8 DEF CleanupEnds, Disconnect
  <2> QED
    BY <2>1, <2>2, <2>3 DEF Becomes
<1> QED
  BY <1>3, <1>4, <1>5, <1>6, <1>7, <1>8

\* The session that begins to read cur.
Reader(box) ==
    [Out EXCEPT !.pc = "reading", !.steady = box, !.names = {NameOf(m) : m \in box}]

\* Its fields, and that it fits.
LEMMA ReaderFields ==
  ASSUME NEW box \in SUBSET Msgs
  PROVE  /\ Fits(Reader(box)) /\ Reader(box).pc = "reading"
         /\ Reader(box).uid = NoUids /\ Reader(box).steady = box
         /\ Reader(box).names = {NameOf(m) : m \in box}
         /\ Reader(box).list = << >>
         /\ Reader(box).deleted = {} /\ Reader(box).asked = {}
<1>1. {NameOf(m) : m \in box} \in SUBSET Names
  BY NameFacts
<1>2. /\ Reader(box) \in Session /\ Reader(box).pc = "reading"
      /\ Reader(box).uid = NoUids /\ Reader(box).steady = box
      /\ Reader(box).names = {NameOf(m) : m \in box}
      /\ Reader(box).list = << >>
      /\ Reader(box).deleted = {} /\ Reader(box).asked = {}
  BY <1>1, Constants DEF Reader, Out, Session
<1> QED
  BY <1>2, ShortLists DEF Fits

\* The session that has read cur.
Scanned(l) == [Out EXCEPT !.pc = "scanned", !.list = l]

\* Its fields, and that it fits.
LEMMA ScannedFields ==
  ASSUME NEW l \in Seq(Names), IsInjective(l)
  PROVE  /\ Fits(Scanned(l)) /\ Scanned(l).pc = "scanned"
         /\ Scanned(l).list = l /\ Scanned(l).names = {} /\ Scanned(l).uid = NoUids
         /\ Scanned(l).deleted = {} /\ Scanned(l).asked = {}
<1>1. /\ Scanned(l) \in Session /\ Scanned(l).pc = "scanned"
      /\ Scanned(l).list = l /\ Scanned(l).names = {} /\ Scanned(l).uid = NoUids
      /\ Scanned(l).deleted = {} /\ Scanned(l).asked = {}
  BY Constants DEF Scanned, Out, Session
<1> QED
  BY <1>1 DEF Fits

\* The step of ScanCur in these names, ...
LEMMA ScanCurNames ==
  ASSUME NEW s \in Sessions, ScanCur(s)
  PROVE  /\ sess[s].pc = "reading"
         /\ \E read \in SUBSET sess[s].names :
              /\ {x \in sess[s].names : x[1] \in sess[s].steady} \subseteq read
              /\ \/ read = {} /\ Opened(s, Out)
                 \/ \E l \in Listings(read) : /\ read # {} /\ SetSession(s, Scanned(l))
                                              /\ shown' = shown
         /\ UNCHANGED <<place, seen, file, now, raced, torn, faults>>
  BY DEF ScanCur, Scanned

\* ... and that of SaveFails.
LEMMA SaveFailsNames ==
  ASSUME NEW s \in Sessions, SaveFails(s)
  PROVE  /\ sess[s].pc = "save" /\ faults < MaxFaults /\ faults' = faults + 1
         /\ UNCHANGED <<place, seen, file, now, raced, torn>>
         /\ \/ Opened(s, [sess[s] EXCEPT !.list = <<Head(sess[s].list)>>, !.enomem = TRUE])
            \/ \E l \in Listings(Entries(s) \ sess[s].isnew) :
                 Opened(s, [sess[s] EXCEPT !.list = l])
  BY DEF SaveFails

\* Every step keeps the types.
LEMMA TypeStep ==
  ASSUME TypeOK, LoginInv, Next
  PROVE  TypeOK'
<1>0. ASSUME sess' \in [Sessions -> Session], \A s \in Sessions : Fits(sess'[s]),
             place' \in [Msgs -> {"none", "there", "gone"}], seen' \subseteq Msgs,
             file' \in List, raced' \in BOOLEAN, torn' \in [Msgs -> 0..MaxRenames],
             faults' \in 0..MaxFaults, now' \in 0..faults'
      PROVE  TypeOK'
  BY <1>0 DEF TypeOK, Fits, LoggingIn
<1> USE DEF TypeOK
<1>1. ASSUME NEW s \in Sessions, Login(s)
      PROVE  TypeOK'
  <2> DEFINE box == {m \in Msgs : place[m] = "there"}
  <2>1. SetSession(s, Reader(box)) /\ raced' \in BOOLEAN
    BY <1>1 DEF Login, Reader
  <2>2. box \in SUBSET Msgs
    OBVIOUS
  <2>3. Fits(Reader(box))
    BY <2>2, ReaderFields
  <2> HIDE DEF box
  <2>4. sess' \in [Sessions -> Session] /\ \A r \in Sessions : Fits(sess'[r])
    BY <2>1, <2>3, SessionTyped
  <2> QED
    BY <1>0, <1>1, <2>1, <2>4 DEF Login
<1>2. ASSUME NEW s \in Sessions, ScanCur(s)
      PROVE  TypeOK'
  <2>1. PICK read \in SUBSET sess[s].names :
          \/ read = {} /\ Opened(s, Out)
          \/ \E l \in Listings(read) : SetSession(s, Scanned(l))
    BY <1>2, ScanCurNames
  <2>2. sess' \in [Sessions -> Session] /\ \A r \in Sessions : Fits(sess'[r])
    <3>1. CASE Opened(s, Out)
      <4>1. Out.list \in Seq(Names)
        BY Constants DEF Session
      <4> QED
        BY <3>1, <4>1, OpenedTyped
    <3>2. ASSUME NEW l \in Listings(read), SetSession(s, Scanned(l))
          PROVE  sess' \in [Sessions -> Session] /\ \A r \in Sessions : Fits(sess'[r])
      <4>1. sess[s].names \in SUBSET Names
        BY DEF Session
      <4>2. read \in SUBSET Names
        BY <4>1
      <4>3. l \in Seq(Names) /\ IsInjective(l)
        BY <4>2, ListingFacts
      <4>4. Fits(Scanned(l))
        BY <1>2, <4>3, ScanCurNames, ScannedFields
      <4> QED
        BY <3>2, <4>4, SessionTyped
    <3> QED
      BY <2>1, <3>1, <3>2
  <2> QED
    BY <1>0, <1>2, <2>2, ScanCurNames
<1>3. ASSUME NEW s \in Sessions, ReadList(s)
      PROVE  TypeOK'
  <2>1. sess[s].pc = "scanned"
    BY <1>3, ReadListNames
  <2>2. PICK line : /\ Matches(s, line)
                    /\ \/ SetSession(s, ReadForSave(s, line))
                       \/ Opened(s, Read(s, line))
    BY <1>3, ReadListNames DEF ReadForSave
  <2>3. Fits(ReadForSave(s, line))
    BY <2>1, <2>2, ReadForSaveFields
  <2>4. Read(s, line).list \in Seq(Names)
    BY <2>1, <2>2, ReadFields, EntriesFacts
  <2>5. sess' \in [Sessions -> Session] /\ \A r \in Sessions : Fits(sess'[r])
    BY <2>2, <2>3, <2>4, SessionTyped, OpenedTyped
  <2> QED
    BY <1>0, <1>3, <2>5, ReadListNames
<1>4. ASSUME NEW s \in Sessions, Save(s)
      PROVE  TypeOK'
  <2>1. /\ sess[s].pc = "save" /\ Opened(s, sess[s])
        /\ sess[s] \in Session /\ sess[s].list \in Seq(Names)
    BY <1>4 DEF Save, Session
  <2>2. PICK x \in Range(sess[s].list) : TRUE
    BY <2>1, ListFacts DEF LoginInv
  <2>3. sess[s].nextuid \in Nat \ {0}
    <3>1. Numbered(sess[s]) /\ x \in Given(sess[s])
      BY <2>1, <2>2 DEF LoginInv, Entries
    <3>2. sess[s].uid[x].n \in 1..(sess[s].nextuid - 1) /\ sess[s].nextuid \in Nat
      BY <2>1, <3>1 DEF Numbered, Session
    <3> QED
      BY <3>2
  <2>4. file' \in List
    BY <1>4, <2>1, <2>3 DEF Save, List, Session
  <2>5. sess' \in [Sessions -> Session] /\ \A r \in Sessions : Fits(sess'[r])
    BY <2>1, OpenedTyped
  <2> QED
    BY <1>0, <1>4, <2>4, <2>5 DEF Save
<1>5. ASSUME NEW s \in Sessions, SaveFails(s)
      PROVE  TypeOK'
  <2> DEFINE old == Entries(s) \ sess[s].isnew
             first == Head(sess[s].list)
  <2>0. sess[s] \in Session /\ sess[s].list \in Seq(Names) /\ Entries(s) \in SUBSET Names
    BY ListFacts DEF Session, Entries
  <2>1. faults' \in 0..MaxFaults /\ now' \in 0..faults'
    <3>1. faults < MaxFaults /\ faults' = faults + 1 /\ now' = now
      BY <1>5, SaveFailsNames
    <3> QED
      BY <3>1, Pop3Assumption
  <2>2. PICK l \in {<<first>>} \cup Listings(old) : \E e \in BOOLEAN :
              Opened(s, [sess[s] EXCEPT !.list = l, !.enomem = e])
    <3>1. CASE Opened(s, [sess[s] EXCEPT !.list = <<first>>, !.enomem = TRUE])
      BY <3>1
    <3>2. ASSUME NEW l \in Listings(old), Opened(s, [sess[s] EXCEPT !.list = l])
          PROVE  \E e \in BOOLEAN : Opened(s, [sess[s] EXCEPT !.list = l, !.enomem = e])
      <4>1. [sess[s] EXCEPT !.list = l]
              = [sess[s] EXCEPT !.list = l, !.enomem = sess[s].enomem]
        BY <2>0 DEF Session
      <4>2. sess[s].enomem \in BOOLEAN
        BY <2>0 DEF Session
      <4> QED
        BY <3>2, <4>1, <4>2
    <3> QED
      BY <1>5, <3>1, <3>2, SaveFailsNames
  <2>3. PICK e \in BOOLEAN : Opened(s, [sess[s] EXCEPT !.list = l, !.enomem = e])
    BY <2>2
  <2>4. l \in Seq(Names)
    <3>1. sess[s].list # << >>
      BY <1>5, SaveFailsNames DEF LoginInv
    <3>2. first \in Names /\ old \in SUBSET Names
      BY <2>0, <3>1, ListFacts
    <3> QED
      BY <3>2, ShortLists, ListingFacts
  <2> DEFINE t == [sess[s] EXCEPT !.list = l, !.enomem = e]
  <2>5. t.list = l
    BY <2>0 DEF Session
  <2> HIDE DEF t
  <2>6. sess' \in [Sessions -> Session] /\ \A r \in Sessions : Fits(sess'[r])
    BY <2>3, <2>4, <2>5, OpenedTyped DEF t
  <2> QED
    BY <1>0, <1>5, <2>1, <2>6, SaveFailsNames
<1>6. ASSUME NEW s \in Sessions,
             \/ Retr(s) \/ Dele(s) \/ Rset(s) \/ Quit(s)
             \/ Cleanup(s) \/ CleanupEnds(s) \/ Disconnect(s)
      PROVE  TypeOK'
  <2>1. UNCHANGED <<file, now, raced, faults>>
    BY <1>6 DEF Retr, Dele, Rset, Quit, Cleanup, CleanupEnds, Disconnect
  <2>2. PICK t : /\ Becomes(s, t)
                 /\ \/ SetSession(s, t) /\ UNCHANGED <<place, seen, torn>>
                    \/ \E x \in Names : Removing(s, t, x) \/ Renaming(s, t, x)
    BY <1>6, CommandSessions
  <2>3. Fits(t)
    BY <2>2 DEF Becomes
  <2>4. CASE SetSession(s, t) /\ UNCHANGED <<place, seen, torn>>
    <3>1. sess' \in [Sessions -> Session] /\ \A r \in Sessions : Fits(sess'[r])
      BY <2>3, <2>4, SessionTyped
    <3> QED
      BY <1>0, <2>1, <2>4, <3>1
  <2>5. ASSUME NEW x \in Names, OthersDisturbed(s, t, x)
        PROVE  sess' \in [Sessions -> Session] /\ \A r \in Sessions : Fits(sess'[r])
    BY <2>3, <2>5, DisturbedTyped DEF OthersDisturbed
  <2>6. ASSUME NEW x \in Names, Removing(s, t, x)
        PROVE  TypeOK'
    <3>1. place' \in [Msgs -> {"none", "there", "gone"}] /\ UNCHANGED <<seen, torn>>
      BY <2>6 DEF Removing
    <3> QED
      BY <1>0, <2>1, <2>5, <2>6, <3>1 DEF Removing
  <2>7. ASSUME NEW x \in Names, Renaming(s, t, x)
        PROVE  TypeOK'
    <3>1. /\ seen' \subseteq Msgs /\ torn' \in [Msgs -> 0..MaxRenames]
          /\ UNCHANGED place
      BY <2>7, NameFacts, RenamedFacts DEF Renaming
    <3> QED
      BY <1>0, <2>1, <2>5, <2>7, <3>1 DEF Renaming
  <2> QED
    BY <2>2, <2>4, <2>6, <2>7
<1>7. ASSUME NEW m \in Msgs, Arrive(m) \/ Store(m) \/ Expunge(m)
      PROVE  TypeOK'
  <2>1. UNCHANGED <<file, now, raced, faults>>
    BY <1>7 DEF Arrive, Store, Expunge
  <2>2. place' \in [Msgs -> {"none", "there", "gone"}]
    BY <1>7 DEF Arrive, Store, Expunge
  <2>3. seen' \subseteq Msgs /\ torn' \in [Msgs -> 0..MaxRenames]
    BY <1>7, RenamedFacts DEF Arrive, Store, Expunge
  <2>4. PICK x \in Names : DisturbAll(x)
    <3>1. <<m, m \notin seen>> \in Names
      BY DEF Names
    <3> QED
      BY <1>7, <3>1, NameFacts DEF Arrive, Store, Expunge
  <2>5. sess' \in [Sessions -> Session] /\ \A r \in Sessions : Fits(sess'[r])
    <3>1. sess' = [r \in Sessions |-> IF r \in {} THEN Out ELSE Disturb(sess[r], x)]
      BY <2>4 DEF DisturbAll
    <3>2. Fits(Out) /\ {} \in SUBSET Sessions
      BY Constants DEF Fits, Out
    <3> QED
      BY <3>1, <3>2, DisturbedTyped
  <2> QED
    BY <1>0, <2>1, <2>2, <2>3, <2>5
<1>8. ASSUME LoseList
      PROVE  TypeOK'
  <2>1. faults' \in 0..MaxFaults /\ now' \in 0..faults'
    BY <1>8, Pop3Assumption DEF LoseList
  <2>2. file' \in List /\ UNCHANGED <<place, seen, sess, raced, torn>>
    BY <1>8, Constants DEF LoseList
  <2>3. \A s \in Sessions : Fits(sess[s])
    BY TypedSessions
  <2> QED
    BY <1>0, <2>1, <2>2, <2>3
<1> QED
  BY <1>1, <1>2, <1>3, <1>4, <1>5, <1>6, <1>7, <1>8 DEF Next

--------------------------------------------------------------------------
(* What clients were told.                                                 *)

\* A UID that was told is one, and not of a later UIDVALIDITY.
LEMMA ToldFacts ==
  ASSUME TypeOK, ShownInv, NEW u, NEW m, Told(u, m)
  PROVE  /\ u \in Uids /\ u # NoUid /\ u.uidv <= now
         /\ m \in Msgs /\ place[m] # "none" /\ ~ raced
<1>1. <<<<"UID", u>>, m>> \in shown
  BY DEF Told
<1>2. m \in Msgs /\ place[m] # "none"
  BY <1>1 DEF ShownInv
<1>3. \/ <<<<"UID", u>>, m>> = <<<<"ENOMEM", m>>, m>>
      \/ \E w \in Uids : /\ <<<<"UID", u>>, m>> = <<<<"UID", w>>, m>>
                         /\ w # NoUid /\ w.uidv <= now
  BY <1>1 DEF ShownInv
<1>4. <<"UID", u>> # <<"ENOMEM", m>>
  OBVIOUS
<1>5. PICK w \in Uids : /\ <<<<"UID", u>>, m>> = <<<<"UID", w>>, m>>
                        /\ w # NoUid /\ w.uidv <= now
  BY <1>3, <1>4
<1>6. u = w
  BY <1>5
<1> QED
  BY <1>1, <1>2, <1>5, <1>6 DEF ShownInv

\* What is known of a session that reads cur: the files that are there may be
\* returned, and those that are steady are there.
ReaderKnows(r) ==
    /\ \A m \in Named(sess[r].names) : place[m] # "none"
    /\ OneName(sess[r].names)
    /\ sess[r].steady \subseteq {m \in Msgs : place[m] = "there"}
    /\ \A m \in Msgs : place[m] = "there" => NameOf(m) \in sess[r].names

\* A step that leaves out of what such a session finds only messages that are
\* gone or renamed, and adds only new ones.
ReaderKeeps(r) ==
    /\ sess[r].pc = "reading" /\ sess'[r].list = sess[r].list
    /\ \A m \in sess[r].steady \ sess'[r].steady : place'[m] = "gone" \/ torn'[m] # 0
    /\ \A m \in Named(sess'[r].names) : m \in Named(sess[r].names) \/ place[m] = "none"

\* No message comes back, and one that was renamed in a readdir() stays so.
Onwards ==
    \A m \in Msgs : /\ place[m] = "gone" => place'[m] = "gone"
                    /\ place[m] # "none" => place'[m] # "none"
                    /\ torn[m] # 0 => torn'[m] # 0

\* The sessions that have read cur are not changed.
QuietSession(r) ==
    /\ sess'[r].pc \in {"scanned", "save"} => sess'[r] = sess[r]
    /\ sess'[r].pc # "save" => sess'[r].uid = NoUids
    /\ sess'[r].deleted \subseteq sess'[r].asked
    /\ sess'[r].pc = "reading" => ReaderKnows(r)' /\ ReaderKeeps(r)

\* What is known of a session that is logging in and has read cur.
ScannedKnows(r) ==
    LET t == sess[r]
    IN /\ \A m \in Named(Entries(r)) : place[m] # "none"
       /\ OneName(Entries(r)) /\ OneName(t.names)
       /\ t.list # << >>
       /\ t.pc = "save" => Numbered(t) /\ Given(t) = Entries(r) /\ Remembers(t, Found(t))

\* LoginInv, by the place a session has come to.
LEMMA LoginKnows ==
  LoginInv <=>
    \A s \in Sessions :
      /\ sess[s].pc # "save" => sess[s].uid = NoUids
      /\ sess[s].deleted \subseteq sess[s].asked
      /\ sess[s].pc = "reading" => ReaderKnows(s) /\ OneName(Entries(s))
      /\ sess[s].pc \in {"scanned", "save"} => ScannedKnows(s)
  BY DEF LoginInv, ReaderKnows, ScannedKnows, LoggingIn, Found, Entries

\* What was known of it is, as long as its list, what was told, and the
\* UIDVALIDITY do not change.
LEMMA ScannedKept ==
  ASSUME TypeOK, NEW r \in Sessions, ScannedKnows(r), sess[r].pc \in {"scanned", "save"},
         sess'[r] = sess[r], Onwards, now' = now,
         \A u, m : Told(u, m)' => Told(u, m)
  PROVE  ScannedKnows(r)'
<1>1. sess[r] \in Session /\ Entries(r) \in SUBSET Names /\ sess[r].names \in SUBSET Names
  BY ListFacts, TypedSessions DEF Fits, Session, Entries
<1>2. Entries(r)' = Entries(r) /\ Found(sess[r])' = Found(sess[r])
  BY DEF Entries, Found
<1>3. OneName(Entries(r))' /\ OneName(sess[r].names)'
  BY <1>1, <1>2, NameFacts DEF ScannedKnows, OneName, Onwards
<1>4. \A m \in Named(Entries(r))' : place'[m] # "none"
  BY <1>1, <1>2, NameFacts DEF ScannedKnows, Named, Onwards
<1>5. ASSUME sess[r].pc = "save"
      PROVE  /\ Numbered(sess[r])' /\ (Given(sess[r]) = Entries(r))'
             /\ Remembers(sess[r], Found(sess[r]))'
  <2>1. Numbered(sess[r]) /\ Given(sess[r]) = Entries(r) /\ Remembers(sess[r], Found(sess[r]))
    BY <1>5 DEF ScannedKnows
  <2>2. (Given(sess[r]) = Entries(r))' /\ Given(sess[r])' = Given(sess[r])
    BY <1>2, <2>1 DEF Given
  <2>3. Numbered(sess[r])'
    BY <1>3, <2>1, <2>2 DEF Numbered, Distinct, Given
  <2>4. Remembers(sess[r], Found(sess[r]))'
    BY <1>2, <2>1 DEF Remembers, Onwards, Has
  <2> QED
    BY <2>2, <2>3, <2>4
<1> QED
  BY <1>3, <1>4, <1>5 DEF ScannedKnows

\* The same for the file.
LEMMA FileKept ==
  ASSUME TypeOK, FileInv, Onwards, file' = file, now' = now,
         \A u, m : Told(u, m)' => Told(u, m)
  PROVE  FileInv'
<1>1. (~ file.exists => file = NoList)'
  BY DEF FileInv
<1>2. Numbered(file)'
  <2>1. Given(file) \in SUBSET Names /\ Given(file)' = Given(file)
    BY DEF Given
  <2>2. OneName(Given(file))'
    BY <2>1, NameFacts DEF FileInv, Numbered, OneName, Onwards
  <2> QED
    BY <2>1, <2>2 DEF FileInv, Numbered, Distinct
<1>3. (~ file.exists => \A u \in Uids, m \in Msgs : Told(u, m) => u.uidv < now)'
  BY DEF FileInv
<1>4. (file.exists => Remembers(file, {m \in Msgs : place[m] # "gone"}))'
  BY DEF FileInv, Remembers, Onwards, Has
<1> QED
  BY <1>1, <1>2, <1>3, <1>4 DEF FileInv

\* A step in which nothing is told or saved keeps the invariant, if what each
\* session knows remains true.
LEMMA Quiet ==
  ASSUME Pop3Inv, TypeOK', UNCHANGED <<file, now, shown, raced>>, Onwards,
         \A r \in Sessions : QuietSession(r)
  PROVE  FileInv' /\ LoginInv' /\ AloneInv' /\ ShownInv'
<1> USE DEF Pop3Inv
<1>0. \A u, m : Told(u, m)' <=> Told(u, m)
  BY DEF Told
<1>1. ShownInv'
  <2>1. NeverReused' /\ (raced => shown = {})'
    BY DEF ShownInv, NeverReused
  <2>2. \A x \in shown : x[2] \in Msgs /\ place'[x[2]] # "none"
    BY DEF ShownInv, Onwards
  <2>3. NeverChanged'
    BY <2>2 DEF ShownInv, NeverChanged, Onwards
  <2> QED
    BY <2>1, <2>2, <2>3 DEF ShownInv
<1>2. FileInv'
  BY <1>0, FileKept
<1>3. ASSUME NEW r \in Sessions
      PROVE  /\ sess'[r].pc \in {"scanned", "save"} => sess'[r] = sess[r] /\ LoggingIn(r)
             /\ sess'[r].pc = "reading" => sess[r].pc = "reading" /\ LoggingIn(r)
             /\ LoggingIn(r)' => LoggingIn(r)
  BY DEF QuietSession, ReaderKeeps, LoggingIn
<1>4. LoginInv'
  <2>1. ASSUME NEW r \in Sessions, sess'[r].pc \in {"scanned", "save"}
        PROVE  ScannedKnows(r)'
    BY <1>0, <1>3, <2>1, LoginKnows, ScannedKept
  <2>2. ASSUME NEW r \in Sessions, sess'[r].pc = "reading"
        PROVE  OneName(Entries(r))'
    <3>1. Entries(r)' = Entries(r) /\ OneName(Entries(r))
      BY <1>3, <2>2, LoginKnows DEF QuietSession, ReaderKeeps, Entries
    <3>2. Entries(r) \in SUBSET Names
      BY ListFacts, TypedSessions DEF Fits, Session, Entries
    <3> QED
      BY <3>1, <3>2, NameFacts DEF OneName, Onwards
  <2>3. \A s \in Sessions :
          /\ sess'[s].pc # "save" => sess'[s].uid = NoUids
          /\ sess'[s].deleted \subseteq sess'[s].asked
          /\ sess'[s].pc = "reading" => ReaderKnows(s)' /\ OneName(Entries(s))'
          /\ sess'[s].pc \in {"scanned", "save"} => ScannedKnows(s)'
    BY <2>1, <2>2 DEF QuietSession
  <2> QED
    BY <2>3 DEF LoginInv, ReaderKnows, ScannedKnows, LoggingIn, Found, Entries
<1>5. AloneInv'
  <2> SUFFICES ASSUME ~ raced', NEW s \in Sessions, LoggingIn(s)'
               PROVE  /\ \A r \in Sessions : LoggingIn(r)' => r = s
                      /\ \A x \in shown' :
                           \/ x[2] \in IF sess'[s].pc = "reading" THEN sess'[s].steady
                                       ELSE Found(sess[s])'
                           \/ place'[x[2]] = "gone" \/ torn'[x[2]] # 0
                      /\ sess'[s].pc # "save" /\ file'.exists =>
                           \A u \in Uids, m \in Found(sess[s])' :
                             Told(u, m)' /\ u.uidv = file'.uidv /\ torn'[m] = 0
                               => Has(file, m, u)'
                      /\ sess'[s].pc = "save" => \A x \in Entries(s)' \ sess'[s].isnew :
                           IF file'.exists
                           THEN file'.uidv = sess'[s].uidv /\ Has(file, x[1], sess[s].uid[x])'
                           ELSE sess'[s].uidv < now'
    BY DEF AloneInv
  <2>1. \A r \in Sessions : LoggingIn(r)' => r = s
    BY <1>3 DEF AloneInv
  <2>2. LoggingIn(s) /\ ~ raced
    BY <1>3
  <2>3. \A u, m : Has(file, m, u)' <=> Has(file, m, u)
    BY DEF Has
  <2>4. \A x \in shown : x[2] \in Msgs /\ place[x[2]] # "none"
    BY DEF ShownInv
  <2>5. CASE sess'[s].pc = "reading"
    <3>1. /\ sess[s].pc = "reading" /\ ReaderKeeps(s)
          /\ Found(sess[s])' = Named(sess'[s].names)
          /\ Found(sess[s]) = Named(sess[s].names)
      BY <2>5 DEF QuietSession, ReaderKeeps, Found
    <3>2. \A x \in shown : \/ x[2] \in sess'[s].steady
                           \/ place'[x[2]] = "gone" \/ torn'[x[2]] # 0
      BY <2>2, <2>4, <3>1 DEF AloneInv, ReaderKeeps, Onwards
    <3>3. ASSUME file.exists, NEW u \in Uids, NEW m \in Found(sess[s])', Told(u, m),
                 u.uidv = file.uidv, torn'[m] = 0
          PROVE  Has(file, m, u)
      <4>1. m \in Msgs /\ place[m] # "none"
        BY <3>3, ToldFacts
      <4>2. m \in Found(sess[s]) /\ torn[m] = 0
        BY <3>1, <3>3, <4>1 DEF ReaderKeeps, Onwards
      <4> QED
        BY <2>2, <3>1, <3>3, <4>2 DEF AloneInv
    <3> QED
      BY <1>0, <2>1, <2>3, <2>5, <3>2, <3>3
  <2>6. CASE sess'[s].pc \in {"scanned", "save"}
    <3>1. /\ sess'[s] = sess[s] /\ sess[s].pc # "reading"
          /\ Found(sess[s])' = Found(sess[s]) /\ Entries(s)' = Entries(s)
      BY <1>3, <2>6 DEF Found, Entries
    <3>2. \A x \in shown : \/ x[2] \in Found(sess[s])
                           \/ place'[x[2]] = "gone" \/ torn'[x[2]] # 0
      BY <2>2, <2>4, <3>1 DEF AloneInv, Onwards
    <3>3. ASSUME sess[s].pc # "save", file.exists, NEW u \in Uids, NEW m \in Found(sess[s]),
                 Told(u, m), u.uidv = file.uidv, torn'[m] = 0
          PROVE  Has(file, m, u)
      <4>1. torn[m] = 0
        BY <3>3, ToldFacts DEF Onwards
      <4> QED
        BY <2>2, <3>3, <4>1 DEF AloneInv
    <3>4. sess[s].pc = "save" => \A x \in Entries(s) \ sess[s].isnew :
            IF file.exists
            THEN file.uidv = sess[s].uidv /\ Has(file, x[1], sess[s].uid[x])
            ELSE sess[s].uidv < now
      BY <2>2 DEF AloneInv
    <3>5. \A x : Has(file, x[1], sess[s].uid[x])' <=> Has(file, x[1], sess[s].uid[x])
      BY <3>1 DEF Has
    <3> QED
      BY <1>0, <2>1, <2>3, <3>1, <3>2, <3>3, <3>4, <3>5
  <2> QED
    BY <2>5, <2>6 DEF LoggingIn
<1> QED
  BY <1>1, <1>2, <1>4, <1>5

\* A file that comes, goes, or is renamed while session r reads cur.
Coming(x) ==
    /\ place[x[1]] = "none" /\ NameOf(x[1]) = x
    /\ place' = [place EXCEPT ![x[1]] = "there"] /\ UNCHANGED <<seen, torn>>
Going(x) ==
    /\ Present(x)
    /\ place' = [place EXCEPT ![x[1]] = "gone"] /\ UNCHANGED <<seen, torn>>
Changing(x) ==
    /\ place[x[1]] = "there" /\ UNCHANGED place
    /\ Renamed(x[1]) /\ NameOf(x[1])' = x

\* What a session that reads cur knows remains true when a file comes, goes or
\* gets another name.
LEMMA DisturbedReader ==
  ASSUME TypeOK, NEW r \in Sessions, sess[r].pc = "reading", ReaderKnows(r),
         NEW x \in Names, sess'[r] = Disturb(sess[r], x),
         Coming(x) \/ Going(x) \/ Changing(x)
  PROVE  ReaderKnows(r)' /\ ReaderKeeps(r)
<1> DEFINE t == sess[r]
           k == x[1]
<1>1. t \in Session /\ t.names \in SUBSET Names /\ k \in Msgs
  BY NameFacts, TypedSessions DEF Fits, Session
<1>2. /\ sess'[r].names = t.names \cup {x} /\ sess'[r].steady = t.steady \ {k}
      /\ sess'[r].list = t.list
  BY <1>1, DisturbFields
<1>3. /\ place' \in [Msgs -> {"none", "there", "gone"}]
      /\ \A m \in Msgs : m # k => place'[m] = place[m]
      /\ place'[k] # "none"
  BY <1>1 DEF Coming, Going, Changing, Present, TypeOK
<1>4. /\ \A m \in Msgs : torn[m] # 0 => torn'[m] # 0
      /\ Changing(x) => torn'[k] # 0
  BY <1>1, RenamedFacts DEF Coming, Going, Changing
<1>5. ASSUME NEW m \in Msgs, m # k
      PROVE  NameOf(m)' = NameOf(m)
  <2>1. CASE Changing(x)
    <3>1. (m \in seen') = (m \in seen)
      BY <1>1, <1>5, <2>1, RenamedFacts DEF Changing
    <3> QED
      BY <3>1 DEF NameOf
  <2>2. CASE Coming(x) \/ Going(x)
    BY <2>2 DEF Coming, Going, NameOf
  <2> QED
    BY <2>1, <2>2
<1>6. \A m \in Named(sess'[r].names) : m \in Named(t.names) \/ m = k
  BY <1>2 DEF Named
<1>7. Going(x) => x \in t.names
  BY <1>1 DEF Going, Present, ReaderKnows
<1>8. Changing(x) => k \in Named(t.names)
  <2> SUFFICES ASSUME Changing(x)
               PROVE  k \in Named(t.names)
    OBVIOUS
  <2>1. NameOf(k) \in t.names
    BY <1>1 DEF Changing, ReaderKnows
  <2> QED
    BY <1>1, <2>1, NameFacts DEF Named
<1>9. ReaderKeeps(r)
  <2>1. ASSUME NEW m \in t.steady \ sess'[r].steady
        PROVE  place'[m] = "gone" \/ torn'[m] # 0
    <3>1. m = k /\ place[k] = "there"
      BY <1>2, <2>1 DEF ReaderKnows
    <3> QED
      BY <1>1, <1>4, <3>1 DEF Coming, Going, Changing, TypeOK
  <2>2. ASSUME NEW m \in Named(sess'[r].names)
        PROVE  m \in Named(t.names) \/ place[m] = "none"
    <3>1. CASE m = k
      BY <1>7, <1>8, <3>1 DEF Coming, Named
    <3> QED
      BY <1>6, <3>1
  <2> QED
    BY <1>2, <2>1, <2>2 DEF ReaderKeeps
<1>10. ReaderKnows(r)'
  <2>1. ASSUME NEW m \in Named(sess'[r].names)
        PROVE  place'[m] # "none"
    <3>1. CASE m = k
      BY <1>3, <3>1
    <3>2. CASE m # k
      <4>1. m \in Named(t.names) /\ m \in Msgs
        BY <1>1, <1>6, <3>2, NameFacts DEF Named
      <4> QED
        BY <1>3, <3>2, <4>1 DEF ReaderKnows
    <3> QED
      BY <3>1, <3>2
  <2>2. OneName(sess[r].names)'
    <3> SUFFICES ASSUME NEW a \in t.names \cup {x}, NEW b \in t.names \cup {x},
                        a[1] = b[1], torn'[a[1]] = 0
                 PROVE  a = b
      BY <1>2 DEF OneName
    <3>1. a[1] \in Msgs /\ torn[a[1]] = 0
      BY <1>1, <1>4, NameFacts
    <3>2. CASE a \in t.names /\ b \in t.names
      BY <3>1, <3>2 DEF ReaderKnows, OneName
    <3>3. CASE a = x \/ b = x
      <4>1. a[1] = k /\ ~ Changing(x)
        BY <1>4, <3>3
      <4>2. CASE Coming(x)
        <5>1. k \notin Named(t.names)
          BY <4>2 DEF Coming, ReaderKnows
        <5>2. a \notin t.names /\ b \notin t.names
          BY <4>1, <5>1 DEF Named
        <5> QED
          BY <5>2
      <4>3. CASE Going(x)
        <5>1. a \in t.names /\ b \in t.names
          BY <1>7, <4>3
        <5> QED
          BY <3>2, <5>1
      <4> QED
        BY <4>1, <4>2, <4>3
    <3> QED
      BY <3>2, <3>3
  <2>3. ASSUME NEW m \in sess'[r].steady
        PROVE  m \in Msgs /\ place'[m] = "there"
    BY <1>2, <1>3, <2>3 DEF ReaderKnows
  <2>4. ASSUME NEW m \in Msgs, place'[m] = "there"
        PROVE  NameOf(m)' \in sess'[r].names
    <3>1. CASE m = k
      <4>1. ~ Going(x)
        BY <1>1, <2>4, <3>1 DEF Going, TypeOK
      <4>2. NameOf(k)' = x
        BY <4>1 DEF Coming, Changing, NameOf
      <4> QED
        BY <1>2, <3>1, <4>2
    <3>2. CASE m # k
      BY <1>2, <1>3, <1>5, <2>4, <3>2 DEF ReaderKnows
    <3> QED
      BY <3>1, <3>2
  <2> QED
    BY <2>1, <2>2, <2>3, <2>4 DEF ReaderKnows
<1> QED
  BY <1>9, <1>10

\* So the steps of others are quiet, ...
LEMMA OthersStep ==
  ASSUME Pop3Inv, TypeOK', NEW m \in Msgs, Arrive(m) \/ Store(m) \/ Expunge(m)
  PROVE  FileInv' /\ LoginInv' /\ AloneInv' /\ ShownInv'
<1> USE DEF Pop3Inv
<1>1. UNCHANGED <<file, now, shown, raced>>
  BY DEF Arrive, Store, Expunge
<1>2. PICK x \in Names : /\ x[1] = m /\ DisturbAll(x)
                         /\ Coming(x) \/ Going(x) \/ Changing(x)
  <2>1. NameOf(m) \in Names /\ NameOf(m)[1] = m
    BY NameFacts
  <2>2. CASE Arrive(m)
    BY <2>1, <2>2 DEF Arrive, Coming
  <2>3. CASE Expunge(m)
    BY <2>1, <2>3 DEF Expunge, Going, Present
  <2>4. CASE Store(m)
    <3> DEFINE x == <<m, m \notin seen>>
    <3>1. x \in Names /\ x[1] = m
      BY DEF Names
    <3>2. (m \in seen') = (m \notin seen)
      BY <2>4, RenamedFacts DEF Store
    <3>3. NameOf(m)' = x
      BY <3>2 DEF NameOf
    <3>4. Changing(x) /\ DisturbAll(x)
      BY <2>4, <3>1, <3>3 DEF Store, Changing
    <3> QED
      BY <3>1, <3>4
  <2> QED
    BY <2>2, <2>3, <2>4
<1>3. Onwards
  <2>1. \A k \in Msgs : torn[k] # 0 => torn'[k] # 0
    BY <1>2, RenamedFacts DEF Coming, Going, Changing
  <2>2. \A k \in Msgs : /\ place[k] = "gone" => place'[k] = "gone"
                        /\ place[k] # "none" => place'[k] # "none"
    BY <1>2 DEF Coming, Going, Changing, Present, TypeOK
  <2> QED
    BY <2>1, <2>2 DEF Onwards
<1>4. ASSUME NEW r \in Sessions
      PROVE  QuietSession(r)
  <2>1. sess'[r] = Disturb(sess[r], x) /\ sess[r] \in Session
    BY <1>2 DEF DisturbAll, TypeOK
  <2>2. ASSUME sess'[r].pc = "reading"
        PROVE  ReaderKnows(r)' /\ ReaderKeeps(r)
    <3>1. sess[r].pc = "reading"
      BY <2>1, <2>2, DisturbFields
    <3>2. ReaderKnows(r)
      BY <3>1, LoginKnows
    <3> QED
      BY <1>2, <2>1, <3>1, <3>2, DisturbedReader
  <2>3. /\ sess'[r].pc \in {"scanned", "save"} => sess'[r] = sess[r]
        /\ sess'[r].pc # "save" => sess'[r].uid = NoUids
        /\ sess'[r].deleted \subseteq sess'[r].asked
    BY <2>1, DisturbFields DEF LoginInv
  <2> QED
    BY <2>2, <2>3 DEF QuietSession
<1> QED
  BY <1>1, <1>3, <1>4, Quiet

\* ... and those of commands.
LEMMA CommandStep ==
  ASSUME Pop3Inv, TypeOK', NEW s \in Sessions,
         \/ Retr(s) \/ Dele(s) \/ Rset(s) \/ Quit(s)
         \/ Cleanup(s) \/ CleanupEnds(s) \/ Disconnect(s)
  PROVE  FileInv' /\ LoginInv' /\ AloneInv' /\ ShownInv'
<1> USE DEF Pop3Inv
<1>1. UNCHANGED <<file, now, shown, raced>>
  BY DEF Retr, Dele, Rset, Quit, Cleanup, CleanupEnds, Disconnect
<1>2. PICK t : /\ Becomes(s, t)
               /\ \/ SetSession(s, t) /\ UNCHANGED <<place, seen, torn>>
                  \/ \E x \in Names : Removing(s, t, x) \/ Renaming(s, t, x)
  BY CommandSessions
<1>3. /\ t.pc \in {"out", "open", "quit"} /\ t.uid = NoUids /\ t.deleted \subseteq t.asked
  BY <1>2 DEF Becomes, LoginInv
<1>4. CASE SetSession(s, t) /\ UNCHANGED <<place, seen, torn>>
  <2>1. Onwards
    BY <1>4 DEF Onwards
  <2>2. ASSUME NEW r \in Sessions
        PROVE  QuietSession(r)
    <3>1. sess'[r] = IF r = s THEN t ELSE sess[r]
      BY <1>4, SessionTyped
    <3>2. CASE r = s
      BY <1>3, <3>1, <3>2 DEF QuietSession
    <3>3. CASE r # s
      <4>1. sess'[r] = sess[r]
        BY <3>1, <3>3
      <4>2. ASSUME sess[r].pc = "reading"
            PROVE  ReaderKnows(r)' /\ ReaderKeeps(r)
        <5>1. ReaderKnows(r)
          BY <4>2, LoginKnows
        <5>2. \A m : NameOf(m)' = NameOf(m)
          BY <1>4 DEF NameOf
        <5>3. ReaderKnows(r)'
          BY <1>4, <4>1, <5>1, <5>2 DEF ReaderKnows, OneName
        <5> QED
          BY <4>1, <4>2, <5>3 DEF ReaderKeeps
      <4> QED
        BY <4>1, <4>2 DEF QuietSession, LoginInv
    <3> QED
      BY <3>2, <3>3
  <2> QED
    BY <1>1, <2>1, <2>2, Quiet
<1>5. ASSUME NEW x \in Names, Removing(s, t, x) \/ Renaming(s, t, x)
      PROVE  FileInv' /\ LoginInv' /\ AloneInv' /\ ShownInv'
  <2>1. Going(x) \/ Changing(x)
    <3>1. CASE Removing(s, t, x)
      BY <3>1 DEF Removing, Going
    <3>2. CASE Renaming(s, t, x)
      <4>1. x[1] \in Msgs
        BY NameFacts
      <4>2. (x[1] \in seen') = TRUE
        BY <3>2, <4>1, RenamedFacts DEF Renaming
      <4>3. NameOf(x[1])' = x
        BY <3>2, <4>2 DEF Renaming, NameOf
      <4> QED
        BY <3>2, <4>3 DEF Renaming, Changing
    <3> QED
      BY <1>5, <3>1, <3>2
  <2>2. Onwards
    <3>1. \A k \in Msgs : torn[k] # 0 => torn'[k] # 0
      BY <2>1, NameFacts, RenamedFacts DEF Going, Changing
    <3>2. \A k \in Msgs : /\ place[k] = "gone" => place'[k] = "gone"
                          /\ place[k] # "none" => place'[k] # "none"
      BY <2>1 DEF Going, Changing, Present, TypeOK
    <3> QED
      BY <3>1, <3>2 DEF Onwards
  <2>3. ASSUME NEW r \in Sessions
        PROVE  QuietSession(r)
    <3>1. sess'[r] = IF r \in {s} THEN t ELSE Disturb(sess[r], x)
      BY <1>5 DEF Removing, Renaming, OthersDisturbed
    <3>2. CASE r = s
      BY <1>3, <3>1, <3>2 DEF QuietSession
    <3>3. CASE r # s
      <4>1. sess'[r] = Disturb(sess[r], x) /\ sess[r] \in Session
        BY <3>1, <3>3 DEF TypeOK
      <4>2. ASSUME sess'[r].pc = "reading"
            PROVE  ReaderKnows(r)' /\ ReaderKeeps(r)
        <5>1. sess[r].pc = "reading"
          BY <4>1, <4>2, DisturbFields
        <5>2. ReaderKnows(r)
          BY <5>1, LoginKnows
        <5> QED
          BY <2>1, <4>1, <5>1, <5>2, DisturbedReader
      <4>3. /\ sess'[r].pc \in {"scanned", "save"} => sess'[r] = sess[r]
            /\ sess'[r].pc # "save" => sess'[r].uid = NoUids
            /\ sess'[r].deleted \subseteq sess'[r].asked
        BY <4>1, DisturbFields DEF LoginInv
      <4> QED
        BY <4>2, <4>3 DEF QuietSession
    <3> QED
      BY <3>2, <3>3
  <2> QED
    BY <1>1, <2>2, <2>3, Quiet
<1> QED
  BY <1>2, <1>4, <1>5

--------------------------------------------------------------------------
(* The steps of logging in.                                                *)

\* What LoginInv says of a session.
Knows(r) ==
    /\ sess[r].pc # "save" => sess[r].uid = NoUids
    /\ sess[r].deleted \subseteq sess[r].asked
    /\ sess[r].pc = "reading" => ReaderKnows(r) /\ OneName(Entries(r))
    /\ sess[r].pc \in {"scanned", "save"} => ScannedKnows(r)

\* A session that is not changed knows what it knew, ...
LEMMA OthersKnow ==
  ASSUME TypeOK, LoginInv, UNCHANGED <<place, seen, torn, now>>,
         NEW r \in Sessions, sess'[r] = sess[r],
         LoggingIn(r) => \A u, m : Told(u, m)' => Told(u, m)
  PROVE  Knows(r)'
<1>1. Knows(r)
  BY LoginKnows DEF Knows
<1>2. Onwards
  BY DEF Onwards
<1>3. ASSUME sess[r].pc = "reading"
      PROVE  ReaderKnows(r)' /\ OneName(Entries(r))'
  <2>1. ReaderKnows(r) /\ OneName(Entries(r))
    BY <1>1, <1>3 DEF Knows
  <2>2. \A m : NameOf(m)' = NameOf(m)
    BY DEF NameOf
  <2>3. ReaderKnows(r)'
    BY <2>1, <2>2 DEF ReaderKnows, OneName
  <2>4. OneName(Entries(r))'
    BY <2>1 DEF OneName, Entries
  <2> QED
    BY <2>3, <2>4
<1>4. ASSUME sess[r].pc \in {"scanned", "save"}
      PROVE  ScannedKnows(r)'
  BY <1>1, <1>2, <1>4, ScannedKept DEF Knows, LoggingIn
<1> QED
  BY <1>1, <1>3, <1>4 DEF Knows

\* ... which is what LoginInv says.
LEMMA AllKnow ==
  ASSUME \A r \in Sessions : Knows(r)'
  PROVE  LoginInv'
  BY DEF Knows, LoginInv, ReaderKnows, ScannedKnows, LoggingIn, Found, Entries

\* A session is opened: what it tells agrees with the list as it is now, and
\* with all that was told.
LEMMA Opening ==
  ASSUME Pop3Inv, TypeOK', NEW s \in Sessions, sess[s].pc \in {"scanned", "save"},
         NEW t, t.list \in Seq(Names), Opened(s, t),
         UNCHANGED <<place, seen, raced, torn, now>>,
         Range(t.list) \subseteq Entries(s),
         Numbered(file)', ~ file'.exists => file' = NoList,
         \A u \in Uids, m \in Msgs : Told(u, m) =>
           IF file'.exists
           THEN u.uidv = file'.uidv =>
                  /\ u.n < file'.nextuid
                  /\ \A y \in Names : file'.uid[y] = u => y[1] = m
                  /\ place[m] # "gone" /\ torn[m] = 0 => Has(file, m, u)'
           ELSE u.uidv < now,
         ~ t.enomem => Distinct(t.uid),
         ~ t.enomem /\ ~ raced => \A x \in Range(t.list) :
           /\ t.uid[x] \in Uids /\ t.uid[x] # NoUid /\ t.uid[x].uidv <= now
           /\ IF file'.exists
              THEN t.uid[x].uidv = file'.uidv /\ Has(file, x[1], t.uid[x])'
              ELSE t.uid[x].uidv < now
           /\ \A u \in Uids, k \in Msgs : Told(u, k) =>
                /\ u = t.uid[x] => k = x[1]
                /\ k = x[1] /\ torn[k] = 0 /\ u.uidv = t.uid[x].uidv => u = t.uid[x]
  PROVE  FileInv' /\ LoginInv' /\ AloneInv' /\ ShownInv'
<1> USE DEF Pop3Inv
<1> DEFINE new == {<<Uidl(t, x), x[1]>> : x \in Range(t.list)}
<1>1. Range(t.list) \in SUBSET Names
  BY ListFacts
<1>2. shown' = IF raced THEN {} ELSE shown \cup new
  BY DEF Opened
<1>3. \A r \in Sessions : sess'[r] = IF r = s THEN Open(t) ELSE sess[r]
  BY OpenedTyped
<1>4. sess'[s].pc = "open" /\ sess'[s].uid = NoUids /\ sess'[s].deleted = {}
  BY <1>3, OpenFields
<1>5. ASSUME NEW r \in Sessions, LoggingIn(r)'
      PROVE  r # s /\ sess'[r] = sess[r] /\ LoggingIn(r) /\ raced /\ shown' = {}
  <2>1. r # s
    BY <1>4, <1>5 DEF LoggingIn
  <2>2. sess'[r] = sess[r] /\ LoggingIn(r) /\ LoggingIn(s)
    BY <1>3, <1>5, <2>1 DEF LoggingIn
  <2>3. raced
    BY <2>1, <2>2 DEF AloneInv
  <2> QED
    BY <1>2, <2>1, <2>2, <2>3
<1>6. ASSUME NEW u, NEW m, Told(u, m)'
      PROVE  /\ ~ raced
             /\ \/ Told(u, m)
                \/ ~ t.enomem /\ \E x \in Range(t.list) : m = x[1] /\ u = t.uid[x]
  <2>1. ~ raced /\ <<<<"UID", u>>, m>> \in shown \cup new
    BY <1>2, <1>6 DEF Told
  <2>2. CASE <<<<"UID", u>>, m>> \in new
    <3>1. PICK x \in Range(t.list) : <<<<"UID", u>>, m>> = <<Uidl(t, x), x[1]>>
      BY <2>2
    <3>2. m = x[1] /\ <<"UID", u>> = Uidl(t, x)
      BY <3>1
    <3>3. ~ t.enomem
      BY <3>2 DEF Uidl
    <3>4. <<"UID", u>> = <<"UID", t.uid[x]>>
      BY <3>2, <3>3 DEF Uidl
    <3>5. u = t.uid[x]
      BY <3>4
    <3> QED
      BY <2>1, <3>2, <3>3, <3>5
  <2> QED
    BY <2>1, <2>2 DEF Told
<1> HIDE DEF new
<1>7. FileInv'
  <2>1. (~ file.exists => \A u \in Uids, m \in Msgs : Told(u, m) => u.uidv < now)'
    BY <1>6
  <2>2. ASSUME file'.exists
        PROVE  Remembers(file, {m \in Msgs : place[m] # "gone"})'
    <3> SUFFICES ASSUME NEW u \in Uids, NEW m \in Msgs, Told(u, m)', u.uidv = file'.uidv
                 PROVE  /\ u.n < file'.nextuid
                        /\ \A y \in Names : file'.uid[y] = u => y[1] = m
                        /\ place'[m] # "gone" /\ torn'[m] = 0 => Has(file, m, u)'
      BY DEF Remembers
    <3>1. CASE Told(u, m)
      BY <2>2, <3>1
    <3>2. CASE ~ t.enomem /\ \E x \in Range(t.list) : m = x[1] /\ u = t.uid[x]
      <4>1. Has(file, m, u)' /\ u # NoUid
        BY <1>6, <2>2, <3>2
      <4>2. PICK y \in Names : y[1] = m /\ file'.uid[y] = u
        BY <4>1 DEF Has
      <4>3. file'.nextuid \in Nat
        BY DEF TypeOK, List
      <4>4. u.n \in 1..(file'.nextuid - 1)
        BY <4>1, <4>2 DEF Numbered, Given
      <4>5. \A z \in Names : file'.uid[z] = u => z = y
        BY <4>1, <4>2 DEF Numbered, Distinct
      <4>6. u.n < file'.nextuid
        BY <4>3, <4>4
      <4> QED
        BY <4>1, <4>2, <4>5, <4>6
    <3> QED
      BY <1>6, <3>1, <3>2
  <2> QED
    BY <2>1, <2>2 DEF FileInv
<1>8. LoginInv'
  <2> SUFFICES ASSUME NEW r \in Sessions
               PROVE  Knows(r)'
    BY AllKnow
  <2>1. CASE r = s
    BY <1>4, <2>1 DEF Knows
  <2>2. CASE r # s
    <3>1. sess'[r] = sess[r]
      BY <1>3, <2>2
    <3>2. LoggingIn(r) => \A u, m : ~ Told(u, m)'
      BY <1>5, <3>1 DEF LoggingIn, Told
    <3> QED
      BY <3>1, <3>2, OthersKnow
  <2> QED
    BY <2>1, <2>2
<1>9. AloneInv'
  BY <1>5 DEF AloneInv
<1>10. ShownInv'
  <2>1. CASE raced
    BY <1>2, <2>1 DEF ShownInv, NeverReused, NeverChanged
  <2>2. CASE ~ raced
    <3>0. shown' = shown \cup new
      BY <1>2, <2>2
    <3>1. ASSUME NEW z \in new
          PROVE  \E x \in Range(t.list) :
                   /\ z[2] = x[1]
                   /\ t.enomem => z = <<<<"ENOMEM", x[1]>>, x[1]>>
                   /\ ~ t.enomem => z = <<<<"UID", t.uid[x]>>, x[1]>>
      BY DEF Uidl, new
    <3>2. ASSUME NEW x \in shown
          PROVE  /\ x[2] \in Msgs /\ place[x[2]] # "none"
                 /\ \/ x = <<<<"ENOMEM", x[2]>>, x[2]>>
                    \/ \E u \in Uids : /\ x = <<<<"UID", u>>, x[2]>>
                                      /\ u # NoUid /\ u.uidv <= now
                                      /\ Told(u, x[2])
      <4>1. /\ x[2] \in Msgs /\ place[x[2]] # "none"
            /\ \/ x = <<<<"ENOMEM", x[2]>>, x[2]>>
               \/ \E u \in Uids : /\ x = <<<<"UID", u>>, x[2]>>
                                 /\ u # NoUid /\ u.uidv <= now
        BY DEF ShownInv
      <4>2. \A u : x = <<<<"UID", u>>, x[2]>> => Told(u, x[2])
        BY Zenon DEF Told
      <4> QED
        BY <4>1, <4>2, Zenon
    <3>3. ASSUME NEW z \in shown'
          PROVE  /\ z[2] \in Msgs /\ place'[z[2]] # "none"
                 /\ \/ z = <<<<"ENOMEM", z[2]>>, z[2]>>
                    \/ \E u \in Uids : /\ z = <<<<"UID", u>>, z[2]>>
                                      /\ u # NoUid /\ u.uidv <= now
      <4>1. CASE z \in shown
        BY <3>2, <4>1
      <4>2. CASE z \in new
        <5>1. PICK x \in Range(t.list) :
                /\ z[2] = x[1]
                /\ t.enomem => z = <<<<"ENOMEM", x[1]>>, x[1]>>
                /\ ~ t.enomem => z = <<<<"UID", t.uid[x]>>, x[1]>>
          BY <3>1, <4>2
        <5>2. x \in Names /\ x \in Entries(s)
          BY <1>1
        <5>3. x[1] \in Msgs /\ x[1] \in Named(Entries(s))
          BY <5>2, NameFacts DEF Named
        <5>4. place[x[1]] # "none"
          BY <5>3, LoginKnows DEF ScannedKnows
        <5> QED
          BY <2>2, <5>1, <5>3, <5>4
      <4> QED
        BY <3>0, <4>1, <4>2
    <3>4. ASSUME NEW x \in shown, NEW y \in new
          PROVE  /\ x[1] = y[1] => x[2] = y[2]
                 /\ (/\ x[2] = y[2] /\ torn'[x[2]] = 0 /\ x[1][1] = "UID" /\ y[1][1] = "UID"
                     /\ x[1][2].uidv = y[1][2].uidv) => x[1] = y[1]
      <4>0. PICK e \in Range(t.list) :
              /\ y[2] = e[1]
              /\ t.enomem => y = <<<<"ENOMEM", e[1]>>, e[1]>>
              /\ ~ t.enomem => y = <<<<"UID", t.uid[e]>>, e[1]>>
        BY <3>1
      <4>1. CASE t.enomem
        <5>1. y = <<<<"ENOMEM", y[2]>>, y[2]>> /\ y[1][1] = "ENOMEM"
          BY <4>0, <4>1
        <5>2. CASE x = <<<<"ENOMEM", x[2]>>, x[2]>>
          <6>1. x[1] = <<"ENOMEM", x[2]>> /\ y[1] = <<"ENOMEM", y[2]>>
            BY <5>1, <5>2
          <6> QED
            BY <5>1, <6>1
        <5>3. CASE x[1][1] = "UID"
          BY <5>1, <5>3
        <5> QED
          BY <3>2, <5>2, <5>3
      <4>2. CASE ~ t.enomem
        <5>1. /\ y[1] = <<"UID", t.uid[e]>> /\ y[1][1] = "UID"
              /\ y[1][2] = t.uid[e]
          BY <4>0, <4>2
        <5>2. CASE x = <<<<"ENOMEM", x[2]>>, x[2]>>
          <6>1. x[1] = <<"ENOMEM", x[2]>> /\ x[1][1] = "ENOMEM"
            BY <5>2
          <6> QED
            BY <5>1, <6>1
        <5>3. ASSUME NEW u \in Uids, x = <<<<"UID", u>>, x[2]>>, Told(u, x[2])
              PROVE  /\ x[1] = y[1] => x[2] = y[2]
                     /\ (/\ x[2] = y[2] /\ torn'[x[2]] = 0
                         /\ x[1][1] = "UID" /\ y[1][1] = "UID"
                         /\ x[1][2].uidv = y[1][2].uidv) => x[1] = y[1]
          <6>1. x[1] = <<"UID", u>> /\ x[1][2] = u /\ x[2] \in Msgs
            BY <3>2, <5>3
          <6>2. /\ u = t.uid[e] => x[2] = y[2]
                /\ x[2] = y[2] /\ torn[x[2]] = 0 /\ u.uidv = t.uid[e].uidv => u = t.uid[e]
            BY <2>2, <4>0, <4>2, <5>3, <6>1
          <6>3. x[1] = y[1] => u = t.uid[e]
            BY <5>1, <6>1
          <6> QED
            BY <5>1, <6>1, <6>2, <6>3
        <5> QED
          BY <3>2, <5>2, <5>3
      <4> QED
        BY <4>1, <4>2
    <3>5. ASSUME NEW x \in new, NEW y \in new
          PROVE  /\ x[1] = y[1] => x[2] = y[2]
                 /\ x[2] = y[2] /\ torn'[x[2]] = 0 => x[1] = y[1]
      <4>1. PICK d \in Range(t.list) :
              /\ x[2] = d[1]
              /\ t.enomem => x = <<<<"ENOMEM", d[1]>>, d[1]>>
              /\ ~ t.enomem => x = <<<<"UID", t.uid[d]>>, d[1]>>
        BY <3>1
      <4>2. PICK e \in Range(t.list) :
              /\ y[2] = e[1]
              /\ t.enomem => y = <<<<"ENOMEM", e[1]>>, e[1]>>
              /\ ~ t.enomem => y = <<<<"UID", t.uid[e]>>, e[1]>>
        BY <3>1
      <4>3. CASE t.enomem
        <5>1. x[1] = <<"ENOMEM", x[2]>> /\ y[1] = <<"ENOMEM", y[2]>>
          BY <4>1, <4>2, <4>3
        <5> QED
          BY <5>1
      <4>4. CASE ~ t.enomem
        <5>1. x[1] = <<"UID", t.uid[d]>> /\ y[1] = <<"UID", t.uid[e]>>
          BY <4>1, <4>2, <4>4
        <5>2. x[1] = y[1] => t.uid[d] = t.uid[e]
          BY <5>1
        <5>3. /\ d \in Names /\ e \in Names /\ t.uid[d] # NoUid
              /\ d \in Entries(s) /\ e \in Entries(s)
          BY <1>1, <2>2, <4>4
        <5>4. OneName(Entries(s))
          BY LoginKnows DEF ScannedKnows
        <5>5. x[2] = y[2] /\ torn'[x[2]] = 0 => d = e
          <6>1. d[1] = e[1] /\ torn[d[1]] = 0 => d = e
            BY <5>3, <5>4, Zenon DEF OneName
          <6>2. torn' = torn /\ x[2] = d[1] /\ y[2] = e[1]
            BY <4>1, <4>2
          <6> QED
            BY <6>1, <6>2, Zenon
        <5>6. t.uid[d] = t.uid[e] => d = e
          BY <4>4, <5>3 DEF Distinct
        <5> QED
          BY <4>1, <4>2, <5>1, <5>2, <5>5, <5>6
      <4> QED
        BY <4>3, <4>4
    <3>6. NeverReused'
      BY <3>0, <3>4, <3>5 DEF ShownInv, NeverReused
    <3>7. NeverChanged'
      BY <3>0, <3>4, <3>5 DEF ShownInv, NeverChanged
    <3> QED
      BY <2>2, <3>3, <3>6, <3>7 DEF ShownInv
  <2> QED
    BY <2>1, <2>2
<1> QED
  BY <1>7, <1>8, <1>9, <1>10

\* A session that begins to read cur knows every message that is there.
LEMMA LoginStep ==
  ASSUME Pop3Inv, TypeOK', NEW s \in Sessions, Login(s)
  PROVE  FileInv' /\ LoginInv' /\ AloneInv' /\ ShownInv'
<1> USE DEF Pop3Inv
<1> DEFINE box == {m \in Msgs : place[m] = "there"}
           t == Reader(box)
<1>1. /\ UNCHANGED <<place, seen, file, now, torn, faults>> /\ SetSession(s, t)
      /\ raced' = (raced \/ \E r \in Sessions \ {s} : LoggingIn(r))
      /\ shown' = IF raced' THEN {} ELSE shown
  BY DEF Login, Reader
<1>2. /\ t.pc = "reading" /\ t.uid = NoUids /\ t.steady = box /\ t.list = << >>
      /\ t.names = {NameOf(m) : m \in box} /\ t.deleted = {} /\ t.asked = {}
  <2>1. box \in SUBSET Msgs
    OBVIOUS
  <2> HIDE DEF box
  <2> QED
    BY <2>1, ReaderFields
<1> HIDE DEF t
<1>3. \A r \in Sessions : sess'[r] = IF r = s THEN t ELSE sess[r]
  BY <1>1, SessionTyped
<1>4. /\ shown' \subseteq shown /\ (raced' => shown' = {})
      /\ ~ raced' => ~ raced /\ shown' = shown
  BY <1>1
<1>5. \A u, m : Told(u, m)' => Told(u, m)
  BY <1>4 DEF Told
<1>6. ShownInv'
  BY <1>1, <1>4 DEF ShownInv, NeverReused, NeverChanged
<1>7. FileInv'
  <2>1. Onwards
    BY <1>1 DEF Onwards
  <2> QED
    BY <1>1, <1>5, <2>1, FileKept
<1>8. \A m \in box : m \in Msgs /\ place[m] = "there" /\ NameOf(m)[1] = m
  BY NameFacts
<1>9. /\ Found(sess[s])' = box /\ LoggingIn(s)'
      /\ Entries(s)' = {}
  <2>1. Named({NameOf(m) : m \in box}) = box
    BY <1>8 DEF Named
  <2> QED
    BY <1>2, <1>3, <2>1, ShortLists DEF Found, LoggingIn, Entries
<1>10. LoginInv'
  <2> SUFFICES ASSUME NEW r \in Sessions
               PROVE  Knows(r)'
    BY AllKnow
  <2>1. CASE r # s
    BY <1>1, <1>3, <1>5, <2>1, OthersKnow
  <2>2. CASE r = s
    <3>1. \A m \in Named(sess'[s].names) : m \in box
      BY <1>2, <1>3, <1>8 DEF Named
    <3>2. OneName(sess[s].names)'
      BY <1>2, <1>3, <1>8 DEF OneName
    <3>3. \A m : NameOf(m)' = NameOf(m)
      BY <1>1 DEF NameOf
    <3>4. ReaderKnows(s)'
      BY <1>1, <1>2, <1>3, <3>1, <3>2, <3>3 DEF ReaderKnows
    <3>5. OneName(Entries(s))'
      BY <1>9 DEF OneName
    <3> QED
      BY <1>2, <1>3, <2>2, <3>4, <3>5 DEF Knows
  <2> QED
    BY <2>1, <2>2
<1>11. AloneInv'
  <2> SUFFICES ASSUME ~ raced', NEW q \in Sessions, LoggingIn(q)'
               PROVE  /\ \A r \in Sessions : LoggingIn(r)' => r = q
                      /\ \A x \in shown' :
                           \/ x[2] \in IF sess'[q].pc = "reading" THEN sess'[q].steady
                                       ELSE Found(sess[q])'
                           \/ place'[x[2]] = "gone" \/ torn'[x[2]] # 0
                      /\ sess'[q].pc # "save" /\ file'.exists =>
                           \A u \in Uids, m \in Found(sess[q])' :
                             Told(u, m)' /\ u.uidv = file'.uidv /\ torn'[m] = 0
                               => Has(file, m, u)'
                      /\ sess'[q].pc = "save" => \A x \in Entries(q)' \ sess'[q].isnew :
                           IF file'.exists
                           THEN file'.uidv = sess'[q].uidv /\ Has(file, x[1], sess[q].uid[x])'
                           ELSE sess'[q].uidv < now'
    BY DEF AloneInv
  <2>1. \A r \in Sessions : r # s => ~ LoggingIn(r)
    BY <1>1
  <2>2. \A r \in Sessions : LoggingIn(r)' => r = s
    BY <1>3, <2>1 DEF LoggingIn
  <2>3. q = s
    BY <2>2
  <2>4. \A x \in shown' : x[2] \in box \/ place'[x[2]] = "gone"
    BY <1>1, <1>4 DEF ShownInv, TypeOK
  <2>5. \A u, m : Has(file, m, u)' <=> Has(file, m, u)
    BY <1>1 DEF Has
  <2>6. ASSUME file'.exists, NEW u \in Uids, NEW m \in box, Told(u, m)',
               u.uidv = file'.uidv, torn'[m] = 0
        PROVE  Has(file, m, u)
    BY <1>1, <1>5, <1>8, <2>6 DEF FileInv, Remembers
  <2>7. sess'[q].pc = "reading" /\ sess'[q].steady = box
    BY <1>2, <1>3, <2>3
  <2> QED
    BY <1>9, <2>2, <2>3, <2>4, <2>5, <2>6, <2>7
<1> QED
  BY <1>6, <1>7, <1>10, <1>11

\* What a session has read of cur has all that was told, unless it is gone or
\* was renamed.
LEMMA ScanCurStep ==
  ASSUME Pop3Inv, TypeOK', NEW s \in Sessions, ScanCur(s)
  PROVE  FileInv' /\ LoginInv' /\ AloneInv' /\ ShownInv'
<1> USE DEF Pop3Inv
<1>1. sess[s].pc = "reading" /\ UNCHANGED <<place, seen, file, now, raced, torn, faults>>
  BY ScanCurNames
<1>2. PICK read \in SUBSET sess[s].names :
        /\ {x \in sess[s].names : x[1] \in sess[s].steady} \subseteq read
        /\ \/ read = {} /\ Opened(s, Out)
           \/ \E l \in Listings(read) : /\ read # {} /\ SetSession(s, Scanned(l))
                                        /\ shown' = shown
  BY ScanCurNames
<1>3. /\ read \in SUBSET Names /\ ReaderKnows(s) /\ LoggingIn(s)
      /\ Found(sess[s]) = Named(sess[s].names)
  <2>1. sess[s].names \in SUBSET Names
    BY TypedSessions DEF Fits, Session
  <2> QED
    BY <1>1, <2>1, LoginKnows DEF LoggingIn, Found
<1>4. Onwards
  BY <1>1 DEF Onwards
<1>5. CASE Opened(s, Out)
  <2>1. Out.list = << >> /\ Out.list \in Seq(Names)
    BY ShortLists DEF Out
  <2>2. shown' = shown
    <3>1. {<<Uidl(Out, x), x[1]>> : x \in Range(Out.list)} = {}
      BY <2>1, ShortLists
    <3> QED
      BY <1>5, <3>1 DEF Opened, ShownInv
  <2>3. \A r \in Sessions : sess'[r] = IF r = s THEN Open(Out) ELSE sess[r]
    BY <1>5, <2>1, OpenedTyped
  <2>4. /\ Open(Out).pc = "open" /\ Open(Out).uid = NoUids
        /\ Open(Out).deleted = {} /\ Open(Out).asked = {}
    BY <2>1, OpenFields
  <2>5. ASSUME NEW r \in Sessions
        PROVE  QuietSession(r)
    <3>1. CASE r = s
      BY <2>3, <2>4, <3>1 DEF QuietSession
    <3>2. CASE r # s
      <4>1. sess'[r] = sess[r]
        BY <2>3, <3>2
      <4>2. ASSUME sess[r].pc = "reading"
            PROVE  ReaderKnows(r)' /\ ReaderKeeps(r)
        <5>1. Knows(r)'
          BY <1>1, <2>2, <4>1, OthersKnow DEF Told
        <5> QED
          BY <4>1, <4>2, <5>1 DEF ReaderKeeps, Knows
      <4> QED
        BY <4>1, <4>2 DEF QuietSession, LoginInv
    <3> QED
      BY <3>1, <3>2
  <2> QED
    BY <1>1, <1>4, <2>2, <2>5, Quiet
<1>6. ASSUME NEW l \in Listings(read), read # {}, SetSession(s, Scanned(l)), shown' = shown
      PROVE  FileInv' /\ LoginInv' /\ AloneInv' /\ ShownInv'
  <2> DEFINE t == Scanned(l)
  <2>1. l \in Seq(Names) /\ IsInjective(l) /\ Range(l) = read /\ l # << >>
    BY <1>3, <1>6, ListingFacts
  <2>2. /\ t.pc = "scanned" /\ t.list = l /\ t.names = {} /\ t.uid = NoUids
        /\ t.deleted = {}
    BY <2>1, ScannedFields
  <2> HIDE DEF t
  <2>3. \A r \in Sessions : sess'[r] = IF r = s THEN t ELSE sess[r]
    BY <1>6, SessionTyped DEF t
  <2>4. \A u, m : Told(u, m)' <=> Told(u, m)
    BY <1>6 DEF Told
  <2>5. Entries(s)' = read /\ Found(sess[s])' = Named(read)
    BY <2>1, <2>2, <2>3 DEF Entries, Found
  <2>6. Named(read) \subseteq Named(sess[s].names)
    BY DEF Named
  <2>7. ShownInv'
    BY <1>1, <1>6 DEF ShownInv, NeverReused, NeverChanged
  <2>8. FileInv'
    BY <1>1, <1>4, <2>4, FileKept
  <2>9. LoginInv'
    <3> SUFFICES ASSUME NEW r \in Sessions
                 PROVE  Knows(r)'
      BY AllKnow
    <3>1. CASE r # s
      BY <1>1, <2>3, <2>4, <3>1, OthersKnow
    <3>2. CASE r = s
      <4>1. OneName(Entries(s))' /\ OneName(sess[s].names)'
        BY <1>1, <1>3, <2>2, <2>3, <2>5 DEF ReaderKnows, OneName
      <4>2. \A m \in Named(Entries(s))' : place'[m] # "none"
        BY <1>1, <1>3, <2>5, <2>6 DEF ReaderKnows, Named
      <4>3. ScannedKnows(s)'
        BY <2>1, <2>2, <2>3, <4>1, <4>2 DEF ScannedKnows
      <4> QED
        BY <2>2, <2>3, <3>2, <4>3 DEF Knows
    <3> QED
      BY <3>1, <3>2
  <2>10. AloneInv'
    <3> SUFFICES ASSUME ~ raced', NEW q \in Sessions, LoggingIn(q)'
                 PROVE  /\ \A r \in Sessions : LoggingIn(r)' => r = q
                        /\ \A x \in shown' :
                             \/ x[2] \in IF sess'[q].pc = "reading" THEN sess'[q].steady
                                         ELSE Found(sess[q])'
                             \/ place'[x[2]] = "gone" \/ torn'[x[2]] # 0
                        /\ sess'[q].pc # "save" /\ file'.exists =>
                             \A u \in Uids, m \in Found(sess[q])' :
                               Told(u, m)' /\ u.uidv = file'.uidv /\ torn'[m] = 0
                                 => Has(file, m, u)'
                        /\ sess'[q].pc = "save" => \A x \in Entries(q)' \ sess'[q].isnew :
                             IF file'.exists
                             THEN file'.uidv = sess'[q].uidv
                                  /\ Has(file, x[1], sess[q].uid[x])'
                             ELSE sess'[q].uidv < now'
      BY DEF AloneInv
    <3>1. ~ raced /\ \A r \in Sessions : LoggingIn(r) => r = s
      BY <1>1, <1>3 DEF AloneInv
    <3>2. \A r \in Sessions : LoggingIn(r)' => r = s
      BY <2>3, <3>1 DEF LoggingIn
    <3>3. q = s /\ sess'[q].pc = "scanned"
      BY <2>2, <2>3, <3>2
    <3>4. ASSUME NEW m \in sess[s].steady
          PROVE  m \in Named(read)
      <4>1. NameOf(m) \in sess[s].names /\ NameOf(m)[1] = m
        BY <1>3, <3>4, NameFacts DEF ReaderKnows
      <4>2. NameOf(m) \in read
        BY <1>2, <3>4, <4>1
      <4> QED
        BY <4>1, <4>2 DEF Named
    <3>5. \A x \in shown : \/ x[2] \in Named(read)
                           \/ place[x[2]] = "gone" \/ torn[x[2]] # 0
      BY <1>1, <1>3, <3>1, <3>4 DEF AloneInv
    <3>6. \A u, m : Has(file, m, u)' <=> Has(file, m, u)
      BY <1>1 DEF Has
    <3>7. ASSUME file.exists, NEW u \in Uids, NEW m \in Named(read), Told(u, m),
                 u.uidv = file.uidv, torn[m] = 0
          PROVE  Has(file, m, u)
      BY <1>1, <1>3, <2>6, <3>1, <3>7 DEF AloneInv
    <3> QED
      BY <1>1, <1>6, <2>4, <2>5, <3>2, <3>3, <3>5, <3>6, <3>7
  <2> QED
    BY <2>7, <2>8, <2>9, <2>10
<1> QED
  BY <1>2, <1>5, <1>6

--------------------------------------------------------------------------
(* The list that is read.                                                  *)

\* A name that is not new has the UID of its line; what is told of a message
\* that was not renamed is in its only line, and is read.
LEMMA ReadLines ==
  ASSUME Pop3Inv, NEW s \in Sessions, sess[s].pc = "scanned", NEW line, Matches(s, line)
  PROVE  /\ Numbered(Saved)
         /\ \A x \in Entries(s) \ NewOnes(s) :
              /\ line[x] \in Names /\ line[x][1] = x[1]
              /\ Saved.uid[line[x]] # NoUid
              /\ ReadUid(s, line)[x] = Saved.uid[line[x]]
         /\ ~ file.exists => NewOnes(s) = Entries(s)
         /\ \A x \in Entries(s), y \in Names :
              /\ file.exists /\ y[1] = x[1] /\ torn[x[1]] = 0 /\ Saved.uid[y] # NoUid
              => x \notin NewOnes(s) /\ line[x] = y
<1> USE DEF Pop3Inv
<1>1. /\ sess[s].list \in Seq(Names) /\ IsInjective(sess[s].list)
      /\ Entries(s) \in SUBSET Names /\ NewOnes(s) \in SUBSET Entries(s)
  BY EntriesFacts
<1>2. Numbered(Saved)
  <2>1. CASE file.exists
    BY <2>1, SavedTyped DEF FileInv
  <2>2. CASE ~ file.exists
    <3>1. Saved.uid = NoUids /\ Saved.uidv = now
      BY <2>2, SavedTyped
    <3>2. now \in Nat
      BY Pop3Assumption DEF TypeOK
    <3>3. Given(Saved) = {}
      BY <3>1 DEF Given, NoUids
    <3> QED
      BY <3>1, <3>2, <3>3 DEF Numbered, Distinct, NoUids, OneName
  <2> QED
    BY <2>1, <2>2
<1>3. ASSUME NEW x \in Entries(s) \ NewOnes(s)
      PROVE  /\ line[x] \in Names /\ line[x][1] = x[1]
             /\ Saved.uid[line[x]] # NoUid
             /\ ReadUid(s, line)[x] = Saved.uid[line[x]]
  BY <1>1 DEF Matches, SavedLines, ReadUid
<1>4. ASSUME ~ file.exists, NEW x \in Entries(s)
      PROVE  x \in NewOnes(s)
  <2>1. Saved.uid = NoUids
    BY <1>4, SavedTyped
  <2>2. SavedLines(x[1]) = {}
    BY <2>1 DEF SavedLines, NoUids
  <2>3. Cardinality(SavedLines(x[1])) = 0
    BY <2>2, FS_EmptySet
  <2>4. Cardinality({i \in 1..Index(sess[s].list, x) : sess[s].list[i][1] = x[1]})
          \in Nat \ {0}
    BY <1>1, <1>4, NthFacts DEF Entries
  <2>5. Cardinality({i \in 1..Index(sess[s].list, x) : sess[s].list[i][1] = x[1]}) > 0
    BY <2>4
  <2> QED
    BY <1>4, <2>3, <2>5 DEF NewOnes
<1>5. ASSUME NEW x \in Entries(s), NEW y \in Names, file.exists,
             y[1] = x[1], torn[x[1]] = 0, Saved.uid[y] # NoUid
      PROVE  x \notin NewOnes(s) /\ line[x] = y
  <2>1. OneName(Given(Saved)) /\ OneName(Entries(s))
    BY <1>2, LoginKnows DEF Numbered, ScannedKnows
  <2>2. SavedLines(x[1]) = {y}
    <3>1. \A z \in SavedLines(x[1]) : z \in Given(Saved) /\ z[1] = x[1]
      BY DEF SavedLines, Given
    <3>2. y \in SavedLines(x[1])
      BY <1>5 DEF SavedLines
    <3>3. \A z \in SavedLines(x[1]) : z = y
      BY <1>5, <2>1, <3>1, <3>2 DEF OneName
    <3> QED
      BY <3>2, <3>3
  <2>3. Cardinality(SavedLines(x[1])) = 1
    BY <2>2, FS_Singleton
  <2>4. \A z \in Entries(s) : z[1] = x[1] => z = x
    BY <1>5, <2>1 DEF OneName
  <2>5. Cardinality({i \in 1..Index(sess[s].list, x) : sess[s].list[i][1] = x[1]}) = 1
    BY <1>1, <2>4, NthFacts DEF Entries
  <2>6. x \notin NewOnes(s)
    BY <2>3, <2>5 DEF NewOnes
  <2>7. line[x] \in SavedLines(x[1])
    BY <2>6 DEF Matches
  <2> QED
    BY <2>2, <2>6, <2>7
<1> QED
  BY <1>1, <1>2, <1>3, <1>4, <1>5

\* What is read has a UID for each name of the session, no two of them the
\* same, and the new ones are none that was told.
LEMMA ReadNumbers ==
  ASSUME Pop3Inv, NEW s \in Sessions, sess[s].pc = "scanned",
         NEW line, Matches(s, line),
         NEW r, r.uid = ReadUid(s, line), r.uidv = Saved.uidv,
         r.nextuid = Saved.nextuid + Cardinality(NewOnes(s))
  PROVE  /\ Numbered(r)
         /\ Given(r) = Entries(s)
         /\ Remembers(r, Named(Entries(s)))
<1> USE DEF Pop3Inv
<1> DEFINE new == NewOnes(s)
           n == Saved.nextuid
           num(x) == [n |-> n - 1 + RankOf(s, x), uidv |-> Saved.uidv]
           R == ReadUid(s, line)
<1>1. /\ Entries(s) \in SUBSET Names /\ new \in SUBSET Entries(s)
      /\ Cardinality(new) \in Nat
  BY EntriesFacts
<1>2. /\ n \in Nat \ {0} /\ Saved.uidv \in Nat /\ Saved.uid \in [Names -> Uids]
  BY SavedTyped DEF List
<1>3. Numbered(Saved)
  BY ReadLines
<1>4. ASSUME NEW x \in Names
      PROVE  /\ x \in new => R[x] = num(x)
             /\ x \in Entries(s) \ new => /\ R[x] = Saved.uid[line[x]]
                                          /\ line[x] \in Given(Saved)
                                          /\ line[x][1] = x[1]
             /\ x \notin Entries(s) => R[x] = NoUid
  <2>1. x \in new => R[x] = num(x)
    BY DEF ReadUid
  <2>2. x \notin Entries(s) => R[x] = NoUid
    BY <1>1 DEF ReadUid
  <2>3. x \in Entries(s) \ new => /\ R[x] = Saved.uid[line[x]]
                                  /\ line[x] \in Given(Saved)
                                  /\ line[x][1] = x[1]
    BY ReadLines DEF Given
  <2> QED
    BY <2>1, <2>2, <2>3
<1>5. ASSUME NEW x \in new
      PROVE  /\ num(x).uidv = Saved.uidv
             /\ num(x).n \in Nat /\ num(x).n >= n /\ num(x).n < n + Cardinality(new)
             /\ num(x) # NoUid
  <2>1. RankOf(s, x) \in 1..Cardinality(new)
    BY EntriesFacts
  <2>2. /\ num(x).n \in Nat /\ num(x).n >= n /\ num(x).n < n + Cardinality(new)
    BY <1>1, <1>2, <2>1
  <2>3. NoUid.n = 0
    BY DEF NoUid
  <2> QED
    BY <1>2, <2>2, <2>3
<1>6. ASSUME NEW y \in Given(Saved)
      PROVE  /\ Saved.uid[y].uidv = Saved.uidv
             /\ Saved.uid[y].n \in Nat /\ Saved.uid[y].n >= 1 /\ Saved.uid[y].n < n
  <2>1. Saved.uid[y].uidv = Saved.uidv /\ Saved.uid[y].n \in 1..(n - 1)
    BY <1>3 DEF Numbered
  <2> QED
    BY <1>2, <2>1
<1>7. ASSUME NEW x \in new, NEW y \in new, num(x) = num(y)
      PROVE  x = y
  <2>1. RankOf(s, x) \in 1..Cardinality(new) /\ RankOf(s, y) \in 1..Cardinality(new)
    BY EntriesFacts
  <2>2. n - 1 + RankOf(s, x) = n - 1 + RankOf(s, y)
    BY <1>7
  <2>3. RankOf(s, x) = RankOf(s, y)
    BY <1>1, <1>2, <2>1, <2>2
  <2> QED
    BY <2>3, EntriesFacts
<1> HIDE DEF new, n, num, R
<1>8. Given(r) = Entries(s)
  <2>1. r.uid = R
    BY DEF R
  <2>2. ASSUME NEW x \in Names
        PROVE  r.uid[x] # NoUid <=> x \in Entries(s)
    <3>1. CASE x \in new
      BY <1>1, <1>4, <1>5, <2>1, <3>1
    <3>2. CASE x \in Entries(s) \ new
      BY <1>4, <2>1, <3>2 DEF Given
    <3>3. CASE x \notin Entries(s)
      BY <1>4, <2>1, <3>3
    <3> QED
      BY <3>1, <3>2, <3>3
  <2> QED
    BY <1>1, <2>2 DEF Given
<1>9. Numbered(r)
  <2>1. r.nextuid = n + Cardinality(new) /\ r.uid = R
    BY DEF n, new, R
  <2>2. ASSUME NEW x \in Entries(s)
        PROVE  /\ r.uid[x].uidv = r.uidv
               /\ r.uid[x].n \in 1..(r.nextuid - 1)
    <3>1. CASE x \in new
      <4>1. r.uid[x] = num(x)
        BY <1>1, <1>4, <2>1, <3>1
      <4> QED
        BY <1>1, <1>2, <1>5, <2>1, <3>1, <4>1
    <3>2. CASE x \notin new
      <4>1. r.uid[x] = Saved.uid[line[x]] /\ line[x] \in Given(Saved)
        BY <1>1, <1>4, <2>1, <3>2
      <4> QED
        BY <1>1, <1>2, <1>6, <2>1, <4>1
    <3> QED
      BY <3>1, <3>2
  <2>3. ASSUME NEW x \in Names, NEW y \in Names, r.uid[x] = r.uid[y], r.uid[x] # NoUid
        PROVE  x = y
    <3>1. x \in Entries(s) /\ y \in Entries(s)
      BY <1>4, <2>1, <2>3
    <3>2. CASE x \in new /\ y \in new
      BY <1>4, <1>7, <2>1, <2>3, <3>2
    <3>3. CASE x \notin new /\ y \notin new
      <4>1. /\ Saved.uid[line[x]] = Saved.uid[line[y]]
            /\ line[x] \in Given(Saved) /\ line[y] \in Given(Saved)
        BY <1>4, <2>1, <2>3, <3>1, <3>3
      <4>2. line[x] = line[y]
        BY <1>3, <4>1 DEF Numbered, Distinct, Given
      <4>3. /\ line \in [Entries(s) \ new -> Names] /\ IsInjective(line)
            /\ x \in DOMAIN line /\ y \in DOMAIN line
        BY <3>1, <3>3 DEF Matches, new
      <4> QED
        BY <4>2, <4>3 DEF IsInjective
    <3>4. CASE x \in new /\ y \notin new
      <4>1. num(x) = Saved.uid[line[y]] /\ line[y] \in Given(Saved)
        BY <1>4, <2>1, <2>3, <3>1, <3>4
      <4>2. num(x).n >= n /\ num(x).n \in Nat /\ num(x).n < n
        BY <1>5, <1>6, <3>4, <4>1
      <4> QED
        BY <1>2, <4>2 DEF n
    <3>5. CASE x \notin new /\ y \in new
      <4>1. num(y) = Saved.uid[line[x]] /\ line[x] \in Given(Saved)
        BY <1>4, <2>1, <2>3, <3>1, <3>5
      <4>2. num(y).n >= n /\ num(y).n \in Nat /\ num(y).n < n
        BY <1>5, <1>6, <3>5, <4>1
      <4> QED
        BY <1>2, <4>2 DEF n
    <3> QED
      BY <3>2, <3>3, <3>4, <3>5
  <2>4. r.uidv <= now
    BY <1>3 DEF Numbered
  <2>5. OneName(Given(r))
    BY <1>8, LoginKnows DEF ScannedKnows
  <2> QED
    BY <1>8, <2>2, <2>3, <2>4, <2>5 DEF Numbered, Distinct
<1>10. Remembers(r, Named(Entries(s)))
  <2> SUFFICES ASSUME NEW u \in Uids, NEW m \in Msgs, Told(u, m), u.uidv = r.uidv
               PROVE  /\ u.n < r.nextuid
                      /\ \A x \in Names : r.uid[x] = u => x[1] = m
                      /\ m \in Named(Entries(s)) /\ torn[m] = 0 => Has(r, m, u)
    BY DEF Remembers
  <2>1. u # NoUid /\ ~ raced /\ u.n \in Nat /\ u.uidv \in Nat
    BY ToldFacts DEF Uids
  <2>2. file.exists
    <3>1. ASSUME ~ file.exists
          PROVE  FALSE
      <4>1. u.uidv = now /\ u.uidv < now
        BY <3>1, SavedTyped DEF FileInv
      <4> QED
        BY <2>1, <4>1
    <3> QED
      BY <3>1
  <2>3. Saved = file /\ u.uidv = file.uidv
    BY <2>2, SavedTyped
  <2>4. u.n < n /\ \A y \in Names : Saved.uid[y] = u => y[1] = m
    BY <2>2, <2>3 DEF FileInv, Remembers, n
  <2>5. u.n < r.nextuid
    <3>1. n \in Nat /\ r.nextuid = n + Cardinality(new)
      BY <1>2 DEF n, new
    <3> QED
      BY <1>1, <2>1, <2>4, <3>1
  <2>6. ASSUME NEW x \in Names, r.uid[x] = u
        PROVE  x[1] = m
    <3>0. r.uid = R
      BY DEF R
    <3>1. x \in Entries(s)
      BY <1>4, <2>1, <2>6, <3>0
    <3>2. x \notin new
      <4>1. n \in Nat
        BY <1>2
      <4>2. ASSUME x \in new
            PROVE  FALSE
        BY <1>4, <1>5, <2>1, <2>4, <2>6, <3>0, <4>1, <4>2
      <4> QED
        BY <4>2
    <3>3. Saved.uid[line[x]] = u /\ line[x][1] = x[1] /\ line[x] \in Names
      BY <1>4, <2>6, <3>0, <3>1, <3>2 DEF Given
    <3> QED
      BY <2>4, <3>3
  <2>7. ASSUME m \in Named(Entries(s)), torn[m] = 0
        PROVE  Has(r, m, u)
    <3>1. Found(sess[s]) = Named(Entries(s)) /\ LoggingIn(s)
      BY DEF Found, Entries, LoggingIn
    <3>2. Has(file, m, u)
      BY <2>1, <2>2, <2>3, <2>7, <3>1 DEF AloneInv
    <3>3. PICK y \in Names : y[1] = m /\ file.uid[y] = u
      BY <3>2 DEF Has
    <3>4. PICK x \in Entries(s) : x[1] = m
      BY <2>7 DEF Named
    <3>5. x \notin new /\ line[x] = y
      BY <2>1, <2>2, <2>3, <2>7, <3>3, <3>4, ReadLines DEF new
    <3>6. x \in Names /\ r.uid[x] = u
      BY <1>1, <1>4, <2>3, <3>3, <3>4, <3>5 DEF R
    <3> QED
      BY <3>4, <3>6 DEF Has
  <2> QED
    BY <2>5, <2>6, <2>7
<1> QED
  BY <1>8, <1>9, <1>10

\* What a session has read from the file is what clients were told of its messages.
LEMMA ReadListStep ==
  ASSUME Pop3Inv, TypeOK', NEW s \in Sessions, ReadList(s)
  PROVE  FileInv' /\ LoginInv' /\ AloneInv' /\ ShownInv'
<1> USE DEF Pop3Inv
<1>1. sess[s].pc = "scanned" /\ UNCHANGED <<place, seen, file, now, raced, torn, faults>>
  BY ReadListNames
<1>2. PICK line : /\ Matches(s, line)
                  /\ \/ SetSession(s, ReadForSave(s, line)) /\ shown' = shown
                     \/ NewOnes(s) = {} /\ Opened(s, Read(s, line))
  BY ReadListNames DEF ReadForSave
<1>3. /\ Entries(s) \in SUBSET Names /\ NewOnes(s) \in SUBSET Entries(s)
      /\ sess[s].list \in Seq(Names) /\ LoggingIn(s) /\ ScannedKnows(s)
      /\ Found(sess[s]) = Named(Entries(s))
  BY <1>1, EntriesFacts, LoginKnows DEF LoggingIn, Found, Entries
<1>4. Onwards
  BY <1>1 DEF Onwards
<1>5. /\ ~ file.exists => NewOnes(s) = Entries(s)
      /\ \A x \in Entries(s) \ NewOnes(s) :
           file.exists => /\ file.uidv = Saved.uidv
                          /\ Has(file, x[1], ReadUid(s, line)[x])
  <2>1. ASSUME NEW x \in Entries(s) \ NewOnes(s), file.exists
        PROVE  /\ file.uidv = Saved.uidv
               /\ Has(file, x[1], ReadUid(s, line)[x])
    <3>1. Saved = file
      BY <2>1, SavedTyped
    <3>2. /\ line[x] \in Names /\ line[x][1] = x[1]
          /\ ReadUid(s, line)[x] = Saved.uid[line[x]]
      BY <1>1, <1>2, ReadLines
    <3> QED
      BY <3>1, <3>2 DEF Has
  <2> QED
    BY <1>1, <1>2, <2>1, ReadLines
<1>6. CASE SetSession(s, ReadForSave(s, line)) /\ shown' = shown
  <2> DEFINE t == ReadForSave(s, line)
  <2>1. \A r \in Sessions : sess'[r] = IF r = s THEN t ELSE sess[r]
    BY <1>6, SessionTyped
  <2>2. /\ t.pc = "save" /\ t.list = sess[s].list /\ t.uid = ReadUid(s, line)
        /\ t.isnew = NewOnes(s) /\ t.uidv = Saved.uidv /\ t.deleted = {}
        /\ t.names = sess[s].names
        /\ t.nextuid = Saved.nextuid + Cardinality(NewOnes(s))
    BY <1>1, <1>2, ReadForSaveFields
  <2> HIDE DEF t
  <2>3. Numbered(t) /\ Given(t) = Entries(s) /\ Remembers(t, Named(Entries(s)))
    BY <1>1, <1>2, <2>2, ReadNumbers
  <2>4. \A u, m : Told(u, m)' <=> Told(u, m)
    BY <1>6 DEF Told
  <2>5. Entries(s)' = Entries(s) /\ Found(sess[s])' = Named(Entries(s))
    BY <2>1, <2>2 DEF Entries, Found
  <2>6. ShownInv'
    BY <1>1, <1>6 DEF ShownInv, NeverReused, NeverChanged
  <2>7. FileInv'
    BY <1>1, <1>4, <2>4, FileKept
  <2>8. LoginInv'
    <3> SUFFICES ASSUME NEW r \in Sessions
                 PROVE  Knows(r)'
      BY AllKnow
    <3>1. CASE r # s
      BY <1>1, <2>1, <2>4, <3>1, OthersKnow
    <3>2. CASE r = s
      <4>1. sess'[s] = t
        BY <2>1
      <4>2. OneName(Entries(s))' /\ OneName(sess[s].names)'
        BY <1>1, <1>3, <2>2, <2>5, <4>1 DEF ScannedKnows, OneName
      <4>3. \A m \in Named(Entries(s))' : place'[m] # "none"
        BY <1>1, <1>3, <2>5 DEF ScannedKnows, Named
      <4>4. (Given(sess[s]) = Entries(s))' /\ Given(sess[s])' = Given(t)
        BY <2>3, <2>5, <4>1 DEF Given
      <4>5. Numbered(sess[s])'
        BY <1>1, <2>3, <4>1, <4>4 DEF Numbered, OneName
      <4>6. Remembers(sess[s], Found(sess[s]))'
        BY <1>1, <2>3, <2>4, <2>5, <4>1 DEF Remembers, Has
      <4>7. sess'[s].list # << >>
        BY <1>3, <2>2, <4>1 DEF ScannedKnows
      <4>8. ScannedKnows(s)'
        BY <4>2, <4>3, <4>4, <4>5, <4>6, <4>7 DEF ScannedKnows
      <4> QED
        BY <2>2, <3>2, <4>1, <4>8 DEF Knows
    <3> QED
      BY <3>1, <3>2
  <2>9. AloneInv'
    <3> SUFFICES ASSUME ~ raced', NEW q \in Sessions, LoggingIn(q)'
                 PROVE  /\ \A r \in Sessions : LoggingIn(r)' => r = q
                        /\ \A x \in shown' :
                             \/ x[2] \in IF sess'[q].pc = "reading" THEN sess'[q].steady
                                         ELSE Found(sess[q])'
                             \/ place'[x[2]] = "gone" \/ torn'[x[2]] # 0
                        /\ sess'[q].pc # "save" /\ file'.exists =>
                             \A u \in Uids, m \in Found(sess[q])' :
                               Told(u, m)' /\ u.uidv = file'.uidv /\ torn'[m] = 0
                                 => Has(file, m, u)'
                        /\ sess'[q].pc = "save" => \A x \in Entries(q)' \ sess'[q].isnew :
                             IF file'.exists
                             THEN file'.uidv = sess'[q].uidv
                                  /\ Has(file, x[1], sess[q].uid[x])'
                             ELSE sess'[q].uidv < now'
      BY DEF AloneInv
    <3>1. ~ raced /\ \A r \in Sessions : LoggingIn(r) => r = s
      BY <1>1, <1>3 DEF AloneInv
    <3>2. \A r \in Sessions : LoggingIn(r)' => r = s
      BY <2>1, <3>1 DEF LoggingIn
    <3>3. q = s /\ sess'[q] = t
      BY <2>1, <3>2
    <3>4. \A x \in shown : \/ x[2] \in Named(Entries(s))
                           \/ place[x[2]] = "gone" \/ torn[x[2]] # 0
      BY <1>1, <1>3, <3>1 DEF AloneInv
    <3>5. ASSUME NEW x \in Entries(s) \ NewOnes(s)
          PROVE  file.exists /\ file.uidv = t.uidv /\ Has(file, x[1], t.uid[x])
      BY <1>5, <2>2
    <3>6. \A x : Has(file, x[1], sess[q].uid[x])' <=> Has(file, x[1], t.uid[x])
      BY <1>1, <3>3 DEF Has
    <3> QED
      BY <1>1, <1>6, <2>2, <2>5, <3>2, <3>3, <3>4, <3>5, <3>6
  <2> QED
    BY <2>6, <2>7, <2>8, <2>9
<1>7. CASE NewOnes(s) = {} /\ Opened(s, Read(s, line))
  <2>0. PICK t : t = Read(s, line)
    OBVIOUS
  <2>1. /\ t.list = sess[s].list /\ t.uid = ReadUid(s, line)
        /\ t.uidv = Saved.uidv /\ t.nextuid = Saved.nextuid + Cardinality(NewOnes(s))
        /\ t \in Session
    BY <1>1, <1>2, <2>0, ReadFields
  <2>2. Opened(s, t)
    BY <1>7, <2>0
  <2>3. Numbered(t) /\ Given(t) = Entries(s) /\ Remembers(t, Named(Entries(s)))
    BY <1>1, <1>2, <2>1, ReadNumbers
  <2>4. file.exists /\ Saved = file
    <3>1. Entries(s) # {}
      BY <1>3, ListFacts DEF ScannedKnows, Entries
    <3> QED
      BY <1>5, <1>7, <3>1, SavedTyped
  <2>5. Range(t.list) = Entries(s)
    BY <2>1 DEF Entries
  <2>6. Numbered(file)' /\ (~ file'.exists => file' = NoList)
    <3>1. Numbered(file)
      BY DEF FileInv
    <3>2. Given(file)' = Given(file)
      BY <1>1 DEF Given
    <3>3. Numbered(file)'
      BY <1>1, <3>1, <3>2 DEF Numbered, OneName
    <3> QED
      BY <1>1, <2>4, <3>3
  <2>7. ASSUME NEW u \in Uids, NEW m \in Msgs, Told(u, m)
        PROVE  IF file'.exists
               THEN u.uidv = file'.uidv =>
                      /\ u.n < file'.nextuid
                      /\ \A y \in Names : file'.uid[y] = u => y[1] = m
                      /\ place[m] # "gone" /\ torn[m] = 0 => Has(file, m, u)'
               ELSE u.uidv < now
    <3>1. Has(file, m, u)' <=> Has(file, m, u)
      BY <1>1 DEF Has
    <3> QED
      BY <1>1, <2>4, <2>7, <3>1 DEF FileInv, Remembers
  <2>8. Distinct(t.uid)
    BY <2>3 DEF Numbered
  <2>9. ASSUME NEW x \in Range(t.list)
        PROVE  /\ t.uid[x] \in Uids /\ t.uid[x] # NoUid /\ t.uid[x].uidv <= now
               /\ file'.exists /\ t.uid[x].uidv = file'.uidv /\ Has(file, x[1], t.uid[x])'
               /\ \A u \in Uids, k \in Msgs : Told(u, k) =>
                    /\ u = t.uid[x] => k = x[1]
                    /\ k = x[1] /\ torn[k] = 0 /\ u.uidv = t.uid[x].uidv => u = t.uid[x]
    <3>1. x \in Entries(s) \ NewOnes(s) /\ x \in Names /\ x[1] \in Msgs
      BY <1>3, <1>7, <2>5, NameFacts
    <3>2. t.uid[x] \in Uids /\ x \in Given(t) /\ t.uid[x] # NoUid
      BY <2>1, <2>3, <3>1 DEF Session, Given
    <3>3. t.uid[x].uidv = t.uidv /\ t.uidv = file.uidv /\ t.uidv <= now
      BY <2>1, <2>3, <2>4, <3>2 DEF Numbered
    <3>4. Has(file, x[1], t.uid[x])'
      BY <1>1, <1>5, <2>1, <2>4, <3>1 DEF Has
    <3>5. ASSUME NEW u \in Uids, NEW k \in Msgs, Told(u, k)
          PROVE  /\ u = t.uid[x] => k = x[1]
                 /\ k = x[1] /\ torn[k] = 0 /\ u.uidv = t.uid[x].uidv => u = t.uid[x]
      <4>1. u = t.uid[x] => k = x[1]
        BY <2>3, <3>1, <3>3, <3>5 DEF Remembers
      <4>2. ASSUME k = x[1], torn[k] = 0, u.uidv = t.uid[x].uidv
            PROVE  u = t.uid[x]
        <5>1. k \in Named(Entries(s))
          BY <3>1, <4>2 DEF Named
        <5>2. Has(t, k, u)
          BY <2>3, <3>3, <3>5, <4>2, <5>1 DEF Remembers
        <5>3. PICK y \in Names : y[1] = k /\ t.uid[y] = u
          BY <5>2 DEF Has
        <5>4. y \in Given(t)
          BY <3>5, <5>3, ToldFacts DEF Given
        <5>5. y = x
          BY <2>3, <3>2, <4>2, <5>3, <5>4 DEF Numbered, OneName
        <5> QED
          BY <5>3, <5>5
      <4> QED
        BY <4>1, <4>2
    <3> QED
      BY <1>1, <2>4, <3>2, <3>3, <3>4, <3>5
  <2>10. t.list \in Seq(Names)
    BY <2>1 DEF Session
  <2> QED
    BY <1>1, <2>2, <2>5, <2>6, <2>7, <2>8, <2>9, <2>10, Opening
<1> QED
  BY <1>2, <1>6, <1>7

--------------------------------------------------------------------------
(* The list that is saved, is not, or is lost.                             *)

\* What the session that saves the list tells was not told for another message.
LEMMA SaveTells ==
  ASSUME Pop3Inv, NEW s \in Sessions, sess[s].pc = "save", NEW x \in Entries(s)
  PROVE  /\ x \in Names
         /\ sess[s].uid[x] \in Uids /\ sess[s].uid[x] # NoUid
         /\ sess[s].uid[x].uidv = sess[s].uidv /\ sess[s].uidv <= now
         /\ \A u \in Uids, k \in Msgs : Told(u, k) =>
              /\ u = sess[s].uid[x] => k = x[1]
              /\ k = x[1] /\ torn[k] = 0 /\ u.uidv = sess[s].uid[x].uidv
                 => u = sess[s].uid[x]
<1> USE DEF Pop3Inv
<1>1. sess[s] \in Session
  BY DEF TypeOK
<1>2. x \in Names /\ x[1] \in Msgs
  BY <1>1, ListFacts, NameFacts DEF Entries, Session
<1>3. /\ Numbered(sess[s]) /\ Given(sess[s]) = Entries(s)
      /\ Remembers(sess[s], Named(Entries(s)))
  BY LoginKnows DEF ScannedKnows, Found, Entries
<1>4. sess[s].uid[x] \in Uids /\ x \in Given(sess[s])
  BY <1>1, <1>2, <1>3 DEF Session
<1>5. sess[s].uid[x] # NoUid /\ sess[s].uid[x].uidv = sess[s].uidv /\ sess[s].uidv <= now
  BY <1>3, <1>4 DEF Numbered, Given
<1>6. ASSUME NEW u \in Uids, NEW k \in Msgs, Told(u, k)
      PROVE  /\ u = sess[s].uid[x] => k = x[1]
             /\ k = x[1] /\ torn[k] = 0 /\ u.uidv = sess[s].uid[x].uidv
                => u = sess[s].uid[x]
  <2>1. u = sess[s].uid[x] => k = x[1]
    BY <1>2, <1>3, <1>5, <1>6 DEF Remembers
  <2>2. ASSUME k = x[1], torn[k] = 0, u.uidv = sess[s].uid[x].uidv
        PROVE  u = sess[s].uid[x]
    <3>1. k \in Named(Entries(s))
      BY <2>2 DEF Named
    <3>2. Has(sess[s], k, u)
      BY <1>3, <1>5, <1>6, <2>2, <3>1 DEF Remembers
    <3>3. PICK y \in Names : y[1] = k /\ sess[s].uid[y] = u
      BY <3>2 DEF Has
    <3>4. y \in Given(sess[s])
      BY <1>6, <3>3, ToldFacts DEF Given
    <3>5. y = x
      BY <1>3, <1>4, <2>2, <3>3, <3>4 DEF Numbered, OneName
    <3> QED
      BY <3>3, <3>5
  <2> QED
    BY <2>1, <2>2
<1> QED
  BY <1>2, <1>4, <1>5, <1>6

\* The file that is saved has what its session has read, and what it tells.
LEMMA SaveStep ==
  ASSUME Pop3Inv, TypeOK', NEW s \in Sessions, Save(s)
  PROVE  FileInv' /\ LoginInv' /\ AloneInv' /\ ShownInv'
<1> USE DEF Pop3Inv
<1>0. PICK t : t = sess[s]
  OBVIOUS
<1>1. /\ t.pc = "save" /\ Opened(s, t)
      /\ UNCHANGED <<place, seen, now, raced, torn, faults>>
  BY <1>0 DEF Save
<1>2. /\ file'.exists /\ file'.nextuid = t.nextuid /\ file'.uidv = t.uidv
      /\ file'.uid = t.uid
  BY <1>0 DEF Save
<1>3. LoggingIn(s) /\ t \in Session /\ Found(t) = Named(Entries(s))
  BY <1>0, <1>1 DEF LoggingIn, TypeOK, Found, Entries
<1>4. Numbered(t) /\ Given(t) = Entries(s) /\ Remembers(t, Named(Entries(s)))
  BY <1>0, <1>1, <1>3, LoginKnows DEF ScannedKnows
<1>5. Numbered(file)' /\ (~ file'.exists => file' = NoList)
  <2>1. Given(file)' = Given(t)
    BY <1>2 DEF Given
  <2> QED
    BY <1>1, <1>2, <1>4, <2>1 DEF Numbered, OneName
<1>6. ASSUME NEW u \in Uids, NEW m \in Msgs, Told(u, m), u.uidv = file'.uidv
      PROVE  /\ u.n < file'.nextuid
             /\ \A y \in Names : file'.uid[y] = u => y[1] = m
             /\ place[m] # "gone" /\ torn[m] = 0 => Has(file, m, u)'
  <2>1. ~ raced
    BY <1>6, ToldFacts
  <2>2. m \in Named(Entries(s)) \/ place[m] = "gone" \/ torn[m] # 0
    <3> DEFINE x == <<<<"UID", u>>, m>>
    <3>1. x \in shown /\ x[2] = m
      BY <1>6 DEF Told
    <3> HIDE DEF x
    <3> QED
      BY <1>0, <1>1, <1>3, <2>1, <3>1 DEF AloneInv
  <2>3. Has(file, m, u)' <=> Has(t, m, u)
    BY <1>2 DEF Has
  <2> QED
    BY <1>2, <1>4, <1>6, <2>2, <2>3 DEF Remembers
<1>7. ASSUME NEW x \in Range(t.list)
      PROVE  /\ t.uid[x] \in Uids /\ t.uid[x] # NoUid /\ t.uid[x].uidv <= now
             /\ t.uid[x].uidv = file'.uidv /\ Has(file, x[1], t.uid[x])'
             /\ \A u \in Uids, k \in Msgs : Told(u, k) =>
                  /\ u = t.uid[x] => k = x[1]
                  /\ k = x[1] /\ torn[k] = 0 /\ u.uidv = t.uid[x].uidv => u = t.uid[x]
  <2>1. x \in Entries(s)
    BY <1>0 DEF Entries
  <2>2. /\ x \in Names
        /\ t.uid[x] \in Uids /\ t.uid[x] # NoUid
        /\ t.uid[x].uidv = t.uidv /\ t.uidv <= now
        /\ \A u \in Uids, k \in Msgs : Told(u, k) =>
             /\ u = t.uid[x] => k = x[1]
             /\ k = x[1] /\ torn[k] = 0 /\ u.uidv = t.uid[x].uidv => u = t.uid[x]
    BY <1>0, <1>1, <2>1, SaveTells
  <2>3. Has(file, x[1], t.uid[x])'
    BY <1>2, <2>2 DEF Has
  <2>4. t.uid[x].uidv <= now
    BY <2>2
  <2> QED
    BY <1>2, <2>2, <2>3, <2>4
<1>8. t.list \in Seq(Names) /\ Range(t.list) \subseteq Entries(s)
  BY <1>0, <1>3 DEF Session, Entries
<1>9. Distinct(t.uid)
  BY <1>4 DEF Numbered
<1>10. sess[s].pc \in {"scanned", "save"}
  BY <1>0, <1>1
<1> QED
  BY <1>1, <1>2, <1>5, <1>6, <1>7, <1>8, <1>9, <1>10, Opening

\* Only names whose UID is in the file are shown, or one message as ENOMEM.
LEMMA SaveFailsStep ==
  ASSUME Pop3Inv, TypeOK', NEW s \in Sessions, SaveFails(s)
  PROVE  FileInv' /\ LoginInv' /\ AloneInv' /\ ShownInv'
<1> USE DEF Pop3Inv
<1> DEFINE kept == Entries(s) \ sess[s].isnew
           first == Head(sess[s].list)
<1>1. sess[s].pc = "save" /\ UNCHANGED <<place, seen, file, now, raced, torn>>
  BY SaveFailsNames
<1>2. LoggingIn(s) /\ sess[s] \in Session /\ ScannedKnows(s)
  BY <1>1, LoginKnows DEF LoggingIn, TypeOK
<1>3. /\ Entries(s) \in SUBSET Names /\ kept \in SUBSET Names
      /\ first \in Entries(s) /\ first \in Names
  BY <1>2, ListFacts DEF Entries, Session, ScannedKnows
<1>4. Numbered(file)' /\ (~ file'.exists => file' = NoList)
  <2>1. Numbered(file) /\ Given(file)' = Given(file)
    BY <1>1 DEF FileInv, Given
  <2> QED
    BY <1>1, <2>1 DEF FileInv, Numbered, OneName
<1>5. ASSUME NEW u \in Uids, NEW m \in Msgs, Told(u, m)
      PROVE  IF file'.exists
             THEN u.uidv = file'.uidv =>
                    /\ u.n < file'.nextuid
                    /\ \A y \in Names : file'.uid[y] = u => y[1] = m
                    /\ place[m] # "gone" /\ torn[m] = 0 => Has(file, m, u)'
             ELSE u.uidv < now
  <2>1. Has(file, m, u)' <=> Has(file, m, u)
    BY <1>1 DEF Has
  <2> QED
    BY <1>1, <1>5, <2>1 DEF FileInv, Remembers
<1>6. CASE Opened(s, [sess[s] EXCEPT !.list = <<first>>, !.enomem = TRUE])
  <2>0. PICK t : t = [sess[s] EXCEPT !.list = <<first>>, !.enomem = TRUE]
    OBVIOUS
  <2>1. t.list = <<first>> /\ t.enomem
    BY <1>2, <2>0 DEF Session
  <2>2. t.list \in Seq(Names) /\ Range(t.list) \subseteq Entries(s)
    BY <1>3, <2>1, ShortLists
  <2>3. Opened(s, t)
    BY <1>6, <2>0
  <2> QED
    BY <1>1, <1>4, <1>5, <2>1, <2>2, <2>3, Opening
<1>7. ASSUME NEW l \in Listings(kept), Opened(s, [sess[s] EXCEPT !.list = l])
      PROVE  FileInv' /\ LoginInv' /\ AloneInv' /\ ShownInv'
  <2>0. PICK t : t = [sess[s] EXCEPT !.list = l]
    OBVIOUS
  <2>1. t.list = l /\ t.uid = sess[s].uid
    BY <1>2, <2>0 DEF Session
  <2>2. t.list \in Seq(Names) /\ Range(t.list) = kept
    BY <1>3, <2>1, ListingFacts
  <2>3. Opened(s, t)
    BY <1>7, <2>0
  <2>4. Distinct(t.uid)
    BY <1>1, <1>2, <2>1 DEF ScannedKnows, Numbered
  <2>5. ASSUME ~ raced, NEW x \in Range(t.list)
        PROVE  /\ t.uid[x] \in Uids /\ t.uid[x] # NoUid /\ t.uid[x].uidv <= now
               /\ IF file'.exists
                  THEN t.uid[x].uidv = file'.uidv /\ Has(file, x[1], t.uid[x])'
                  ELSE t.uid[x].uidv < now
               /\ \A u \in Uids, k \in Msgs : Told(u, k) =>
                    /\ u = t.uid[x] => k = x[1]
                    /\ k = x[1] /\ torn[k] = 0 /\ u.uidv = t.uid[x].uidv => u = t.uid[x]
    <3>1. x \in Entries(s) \ sess[s].isnew
      BY <2>2, <2>5
    <3>2. /\ t.uid[x] \in Uids /\ t.uid[x] # NoUid
          /\ t.uid[x].uidv = sess[s].uidv /\ sess[s].uidv <= now
          /\ \A u \in Uids, k \in Msgs : Told(u, k) =>
               /\ u = t.uid[x] => k = x[1]
               /\ k = x[1] /\ torn[k] = 0 /\ u.uidv = t.uid[x].uidv => u = t.uid[x]
      BY <1>1, <2>1, <3>1, SaveTells
    <3>3. IF file.exists THEN file.uidv = sess[s].uidv /\ Has(file, x[1], sess[s].uid[x])
          ELSE sess[s].uidv < now
      BY <1>1, <1>2, <2>5, <3>1 DEF AloneInv
    <3>4. Has(file, x[1], t.uid[x])' <=> Has(file, x[1], sess[s].uid[x])
      BY <1>1, <2>1 DEF Has
    <3>5. t.uid[x].uidv <= now
      BY <3>2
    <3> QED
      BY <1>1, <3>2, <3>3, <3>4, <3>5
  <2>6. Range(t.list) \subseteq Entries(s)
    BY <2>2
  <2> QED
    BY <1>1, <1>4, <1>5, <2>2, <2>3, <2>4, <2>5, <2>6, Opening
<1> QED
  BY <1>6, <1>7, SaveFailsNames

\* What was told has an earlier UIDVALIDITY than the next file.
LEMMA LoseListStep ==
  ASSUME Pop3Inv, TypeOK', LoseList
  PROVE  FileInv' /\ LoginInv' /\ AloneInv' /\ ShownInv'
<1> USE DEF Pop3Inv
<1>1. /\ file' = NoList /\ now' = now + 1 /\ now \in Nat
      /\ UNCHANGED <<place, seen, sess, shown, raced, torn>>
  BY Pop3Assumption DEF LoseList, TypeOK
<1>2. /\ ~ file'.exists /\ file'.uid = NoUids /\ file'.uidv = 0
  BY <1>1 DEF NoList
<1>3. ASSUME NEW v \in Nat, v <= now
      PROVE  v < now' /\ v <= now'
  BY <1>1, <1>3
<1>4. ASSUME NEW u, NEW m, Told(u, m)'
      PROVE  Told(u, m) /\ u \in Uids /\ u.uidv \in Nat /\ u.uidv < now'
  <2>1. Told(u, m)
    BY <1>1, <1>4 DEF Told
  <2>2. u \in Uids /\ u.uidv <= now
    BY <2>1, ToldFacts
  <2>3. u.uidv \in Nat
    BY <2>2 DEF Uids
  <2> QED
    BY <1>3, <2>1, <2>2, <2>3
<1>5. FileInv'
  <2>1. Given(file)' = {}
    BY <1>2 DEF Given, NoUids
  <2>2. Numbered(file)'
    BY <1>1, <1>2, <2>1 DEF Numbered, Distinct, NoUids, OneName
  <2> QED
    BY <1>1, <1>2, <1>4, <2>2 DEF FileInv
<1>6. ASSUME NEW s \in Sessions, sess[s].pc = "save"
      PROVE  /\ sess[s].uidv < now' /\ Numbered(sess[s])'
             /\ (Given(sess[s]) = Entries(s))'
             /\ Remembers(sess[s], Found(sess[s]))'
  <2>1. /\ Numbered(sess[s]) /\ Remembers(sess[s], Found(sess[s]))
        /\ Given(sess[s]) = Entries(s)
    BY <1>6, LoginKnows DEF ScannedKnows
  <2>2. sess[s].uidv \in Nat /\ sess[s].uidv <= now
    BY <2>1 DEF Numbered, TypeOK, Session
  <2>3. Given(sess[s])' = Given(sess[s]) /\ Entries(s)' = Entries(s)
        /\ Found(sess[s])' = Found(sess[s])
    BY <1>1 DEF Given, Entries, Found
  <2>4. Numbered(sess[s])'
    BY <1>1, <1>3, <2>1, <2>2, <2>3 DEF Numbered, OneName
  <2>5. Remembers(sess[s], Found(sess[s]))'
    BY <1>1, <1>4, <2>1, <2>3 DEF Remembers, Has
  <2> QED
    BY <1>3, <2>1, <2>2, <2>3, <2>4, <2>5
<1>7. LoginInv'
  <2> SUFFICES ASSUME NEW r \in Sessions
               PROVE  Knows(r)'
    BY AllKnow
  <2>1. Knows(r)
    BY LoginKnows DEF Knows
  <2>2. ASSUME sess[r].pc = "reading"
        PROVE  ReaderKnows(r)' /\ OneName(Entries(r))'
    <3>1. \A m : NameOf(m)' = NameOf(m)
      BY <1>1 DEF NameOf
    <3> QED
      BY <1>1, <2>1, <2>2, <3>1 DEF Knows, ReaderKnows, OneName, Entries
  <2>3. ASSUME sess[r].pc \in {"scanned", "save"}
        PROVE  ScannedKnows(r)'
    <3>1. ScannedKnows(r)
      BY <2>1, <2>3 DEF Knows
    <3>2. /\ \A m \in Named(Entries(r))' : place'[m] # "none"
          /\ OneName(Entries(r))' /\ OneName(sess[r].names)'
          /\ sess'[r].list # << >>
      BY <1>1, <3>1 DEF ScannedKnows, OneName, Entries
    <3> QED
      BY <1>1, <1>6, <3>2 DEF ScannedKnows
  <2> QED
    BY <1>1, <2>1, <2>2, <2>3 DEF Knows
<1>8. AloneInv'
  BY <1>1, <1>2, <1>6 DEF AloneInv, LoggingIn, Found, Entries
<1>9. ShownInv'
  <2>1. NeverReused' /\ NeverChanged'
    BY <1>1 DEF ShownInv, NeverReused, NeverChanged
  <2>2. \A u \in Uids : u.uidv <= now => u.uidv <= now'
    BY <1>3 DEF Uids
  <2> QED
    BY <1>1, <2>1, <2>2 DEF ShownInv
<1> QED
  BY <1>5, <1>7, <1>8, <1>9

--------------------------------------------------------------------------
(* The theorems.                                                           *)

\* What clients were told is kept by every step of logging in, by what others
\* do to the files meanwhile, and by a list that is lost or cannot be saved, and
\* all of the states are of their types (pop3dserver.C:109-532).
THEOREM Pop3Invariance == Spec => []Pop3Inv
<1>1. Init => Pop3Inv
  <2> SUFFICES ASSUME Init
               PROVE  Pop3Inv
    OBVIOUS
  <2> USE DEF Init
  <2>1. /\ Out.pc = "out" /\ Out.list = << >> /\ Out.uid = NoUids
        /\ Out.deleted = {} /\ Out.asked = {}
    BY DEF Out
  <2>2. TypeOK
    <3>1. \A s \in Sessions : sess[s] = Out
      OBVIOUS
    <3>2. faults \in 0..MaxFaults /\ now \in 0..faults
      BY Pop3Assumption
    <3>3. sess \in [Sessions -> Session] /\ file \in List
      BY Constants
    <3>4. torn \in [Msgs -> 0..MaxRenames]
      BY Pop3Assumption
    <3> QED
      BY <2>1, <3>1, <3>2, <3>3, <3>4, ShortLists DEF TypeOK
  <2>3. \A u, m : ~ Told(u, m)
    BY DEF Told
  <2>4. FileInv
    <3>1. file.uid = NoUids /\ ~ file.exists /\ file.uidv = 0 /\ now = 0
      BY DEF NoList
    <3>2. Given(file) = {}
      BY <3>1 DEF Given, NoUids
    <3>3. Numbered(file)
      BY <3>1, <3>2 DEF Numbered, Distinct, NoUids, OneName
    <3> QED
      BY <2>3, <3>1, <3>3 DEF FileInv
  <2>5. LoginInv /\ AloneInv
    BY <2>1 DEF LoginInv, AloneInv, LoggingIn
  <2>6. ShownInv
    BY DEF ShownInv, NeverReused, NeverChanged
  <2> QED
    BY <2>2, <2>4, <2>5, <2>6 DEF Pop3Inv
<1>2. Pop3Inv /\ [Next]_vars => Pop3Inv'
  <2> SUFFICES ASSUME Pop3Inv, [Next]_vars
               PROVE  Pop3Inv'
    OBVIOUS
  <2>1. TypeOK /\ LoginInv
    BY DEF Pop3Inv
  <2>2. CASE UNCHANGED vars
    <3>1. TypeOK'
      BY <2>1, <2>2 DEF TypeOK, vars, LoggingIn
    <3>2. UNCHANGED <<place, seen, file, now, sess, shown, raced, torn>>
      BY <2>2 DEF vars
    <3>3. Onwards
      BY <3>2 DEF Onwards
    <3>4. ASSUME NEW r \in Sessions
          PROVE  QuietSession(r)
      <4>1. sess'[r] = sess[r]
        BY <3>2
      <4>2. Knows(r)' /\ Knows(r)
        BY <2>1, <3>2, <4>1, OthersKnow, LoginKnows DEF Told, Knows
      <4> QED
        BY <3>2, <4>1, <4>2 DEF QuietSession, ReaderKeeps, Knows
    <3> QED
      BY <3>1, <3>2, <3>3, <3>4, Quiet DEF Pop3Inv
  <2>3. CASE Next
    <3>1. TypeOK'
      BY <2>1, <2>3, TypeStep
    <3>2. ASSUME NEW s \in Sessions,
                 Login(s) \/ ScanCur(s) \/ ReadList(s) \/ Save(s) \/ SaveFails(s)
          PROVE  FileInv' /\ LoginInv' /\ AloneInv' /\ ShownInv'
      BY <3>1, <3>2, LoginStep, ScanCurStep, ReadListStep, SaveStep, SaveFailsStep
    <3>3. ASSUME NEW s \in Sessions,
                 \/ Retr(s) \/ Dele(s) \/ Rset(s) \/ Quit(s)
                 \/ Cleanup(s) \/ CleanupEnds(s) \/ Disconnect(s)
          PROVE  FileInv' /\ LoginInv' /\ AloneInv' /\ ShownInv'
      BY <3>1, <3>3, CommandStep
    <3>4. ASSUME NEW m \in Msgs, Arrive(m) \/ Store(m) \/ Expunge(m)
          PROVE  FileInv' /\ LoginInv' /\ AloneInv' /\ ShownInv'
      BY <3>1, <3>4, OthersStep
    <3>5. ASSUME LoseList
          PROVE  FileInv' /\ LoginInv' /\ AloneInv' /\ ShownInv'
      BY <3>1, <3>5, LoseListStep
    <3>6. FileInv' /\ LoginInv' /\ AloneInv' /\ ShownInv'
      BY <2>3, <3>2, <3>3, <3>4, <3>5 DEF Next
    <3> QED
      BY <3>1, <3>6 DEF Pop3Inv
  <2> QED
    BY <2>2, <2>3
<1> QED
  BY <1>1, <1>2, PTL DEF Spec

\* A UIDL is told for one message only, and a message that was not renamed
\* while a session read cur has one UIDL, whatever is cut off, lost or not saved
\* (pop3dserver.C:412-478), as long as no two sessions were logging in at once.
THEOREM UidlsAreKept == Spec => []UidlsKept
<1>1. Pop3Inv => UidlsKept
  <2> SUFFICES ASSUME Pop3Inv
               PROVE  UidlsKept
    OBVIOUS
  <2>1. NeverReused /\ NeverChanged /\ Distinct(file.uid)
    BY DEF Pop3Inv, ShownInv, FileInv, Numbered
  <2>2. ASSUME NEW s \in Sessions
        PROVE  Distinct(sess[s].uid)
    <3>1. CASE sess[s].pc = "save"
      BY <3>1 DEF Pop3Inv, LoginInv, Numbered
    <3>2. CASE sess[s].pc # "save"
      BY <3>2 DEF Pop3Inv, LoginInv, Distinct, NoUids
    <3> QED
      BY <3>1, <3>2
  <2> QED
    BY <2>1, <2>2 DEF UidlsKept, DistinctInSession
<1> QED
  BY <1>1, Pop3Invariance, PTL

\* No session removes a message that its client has not deleted, by the number
\* it was given at login, or has taken back (pop3dserver.C:497-530).
THEOREM OnlyAsAsked == Spec => RemovedAsAsked
<1>1. Pop3Inv /\ [Next]_vars =>
        [\A m \in Msgs :
           (place[m] = "there" /\ place'[m] = "gone") =>
              \/ Expunge(m)
              \/ \E s \in Sessions :
                   /\ sess[s].pc = "quit"
                   /\ \E i \in sess[s].asked : sess[s].list[i][1] = m]_vars
  <2> SUFFICES ASSUME Pop3Inv, Next, NEW m \in Msgs,
                      place[m] = "there", place'[m] = "gone"
               PROVE  \/ Expunge(m)
                      \/ \E s \in Sessions :
                           /\ sess[s].pc = "quit"
                           /\ \E i \in sess[s].asked : sess[s].list[i][1] = m
    OBVIOUS
  <2>1. ASSUME NEW s \in Sessions, Cleanup(s)
        PROVE  \E i \in sess[s].asked : sess[s].pc = "quit" /\ sess[s].list[i][1] = m
    <3>1. PICK i \in sess[s].deleted :
            /\ sess[s].pc = "quit"
            /\ \/ place' = [place EXCEPT ![sess[s].list[i][1]] = "gone"]
               \/ place' = place
      BY <2>1 DEF Cleanup
    <3>2. i \in sess[s].asked
      BY DEF Pop3Inv, LoginInv
    <3>3. sess[s].list[i][1] = m
      BY <3>1 DEF Pop3Inv, TypeOK
    <3> QED
      BY <3>1, <3>2, <3>3
  <2>2. ASSUME NEW k \in Msgs, Arrive(k) \/ Store(k)
        PROVE  FALSE
    BY <2>2 DEF Arrive, Store, Pop3Inv, TypeOK
  <2>3. ASSUME NEW k \in Msgs, Expunge(k)
        PROVE  Expunge(m)
    <3>1. k = m
      BY <2>3 DEF Expunge, Pop3Inv, TypeOK
    <3> QED
      BY <2>3, <3>1
  <2>4. ASSUME UNCHANGED place
        PROVE  FALSE
    BY <2>4
  <2>5. CASE LoseList
    BY <2>4, <2>5 DEF LoseList
  <2>6. ASSUME NEW s \in Sessions,
               \/ Login(s) \/ ScanCur(s) \/ ReadList(s) \/ Save(s) \/ SaveFails(s)
               \/ Retr(s) \/ Dele(s) \/ Rset(s) \/ Quit(s)
               \/ CleanupEnds(s) \/ Disconnect(s)
        PROVE  FALSE
    BY <2>4, <2>6, ReadListNames, ScanCurNames, SaveFailsNames
       DEF Login, Save, Retr, Dele, Rset, Quit, CleanupEnds, Disconnect
  <2> QED
    BY <2>1, <2>2, <2>3, <2>5, <2>6 DEF Next
<1> QED
  BY <1>1, Pop3Invariance, PTL DEF Spec, RemovedAsAsked
=============================================================================
