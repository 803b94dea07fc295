------------------------- MODULE TlsCacheRingProofs -------------------------
(***************************************************************************)
(* Proofs about the file of cached TLS sessions, for any size of the file, *)
(* of its headers and of what is added.  RingInv lays the objects out in   *)
(* the file: one after the other up to the end of the file, then from      *)
(* hd.first on, with a gap between the oldest object and the newest.       *)
(* SizeInv counts what that gap holds.                                     *)
(***************************************************************************)
EXTENDS TlsCacheRing, FiniteSetTheorems, NaturalsInduction, WellFoundedInduction, TLAPS

Files == [Offsets -> Objects \cup {Junk}]

\* A set of numbers that is not empty has a least one.
LEMMA Least ==
  ASSUME NEW T \in SUBSET Nat, T # {}
  PROVE  \E x \in T : \A y \in T : x <= y
<1>1. PICK x \in T : \A y \in T : ~ (<<y, x>> \in OpToRel(<, Nat))
  BY NatLessThanWellFounded, WFMin, Zenon
<1>2. \A y \in T : ~ (y < x)
  BY <1>1 DEF OpToRel
<1> QED
  BY <1>2

\* A sequence of offsets with one more in front.
LEMMA InFront ==
  ASSUME NEW a \in Offsets, NEW s \in Seq(Offsets)
  PROVE  Len(<<a>> \o s) = Len(s) + 1 /\ (<<a>> \o s)[1] = a
OBVIOUS

-----------------------------------------------------------------------------
(* The walk of a search.                                                   *)

\* A walk of N steps from x, whatever a step (G) does: the recursion defines
\* a function.
Walk(w, N, G, x) ==
  w = [n \in 0 .. N |-> IF n = 0 THEN <<x>> ELSE G[w[n - 1]]]
\* A recursive walk of N steps exists.
LEMMA WalkExists ==
  ASSUME NEW N \in Nat, NEW G, NEW x
  PROVE  \E w : Walk(w, N, G, x)
<1> DEFINE T == {m \in Nat : ~ \E w : Walk(w, m, G, x)}
<1>1. SUFFICES T = {}
  OBVIOUS
<1>2. SUFFICES ASSUME T # {} PROVE FALSE
  OBVIOUS
<1>3. PICK m \in T : \A y \in T : m <= y
  <2>1. T \in SUBSET Nat
    OBVIOUS
  <2> QED
    BY <1>2, <2>1, Least
<1>4. CASE m = 0
  <2> DEFINE w == [n \in 0 .. m |-> <<x>>]
  <2>1. w = [n \in 0 .. m |-> IF n = 0 THEN <<x>> ELSE G[w[n - 1]]]
    BY <1>4
  <2> QED
    BY <2>1, <1>3 DEF Walk
<1>5. CASE m # 0
  <2>1. m - 1 \in Nat /\ m - 1 \notin T
    <3>1. m \in Nat
      OBVIOUS
    <3> HIDE DEF T
    <3> QED
      BY <3>1, <1>3, <1>5
  <2>2. PICK v : Walk(v, m - 1, G, x)
    BY <2>1
  <2> DEFINE w == [n \in 0 .. m |-> IF n = m THEN G[v[n - 1]] ELSE v[n]]
  <2>3. \A n \in 0 .. m : w[n] = IF n = 0 THEN <<x>> ELSE G[w[n - 1]]
    <3> SUFFICES ASSUME NEW n \in 0 .. m
                 PROVE  w[n] = IF n = 0 THEN <<x>> ELSE G[w[n - 1]]
      OBVIOUS
    <3>1. m \in Nat
      OBVIOUS
    <3>2. CASE n = 0
      <4>1. 0 \in 0 .. m - 1 /\ 0 # m
        BY <3>1, <1>5
      <4>2. v[0] = <<x>>
        BY <2>2, <4>1 DEF Walk
      <4> QED
        BY <4>1, <4>2, <3>2
    <3>3. CASE n # 0 /\ n # m
      <4>1. n \in 0 .. m - 1 /\ n - 1 \in 0 .. m /\ n - 1 # m
        BY <3>1, <3>3
      <4>2. v[n] = G[v[n - 1]]
        BY <2>2, <4>1, <3>3 DEF Walk
      <4> QED
        BY <4>1, <4>2, <3>3
    <3>4. CASE n # 0 /\ n = m
      <4>1. n - 1 \in 0 .. m /\ n - 1 # m
        BY <3>1, <3>4
      <4> QED
        BY <4>1, <3>4
    <3> QED
      BY <3>2, <3>3, <3>4
  <2>4. w = [n \in 0 .. m |-> IF n = 0 THEN <<x>> ELSE G[w[n - 1]]]
    BY <2>3
  <2> HIDE DEF w
  <2> QED
    BY <2>4, <1>3 DEF Walk
<1> QED
  BY <1>4, <1>5

\* What the ring says of each of its objects.
LEMMA RingFacts ==
  ASSUME NEW f \in Files, NEW hd, NEW s, NEW k, Ring(f, hd, s, k)
  PROVE  /\ s \in Seq(Offsets) /\ Len(s) \in Nat \ {0} /\ k \in 1 .. Len(s)
         /\ \A i \in 1 .. Len(s) :
              /\ s[i] \in Offsets /\ s[i] \in Int
              /\ f[s[i]] \in Objects /\ f[s[i]].my \in Nat /\ f[s[i]].val \in Sessions
              /\ f[s[i]].my > ObjSize /\ f[s[i]].my <= FileSize - HdrSize
              /\ f[s[i]].my \in Sizes /\ f[s[i]] # Junk
              /\ s[i] >= HdrSize /\ s[i] + f[s[i]].my <= FileSize
         /\ 1 \in 1 .. Len(s) /\ Len(s) \in 1 .. Len(s)
<1> USE DEF Ring
<1>1. s \in Seq(Offsets) /\ s # <<>>
  BY DEF RingObjects
<1>2. Len(s) \in Nat \ {0} /\ k \in 1 .. Len(s)
  BY <1>1
<1>3. ASSUME NEW i \in 1 .. Len(s)
      PROVE  /\ s[i] \in Offsets /\ s[i] \in Int
             /\ f[s[i]] \in Objects /\ f[s[i]].my \in Nat /\ f[s[i]].val \in Sessions
             /\ f[s[i]].my > ObjSize /\ f[s[i]].my <= FileSize - HdrSize
             /\ f[s[i]].my \in Sizes /\ f[s[i]] # Junk
             /\ s[i] >= HdrSize /\ s[i] + f[s[i]].my <= FileSize
  <2>1. s[i] \in Offsets
    BY <1>1
  <2>2. f[s[i]] # Junk /\ f[s[i]].my \in Sizes
        /\ s[i] >= HdrSize /\ s[i] + f[s[i]].my <= FileSize
    BY DEF RingObjects, Ends
  <2>3. f[s[i]] \in Objects
    BY <2>1, <2>2 DEF Files
  <2>4. f[s[i]].my \in Nat /\ f[s[i]].val \in Sessions
    BY <2>3, RingAssumption DEF Objects
  <2>5. PICK n \in Lengths : f[s[i]].my = ObjSize + n
    BY <2>2 DEF Sizes
  <2>6. f[s[i]].my > ObjSize /\ f[s[i]].my <= FileSize - HdrSize
    BY <2>5, RingAssumption
  <2>7. s[i] \in Int
    BY <2>1, RingAssumption DEF Offsets
  <2> QED
    BY <2>1, <2>2, <2>3, <2>4, <2>6, <2>7
<1> QED
  BY <1>1, <1>2, <1>3

\* No two objects share a byte.
LEMMA RingDisjoint ==
  ASSUME NEW f \in Files, NEW hd, NEW s, NEW k, Ring(f, hd, s, k),
         NEW i \in 1 .. Len(s), NEW j \in 1 .. Len(s), i # j
  PROVE  s[i] + f[s[i]].my <= s[j] \/ s[j] + f[s[j]].my <= s[i]
<1>1. k \in 1 .. Len(s) /\ Len(s) \in Nat /\ s[i] \in Int /\ s[j] \in Int
      /\ f[s[i]].my \in Nat /\ f[s[j]].my \in Nat
  BY RingFacts
<1>2. \A a, b \in 1 .. Len(s) : a < b /\ (b <= k \/ k < a) => s[a] + f[s[a]].my <= s[b]
  BY DEF Ring, RingOrder, Ends
<1>3. \A a, b \in 1 .. Len(s) : a <= k /\ k < b => s[b] + f[s[b]].my <= s[a]
  BY DEF Ring, RingOrder, Ends
<1>4. CASE i < j
  BY <1>1, <1>2, <1>3, <1>4
<1>5. CASE j < i
  BY <1>1, <1>2, <1>3, <1>5
<1> QED
  BY <1>1, <1>4, <1>5

\* And so no offset comes twice.
LEMMA RingDistinct ==
  ASSUME NEW f \in Files, NEW hd, NEW s, NEW k, Ring(f, hd, s, k),
         NEW i \in 1 .. Len(s), NEW j \in 1 .. Len(s), i # j
  PROVE  s[i] # s[j]
<1>1. s[i] \in Int /\ s[j] \in Int /\ f[s[i]].my > 0 /\ f[s[j]].my > 0
      /\ f[s[i]].my \in Nat /\ f[s[j]].my \in Nat
  BY RingFacts, RingAssumption
<1> QED
  BY <1>1, RingDisjoint

\* A step of the walk comes to the next object, and fails no sanity check.
LEMMA OlderIs ==
  ASSUME NEW f \in Files, NEW hd, NEW s, NEW k, Ring(f, hd, s, k),
         NEW i \in 1 .. Len(s) - 1
  PROVE  /\ Older(f, hd, s[i]) = s[i + 1]
         /\ s[i] \notin {hd.tail, Nowhere}
         /\ s[i + 1] # Nowhere
<1> DEFINE n == Len(s)
<1>1. n \in Nat /\ i \in 1 .. n /\ i + 1 \in 1 .. n /\ n \in 1 .. n /\ k \in 1 .. n /\ i # n
  BY RingFacts
<1>2. s[i] \in Int /\ s[i] < FileSize /\ f[s[i]] # Junk /\ f[s[i]].my \in Nat
      /\ s[i] + f[s[i]].my <= FileSize
  BY <1>1, RingFacts, RingAssumption DEF Offsets
<1>3. s[i + 1] \in Int /\ s[i + 1] < FileSize /\ s[i + 1] >= HdrSize
  BY <1>1, RingFacts, RingAssumption DEF Offsets
<1>4. s[n] \in Int /\ f[s[n]].my \in Nat
  BY <1>1, RingFacts
<1>5. hd.tail = s[n] /\ s[i] # s[n]
  BY <1>1, RingDistinct DEF Ring, RingHeader
<1>6. CASE i = k
  <2>1. s[i] + f[s[i]].my = FileSize /\ hd.first = s[i + 1]
    BY <1>1, <1>6 DEF Ring, RingHeader, Ends
  <2> QED
    BY <2>1, <1>2, <1>3, <1>5, RingAssumption DEF Older, Nowhere
<1>7. CASE i # k
  <2>1. s[i + 1] = s[i] + f[s[i]].my
    BY <1>1, <1>7 DEF Ring, RingOrder, Ends
  <2>2. ~ (s[i] < s[n] /\ s[i + 1] > s[n])
    <3>1. CASE n <= k \/ k < i
      <4>1. i + 1 = n \/ s[i + 1] + f[s[i + 1]].my <= s[n]
        BY <1>1, <3>1 DEF Ring, RingOrder, Ends
      <4>2. f[s[i + 1]].my \in Nat
        BY <1>1, RingFacts
      <4> QED
        BY <4>1, <4>2, <1>3, <1>4
    <3>2. CASE i <= k /\ k < n
      <4>1. s[n] + f[s[n]].my <= s[i]
        BY <1>1, <3>2 DEF Ring, RingOrder, Ends
      <4> QED
        BY <4>1, <1>2, <1>4
    <3> QED
      BY <3>1, <3>2, <1>1
  <2> QED
    BY <2>1, <2>2, <1>2, <1>3, <1>5, RingAssumption DEF Older, Nowhere
<1> QED
  BY <1>6, <1>7
\* The objects have room in the file, each for a header at least, so that the
\* limit of the walk is not reached.
LEMMA RingHasRoom ==
  ASSUME NEW f \in Files, NEW hd, NEW s, NEW k, Ring(f, hd, s, k)
  PROVE  Len(s) <= MaxObjects
<1> DEFINE n == Len(s)
           A == (1 .. n) \X (0 .. ObjSize - 1)
           g == [x \in A |-> s[x[1]] + x[2]]
<1>1. n \in Nat /\ ObjSize \in Nat \ {0} /\ FileSize \in Nat
  BY RingFacts, RingAssumption
<1>2. IsFiniteSet(1 .. n) /\ Cardinality(1 .. n) = n
  BY <1>1, FS_Interval
<1>3. IsFiniteSet(0 .. ObjSize - 1) /\ Cardinality(0 .. ObjSize - 1) = ObjSize
  BY <1>1, FS_Interval
<1>4. IsFiniteSet(A) /\ Cardinality(A) = n * ObjSize
  BY <1>2, <1>3, FS_Product
<1>5. IsFiniteSet(Offsets) /\ Cardinality(Offsets) = FileSize
  <2>1. IsFiniteSet(0 .. FileSize - 1)
        /\ Cardinality(0 .. FileSize - 1) =
             IF 0 > FileSize - 1 THEN 0 ELSE (FileSize - 1) - 0 + 1
    BY <1>1, FS_Interval
  <2> QED
    BY <1>1, <2>1 DEF Offsets
<1>6. \A x \in A : g[x] \in Offsets
  <2> SUFFICES ASSUME NEW i \in 1 .. n, NEW b \in 0 .. ObjSize - 1
               PROVE  s[i] + b \in Offsets
    OBVIOUS
  <2>1. s[i] \in Int /\ s[i] >= HdrSize /\ f[s[i]].my > ObjSize
        /\ s[i] + f[s[i]].my <= FileSize /\ f[s[i]].my \in Nat
    BY RingFacts
  <2> QED
    BY <2>1, <1>1, RingAssumption DEF Offsets
<1>7. \A x, y \in A : g[x] = g[y] => x = y
  <2> SUFFICES ASSUME NEW i \in 1 .. n, NEW b \in 0 .. ObjSize - 1,
                      NEW j \in 1 .. n, NEW c \in 0 .. ObjSize - 1,
                      s[i] + b = s[j] + c
               PROVE  <<i, b>> = <<j, c>>
    BY SMT
  <2>1. s[i] \in Int /\ f[s[i]].my > ObjSize /\ f[s[i]].my \in Nat
        /\ s[j] \in Int /\ f[s[j]].my > ObjSize /\ f[s[j]].my \in Nat
    BY RingFacts
  <2>2. i = j
    <3>1. i # j => s[i] + f[s[i]].my <= s[j] \/ s[j] + f[s[j]].my <= s[i]
      BY RingDisjoint
    <3> QED
      BY <2>1, <1>1, <3>1
  <2> QED
    BY <2>1, <2>2, <1>1
<1>8. g \in Injection(A, Offsets)
  <2>1. g \in [A -> Offsets]
    BY <1>6
  <2> QED
    BY <2>1, <1>7 DEF Injection, IsInjective
<1>9. n * ObjSize <= FileSize
  BY <1>4, <1>5, <1>8, FS_Injection
<1> HIDE DEF n, A, g
<1>10. n <= FileSize \div ObjSize
  <2>1. FileSize \div ObjSize \in Int /\ FileSize < ObjSize * (FileSize \div ObjSize + 1)
    BY <1>1
  <2>2. CASE n > FileSize \div ObjSize
    <3> DEFINE q == FileSize \div ObjSize + 1
    <3>1. q \in Int /\ n >= q /\ FileSize < ObjSize * q
      BY <2>1, <2>2, <1>1
    <3> HIDE DEF q
    <3>2. n * ObjSize >= q * ObjSize
      BY <3>1, <1>1
    <3> QED
      BY <3>1, <3>2, <1>1, <1>9
  <2> QED
    BY <2>1, <2>2, <1>1
<1> QED
  BY <1>10 DEF MaxObjects, n

\* A search reads the objects of the ring in their order, all of them.
LEMMA PathIs ==
  ASSUME NEW f \in Files, NEW hd, NEW s, Geometry(f, hd, s)
  PROVE  Path(f, hd) = s
<1>1. CASE s = <<>> /\ hd = Empty
  BY <1>1 DEF Path, Empty
<1>2. ASSUME NEW k \in 1 .. Len(s), Ring(f, hd, s, k)
      PROVE  Path(f, hd) = s
  <2> DEFINE N == MaxObjects - 1
             G == Further(f, hd)
             w == CHOOSE v : v = [n \in 0 .. N |-> IF n = 0 THEN <<hd.head>> ELSE G[v[n - 1]]]
             upto(n) == SubSeq(s, 1, IF n < Len(s) THEN n + 1 ELSE Len(s))
  <2>1. s \in Seq(Offsets) /\ Len(s) \in Nat \ {0} /\ 1 \in 1 .. Len(s)
    BY <1>2, RingFacts
  <2>2. Len(s) <= MaxObjects /\ MaxObjects \in Int
    BY <1>2, RingHasRoom, RingAssumption DEF MaxObjects
  <2>3. N \in Nat
    BY <2>1, <2>2
  <2>4. w = [n \in 0 .. N |-> IF n = 0 THEN <<hd.head>> ELSE G[w[n - 1]]]
    <3> HIDE DEF N, G
    <3>1. \E v : Walk(v, N, G, hd.head)
      BY <2>3, WalkExists
    <3> QED
      BY <3>1, Zenon DEF Walk
  <2>5. w[0] = <<s[1]>>
    <3>1. w[0] = <<hd.head>>
      <4> HIDE DEF w, N, G
      <4> QED
        BY <2>3, <2>4
    <3> QED
      BY <3>1, <1>2 DEF Ring, RingHeader
  <2>6. \A n \in 1 .. N : w[n] = G[w[n - 1]]
    <3> HIDE DEF w, N, G
    <3> QED
      BY <2>3, <2>4
  <2>7. ASSUME NEW n \in Nat PROVE G[upto(n)] = upto(n + 1)
    <3> DEFINE t == upto(n)
               m == IF n < Len(s) THEN n + 1 ELSE Len(s)
    <3>1. m \in 1 .. Len(s) /\ t = SubSeq(s, 1, m)
      BY <2>1
    <3>2. t \in Seq(Offsets) /\ Len(t) = m /\ \A i \in 1 .. m : t[i] = s[i]
      BY <3>1, <2>1
    <3>3. t \in Seq(0 .. FileSize)
      BY <3>2, RingAssumption DEF Offsets
    <3>4. Last(t) = s[m]
      BY <3>1, <3>2 DEF Last
    <3> HIDE DEF t
    <3>5. G[t] = IF Last(t) \in {hd.tail, Nowhere} THEN t ELSE Append(t, Older(f, hd, Last(t)))
      BY <3>3 DEF Further
    <3>6. CASE m = Len(s)
      <4>1. Last(t) = hd.tail
        BY <3>4, <3>6, <1>2 DEF Ring, RingHeader
      <4>2. upto(n + 1) = upto(n)
        BY <3>6, <2>1
      <4> QED
        BY <4>1, <4>2, <3>5 DEF t
    <3>7. CASE m # Len(s)
      <4>1. m \in 1 .. Len(s) - 1 /\ m = n + 1
        BY <3>1, <3>7, <2>1
      <4>2. s[m] \notin {hd.tail, Nowhere} /\ Older(f, hd, s[m]) = s[m + 1]
        BY <4>1, <1>2, OlderIs
      <4>3. G[t] = Append(t, s[m + 1])
        BY <4>2, <3>4, <3>5
      <4>4. upto(n + 1) = SubSeq(s, 1, m + 1)
        BY <4>1, <2>1
      <4>5. Append(SubSeq(s, 1, m), s[m + 1]) = SubSeq(s, 1, m + 1)
        BY <4>1, <2>1
      <4> QED
        BY <4>3, <4>4, <4>5, <3>1 
    <3> QED
      BY <3>6, <3>7
  <2>8. upto(0) = <<s[1]>>
    <3>1. upto(0) = SubSeq(s, 1, 1)
      BY <2>1
    <3> HIDE DEF upto
    <3> QED
      BY <2>1, <3>1
  <2> DEFINE T == {n \in Nat : n <= N /\ w[n] # upto(n)}
  <2>9. T = {}
    <3> SUFFICES ASSUME T # {} PROVE FALSE
      OBVIOUS
    <3>1. T \in SUBSET Nat
      OBVIOUS
    <3> HIDE DEF N, G, w, upto
    <3>2. PICK n \in T : \A y \in T : n <= y
      <4> HIDE DEF T
      <4> QED
        BY <3>1, Least
    <3>3. n # 0
      BY <2>5, <2>8
    <3>4. n - 1 \in Nat /\ n - 1 <= N /\ n \in 1 .. N
      BY <3>3, <2>3
    <3>5. n - 1 \notin T
      <4>1. n \in Nat
        OBVIOUS
      <4> HIDE DEF T
      <4> QED
        BY <3>2, <4>1
    <3>6. w[n - 1] = upto(n - 1)
      BY <3>4, <3>5
    <3>7. w[n] = G[upto(n - 1)]
      BY <3>4, <3>6, <2>6
    <3>8. G[upto(n - 1)] = upto(n)
      <4>1. G[upto(n - 1)] = upto((n - 1) + 1)
        BY <3>4, <2>7
      <4> QED
        BY <4>1
    <3> QED
      BY <3>7, <3>8
  <2>10. w[N] = upto(N)
    <3> HIDE DEF N, w, upto
    <3> QED
      BY <2>3, <2>9
  <2>11. upto(N) = s
    <3>1. upto(N) = SubSeq(s, 1, Len(s))
      BY <2>1, <2>2
    <3> HIDE DEF upto, N
    <3>2. SubSeq(s, 1, Len(s)) = s
      BY <2>1
    <3> QED
      BY <3>1, <3>2
  <2>12. ~ (hd.head = 0 /\ hd.tail = 0)
    <3>1. hd.head = s[1] /\ s[1] \in Int /\ s[1] >= HdrSize
      BY <1>2, <2>1, RingFacts DEF Ring, RingHeader
    <3> QED
      BY <3>1, RingAssumption
  <2>13. Path(f, hd) = w[N]
    BY <2>12, Zenon DEF Path
  <2> QED
    BY <2>10, <2>11, <2>13
<1> QED
  BY <1>1, <1>2 DEF Geometry

-----------------------------------------------------------------------------
(* What the operations on the file do to the ring.                         *)

\* A ring depends on the sizes its objects have in the file, and on the sizes
\* each but the newest keeps of the object after it.
LEMMA RingKeep ==
  ASSUME NEW f, NEW g, NEW hd, NEW s, NEW k, Ring(f, hd, s, k),
         \A i \in 1 .. Len(s) : g[s[i]] # Junk /\ g[s[i]].my = f[s[i]].my,
         \A i \in 1 .. Len(s) : i > 1 => g[s[i]].prev = f[s[i]].prev
  PROVE  Ring(g, hd, s, k)
<1>1. s \in Seq(Offsets) /\ s # <<>> /\ k \in 1 .. Len(s)
  BY DEF Ring, RingObjects
<1>2. \A i \in 1 .. Len(s) : Ends(g, s, i) = Ends(f, s, i)
  BY DEF Ends
<1>3. \A i \in 1 .. Len(s) - 1 : i \in 1 .. Len(s) /\ i + 1 \in 1 .. Len(s) /\ i + 1 > 1
  BY <1>1
<1>4. RingObjects(g, s)
  <2>1. \A i \in 1 .. Len(s) : g[s[i]] # Junk /\ g[s[i]].my \in Sizes
                               /\ s[i] >= HdrSize /\ Ends(g, s, i) <= FileSize
    BY <1>2 DEF Ring, RingObjects
  <2>2. \A i \in 1 .. Len(s) - 1 : g[s[i + 1]].prev = g[s[i]].my
    BY <1>3 DEF Ring, RingObjects
  <2> QED
    BY <1>1, <2>1, <2>2 DEF RingObjects
<1>5. RingOrder(g, s, k)
  BY <1>2, <1>3, Zenon DEF Ring, RingOrder
<1>6. RingHeader(g, hd, s, k)
  BY <1>1, <1>2 DEF Ring, RingHeader
<1> QED
  BY <1>1, <1>4, <1>5, <1>6 DEF Ring

\* The same of a file that may be empty.
LEMMA GeometryKeep ==
  ASSUME NEW f, NEW g, NEW hd, NEW s, Geometry(f, hd, s),
         \A i \in 1 .. Len(s) : g[s[i]] # Junk /\ g[s[i]].my = f[s[i]].my,
         \A i \in 1 .. Len(s) : i > 1 => g[s[i]].prev = f[s[i]].prev
  PROVE  Geometry(g, hd, s)
<1>1. CASE s = <<>> /\ hd = Empty
  BY <1>1 DEF Geometry
<1>2. CASE \E k \in 1 .. Len(s) : Ring(f, hd, s, k)
  <2>1. PICK k \in 1 .. Len(s) : Ring(f, hd, s, k)
    BY <1>2
  <2>2. Ring(g, hd, s, k)
    BY <2>1, RingKeep
  <2> QED
    BY <2>2 DEF Geometry
<1> QED
  BY <1>1, <1>2 DEF Geometry

\* A ring that is not empty: the header is not that of an empty file, and its
\* fields can be trusted.
LEMMA RingHeaderFacts ==
  ASSUME NEW f \in Files, NEW hd, NEW s, NEW k, Ring(f, hd, s, k)
  PROVE  /\ hd.head = s[1] /\ hd.tail = s[Len(s)] /\ hd.head \in Int /\ hd.tail \in Int
         /\ hd.head >= HdrSize /\ hd.tail >= HdrSize
         /\ hd.first \in Int /\ hd.first <= hd.head /\ hd.first <= hd.tail
         /\ hd.head <= hd.tail <=> k = Len(s)
         /\ \A j \in 1 .. Len(s) : k = Len(s) \/ j > k =>
              s[j] + f[s[j]].my <= hd.tail + f[hd.tail].my
<1> DEFINE n == Len(s)
<1>1. n \in Nat /\ k \in 1 .. n /\ 1 \in 1 .. n /\ n \in 1 .. n
  BY RingFacts
<1>2. hd.head = s[1] /\ hd.tail = s[n]
  BY DEF Ring, RingHeader
<1>3. s[1] \in Int /\ s[n] \in Int /\ s[1] >= HdrSize /\ s[n] >= HdrSize /\ f[s[n]].my \in Nat
      /\ f[s[1]].my \in Nat /\ f[s[n]].my > 0
  BY <1>1, RingFacts, RingAssumption
<1>4. CASE k = n
  <2>1. hd.first = 0
    BY <1>4 DEF Ring, RingHeader
  <2>2. s[1] <= s[n]
    <3>1. n = 1 \/ s[1] + f[s[1]].my <= s[n]
      BY <1>1, <1>4 DEF Ring, RingOrder, Ends
    <3> QED
      BY <1>3, <3>1
  <2>3. \A j \in 1 .. n : s[j] + f[s[j]].my <= s[n] + f[s[n]].my
    <3> TAKE j \in 1 .. n
    <3>1. j = n \/ s[j] + f[s[j]].my <= s[n]
      BY <1>1, <1>4 DEF Ring, RingOrder, Ends
    <3>2. s[j] \in Int /\ f[s[j]].my \in Nat
      BY RingFacts
    <3> QED
      BY <1>3, <3>1, <3>2
  <2> QED
    BY <1>2, <1>3, <1>4, <2>1, <2>2, <2>3, RingAssumption
<1>5. CASE k < n
  <2>1. hd.first = s[k + 1] /\ k + 1 \in 1 .. n
    BY <1>1, <1>5 DEF Ring, RingHeader
  <2>2. s[k + 1] \in Int /\ f[s[k + 1]].my \in Nat
    BY <2>1, RingFacts
  <2>3. s[k + 1] <= s[n]
    <3>1. k + 1 = n \/ s[k + 1] + f[s[k + 1]].my <= s[n]
      BY <1>1, <1>5, <2>1 DEF Ring, RingOrder, Ends
    <3> QED
      BY <1>3, <2>2, <3>1
  <2>4. s[n] + f[s[n]].my <= s[1]
    BY <1>1, <1>5 DEF Ring, RingOrder, Ends
  <2>5. \A j \in 1 .. n : j > k => s[j] + f[s[j]].my <= s[n] + f[s[n]].my
    <3> SUFFICES ASSUME NEW j \in 1 .. n, j > k
                 PROVE  s[j] + f[s[j]].my <= s[n] + f[s[n]].my
      OBVIOUS
    <3>1. j = n \/ s[j] + f[s[j]].my <= s[n]
      BY <1>1, <1>5 DEF Ring, RingOrder, Ends
    <3>2. s[j] \in Int /\ f[s[j]].my \in Nat
      BY RingFacts
    <3> QED
      BY <1>3, <3>1, <3>2
  <2> QED
    BY <1>1, <1>2, <1>3, <1>5, <2>1, <2>2, <2>3, <2>4, <2>5
<1> QED
  BY <1>1, <1>4, <1>5

\* All objects but the oldest are laid out as before.
LEMMA RingFront ==
  ASSUME NEW f \in Files, NEW hd, NEW s, NEW k, Ring(f, hd, s, k), Len(s) > 1,
         NEW j \in 1 .. Len(s) - 1, j = k \/ (k = Len(s) /\ j = k - 1)
  PROVE  /\ RingObjects(f, SubSeq(s, 1, Len(s) - 1))
         /\ RingOrder(f, SubSeq(s, 1, Len(s) - 1), j)
         /\ Len(SubSeq(s, 1, Len(s) - 1)) = Len(s) - 1
         /\ \A i \in 1 .. Len(s) - 1 : SubSeq(s, 1, Len(s) - 1)[i] = s[i]
<1>0. PICK t : t = SubSeq(s, 1, Len(s) - 1)
  OBVIOUS
<1>1. PICK n \in Nat : n = Len(s) /\ n > 1 /\ k \in 1 .. n /\ s \in Seq(Offsets)
  BY RingFacts
<1>2. Len(t) = n - 1 /\ t \in Seq(Offsets) /\ t # <<>>
  <2>1. t = SubSeq(s, 1, n - 1)
    BY <1>0, <1>1
  <2>2. SubSeq(s, 1, n - 1) \in Seq(Offsets) /\ Len(SubSeq(s, 1, n - 1)) = n - 1
    BY <1>1
  <2>3. Len(t) = n - 1 /\ t \in Seq(Offsets)
    BY <2>1, <2>2
  <2>4. Len(t) # 0
    BY <2>3, <1>1
  <2> QED
    BY <2>3, <2>4
<1>3. \A i \in 1 .. n - 1 : t[i] = s[i] /\ i \in 1 .. n
  BY <1>0, <1>1
<1>4. \A i \in 1 .. n - 1 : Ends(f, t, i) = Ends(f, s, i)
  BY <1>3 DEF Ends
<1>6. RingObjects(f, t)
  <2>1. \A i \in 1 .. n - 1 : f[t[i]] # Junk /\ f[t[i]].my \in Sizes
                              /\ t[i] >= HdrSize /\ Ends(f, t, i) <= FileSize
    BY <1>1, <1>3, <1>4 DEF Ring, RingObjects
  <2>2. ASSUME NEW i \in 1 .. (n - 1) - 1 PROVE f[t[i + 1]].prev = f[t[i]].my
    <3>1. i \in 1 .. n - 1 /\ i + 1 \in 1 .. n - 1
      BY <1>1
    <3>2. f[s[i + 1]].prev = f[s[i]].my
      BY <1>1, <3>1 DEF Ring, RingObjects
    <3> QED
      BY <3>1, <3>2, <1>3
  <2> QED
    BY <1>2, <2>1, <2>2 DEF RingObjects
<1>7. RingOrder(f, t, j)
  <2>1. ASSUME NEW a \in 1 .. n - 1, NEW b \in 1 .. n - 1, a < b, b <= j \/ j < a
        PROVE  Ends(f, t, a) <= t[b]
    <3>1. b <= k \/ k < a
      BY <1>1, <2>1
    <3>2. Ends(f, s, a) <= s[b]
      BY <1>1, <1>3, <2>1, <3>1 DEF Ring, RingOrder
    <3> QED
      BY <1>3, <1>4, <3>2
  <2>2. ASSUME NEW a \in 1 .. n - 1, NEW b \in 1 .. n - 1, a <= j, j < b
        PROVE  Ends(f, t, b) <= t[a]
    <3>1. a <= k /\ k < b
      BY <1>1, <2>2
    <3>2. Ends(f, s, b) <= s[a]
      BY <1>1, <1>3, <2>2, <3>1 DEF Ring, RingOrder
    <3> QED
      BY <1>3, <1>4, <3>2
  <2>3. ASSUME NEW i \in 1 .. (n - 1) - 1, i # j PROVE t[i + 1] = Ends(f, t, i)
    <3>1. i \in 1 .. n - 1 /\ i + 1 \in 1 .. n - 1 /\ i # k
      BY <1>1, <2>3
    <3>2. s[i + 1] = Ends(f, s, i)
      BY <1>1, <3>1 DEF Ring, RingOrder
    <3> QED
      BY <3>1, <3>2, <1>3, <1>4
  <2> QED
    BY <1>2, <2>1, <2>2, <2>3 DEF RingOrder
<1> QED
  BY <1>0, <1>1, <1>2, <1>3, <1>6, <1>7

\* The header that doadd() writes when it drops the oldest object.
PopHeader(f, hd) ==
  LET p == f[hd.tail].prev
  IN  IF HdrSize + p <= hd.tail THEN [hd EXCEPT !.tail = hd.tail - p]
      ELSE [hd EXCEPT !.tail = FileSize - p, !.first = 0]

\* Dropping the oldest object: its size of the object after it leads there,
\* and if that would be below the first object then the oldest one is the
\* first, and the other the last of the file.
LEMMA RingPop ==
  ASSUME NEW f \in Files, NEW hd \in Headers, NEW s, NEW k, Ring(f, hd, s, k), Len(s) > 1,
         NEW j \in 1 .. Len(s) - 1, j = k \/ (k = Len(s) /\ j = k - 1)
  PROVE  /\ Ring(f, PopHeader(f, hd), SubSeq(s, 1, Len(s) - 1), j)
         /\ HdrSize + f[hd.tail].prev > hd.tail <=> k = Len(s) - 1
         /\ k = Len(s) - 1 => hd.tail = hd.first
         /\ f[hd.tail].prev \in Sizes
         /\ PopHeader(f, hd) \in Headers
<1>1. PICK n \in Nat : n = Len(s) /\ n > 1 /\ k \in 1 .. n /\ s \in Seq(Offsets)
      /\ n - 1 \in 1 .. n - 1
  BY RingFacts
<1> DEFINE p == f[hd.tail].prev
           t == SubSeq(s, 1, n - 1)
           g == PopHeader(f, hd)
<1>2. RingObjects(f, t) /\ RingOrder(f, t, j) /\ Len(t) = n - 1
      /\ \A i \in 1 .. n - 1 : t[i] = s[i]
  <2>1. /\ RingObjects(f, SubSeq(s, 1, Len(s) - 1))
        /\ RingOrder(f, SubSeq(s, 1, Len(s) - 1), j)
        /\ Len(SubSeq(s, 1, Len(s) - 1)) = Len(s) - 1
        /\ \A i \in 1 .. Len(s) - 1 : SubSeq(s, 1, Len(s) - 1)[i] = s[i]
    BY RingFront
  <2> QED
    BY <1>1, <2>1
<1>3. hd.tail = s[n] /\ hd.head = s[1]
  BY <1>1 DEF Ring, RingHeader
<1>4. n - 1 \in 1 .. Len(s) - 1 /\ (n - 1) + 1 = n /\ n - 1 \in 1 .. Len(s) /\ n \in 1 .. Len(s)
  BY <1>1
<1>5. p = f[s[n - 1]].my
  BY <1>3, <1>4 DEF Ring, RingObjects
<1>6. s[n - 1] \in Int /\ s[n - 1] \in Offsets /\ s[n - 1] >= HdrSize /\ p \in Nat /\ p \in Sizes
      /\ s[n] \in Int
  BY <1>4, <1>5, RingFacts
<1>7. hd = [head |-> hd.head, tail |-> hd.tail, first |-> hd.first] /\ hd.first \in Offsets
      /\ 0 \in Offsets
  BY RingAssumption DEF Headers, Offsets
<1> HIDE DEF p, t, g
<1>8. CASE k # n - 1
  <2>1. s[n] = s[n - 1] + p
    <3>1. s[(n - 1) + 1] = Ends(f, s, n - 1)
      BY <1>4, <1>8 DEF Ring, RingOrder
    <3> QED
      BY <3>1, <1>4, <1>5 DEF Ends
  <2>2. HdrSize + p <= hd.tail /\ hd.tail - p = s[n - 1]
    BY <2>1, <1>3, <1>6, RingAssumption
  <2>3. g = [head |-> hd.head, tail |-> s[n - 1], first |-> hd.first]
    BY <2>2, <1>7 DEF PopHeader, p, g
  <2>4. g \in Headers
    BY <2>3, <1>6 DEF Headers
  <2>5. g.head = t[1] /\ g.tail = t[n - 1] /\ g.first = hd.first
    BY <2>3, <1>1, <1>2, <1>3
  <2>6. j = n - 1 => g.first = 0
    BY <1>1, <1>8, <2>5 DEF Ring, RingHeader
  <2>7. ASSUME j < n - 1
        PROVE  Ends(f, t, j) = FileSize /\ g.first = t[j + 1] /\ g.first < HdrSize + f[t[j]].my
    <3>1. j = k /\ j \in 1 .. n - 1 /\ j + 1 \in 1 .. n - 1 /\ k < Len(s)
      BY <2>7, <1>1
    <3>2. Ends(f, s, k) = FileSize /\ hd.first = s[k + 1] /\ hd.first < HdrSize + f[s[k]].my
      BY <3>1 DEF Ring, RingHeader
    <3>3. t[j] = s[k] /\ t[j + 1] = s[k + 1]
      BY <3>1, <1>2
    <3> QED
      BY <3>2, <3>3, <2>5 DEF Ends
  <2>8. RingHeader(f, g, t, j)
    BY <2>5, <2>6, <2>7, <1>2 DEF RingHeader
  <2>9. Ring(f, g, t, j)
    BY <2>8, <1>1, <1>2 DEF Ring
  <2>10. ~ (HdrSize + p > hd.tail)
    BY <2>2, <1>3, <1>6, RingAssumption
  <2> QED
    BY <2>4, <2>9, <2>10, <1>1, <1>6, <1>8 DEF p, t, g
<1>9. CASE k = n - 1
  <2>1. Ends(f, s, k) = FileSize /\ hd.first = s[n] /\ hd.first < HdrSize + p
    BY <1>9, <1>1, <1>4, <1>5 DEF Ring, RingHeader
  <2>2. HdrSize + p > hd.tail /\ hd.tail = hd.first /\ FileSize - p = s[n - 1]
    <3>1. s[n - 1] + p = FileSize
      BY <2>1, <1>5, <1>9 DEF Ends
    <3> QED
      BY <3>1, <2>1, <1>3, <1>6, RingAssumption
  <2>3. g = [head |-> hd.head, tail |-> s[n - 1], first |-> 0]
    <3>1. ~ (HdrSize + p <= hd.tail)
      BY <2>2, <1>3, <1>6, RingAssumption
    <3> QED
      BY <2>2, <3>1, <1>7 DEF PopHeader, p, g
  <2>4. g \in Headers
    BY <2>3, <1>6, <1>7 DEF Headers
  <2>5. g.head = t[1] /\ g.tail = t[n - 1] /\ g.first = 0 /\ j = n - 1
    BY <2>3, <1>1, <1>2, <1>3, <1>9
  <2>8. RingHeader(f, g, t, j)
    BY <2>5, <1>1, <1>2 DEF RingHeader
  <2>9. Ring(f, g, t, j)
    BY <2>8, <1>1, <1>2 DEF Ring
  <2> QED
    BY <2>2, <2>4, <2>9, <1>1, <1>6, <1>9 DEF p, t, g
<1> QED
  BY <1>8, <1>9

\* An object at p, written before the newest, at the end of a file whose
\* beginning is full, or before the newest of a ring that goes round.
Precedes(f, hd, s, k, p) ==
  /\ p \in Offsets /\ p >= HdrSize /\ p + f[p].my <= FileSize
  /\ f[p] # Junk /\ f[p].my \in Sizes
  /\ f[s[1]].prev = f[p].my
  /\ \/ p + f[p].my = hd.head /\ (k < Len(s) => hd.tail + f[hd.tail].my <= p)
     \/ /\ k = Len(s) /\ hd.tail + f[hd.tail].my <= p
        /\ p + f[p].my = FileSize /\ hd.head < HdrSize + f[p].my
Goes(f, hd, p) == p + f[p].my = hd.head    \* right before the newest

\* The objects, with one in front of them.
LEMMA RingCons ==
  ASSUME NEW f \in Files, NEW hd, NEW s, NEW k, Ring(f, hd, s, k),
         NEW p, Precedes(f, hd, s, k, p),
         NEW j, j = IF Goes(f, hd, p) THEN k + 1 ELSE 1
  PROVE  /\ RingObjects(f, <<p>> \o s)
         /\ RingOrder(f, <<p>> \o s, j)
         /\ Len(<<p>> \o s) = Len(s) + 1
         /\ (<<p>> \o s)[1] = p
         /\ \A i \in 1 .. Len(s) : (<<p>> \o s)[i + 1] = s[i]
<1>0. PICK t : t = <<p>> \o s
  OBVIOUS
<1>1. PICK m \in Nat : m = Len(s) /\ m > 0 /\ k \in 1 .. m /\ s \in Seq(Offsets)
      /\ 1 \in 1 .. m /\ m \in 1 .. m
  BY RingFacts
<1>2. p \in Offsets /\ p \in Int /\ f[p].my \in Sizes /\ f[p].my \in Int
      /\ p >= HdrSize /\ p + f[p].my <= FileSize /\ f[p] # Junk
      /\ f[s[1]].prev = f[p].my
  <2>1. \A n \in Sizes : n \in Int
    BY RingAssumption DEF Sizes
  <2> QED
    BY <2>1, RingAssumption DEF Precedes, Offsets
<1>3. t \in Seq(Offsets) /\ Len(t) = m + 1 /\ t[1] = p
      /\ \A i \in 2 .. m + 1 : t[i] = s[i - 1] /\ i - 1 \in 1 .. m
  BY <1>0, <1>1, <1>2
<1>4. t # <<>>
  BY <1>3, <1>1
<1>5. Ends(f, t, 1) = p + f[p].my /\ \A i \in 2 .. m + 1 : Ends(f, t, i) = Ends(f, s, i - 1)
  BY <1>3 DEF Ends
<1>6. \A i \in 1 .. m : s[i] \in Int /\ f[s[i]].my \in Nat /\ f[s[i]] # Junk
        /\ f[s[i]].my \in Sizes /\ s[i] >= HdrSize /\ Ends(f, s, i) <= FileSize
  BY <1>1, RingFacts DEF Ends
<1>7. \A i \in 1 .. m + 1 : i = 1 \/ i \in 2 .. m + 1
  BY <1>1
<1>8. RingObjects(f, t)
  <2>1. \A i \in 1 .. m + 1 : f[t[i]] # Junk /\ f[t[i]].my \in Sizes
                              /\ t[i] >= HdrSize /\ Ends(f, t, i) <= FileSize
    BY <1>2, <1>3, <1>5, <1>6, <1>7
  <2>2. ASSUME NEW i \in 1 .. (m + 1) - 1 PROVE f[t[i + 1]].prev = f[t[i]].my
    <3>1. t[i + 1] = s[i] /\ i \in 1 .. m
      <4>1. i + 1 \in 2 .. m + 1 /\ (i + 1) - 1 = i
        BY <1>1
      <4> QED
        BY <4>1, <1>3
    <3>2. CASE i = 1
      BY <3>1, <3>2, <1>2, <1>3
    <3>3. CASE i # 1
      <4>1. i - 1 \in 1 .. Len(s) - 1 /\ (i - 1) + 1 = i /\ i \in 2 .. m + 1
        BY <3>3, <1>1
      <4>2. f[s[i]].prev = f[s[i - 1]].my
        BY <4>1 DEF Ring, RingObjects
      <4> QED
        BY <4>1, <4>2, <3>1, <1>3
    <3> QED
      BY <3>2, <3>3
  <2> QED
    BY <1>3, <1>4, <2>1, <2>2 DEF RingObjects
<1>9. CASE Goes(f, hd, p)
  <2>1. j = k + 1 /\ p + f[p].my = s[1]
        /\ (k < m => hd.tail + f[hd.tail].my <= p)
    <3>1. j = k + 1 /\ p + f[p].my = hd.head
      BY <1>9 DEF Goes
    <3>2. hd.head = s[1]
      BY DEF Ring, RingHeader
    <3>3. k < m => hd.tail + f[hd.tail].my <= p
      <4>1. k = Len(s) => ~ (k < m)
        BY <1>1
      <4> QED
        BY <4>1, <1>1 DEF Precedes
    <3> QED
      BY <3>1, <3>2, <3>3
  <2>2. ASSUME NEW a \in 1 .. m + 1, NEW b \in 1 .. m + 1, a < b, b <= j \/ j < a
        PROVE  Ends(f, t, a) <= t[b]
    <3>1. b \in 2 .. m + 1 /\ b - 1 \in 1 .. m /\ t[b] = s[b - 1]
      BY <2>2, <1>1, <1>3
    <3>2. CASE a = 1
      <4>1. b - 1 <= k
        BY <1>1, <2>1, <2>2, <3>1, <3>2
      <4>2. b - 1 = 1 \/ Ends(f, s, 1) <= s[b - 1]
        BY <1>1, <3>1, <4>1 DEF Ring, RingOrder
      <4>3. s[1] <= s[b - 1]
        BY <4>2, <1>1, <1>6, <3>1 DEF Ends
      <4> QED
        BY <4>3, <3>1, <3>2, <2>1, <1>5
    <3>3. CASE a # 1
      <4>1. a \in 2 .. m + 1 /\ a - 1 \in 1 .. m /\ a - 1 < b - 1
            /\ (b - 1 <= k \/ k < a - 1)
        BY <1>1, <2>1, <2>2, <3>3
      <4>2. Ends(f, s, a - 1) <= s[b - 1]
        BY <1>1, <3>1, <4>1 DEF Ring, RingOrder
      <4> QED
        BY <4>1, <4>2, <3>1, <1>5
    <3> QED
      BY <3>2, <3>3
  <2>3. ASSUME NEW a \in 1 .. m + 1, NEW b \in 1 .. m + 1, a <= j, j < b
        PROVE  Ends(f, t, b) <= t[a]
    <3>1. b \in 2 .. m + 1 /\ b - 1 \in 1 .. m /\ b - 1 > k /\ k < m
      BY <2>1, <2>3, <1>1
    <3>2. CASE a = 1
      <4>1. s[b - 1] + f[s[b - 1]].my <= hd.tail + f[hd.tail].my
        BY <1>1, <3>1, RingHeaderFacts
      <4>2. hd.tail \in Int /\ f[hd.tail].my \in Int
        <5>1. hd.tail = s[m]
          BY <1>1 DEF Ring, RingHeader
        <5> QED
          BY <5>1, <1>1, <1>6
      <4>3. Ends(f, t, b) = Ends(f, s, b - 1) /\ t[a] = p
        BY <3>1, <3>2, <1>3, <1>5
      <4>4. Ends(f, s, b - 1) = s[b - 1] + f[s[b - 1]].my
        BY DEF Ends
      <4>5. hd.tail + f[hd.tail].my <= p
        BY <2>1, <3>1
      <4> QED
        BY <4>1, <4>2, <4>3, <4>4, <4>5, <3>1, <1>2, <1>6
    <3>3. CASE a # 1
      <4>1. a \in 2 .. m + 1 /\ a - 1 \in 1 .. m /\ a - 1 <= k /\ k < b - 1
        BY <1>1, <2>1, <2>3, <3>1, <3>3
      <4>2. Ends(f, s, b - 1) <= s[a - 1]
        BY <1>1, <3>1, <4>1 DEF Ring, RingOrder
      <4> QED
        BY <4>1, <4>2, <3>1, <1>3, <1>5
    <3> QED
      BY <3>2, <3>3
  <2>4. ASSUME NEW i \in 1 .. (m + 1) - 1, i # j PROVE t[i + 1] = Ends(f, t, i)
    <3>1. i + 1 \in 2 .. m + 1 /\ t[i + 1] = s[i]
      <4>1. i + 1 \in 2 .. m + 1 /\ (i + 1) - 1 = i
        BY <1>1
      <4> QED
        BY <4>1, <1>3
    <3>2. CASE i = 1
      BY <3>1, <3>2, <2>1, <1>5
    <3>3. CASE i # 1
      <4>1. i \in 2 .. m + 1 /\ i - 1 \in 1 .. Len(s) - 1 /\ i - 1 # k /\ (i - 1) + 1 = i
        BY <1>1, <2>1, <2>4, <3>3
      <4>2. s[i] = Ends(f, s, i - 1)
        BY <4>1 DEF Ring, RingOrder
      <4> QED
        BY <3>1, <4>1, <4>2, <1>5
    <3> QED
      BY <3>2, <3>3
  <2>5. RingOrder(f, t, j)
    BY <1>3, <2>2, <2>3, <2>4 DEF RingOrder
  <2> QED
    BY <1>0, <1>1, <1>3, <1>8, <2>5
<1>10. CASE ~ Goes(f, hd, p)
  <2>1. j = 1 /\ k = m /\ hd.tail + f[hd.tail].my <= p
    <3>1. j = 1
      BY <1>10
    <3>2. k = Len(s) /\ hd.tail + f[hd.tail].my <= p
      BY <1>10 DEF Goes, Precedes
    <3> QED
      BY <3>1, <3>2, <1>1
  <2>2. ASSUME NEW a \in 1 .. m + 1, NEW b \in 1 .. m + 1, a < b, b <= j \/ j < a
        PROVE  Ends(f, t, a) <= t[b]
    <3>1. b \in 2 .. m + 1 /\ b - 1 \in 1 .. m /\ a \in 2 .. m + 1 /\ a - 1 \in 1 .. m
          /\ a - 1 < b - 1 /\ b - 1 <= k
      BY <2>1, <2>2, <1>1
    <3>2. Ends(f, s, a - 1) <= s[b - 1]
      BY <1>1, <3>1 DEF Ring, RingOrder
    <3> QED
      BY <3>1, <3>2, <1>3, <1>5
  <2>3. ASSUME NEW a \in 1 .. m + 1, NEW b \in 1 .. m + 1, a <= j, j < b
        PROVE  Ends(f, t, b) <= t[a]
    <3>1. b \in 2 .. m + 1 /\ b - 1 \in 1 .. m /\ a = 1
      BY <2>1, <2>3, <1>1
    <3>2. s[b - 1] + f[s[b - 1]].my <= hd.tail + f[hd.tail].my
      BY <1>1, <2>1, <3>1, RingHeaderFacts
    <3>3. hd.tail \in Int /\ f[hd.tail].my \in Int
      <4>1. hd.tail = s[m]
        BY <1>1 DEF Ring, RingHeader
      <4> QED
        BY <4>1, <1>1, <1>6
    <3>4. Ends(f, t, b) = Ends(f, s, b - 1) /\ t[a] = p
      BY <3>1, <1>3, <1>5
    <3>5. Ends(f, s, b - 1) = s[b - 1] + f[s[b - 1]].my
      BY DEF Ends
    <3> QED
      BY <3>1, <3>2, <3>3, <3>4, <3>5, <2>1, <1>2, <1>6
  <2>4. ASSUME NEW i \in 1 .. (m + 1) - 1, i # j PROVE t[i + 1] = Ends(f, t, i)
    <3>1. i + 1 \in 2 .. m + 1 /\ t[i + 1] = s[i]
      <4>1. i + 1 \in 2 .. m + 1 /\ (i + 1) - 1 = i
        BY <1>1
      <4> QED
        BY <4>1, <1>3
    <3>2. i \in 2 .. m + 1 /\ i - 1 \in 1 .. Len(s) - 1 /\ i - 1 # k /\ (i - 1) + 1 = i
      BY <1>1, <2>1, <2>4
    <3>3. s[i] = Ends(f, s, i - 1)
      BY <3>2 DEF Ring, RingOrder
    <3> QED
      BY <3>1, <3>2, <3>3, <1>5
  <2>5. RingOrder(f, t, j)
    BY <1>3, <2>2, <2>3, <2>4 DEF RingOrder
  <2> QED
    BY <1>0, <1>1, <1>3, <1>8, <2>5
<1> QED
  BY <1>9, <1>10

\* The ring with the object in front of it, and the header for it.
LEMMA RingPush ==
  ASSUME NEW f \in Files, NEW hd, NEW s, NEW k, Ring(f, hd, s, k),
         NEW p, Precedes(f, hd, s, k, p),
         NEW g, g.head = p, g.tail = hd.tail,
         g.first = IF Goes(f, hd, p) THEN hd.first ELSE hd.head
  PROVE  Geometry(f, g, <<p>> \o s)
<1>0. PICK t : t = <<p>> \o s
  OBVIOUS
<1>j. PICK j : j = IF Goes(f, hd, p) THEN k + 1 ELSE 1
  OBVIOUS
<1>1. PICK m \in Nat : m = Len(s) /\ m > 0 /\ k \in 1 .. m /\ 1 \in 1 .. m /\ m \in 1 .. m
  BY RingFacts
<1>2. RingObjects(f, t) /\ RingOrder(f, t, j) /\ Len(t) = m + 1 /\ t[1] = p
      /\ \A i \in 1 .. m : t[i + 1] = s[i]
  <2>1. /\ RingObjects(f, <<p>> \o s)
        /\ RingOrder(f, <<p>> \o s, j)
        /\ Len(<<p>> \o s) = Len(s) + 1
        /\ (<<p>> \o s)[1] = p
        /\ \A i \in 1 .. Len(s) : (<<p>> \o s)[i + 1] = s[i]
    BY <1>j, RingCons
  <2> QED
    BY <1>0, <1>1, <2>1
<1>3. hd.head = s[1] /\ hd.tail = s[m] /\ (k = m => hd.first = 0)
      /\ (k < m => Ends(f, s, k) = FileSize /\ hd.first = s[k + 1] /\ hd.first < HdrSize + f[s[k]].my)
  BY <1>1 DEF Ring, RingHeader
<1>4. g.tail = t[m + 1]
  BY <1>1, <1>2, <1>3
<1>5. j \in 1 .. m + 1
  BY <1>1, <1>j
<1>6. CASE Goes(f, hd, p)
  <2>1. j = k + 1 /\ g.first = hd.first
    BY <1>6, <1>j
  <2>2. j = m + 1 => g.first = 0
    BY <2>1, <1>1, <1>3
  <2>3. ASSUME j < m + 1
        PROVE  Ends(f, t, j) = FileSize /\ g.first = t[j + 1] /\ g.first < HdrSize + f[t[j]].my
    <3>1. k < m /\ k \in 1 .. m /\ k + 1 \in 1 .. m
      BY <2>1, <2>3, <1>1
    <3>2. t[j] = s[k] /\ t[j + 1] = s[k + 1]
      BY <3>1, <2>1, <1>2
    <3> QED
      BY <3>1, <3>2, <2>1, <1>3 DEF Ends
  <2>4. RingHeader(f, g, t, j)
    BY <2>2, <2>3, <1>2, <1>4 DEF RingHeader
  <2>5. Ring(f, g, t, j)
    BY <2>4, <1>2, <1>5 DEF Ring
  <2> QED
    BY <2>5, <1>0, <1>2, <1>5 DEF Geometry
<1>7. CASE ~ Goes(f, hd, p)
  <2>1. j = 1 /\ g.first = s[1]
    BY <1>7, <1>j, <1>3
  <2>2. p + f[p].my = FileSize /\ s[1] < HdrSize + f[p].my
    BY <1>7, <1>3 DEF Goes, Precedes
  <2>3. Ends(f, t, 1) = FileSize /\ g.first = t[1 + 1] /\ g.first < HdrSize + f[t[1]].my
    BY <2>1, <2>2, <1>1, <1>2 DEF Ends
  <2>4. j # m + 1
    BY <2>1, <1>1
  <2>5. RingHeader(f, g, t, j)
    BY <2>1, <2>3, <2>4, <1>2, <1>4 DEF RingHeader
  <2>6. Ring(f, g, t, j)
    BY <2>5, <1>2, <1>5 DEF Ring
  <2> QED
    BY <2>6, <1>0, <1>2, <1>5 DEF Geometry
<1> QED
  BY <1>6, <1>7

\* A ring of one object, at the end of the file.
LEMMA RingFirst ==
  ASSUME NEW f \in Files, NEW p \in Offsets, NEW g, f[p] # Junk, f[p].my \in Sizes,
         p >= HdrSize, p + f[p].my = FileSize, g.head = p, g.tail = p, g.first = 0
  PROVE  Geometry(f, g, <<p>>)
<1>0. PICK t : t = <<p>>
  OBVIOUS
<1>1. t \in Seq(Offsets) /\ t # <<>> /\ Len(t) = 1 /\ t[1] = p
  BY <1>0
<1>2. \A i \in 1 .. 1 : i = 1
  OBVIOUS
<1>3. RingObjects(f, t)
  BY <1>1, <1>2, RingAssumption DEF RingObjects, Ends
<1>4. RingOrder(f, t, 1)
  BY <1>1 DEF RingOrder
<1>5. RingHeader(f, g, t, 1)
  BY <1>1 DEF RingHeader
<1>6. Ring(f, g, t, 1) /\ 1 \in 1 .. Len(t)
  BY <1>1, <1>3, <1>4, <1>5 DEF Ring
<1> QED
  BY <1>0, <1>6 DEF Geometry

\* Where doadd() places an object: its bytes are in the file, no object of
\* the ring starts among them, and the object after it is the newest.
LEMMA PlacedFree ==
  ASSUME NEW f \in Files, NEW hd \in Headers, NEW s, Geometry(f, hd, s),
         NEW n \in Sizes, NEW g, Placed(f, hd, s, g, n)
  PROVE  /\ g \in Headers /\ g.head \in Int /\ g.head >= HdrSize /\ g.head + n <= FileSize
         /\ n \in Nat /\ n > 0
         /\ \A i \in 1 .. Len(s) : s[i] < g.head \/ s[i] >= g.head + n
         /\ s = <<>> => g.head + n = FileSize /\ g.head = g.tail /\ g.first = 0
         /\ s # <<>> /\ g.head + n # hd.head =>
              g.head + n = FileSize /\ g.head # g.tail /\ g.first = hd.head
         /\ s # <<>> => g.tail = hd.tail
         /\ s # <<>> /\ g.head + n = hd.head => hd.head < FileSize /\ g.first = hd.first
<1>1. n \in Nat /\ n > 0 /\ HdrSize + n <= FileSize
  BY RingAssumption DEF Sizes
<1>2. CASE s = <<>> /\ hd = Empty
  <2>1. g = [head |-> FileSize - n, tail |-> FileSize - n, first |-> 0]
    BY <1>2 DEF Placed
  <2>2. g \in Headers
    BY <2>1, <1>1, RingAssumption DEF Headers, Offsets
  <2>3. \A i \in 1 .. Len(s) : FALSE
    BY <1>2
  <2> QED
    BY <2>1, <2>2, <2>3, <1>1, <1>2, RingAssumption
<1>3. ASSUME NEW k, Ring(f, hd, s, k)
      PROVE  /\ g \in Headers /\ g.head \in Int /\ g.head >= HdrSize /\ g.head + n <= FileSize
             /\ \A i \in 1 .. Len(s) : s[i] < g.head \/ s[i] >= g.head + n
             /\ g.head + n # hd.head =>
                  g.head + n = FileSize /\ g.head # g.tail /\ g.first = hd.head
             /\ g.tail = hd.tail
             /\ g.head + n = hd.head => g.first = hd.first
  <2>0. s # <<>>
    BY <1>3 DEF Ring, RingObjects
  <2>1. hd.head \in Offsets /\ hd.tail \in Offsets /\ hd.first \in Offsets
    BY DEF Headers
  <2>2. hd.tail = s[Len(s)] /\ hd.head = s[1] /\ Len(s) \in 1 .. Len(s) /\ 1 \in 1 .. Len(s)
        /\ k \in 1 .. Len(s) /\ Len(s) \in Nat
    BY <1>3, RingFacts DEF Ring, RingHeader
  <2>3. f[hd.tail].my \in Nat /\ f[hd.tail].my > 0 /\ hd.tail >= HdrSize
        /\ hd.tail \in Int /\ hd.head \in Int
    BY <1>3, <2>2, RingFacts, RingAssumption
  <2>4. \A i \in 1 .. Len(s) : s[i] \in Int /\ f[s[i]].my \in Nat /\ f[s[i]].my > 0
    BY <1>3, RingFacts, RingAssumption
  <2>5. hd.head <= hd.tail <=> k = Len(s)
    BY <1>3, RingHeaderFacts
  <2>6. \A j \in 1 .. Len(s) : k = Len(s) \/ j > k =>
              s[j] + f[s[j]].my <= hd.tail + f[hd.tail].my
    BY <1>3, RingHeaderFacts
  <2>7. \A j \in 1 .. Len(s) : j <= k => s[j] >= hd.head
    <3> SUFFICES ASSUME NEW j \in 1 .. Len(s), j <= k PROVE s[j] >= hd.head
      OBVIOUS
    <3>1. j = 1 \/ s[1] + f[s[1]].my <= s[j]
      BY <1>3, <2>2 DEF Ring, RingOrder, Ends
    <3> QED
      BY <3>1, <2>2, <2>4
  <2>8. CASE /\ hd.head <= hd.tail /\ hd.head >= HdrSize + n
             /\ g = [head |-> hd.head - n, tail |-> hd.tail, first |-> hd.first]
    <3>1. g \in Headers
      BY <2>8, <2>1, <2>3, <1>1, RingAssumption DEF Headers, Offsets
    <3>2. \A i \in 1 .. Len(s) : s[i] >= hd.head
      BY <2>2, <2>5, <2>7, <2>8
    <3>3. hd.head < FileSize
      BY <2>1, RingAssumption DEF Offsets
    <3>4. g.head = hd.head - n /\ g.tail = hd.tail /\ g.first = hd.first
      BY <2>8
    <3>5. g.head \in Int /\ g.head >= HdrSize /\ g.head + n <= FileSize /\ g.head + n = hd.head
      BY <3>3, <3>4, <2>3, <2>8, <1>1, RingAssumption
    <3> QED
      BY <3>1, <3>2, <3>4, <3>5
  <2>9. CASE /\ hd.head <= hd.tail /\ hd.head < HdrSize + n
             /\ hd.tail + f[hd.tail].my <= FileSize - n
             /\ g = [head |-> FileSize - n, tail |-> hd.tail, first |-> hd.head]
    <3>1. g \in Headers
      BY <2>9, <2>1, <1>1, RingAssumption DEF Headers, Offsets
    <3>4. g.head = FileSize - n /\ g.tail = hd.tail /\ g.first = hd.head
      BY <2>9
    <3>2. \A i \in 1 .. Len(s) : s[i] < g.head
      <4> TAKE i \in 1 .. Len(s)
      <4>1. s[i] + f[s[i]].my <= hd.tail + f[hd.tail].my
        BY <2>5, <2>6, <2>9
      <4>2. PICK a \in Int : a = s[i]
        BY <2>4
      <4>3. PICK x \in Nat : x = f[s[i]].my /\ x > 0
        BY <2>4
      <4>4. PICK z \in Int : z = hd.tail + f[hd.tail].my
        BY <2>3
      <4>5. PICK b \in Int : b = g.head /\ z <= b
        BY <4>4, <3>4, <2>9, <1>1, RingAssumption
      <4>6. a + x <= z
        BY <4>1, <4>2, <4>3, <4>4
      <4>7. a < b
        BY <4>5, <4>6, <4>3
      <4> QED
        BY <4>2, <4>5, <4>7
    <3>5. g.head \in Int /\ g.head >= HdrSize /\ g.head + n = FileSize /\ g.head # g.tail
      BY <3>4, <2>3, <2>9, <1>1, RingAssumption
    <3>6. g.head + n # hd.head
      BY <3>5, <2>1, RingAssumption DEF Offsets
    <3> QED
      BY <3>1, <3>2, <3>4, <3>5, <3>6, <1>1, RingAssumption
  <2>10. CASE /\ hd.head > hd.tail /\ hd.tail + f[hd.tail].my <= hd.head - n
              /\ g = [head |-> hd.head - n, tail |-> hd.tail, first |-> hd.first]
    <3>3. hd.head < FileSize
      BY <2>1, RingAssumption DEF Offsets
    <3>4. g.head = hd.head - n /\ g.tail = hd.tail /\ g.first = hd.first
      BY <2>10
    <3>5. g.head \in Int /\ g.head >= HdrSize /\ g.head + n <= FileSize /\ g.head + n = hd.head
      BY <3>3, <3>4, <2>3, <2>10, <1>1, RingAssumption
    <3>1. g \in Headers
      <4>1. hd.head - n \in Offsets
        BY <3>3, <3>4, <3>5, <1>1, RingAssumption DEF Offsets
      <4> QED
        BY <4>1, <2>1, <2>10 DEF Headers
    <3>2. \A i \in 1 .. Len(s) : s[i] < g.head \/ s[i] >= hd.head
      <4> TAKE i \in 1 .. Len(s)
      <4>1. CASE i <= k
        BY <4>1, <2>7
      <4>2. CASE i > k
        <5>1. s[i] + f[s[i]].my <= hd.tail + f[hd.tail].my
          BY <4>2, <2>6
        <5>2. s[i] \in Int /\ f[s[i]].my \in Nat /\ f[s[i]].my > 0
          BY <2>4
        <5>3. s[i] + f[s[i]].my <= g.head
          BY <5>1, <5>2, <3>4, <2>3, <2>10, <1>1
        <5> QED
          BY <5>2, <5>3, <3>5
      <4> QED
        BY <4>1, <4>2, <2>2
    <3> QED
      BY <3>1, <3>2, <3>4, <3>5
  <2> QED
    BY <2>0, <2>8, <2>9, <2>10 DEF Placed
<1>4. CASE \E k \in 1 .. Len(s) : Ring(f, hd, s, k)
  <2>1. PICK k \in 1 .. Len(s) : Ring(f, hd, s, k)
    BY <1>4
  <2>2. s # <<>>
    BY <2>1 DEF Ring, RingObjects
  <2>3. hd.head < FileSize
    BY RingAssumption DEF Headers, Offsets
  <2> QED
    BY <2>1, <2>2, <2>3, <1>1, <1>3
<1> QED
  BY <1>2, <1>4 DEF Geometry

\* Once the object is written and the one after it knows its size, the new
\* header describes a ring with the object in front.
LEMMA GeometryPush ==
  ASSUME NEW f \in Files, NEW hd \in Headers, NEW s, Geometry(f, hd, s),
         NEW n \in Sizes, NEW g, Placed(f, hd, s, g, n),
         NEW e \in Files, e[g.head] # Junk, e[g.head].my = n,
         \A i \in 1 .. Len(s) : e[s[i]] # Junk /\ e[s[i]].my = f[s[i]].my,
         \A i \in 1 .. Len(s) : i > 1 => e[s[i]].prev = f[s[i]].prev,
         s # <<>> => e[hd.head].prev = n
  PROVE  Geometry(e, g, <<g.head>> \o s)
<1>1. /\ g \in Headers /\ g.head \in Int /\ g.head >= HdrSize /\ g.head + n <= FileSize
      /\ n \in Nat /\ n > 0
      /\ s = <<>> => g.head + n = FileSize /\ g.head = g.tail /\ g.first = 0
      /\ s # <<>> /\ g.head + n # hd.head =>
           g.head + n = FileSize /\ g.head # g.tail /\ g.first = hd.head
      /\ s # <<>> => g.tail = hd.tail
      /\ s # <<>> /\ g.head + n = hd.head => hd.head < FileSize /\ g.first = hd.first
  BY PlacedFree
<1>2. g.head \in Offsets
  BY <1>1 DEF Headers
<1>3. CASE s = <<>>
  <2>1. Geometry(e, g, <<g.head>>)
    BY <1>1, <1>2, <1>3, RingFirst
  <2>2. <<g.head>> \o s = <<g.head>>
    BY <1>3, <1>2
  <2> QED
    BY <2>1, <2>2
<1>4. CASE s # <<>>
  <2>1. PICK k \in 1 .. Len(s) : Ring(f, hd, s, k)
    BY <1>4 DEF Geometry
  <2>2. Ring(e, hd, s, k)
    BY <2>1, RingKeep
  <2>3. hd.head = s[1] /\ hd.tail = s[Len(s)] /\ 1 \in 1 .. Len(s) /\ Len(s) \in 1 .. Len(s)
    BY <2>1, RingFacts DEF Ring, RingHeader
  <2>4. e[s[1]].prev = n /\ e[hd.tail].my = f[hd.tail].my
    BY <1>4, <2>3
  <2>5. hd.head <= hd.tail <=> k = Len(s)
    BY <2>1, RingHeaderFacts
  <2>6. hd.head \in Int /\ hd.tail \in Int /\ f[hd.tail].my \in Int /\ hd.head < FileSize
    BY <2>1, <2>3, RingFacts, RingAssumption DEF Headers, Offsets
  <2>7. \/ g.head + n = hd.head /\ (k < Len(s) => hd.tail + f[hd.tail].my <= g.head)
        \/ /\ k = Len(s) /\ hd.tail + f[hd.tail].my <= g.head
           /\ g.head + n = FileSize /\ hd.head < HdrSize + n
    <3>1. Len(s) \in Nat
      BY <2>1, RingFacts
    <3>2. CASE hd.head <= hd.tail /\ g = [head |-> hd.head - n, tail |-> hd.tail, first |-> hd.first]
      BY <3>1, <3>2, <2>5, <2>6, <1>1
    <3>3. CASE /\ hd.head <= hd.tail /\ hd.head < HdrSize + n
               /\ hd.tail + f[hd.tail].my <= FileSize - n
               /\ g = [head |-> FileSize - n, tail |-> hd.tail, first |-> hd.head]
      BY <3>3, <2>5, <2>6, <1>1, RingAssumption
    <3>4. CASE /\ hd.tail + f[hd.tail].my <= hd.head - n
               /\ g = [head |-> hd.head - n, tail |-> hd.tail, first |-> hd.first]
      BY <3>4, <2>6, <1>1
    <3> QED
      BY <3>2, <3>3, <3>4, <1>4 DEF Placed
  <2>8. Precedes(e, hd, s, k, g.head)
    BY <2>4, <2>7, <1>1, <1>2 DEF Precedes
  <2>9. g.first = IF Goes(e, hd, g.head) THEN hd.first ELSE hd.head
    BY <1>1, <1>4 DEF Goes
  <2> QED
    BY <2>2, <2>8, <2>9, <1>1, <1>4, RingPush
<1> QED
  BY <1>3, <1>4

-----------------------------------------------------------------------------
(* The inductive invariant.                                                *)

\* What RingInv says of the path that a search takes.
LEMMA RingInvIs ==
  ASSUME RingInv
  PROVE  TypeOK /\ cells \in Files /\ hdr \in Headers /\ h \in Headers
         /\ Geometry(cells, hdr, Path(cells, hdr)) /\ Adding(Path(cells, hdr))
         /\ Path(cells, hdr) \in Seq(Offsets)
<1>1. TypeOK /\ Geometry(cells, hdr, Path(cells, hdr)) /\ Adding(Path(cells, hdr))
  BY DEF RingInv
<1>2. cells \in Files /\ hdr \in Headers /\ h \in Headers
  BY <1>1 DEF TypeOK, Files
<1>3. Path(cells, hdr) \in Seq(Offsets)
  <2>1. PICK s : s = Path(cells, hdr)
    OBVIOUS
  <2>2. CASE s = <<>>
    BY <2>1, <2>2
  <2>3. CASE \E k \in 1 .. Len(s) : Ring(cells, hdr, s, k)
    BY <2>1, <2>3 DEF Ring, RingObjects
  <2> QED
    BY <1>1, <2>1, <2>2, <2>3 DEF Geometry
<1> QED
  BY <1>1, <1>2, <1>3

\* The file starts empty.
LEMMA InitRingInv == Init => RingInv
<1> SUFFICES ASSUME Init PROVE RingInv
  OBVIOUS
<1>1. Empty \in Headers /\ Blank \in Files
  BY RingAssumption DEF Empty, Headers, Offsets, Blank, Files
<1>2. TypeOK
  BY <1>1, RingAssumption DEF Init, TypeOK, Files
<1>3. Geometry(cells, hdr, <<>>)
  BY DEF Init, Geometry
<1>4. Path(cells, hdr) = <<>>
  BY <1>1, <1>3, PathIs DEF Init
<1>5. Adding(<<>>)
  BY DEF Init, Adding
<1> QED
  BY <1>2, <1>3, <1>4, <1>5 DEF RingInv

\* Search, and the sanity checks of the header, never fail.
LEMMA NeverBroken == RingInv => ~ Broken(hdr)
<1> SUFFICES ASSUME RingInv PROVE ~ Broken(hdr)
  OBVIOUS
<1>1. cells \in Files /\ Geometry(cells, hdr, Path(cells, hdr))
  BY RingInvIs
<1>2. CASE Path(cells, hdr) = <<>> /\ hdr = Empty
  BY <1>2 DEF Broken, Arrives, Empty
<1>3. CASE \E k \in 1 .. Len(Path(cells, hdr)) : Ring(cells, hdr, Path(cells, hdr), k)
  <2>1. PICK k \in 1 .. Len(Path(cells, hdr)) : Ring(cells, hdr, Path(cells, hdr), k)
    BY <1>3
  <2>2. hdr.first <= hdr.head /\ hdr.first <= hdr.tail /\ hdr.head \in Int /\ hdr.tail \in Int
        /\ hdr.first \in Int /\ hdr.tail = Path(cells, hdr)[Len(Path(cells, hdr))]
    BY <1>1, <2>1, RingHeaderFacts
  <2> QED
    BY <2>2 DEF Broken, Arrives, Last
<1> QED
  BY <1>1, <1>2, <1>3 DEF Geometry

\* The file is empty exactly if the header says so.
LEMMA EmptyRing ==
  ASSUME NEW f \in Files, NEW hd, NEW s, Geometry(f, hd, s)
  PROVE  /\ s = <<>> <=> (hd.head = 0 /\ hd.tail = 0)
         /\ s = <<>> => hd = Empty
         /\ s # <<>> => \E k \in 1 .. Len(s) : Ring(f, hd, s, k)
<1>1. CASE s = <<>> /\ hd = Empty
  BY <1>1 DEF Empty
<1>2. ASSUME NEW k \in 1 .. Len(s), Ring(f, hd, s, k)
      PROVE  s # <<>> /\ hd.head # 0
  <2>1. s # <<>>
    BY <1>2 DEF Ring, RingObjects
  <2>2. hd.head >= HdrSize /\ hd.head \in Int
    BY <1>2, RingHeaderFacts
  <2> QED
    BY <2>1, <2>2, RingAssumption
<1> QED
  BY <1>1, <1>2 DEF Geometry

\* The allocation of doadd() places the object where Placed says.
LEMMA AllocPlaces ==
  ASSUME RingInv, AllocFirst \/ AllocBefore \/ AllocWrap \/ AllocBetween
  PROVE  Placed(cells, hdr, Path(cells, hdr), h', len) /\ h' \in Headers
<1>1. PICK s : s = Path(cells, hdr)
  OBVIOUS
<1>2. cells \in Files /\ hdr \in Headers /\ Geometry(cells, hdr, s) /\ Adding(s)
  BY <1>1, RingInvIs
<1>3. pc = "alloc"
  BY DEF AllocFirst, AllocBefore, AllocWrap, AllocBetween, Trying
<1>4. h = hdr /\ len \in Sizes
  BY <1>2, <1>3 DEF Adding
<1>5. FirstTime <=> s = <<>>
  BY <1>2, <1>4, EmptyRing DEF FirstTime
<1>6. hdr.head \in Int /\ hdr.tail \in Int /\ len \in Int
  <2>1. \A n \in Sizes : n \in Int
    BY RingAssumption DEF Sizes
  <2> QED
    BY <1>2, <1>4, <2>1, RingAssumption DEF Headers, Offsets
<1>7. ~ (hdr.head > hdr.tail) <=> hdr.head <= hdr.tail
  BY <1>6
<1>8. Placed(cells, hdr, s, h', len)
  <2>1. CASE AllocFirst
    <3>1. s = <<>> /\ h.first = 0
      BY <1>2, <1>4, <1>5, <2>1, EmptyRing DEF AllocFirst, Empty
    <3> QED
      BY <2>1, <3>1 DEF AllocFirst, Place, Placed
  <2>2. CASE AllocBefore
    <3>1. s # <<>> /\ hdr.head <= hdr.tail /\ hdr.head >= HdrSize + len
          /\ h' = [head |-> hdr.head - len, tail |-> hdr.tail, first |-> hdr.first]
      BY <1>4, <1>5, <1>7, <2>2 DEF AllocBefore, RoomBefore, Wrapped, Place
    <3> QED
      BY <3>1 DEF Placed
  <2>3. CASE AllocWrap
    <3>1. s # <<>> /\ hdr.head <= hdr.tail
          /\ h' = [head |-> FileSize - len, tail |-> hdr.tail, first |-> hdr.head]
      BY <1>4, <1>5, <1>7, <2>3 DEF AllocWrap, Wrapped, Place
    <3>2. hdr.head < HdrSize + len
      <4>1. ~ (hdr.head >= HdrSize + len)
        BY <1>4, <2>3 DEF AllocWrap, RoomBefore
      <4> QED
        BY <4>1, <1>6, RingAssumption
    <3>3. hdr.tail + cells[hdr.tail].my <= FileSize - len
      <4>1. FileSize - (hdr.tail + cells[hdr.tail].my) >= len /\ cells[hdr.tail].my \in Int
        BY <1>4, <2>3 DEF AllocWrap, RoomAfter, TailEnd, Readable
      <4> QED
        BY <4>1, <1>6, RingAssumption
    <3> QED
      BY <3>1, <3>2, <3>3 DEF Placed
  <2>4. CASE AllocBetween
    <3>1. hdr.head > hdr.tail
          /\ h' = [head |-> hdr.head - len, tail |-> hdr.tail, first |-> hdr.first]
      BY <1>4, <2>4 DEF AllocBetween, Wrapped, Place
    <3>2. s # <<>>
      BY <1>2, <1>6, <3>1, EmptyRing
    <3>3. hdr.tail + cells[hdr.tail].my <= hdr.head - len
      <4>1. hdr.head >= hdr.tail + cells[hdr.tail].my + len /\ cells[hdr.tail].my \in Int
        BY <1>4, <2>4 DEF AllocBetween, RoomBetween, TailEnd, Readable
      <4> QED
        BY <4>1, <1>6, RingAssumption
    <3> QED
      BY <3>1, <3>2, <3>3 DEF Placed
  <2> QED
    BY <2>1, <2>2, <2>3, <2>4
<1>9. h' \in Headers
  BY <1>2, <1>4, <1>8, PlacedFree
<1> QED
  BY <1>1, <1>8, <1>9

\* Dropping an object leaves the others, as they are.
LEMMA PopDrops ==
  ASSUME RingInv, PopNext \/ PopWrap, NEW s, s = Path(cells, hdr)
  PROVE  /\ Len(s) > 1 /\ Len(s) \in Nat /\ cells' \in Files /\ hdr' \in Headers /\ h' = hdr'
         /\ Geometry(cells', hdr', SubSeq(s, 1, Len(s) - 1))
         /\ \A i \in 1 .. Len(s) - 1 : cells'[s[i]] = cells[s[i]]
         /\ hdr' = PopHeader(cells, hdr)
<1>1. cells \in Files /\ hdr \in Headers /\ Geometry(cells, hdr, s) /\ Adding(s)
  BY RingInvIs
<1>2. CanPop
  BY DEF PopNext, PopWrap
<1>3. h = hdr /\ hdr.head # hdr.tail
  BY <1>1, <1>2 DEF Adding, CanPop, Trying
<1>4. s # <<>>
  BY <1>1, <1>3, EmptyRing DEF Empty
<1>5. PICK k \in 1 .. Len(s) : Ring(cells, hdr, s, k)
  BY <1>1, <1>4, EmptyRing
<1>6. Len(s) > 1 /\ Len(s) \in Nat
  <2>1. hdr.head = s[1] /\ hdr.tail = s[Len(s)] /\ Len(s) \in Nat \ {0}
    BY <1>1, <1>5, RingFacts DEF Ring, RingHeader
  <2> QED
    BY <2>1, <1>3
<1>7. hdr' = PopHeader(cells, hdr) /\ h' = hdr' /\ cells' = [cells EXCEPT ![hdr.tail] = Junk]
  <2>1. hdr = [head |-> hdr.head, tail |-> hdr.tail, first |-> hdr.first]
    BY <1>1 DEF Headers
  <2>2. CASE PopNext
    <3>1. HdrSize + cells[hdr.tail].prev <= hdr.tail
      BY <2>2, <1>3 DEF PopNext
    <3>2. h' = [hdr EXCEPT !.tail = hdr.tail - cells[hdr.tail].prev, !.first = hdr.first]
      BY <2>2, <1>3 DEF PopNext, PopTo
    <3>3. h' = PopHeader(cells, hdr)
      BY <3>1, <3>2, <2>1 DEF PopHeader
    <3> QED
      BY <2>2, <3>3 DEF PopNext, PopTo
  <2>3. CASE PopWrap
    <3>1. HdrSize + cells[hdr.tail].prev > hdr.tail
      BY <2>3, <1>3 DEF PopWrap
    <3>2. h' = [hdr EXCEPT !.tail = FileSize - cells[hdr.tail].prev, !.first = 0]
      BY <2>3, <1>3 DEF PopWrap, PopTo
    <3>3. ~ (HdrSize + cells[hdr.tail].prev <= hdr.tail)
      <4>1. cells[hdr.tail].prev \in Int /\ hdr.tail \in Int
        BY <1>1, <1>2, <1>3, RingAssumption DEF CanPop, Readable, Headers, Offsets
      <4> QED
        BY <4>1, <3>1, RingAssumption
    <3>4. h' = PopHeader(cells, hdr)
      BY <3>2, <3>3 DEF PopHeader
    <3> QED
      BY <2>3, <3>4 DEF PopWrap, PopTo
  <2> QED
    BY <2>2, <2>3
<1>8. PICK j \in 1 .. Len(s) - 1 : j = k \/ (k = Len(s) /\ j = k - 1)
  <2>1. k \in 1 .. Len(s) - 1 \/ (k = Len(s) /\ k - 1 \in 1 .. Len(s) - 1)
    BY <1>6
  <2> QED
    BY <2>1
<1>9. Ring(cells, hdr', SubSeq(s, 1, Len(s) - 1), j) /\ hdr' \in Headers
  BY <1>1, <1>5, <1>6, <1>7, <1>8, RingPop
<1>10. cells' \in Files
  BY <1>1, <1>7 DEF Files
<1>11. \A i \in 1 .. Len(s) - 1 : cells'[s[i]] = cells[s[i]]
  <2> TAKE i \in 1 .. Len(s) - 1
  <2>1. i \in 1 .. Len(s) /\ Len(s) \in 1 .. Len(s) /\ i # Len(s)
    BY <1>6
  <2>2. s[i] # s[Len(s)] /\ s[i] \in Offsets
    BY <2>1, <1>1, <1>5, RingDistinct, RingFacts
  <2>3. hdr.tail = s[Len(s)]
    BY <1>5 DEF Ring, RingHeader
  <2> QED
    BY <2>2, <2>3, <1>1, <1>7 DEF Files
<1>12. Geometry(cells', hdr', SubSeq(s, 1, Len(s) - 1))
  <2>1. PICK t : t = SubSeq(s, 1, Len(s) - 1)
    OBVIOUS
  <2>2. Len(t) = Len(s) - 1 /\ \A i \in 1 .. Len(s) - 1 : t[i] = s[i]
    <3>1. s \in Seq(Offsets)
      BY <1>1, <1>5, RingFacts
    <3> QED
      BY <2>1, <3>1, <1>6
  <2>3. \A i \in 1 .. Len(t) : i \in 1 .. Len(s) /\ cells[s[i]] # Junk
    <3>1. \A i \in 1 .. Len(s) : cells[s[i]] # Junk
      BY <1>1, <1>5, RingFacts
    <3>2. PICK n \in Nat : n = Len(s)
      BY <1>6
    <3>3. PICK l \in Int : l = Len(t) /\ l = n - 1
      BY <2>2, <3>2
    <3>4. \A i \in 1 .. l : i \in 1 .. n
      BY <3>3
    <3> QED
      BY <3>1, <3>2, <3>3, <3>4, Zenon
  <2>4. Ring(cells', hdr', t, j)
    <3>1. \A i \in 1 .. Len(t) : cells'[t[i]] = cells[t[i]] /\ cells[t[i]] # Junk
      BY <2>2, <2>3, <1>11
    <3>2. \A i \in 1 .. Len(t) : cells'[t[i]] # Junk /\ cells'[t[i]].my = cells[t[i]].my
      BY <3>1
    <3>3. \A i \in 1 .. Len(t) : i > 1 => cells'[t[i]].prev = cells[t[i]].prev
      BY <3>1
    <3>4. Ring(cells, hdr', t, j)
      BY <2>1, <1>9, Zenon
    <3> QED
      BY <3>2, <3>3, <3>4, RingKeep, Zenon
  <2> QED
    BY <2>1, <2>2, <2>4 DEF Geometry
<1> QED
  BY <1>6, <1>7, <1>9, <1>10, <1>11, <1>12

\* What is written is written where no object of the ring starts.
LEMMA OverwrittenKeeps ==
  ASSUME RingInv, pc = "write", NEW s, s = Path(cells, hdr),
         NEW f, f = Overwritten(h.head, len)
  PROVE  /\ f \in Files
         /\ \A i \in 1 .. Len(s) : f[s[i]] = cells[s[i]] /\ s[i] # h.head /\ f[s[i]] # Junk
                                   /\ s[i] \in Offsets
         /\ Geometry(f, hdr, s)
<1>1. cells \in Files /\ hdr \in Headers /\ Geometry(cells, hdr, s) /\ Adding(s)
      /\ h \in Headers /\ s \in Seq(Offsets)
  BY RingInvIs
<1>2. Placed(cells, hdr, s, h, len) /\ len \in Sizes
  BY <1>1 DEF Adding
<1>3. h.head \in Int /\ len \in Nat /\ len > 0
      /\ \A i \in 1 .. Len(s) : s[i] < h.head \/ s[i] >= h.head + len
  BY <1>1, <1>2, PlacedFree
<1>4. f \in Files
  BY <1>1 DEF Overwritten, Files
<1>5. ASSUME NEW i \in 1 .. Len(s)
      PROVE  f[s[i]] = cells[s[i]] /\ s[i] # h.head /\ f[s[i]] # Junk /\ s[i] \in Offsets
  <2>1. s[i] \in Offsets /\ s[i] \in Int
    BY <1>1, RingAssumption DEF Offsets
  <2>2. s[i] \notin h.head .. h.head + len - 1
    BY <1>3, <2>1
  <2>3. f[s[i]] = cells[s[i]]
    BY <2>1, <2>2 DEF Overwritten
  <2>4. s # <<>>
    OBVIOUS
  <2>5. PICK k \in 1 .. Len(s) : Ring(cells, hdr, s, k)
    BY <1>1, <2>4, EmptyRing
  <2>6. cells[s[i]] # Junk
    BY <1>1, <2>5, RingFacts
  <2>7. s[i] # h.head
    BY <1>3, <2>1
  <2> QED
    BY <2>1, <2>3, <2>6, <2>7
<1>6. Geometry(f, hdr, s)
  BY <1>1, <1>5, GeometryKeep
<1> QED
  BY <1>4, <1>5, <1>6

\* An object in a file, with another size of the object after it.
LEMMA PrevIs ==
  ASSUME NEW f \in Files, NEW p \in Offsets, f[p] # Junk, len \in 0 .. FileSize
  PROVE  /\ Prev(f, p) \in Files
         /\ Prev(f, p)[p] # Junk /\ Prev(f, p)[p].my = f[p].my
         /\ Prev(f, p)[p].val = f[p].val /\ Prev(f, p)[p].prev = len
         /\ \A q \in Offsets : q # p => Prev(f, p)[q] = f[q]
<1>1. Prev(f, p) = [f EXCEPT ![p].prev = len]
  BY DEF Prev
<1>2. f[p] \in Objects
  BY DEF Files
<1>3. PICK o : o = [f[p] EXCEPT !.prev = len]
  OBVIOUS
<1>4. o \in Objects /\ o.my = f[p].my /\ o.val = f[p].val /\ o.prev = len
  BY <1>2, <1>3 DEF Objects
<1>5. o # Junk
  BY <1>4, JunkAssumption
<1>6. Prev(f, p) = [f EXCEPT ![p] = o]
  BY <1>1, <1>3
<1> QED
  BY <1>4, <1>5, <1>6 DEF Files

\* The write of the object: it is where Placed says, and the object after it
\* learns its size at once unless it is at the other end of the file.
LEMMA WriteKeeps ==
  ASSUME RingInv, WriteObj, NEW s, s = Path(cells, hdr)
  PROVE  /\ cells' \in Files /\ hdr' = hdr /\ h' = h /\ val' = val /\ len' = len
         /\ Geometry(cells', hdr', s)
         /\ \A i \in 1 .. Len(s) : cells'[s[i]].my = cells[s[i]].my
                                   /\ cells'[s[i]].val = cells[s[i]].val
         /\ \/ /\ pc' = "header" /\ Geometry(cells', h, <<h.head>> \o s)
            \/ /\ pc' = "prev" /\ s # <<>> /\ h.first = hdr.head
               /\ Placed(cells', hdr, s, h, len)
               /\ cells'[h.head] = Obj
<1>0. pc = "write" /\ hdr' = hdr /\ h' = h /\ val' = val /\ len' = len
  BY DEF WriteObj, local
<1>1. cells \in Files /\ hdr \in Headers /\ Geometry(cells, hdr, s) /\ Adding(s)
      /\ h \in Headers /\ s \in Seq(Offsets)
  BY RingInvIs
<1>2. Placed(cells, hdr, s, h, len) /\ len \in Sizes /\ val \in Sessions
  BY <1>0, <1>1 DEF Adding
<1>3. /\ h.head \in Int /\ h.head >= HdrSize /\ h.head + len <= FileSize
      /\ len \in Nat /\ len > 0
      /\ s = <<>> => h.head + len = FileSize /\ h.head = h.tail
      /\ s # <<>> /\ h.head + len # hdr.head =>
           h.head + len = FileSize /\ h.head # h.tail /\ h.first = hdr.head
      /\ s # <<>> /\ h.head + len = hdr.head => hdr.head < FileSize
  BY <1>1, <1>2, PlacedFree
<1>4. PICK d : d = Overwritten(h.head, len)
  OBVIOUS
<1>5. d \in Files
      /\ \A i \in 1 .. Len(s) : d[s[i]] = cells[s[i]] /\ s[i] # h.head /\ d[s[i]] # Junk
                                /\ s[i] \in Offsets
  BY <1>0, <1>4, OverwrittenKeeps
<1>6. PICK f : f = [d EXCEPT ![h.head] = Obj]
  OBVIOUS
<1>7. Obj \in Objects /\ Obj # Junk /\ Obj.my = len /\ h.head \in Offsets /\ len \in 0 .. FileSize
  <2>1. len \in 0 .. FileSize
    BY <1>3, RingAssumption
  <2>2. Obj \in Objects
    BY <2>1, <1>2, RingAssumption DEF Obj, Objects
  <2> QED
    BY <2>1, <2>2, <1>1, JunkAssumption DEF Obj, Headers
<1>8. f \in Files /\ f[h.head] = Obj
      /\ \A i \in 1 .. Len(s) : f[s[i]] = cells[s[i]] /\ f[s[i]] # Junk /\ s[i] # h.head
                                /\ s[i] \in Offsets
  BY <1>5, <1>6, <1>7 DEF Files
<1>9. cells' = IF AtEnd THEN f ELSE Prev(f, h.head + len)
  BY <1>4, <1>6 DEF WriteObj
<1>10. AtEnd <=> h.head + len = FileSize
  BY <1>3, RingAssumption DEF AtEnd
<1> HIDE DEF Obj
<1>11. CASE AtEnd /\ h.head = h.tail
  <2>1. s = <<>>
    <3>1. s # <<>> => h.head + len # hdr.head
      BY <1>3, <1>10, <1>11
    <3> QED
      BY <3>1, <1>3, <1>11
  <2>2. pc' = "header" /\ cells' = f
    BY <1>9, <1>11 DEF WriteObj
  <2>3. \A i \in 1 .. Len(s) : FALSE
    BY <2>1
  <2>4. Geometry(f, hdr, s)
    BY <2>3, <1>1, GeometryKeep
  <2>5. Geometry(f, h, <<h.head>> \o s)
    BY <2>1, <2>3, <1>1, <1>2, <1>7, <1>8, GeometryPush
  <2> QED
    BY <2>2, <2>3, <2>4, <2>5, <1>0, <1>8
<1>12. CASE AtEnd /\ h.head # h.tail
  <2>1. s # <<>> /\ h.first = hdr.head
    BY <1>3, <1>10, <1>12
  <2>2. pc' = "prev" /\ cells' = f
    BY <1>9, <1>12 DEF WriteObj
  <2>3. Geometry(f, hdr, s)
    BY <1>1, <1>8, GeometryKeep
  <2>4. hdr.tail = s[Len(s)] /\ Len(s) \in 1 .. Len(s)
    <3>1. PICK k \in 1 .. Len(s) : Ring(cells, hdr, s, k)
      BY <1>1, <2>1, EmptyRing
    <3> QED
      BY <3>1, <1>1, RingFacts DEF Ring, RingHeader
  <2>5. f[hdr.tail] = cells[hdr.tail]
    BY <2>4, <1>8
  <2>6. Placed(f, hdr, s, h, len)
    BY <2>5, <1>2 DEF Placed
  <2> QED
    BY <2>1, <2>2, <2>3, <2>6, <1>0, <1>8
<1>13. CASE ~ AtEnd
  <2>1. s # <<>> /\ h.head + len = hdr.head
    BY <1>3, <1>10, <1>13
  <2>2. pc' = "header" /\ cells' = Prev(f, hdr.head)
    BY <2>1, <1>9, <1>13 DEF WriteObj
  <2>3. PICK k \in 1 .. Len(s) : Ring(cells, hdr, s, k)
    BY <1>1, <2>1, EmptyRing
  <2>4. hdr.head = s[1] /\ 1 \in 1 .. Len(s)
    BY <1>1, <2>3, RingFacts DEF Ring, RingHeader
  <2>5. hdr.head \in Offsets /\ f[hdr.head] # Junk /\ hdr.head # h.head
    BY <2>4, <1>8
  <2>6. PICK e : e = Prev(f, hdr.head)
    OBVIOUS
  <2>7. /\ e \in Files
        /\ e[hdr.head] # Junk /\ e[hdr.head].my = f[hdr.head].my
        /\ e[hdr.head].val = f[hdr.head].val /\ e[hdr.head].prev = len
        /\ \A q \in Offsets : q # hdr.head => e[q] = f[q]
    BY <2>5, <2>6, <1>7, <1>8, PrevIs
  <2>8. e[h.head] = Obj
    BY <2>5, <2>7, <1>7, <1>8
  <2>9. \A i \in 1 .. Len(s) : e[s[i]] # Junk /\ e[s[i]].my = cells[s[i]].my
                               /\ e[s[i]].val = cells[s[i]].val
    <3> TAKE i \in 1 .. Len(s)
    <3>1. CASE s[i] = hdr.head
      BY <3>1, <2>7, <1>8
    <3>2. CASE s[i] # hdr.head
      BY <3>2, <2>7, <1>8
    <3> QED
      BY <3>1, <3>2
  <2>10. \A i \in 1 .. Len(s) : i > 1 => e[s[i]].prev = cells[s[i]].prev
    <3> SUFFICES ASSUME NEW i \in 1 .. Len(s), i > 1 PROVE e[s[i]].prev = cells[s[i]].prev
      OBVIOUS
    <3>1. s[i] # s[1]
      BY <2>3, <2>4, <1>1, RingDistinct
    <3> QED
      BY <3>1, <2>4, <2>7, <1>8
  <2>11. Geometry(e, hdr, s)
    BY <2>9, <2>10, <1>1, GeometryKeep
  <2>12. Geometry(e, h, <<h.head>> \o s)
    BY <2>7, <2>8, <2>9, <2>10, <1>1, <1>2, <1>7, GeometryPush
  <2> QED
    BY <2>2, <2>6, <2>7, <2>9, <2>11, <2>12, <1>0
<1> QED
  BY <1>11, <1>12, <1>13

\* The separate write of that size, at h.first.
LEMMA PrevKeeps ==
  ASSUME RingInv, WritePrev, NEW s, s = Path(cells, hdr)
  PROVE  /\ cells' \in Files /\ hdr' = hdr /\ h' = h /\ val' = val /\ len' = len
         /\ Geometry(cells', hdr', s)
         /\ \A i \in 1 .. Len(s) : cells'[s[i]].my = cells[s[i]].my
                                   /\ cells'[s[i]].val = cells[s[i]].val
         /\ pc' = "header" /\ Geometry(cells', h, <<h.head>> \o s)
<1>0. pc = "prev" /\ hdr' = hdr /\ h' = h /\ val' = val /\ len' = len /\ pc' = "header"
  BY DEF WritePrev, local
<1>1. cells \in Files /\ hdr \in Headers /\ Geometry(cells, hdr, s) /\ Adding(s)
      /\ h \in Headers /\ s \in Seq(Offsets)
  BY RingInvIs
<1>2. Placed(cells, hdr, s, h, len) /\ len \in Sizes /\ val \in Sessions /\ s # <<>>
      /\ h.first = hdr.head /\ cells[h.head] = [prev |-> 0, my |-> len, val |-> val]
  BY <1>0, <1>1 DEF Adding
<1>3. /\ h.head \in Int /\ h.head >= HdrSize /\ h.head + len <= FileSize
      /\ len \in Nat /\ len > 0
      /\ \A i \in 1 .. Len(s) : s[i] < h.head \/ s[i] >= h.head + len
  BY <1>1, <1>2, PlacedFree
<1>4. len \in 0 .. FileSize /\ h.head \in Offsets /\ cells[h.head].my = len
  BY <1>1, <1>2, <1>3, RingAssumption DEF Headers
<1>5. PICK k \in 1 .. Len(s) : Ring(cells, hdr, s, k)
  BY <1>1, <1>2, EmptyRing
<1>6. hdr.head = s[1] /\ 1 \in 1 .. Len(s) /\ s[1] \in Offsets /\ s[1] \in Int
      /\ \A i \in 1 .. Len(s) : cells[s[i]] # Junk /\ s[i] \in Offsets
  BY <1>1, <1>5, RingFacts DEF Ring, RingHeader
<1>7. hdr.head # h.head
  BY <1>3, <1>6
<1>8. cells[h.head] # Junk
  <2>1. cells[h.head] \in Objects
    BY <1>2, <1>4, RingAssumption DEF Objects
  <2> QED
    BY <2>1, JunkAssumption
<1>9. PICK e : e = cells'
  OBVIOUS
<1>10. /\ e \in Files
       /\ e[hdr.head] # Junk /\ e[hdr.head].my = cells[hdr.head].my
       /\ e[hdr.head].val = cells[hdr.head].val /\ e[hdr.head].prev = len
       /\ \A q \in Offsets : q # hdr.head => e[q] = cells[q]
  <2>1. e = Prev(cells, hdr.head)
    BY <1>2, <1>9 DEF WritePrev
  <2>2. hdr.head \in Offsets /\ cells[hdr.head] # Junk
    BY <1>6
  <2> QED
    BY <2>1, <2>2, <1>1, <1>4, PrevIs
<1>11. \A i \in 1 .. Len(s) : e[s[i]] # Junk /\ e[s[i]].my = cells[s[i]].my
                             /\ e[s[i]].val = cells[s[i]].val
  <2> TAKE i \in 1 .. Len(s)
  <2>1. CASE s[i] = hdr.head
    BY <2>1, <1>10
  <2>2. CASE s[i] # hdr.head
    BY <2>2, <1>6, <1>10
  <2> QED
    BY <2>1, <2>2
<1>12. \A i \in 1 .. Len(s) : i > 1 => e[s[i]].prev = cells[s[i]].prev
  <2> SUFFICES ASSUME NEW i \in 1 .. Len(s), i > 1 PROVE e[s[i]].prev = cells[s[i]].prev
    OBVIOUS
  <2>1. s[i] # s[1]
    BY <1>1, <1>5, <1>6, RingDistinct
  <2> QED
    BY <2>1, <1>6, <1>10
<1>13. Geometry(e, hdr, s)
  BY <1>1, <1>11, <1>12, GeometryKeep
<1>14. e[h.head] # Junk /\ e[h.head].my = len
  BY <1>4, <1>7, <1>8, <1>10
<1>15. Geometry(e, h, <<h.head>> \o s)
  BY <1>1, <1>2, <1>10, <1>11, <1>12, <1>14, GeometryPush
<1> QED
  BY <1>0, <1>9, <1>10, <1>11, <1>13, <1>15

\* A session that is deleted, or that times out, is changed in place.
Marks(s, i, st) == cells' = [cells EXCEPT ![s[i]].val.state = st] /\ hdr' = hdr
\* A session that is deleted or times out leaves the ring as it is.
LEMMA MarkKeeps ==
  ASSUME RingInv, NEW s, s = Path(cells, hdr), NEW i \in 1 .. Len(s), NEW st \in States,
         Marks(s, i, st)
  PROVE  /\ cells' \in Files /\ Geometry(cells', hdr', s)
         /\ \A j \in 1 .. Len(s) : cells'[s[j]].my = cells[s[j]].my
                                   /\ (j # i => cells'[s[j]].val = cells[s[j]].val)
<1>1. cells \in Files /\ hdr \in Headers /\ Geometry(cells, hdr, s) /\ s \in Seq(Offsets)
  BY RingInvIs
<1>2. s # <<>>
  OBVIOUS
<1>3. PICK k \in 1 .. Len(s) : Ring(cells, hdr, s, k)
  BY <1>1, <1>2, EmptyRing
<1>4. \A j \in 1 .. Len(s) : s[j] \in Offsets /\ cells[s[j]] # Junk /\ cells[s[j]] \in Objects
  BY <1>1, <1>3, RingFacts
<1>5. PICK o : o = [cells[s[i]] EXCEPT !.val.state = st]
  OBVIOUS
<1>6. o \in Objects /\ o.my = cells[s[i]].my /\ o.prev = cells[s[i]].prev
  <2>1. PICK c : c = cells[s[i]] /\ c \in Objects
    BY <1>4
  <2>2. [c.val EXCEPT !.state = st] \in Sessions
    BY <2>1 DEF Objects, Sessions
  <2>3. o = [c EXCEPT !.val = [c.val EXCEPT !.state = st]]
    BY <1>5, <2>1
  <2> QED
    BY <2>1, <2>2, <2>3 DEF Objects
<1>7. o # Junk
  BY <1>6, JunkAssumption
<1>8. cells' = [cells EXCEPT ![s[i]] = o] /\ hdr' = hdr
  BY <1>5 DEF Marks
<1>9. cells' \in Files /\ cells'[s[i]] = o /\ \A p \in Offsets : p # s[i] => cells'[p] = cells[p]
  BY <1>1, <1>4, <1>6, <1>8 DEF Files
<1>10. ASSUME NEW j \in 1 .. Len(s)
       PROVE  /\ cells'[s[j]] # Junk /\ cells'[s[j]].my = cells[s[j]].my
              /\ cells'[s[j]].prev = cells[s[j]].prev
              /\ (j # i => cells'[s[j]].val = cells[s[j]].val)
  <2>1. CASE j = i
    BY <2>1, <1>6, <1>7, <1>9
  <2>2. CASE j # i
    <3>1. s[j] # s[i]
      BY <2>2, <1>1, <1>3, RingDistinct
    <3> QED
      BY <3>1, <1>4, <1>9
  <2> QED
    BY <2>1, <2>2
<1>11. Geometry(cells', hdr', s)
  <2>1. PICK e : e = cells'
    OBVIOUS
  <2>2. \A j \in 1 .. Len(s) : e[s[j]] # Junk /\ e[s[j]].my = cells[s[j]].my
    BY <2>1, <1>10
  <2>3. \A j \in 1 .. Len(s) : j > 1 => e[s[j]].prev = cells[s[j]].prev
    BY <2>1, <1>10
  <2>4. Geometry(e, hdr, s)
    BY <2>2, <2>3, <1>1, GeometryKeep
  <2> QED
    BY <2>1, <2>4, <1>8
<1> QED
  BY <1>9, <1>10, <1>11

\* The larger of two numbers.
LEMMA MaxOfTwo ==
  ASSUME NEW a \in Int, NEW b \in Int
  PROVE  Max({a, b}) \in {a, b} /\ Max({a, b}) >= a /\ Max({a, b}) >= b
<1>1. \E x \in {a, b} : \A y \in {a, b} : x >= y
  <2>1. CASE a >= b
    BY <2>1
  <2>2. CASE b >= a
    BY <2>2
  <2> QED
    BY <2>1, <2>2
<1>2. Max({a, b}) \in {a, b} /\ \A y \in {a, b} : Max({a, b}) >= y
  BY <1>1, Zenon DEF Max
<1> QED
  BY <1>2

\* What the steps do to the ring: nothing, or one session of it changes; its
\* oldest object goes; it gets a new one, the one that doadd() wrote; or the
\* file is a new one.
Same(s, t) ==
  /\ t = s
  /\ \A i \in 1 .. Len(s) : cells'[s[i]].my = cells[s[i]].my
  /\ \/ \A i \in 1 .. Len(s) : cells'[s[i]].val = cells[s[i]].val
     \/ \E i \in 1 .. Len(s) : \A j \in 1 .. Len(s) : j # i => cells'[s[j]].val = cells[s[j]].val
Popped(s, t) ==
  /\ PopNext \/ PopWrap
  /\ Len(s) > 1 /\ t = SubSeq(s, 1, Len(s) - 1)
  /\ \A i \in 1 .. Len(s) - 1 : cells'[s[i]] = cells[s[i]]
Pushed(s, t) == WriteHdr /\ cells' = cells /\ t = <<h.head>> \o s
Change(s, t) == Same(s, t) \/ Popped(s, t) \/ Pushed(s, t) \/ (Open /\ t = <<>>)

\* RingInv of the next state, from a description of its ring.
LEMMA RingInvNext ==
  ASSUME TypeOK', NEW t, Geometry(cells', hdr', t), Adding(t)'
  PROVE  RingInv' /\ Path(cells', hdr') = t
<1>1. cells' \in Files
  BY DEF TypeOK, Files
<1>2. Path(cells', hdr') = t
  BY <1>1, PathIs
<1>3. RingInv'
  BY <1>2 DEF RingInv
<1> QED
  BY <1>2, <1>3

\* Steps that leave the file alone.
LEMMA QuietStep ==
  ASSUME RingInv, NEW s, s = Path(cells, hdr), UNCHANGED file, TypeOK', Adding(s)'
  PROVE  RingInv' /\ Path(cells', hdr') = s /\ Change(s, s)
<1>1. Geometry(cells, hdr, s)
  BY RingInvIs
<1>2. cells' = cells /\ hdr' = hdr
  BY DEF file
<1>3. Geometry(cells', hdr', s)
  BY <1>1, <1>2
<1>4. Change(s, s)
  BY <1>2 DEF Change, Same
<1> QED
  BY <1>3, <1>4, RingInvNext

\* After Return nothing is being added.
LEMMA Returned ==
  ASSUME Return, NEW t
  PROVE  Adding(t)'
BY DEF Return, Adding

\* What init() writes.
LEMMA EmptyIsHeader == Empty \in Headers /\ Blank \in Files
BY RingAssumption DEF Empty, Headers, Offsets, Blank, Files

\* Each step keeps RingInv, and changes the ring as Change says.
RingStepOK(s) ==
  \E t : RingInv' /\ Path(cells', hdr') = t /\ Change(s, t)

\* doadd() starts.
LEMMA AddStep ==
  ASSUME RingInv, NEW s, s = Path(cells, hdr), NEW id \in Ids, NEW n \in Lengths, Add(id, n)
  PROVE  RingStepOK(s)
<1>1. TypeOK
  BY RingInvIs
<1>2. /\ h' = hdr /\ val' = [id |-> id, state |-> "live"] /\ len' = ObjSize + n
      /\ pops' = 0 /\ pc' = "alloc" /\ largest' = Max({largest, len'}) /\ UNCHANGED file
  BY DEF Add
<1>3. val' \in Sessions /\ len' \in Sizes /\ len' \in 0 .. FileSize
  BY <1>2, RingAssumption DEF Sessions, States, Sizes
<1>4. largest' \in 0 .. FileSize /\ len' <= largest'
  <2>1. largest \in Int /\ len' \in Int /\ largest \in 0 .. FileSize
    BY <1>1, <1>3 DEF TypeOK
  <2> QED
    BY <1>2, <1>3, <2>1, MaxOfTwo
<1>5. TypeOK'
  BY <1>1, <1>2, <1>3, <1>4, RingAssumption DEF TypeOK, file
<1>6. Adding(s)'
  BY <1>2, <1>3, <1>4 DEF Adding, file
<1> QED
  BY <1>2, <1>5, <1>6, QuietStep DEF RingStepOK

\* A place for the object is found.
LEMMA AllocStep ==
  ASSUME RingInv, NEW s, s = Path(cells, hdr),
         AllocFirst \/ AllocBefore \/ AllocWrap \/ AllocBetween
  PROVE  RingStepOK(s)
<1>1. TypeOK /\ Adding(s)
  BY RingInvIs
<1>2. Placed(cells, hdr, s, h', len) /\ h' \in Headers
  BY AllocPlaces
<1>3. pc = "alloc" /\ pc' = "write" /\ UNCHANGED <<file, val, len, pops, largest>>
  BY DEF AllocFirst, AllocBefore, AllocWrap, AllocBetween, Trying, Place
<1>4. TypeOK'
  BY <1>1, <1>2, <1>3 DEF TypeOK, file
<1>5. Adding(s)'
  <2>1. val \in Sessions /\ len \in Sizes /\ len <= largest
    BY <1>1, <1>3 DEF Adding
  <2> QED
    BY <1>2, <1>3, <2>1 DEF Adding, file
<1> QED
  BY <1>3, <1>4, <1>5, QuietStep DEF RingStepOK

\* The oldest object is dropped.
LEMMA PopStep ==
  ASSUME RingInv, NEW s, s = Path(cells, hdr), PopNext \/ PopWrap
  PROVE  RingStepOK(s)
<1>1. TypeOK /\ Adding(s)
  BY RingInvIs
<1>2. PICK t : t = SubSeq(s, 1, Len(s) - 1)
  OBVIOUS
<1>3. /\ Len(s) > 1 /\ cells' \in Files /\ hdr' \in Headers /\ h' = hdr'
      /\ Geometry(cells', hdr', t)
      /\ \A i \in 1 .. Len(s) - 1 : cells'[s[i]] = cells[s[i]]
  BY <1>2, PopDrops
<1>4. /\ pc = "alloc" /\ pops < MaxPops /\ pops' = pops + 1
      /\ UNCHANGED <<pc, val, len, largest>>
  BY DEF PopNext, PopWrap, CanPop, Trying, PopTo
<1>5. pops' \in 0 .. MaxPops
  BY <1>1, <1>4, RingAssumption DEF TypeOK
<1>6. TypeOK'
  BY <1>1, <1>3, <1>4, <1>5 DEF TypeOK, Files
<1>7. Adding(t)'
  BY <1>1, <1>3, <1>4 DEF Adding
<1>8. RingInv' /\ Path(cells', hdr') = t
  BY <1>3, <1>6, <1>7, RingInvNext
<1>9. Change(s, t)
  BY <1>2, <1>3 DEF Change, Popped
<1> QED
  BY <1>8, <1>9 DEF RingStepOK

\* There is no space, or the file is removed.
LEMMA StopStep ==
  ASSUME RingInv, NEW s, s = Path(cells, hdr), NoSpace \/ Unlink
  PROVE  RingStepOK(s)
<1>1. TypeOK
  BY RingInvIs
<1>2. UNCHANGED <<file, largest>>
  BY DEF NoSpace, Unlink
<1>3. CASE NoSpace
  <2>1. Return
    BY <1>3 DEF NoSpace
  <2>2. TypeOK'
    BY <1>1, <1>2, <2>1, EmptyIsHeader, RingAssumption DEF TypeOK, Return, file
  <2>3. Adding(s)'
    BY <2>1, Returned
  <2> QED
    BY <1>2, <2>2, <2>3, QuietStep DEF RingStepOK
<1>4. CASE Unlink
  <2>1. pc' = "removed" /\ UNCHANGED local
    BY <1>4 DEF Unlink
  <2>2. TypeOK'
    BY <1>1, <1>2, <2>1 DEF TypeOK, file, local
  <2>3. Adding(s)'
    BY <2>1 DEF Adding
  <2> QED
    BY <1>2, <2>2, <2>3, QuietStep DEF RingStepOK
<1> QED
  BY <1>3, <1>4

\* A new file is made.
LEMMA OpenStep ==
  ASSUME RingInv, NEW s, s = Path(cells, hdr), Open
  PROVE  RingStepOK(s)
<1>1. cells' = Blank /\ hdr' = Empty /\ largest' = 0 /\ Return
  BY DEF Open
<1>2. TypeOK'
  BY <1>1, EmptyIsHeader, RingAssumption DEF TypeOK, Return, Files
<1>3. Geometry(cells', hdr', <<>>)
  BY <1>1 DEF Geometry
<1>4. Adding(<<>>)'
  BY <1>1 DEF Return, Adding
<1>5. RingInv' /\ Path(cells', hdr') = <<>>
  BY <1>2, <1>3, <1>4, RingInvNext
<1> QED
  BY <1>5 DEF RingStepOK, Change

\* The object is written.
LEMMA WriteStep ==
  ASSUME RingInv, NEW s, s = Path(cells, hdr), WriteObj
  PROVE  RingStepOK(s)
<1>1. TypeOK /\ Adding(s)
  BY RingInvIs
<1>2. /\ cells' \in Files /\ hdr' = hdr /\ h' = h /\ val' = val /\ len' = len
      /\ Geometry(cells', hdr', s)
      /\ \A i \in 1 .. Len(s) : cells'[s[i]].my = cells[s[i]].my
                                /\ cells'[s[i]].val = cells[s[i]].val
      /\ \/ /\ pc' = "header" /\ Geometry(cells', h, <<h.head>> \o s)
         \/ /\ pc' = "prev" /\ s # <<>> /\ h.first = hdr.head
            /\ Placed(cells', hdr, s, h, len)
            /\ cells'[h.head] = Obj
  BY WriteKeeps
<1>3. pc = "write" /\ UNCHANGED <<local, largest>>
  BY DEF WriteObj
<1>4. TypeOK'
  BY <1>1, <1>2, <1>3 DEF TypeOK, Files, local
<1>5. Adding(s)'
  <2>1. val' \in Sessions /\ len' \in Sizes /\ len' <= largest'
    BY <1>1, <1>2, <1>3 DEF Adding
  <2>2. CASE pc' = "header" /\ Geometry(cells', h, <<h.head>> \o s)
    BY <2>1, <2>2, <1>2 DEF Adding
  <2>3. CASE /\ pc' = "prev" /\ s # <<>> /\ h.first = hdr.head
             /\ Placed(cells', hdr, s, h, len)
             /\ cells'[h.head] = Obj
    BY <2>1, <2>3, <1>2 DEF Adding, Obj
  <2> QED
    BY <1>2, <2>2, <2>3
<1>6. RingInv' /\ Path(cells', hdr') = s
  BY <1>2, <1>4, <1>5, RingInvNext
<1>7. Change(s, s)
  BY <1>2 DEF Change, Same
<1> QED
  BY <1>6, <1>7 DEF RingStepOK

\* The size of the newest object is written at hd.first.
LEMMA PrevStep ==
  ASSUME RingInv, NEW s, s = Path(cells, hdr), WritePrev
  PROVE  RingStepOK(s)
<1>1. TypeOK /\ Adding(s)
  BY RingInvIs
<1>2. /\ cells' \in Files /\ hdr' = hdr /\ h' = h /\ val' = val /\ len' = len
      /\ Geometry(cells', hdr', s)
      /\ \A i \in 1 .. Len(s) : cells'[s[i]].my = cells[s[i]].my
                                /\ cells'[s[i]].val = cells[s[i]].val
      /\ pc' = "header" /\ Geometry(cells', h, <<h.head>> \o s)
  BY PrevKeeps
<1>3. pc = "prev" /\ UNCHANGED <<local, largest>>
  BY DEF WritePrev
<1>4. TypeOK'
  BY <1>1, <1>2, <1>3 DEF TypeOK, Files, local
<1>5. Adding(s)'
  <2>1. val' \in Sessions /\ len' \in Sizes /\ len' <= largest'
    BY <1>1, <1>2, <1>3 DEF Adding
  <2> QED
    BY <2>1, <1>2 DEF Adding
<1>6. RingInv' /\ Path(cells', hdr') = s
  BY <1>2, <1>4, <1>5, RingInvNext
<1>7. Change(s, s)
  BY <1>2 DEF Change, Same
<1> QED
  BY <1>6, <1>7 DEF RingStepOK

\* The header makes the object part of the ring.
LEMMA HdrStep ==
  ASSUME RingInv, NEW s, s = Path(cells, hdr), WriteHdr
  PROVE  RingStepOK(s) /\ Path(cells', hdr') = <<h.head>> \o s
<1>1. TypeOK /\ Adding(s)
  BY RingInvIs
<1>2. pc = "header" /\ hdr' = h /\ Return /\ UNCHANGED <<cells, largest>>
  BY DEF WriteHdr
<1>3. PICK t : t = <<h.head>> \o s
  OBVIOUS
<1>4. Geometry(cells', hdr', t)
  BY <1>1, <1>2, <1>3 DEF Adding
<1>5. TypeOK'
  BY <1>1, <1>2, EmptyIsHeader, RingAssumption DEF TypeOK, Return
<1>6. Adding(t)'
  BY <1>2, Returned
<1>7. RingInv' /\ Path(cells', hdr') = t
  BY <1>4, <1>5, <1>6, RingInvNext
<1>8. Change(s, t)
  BY <1>2, <1>3 DEF Change, Pushed
<1> QED
  BY <1>3, <1>7, <1>8 DEF RingStepOK

\* A process dies, and leaves some of the object that it was writing.
LEMMA CrashStep ==
  ASSUME RingInv, NEW s, s = Path(cells, hdr), Crash
  PROVE  RingStepOK(s)
<1>1. TypeOK
  BY RingInvIs
<1>2. Return /\ UNCHANGED <<hdr, largest>>
  BY DEF Crash
<1>3. Adding(s)'
  BY <1>2, Returned
<1>4. CASE UNCHANGED cells
  <2>1. TypeOK'
    BY <1>1, <1>2, <1>4, EmptyIsHeader, RingAssumption DEF TypeOK, Return
  <2> QED
    BY <1>2, <1>3, <1>4, <2>1, QuietStep DEF RingStepOK, file
<1>5. CASE pc = "write" /\ cells' = Overwritten(h.head, len)
  <2>1. PICK f : f = Overwritten(h.head, len)
    OBVIOUS
  <2>2. /\ f \in Files
        /\ \A i \in 1 .. Len(s) : f[s[i]] = cells[s[i]]
        /\ Geometry(f, hdr, s)
    BY <1>5, <2>1, OverwrittenKeeps
  <2>3. TypeOK'
    BY <1>1, <1>2, <1>5, <2>1, <2>2, EmptyIsHeader, RingAssumption DEF TypeOK, Return, Files
  <2>4. Geometry(cells', hdr', s)
    BY <1>2, <1>5, <2>1, <2>2
  <2>5. RingInv' /\ Path(cells', hdr') = s
    BY <1>3, <2>3, <2>4, RingInvNext
  <2>6. Change(s, s)
    BY <1>5, <2>1, <2>2 DEF Change, Same
  <2> QED
    BY <2>5, <2>6 DEF RingStepOK
<1> QED
  BY <1>4, <1>5 DEF Crash

\* A session is deleted, or times out.
LEMMA MarkStep ==
  ASSUME RingInv, NEW s, s = Path(cells, hdr), Expire \/ \E id \in Ids : Delete(id)
  PROVE  RingStepOK(s)
<1>1. TypeOK /\ Geometry(cells, hdr, s) /\ s \in Seq(Offsets)
  BY RingInvIs
<1>2. DOMAIN s = 1 .. Len(s)
  BY <1>1
<1>3. pc = "idle" /\ UNCHANGED <<hdr, pc, local, largest>>
  BY DEF Expire, Delete, Locked
<1>4. PICK i \in 1 .. Len(s), st \in States : Marks(s, i, st)
  <2>1. CASE Expire
    BY <1>2, <1>3, <2>1 DEF Expire, Marks, States
  <2>2. CASE \E id \in Ids : Delete(id)
    BY <1>2, <1>3, <2>2 DEF Delete, Marks, States
  <2> QED
    BY <2>1, <2>2
<1>5. /\ cells' \in Files /\ Geometry(cells', hdr', s)
      /\ \A j \in 1 .. Len(s) : cells'[s[j]].my = cells[s[j]].my
                                /\ (j # i => cells'[s[j]].val = cells[s[j]].val)
  BY <1>4, MarkKeeps
<1>6. TypeOK'
  BY <1>1, <1>3, <1>5 DEF TypeOK, Files, local
<1>7. Adding(s)'
  BY <1>3 DEF Adding
<1>8. RingInv' /\ Path(cells', hdr') = s
  BY <1>5, <1>6, <1>7, RingInvNext
<1>9. Change(s, s)
  BY <1>5 DEF Change, Same
<1> QED
  BY <1>8, <1>9 DEF RingStepOK

\* Every step does.
LEMMA RingStep ==
  ASSUME RingInv, [Next]_vars, NEW s, s = Path(cells, hdr)
  PROVE  RingStepOK(s)
<1>1. CASE \E id \in Ids, n \in Lengths : Add(id, n)
  BY <1>1, AddStep
<1>2. CASE AllocFirst \/ AllocBefore \/ AllocWrap \/ AllocBetween
  BY <1>2, AllocStep
<1>3. CASE PopNext \/ PopWrap
  BY <1>3, PopStep
<1>4. CASE NoSpace \/ Unlink
  BY <1>4, StopStep
<1>5. CASE Open
  BY <1>5, OpenStep
<1>6. CASE WriteObj
  BY <1>6, WriteStep
<1>7. CASE WritePrev
  BY <1>7, PrevStep
<1>8. CASE WriteHdr
  BY <1>8, HdrStep
<1>9. CASE Crash
  BY <1>9, CrashStep
<1>10. CASE Expire \/ \E id \in Ids : Delete(id)
  BY <1>10, MarkStep
<1>11. CASE UNCHANGED vars
  <2>1. TypeOK /\ Adding(s)
    BY RingInvIs
  <2>2. TypeOK'
    BY <2>1, <1>11 DEF TypeOK, vars, file, local
  <2>3. Adding(s)'
    BY <2>1, <1>11 DEF Adding, vars, file, local
  <2>4. UNCHANGED file
    BY <1>11 DEF vars
  <2> QED
    BY <2>2, <2>3, <2>4, QuietStep DEF RingStepOK
<1> QED
  BY <1>1, <1>2, <1>3, <1>4, <1>5, <1>6, <1>7, <1>8, <1>9, <1>10, <1>11 DEF Next

\* RingInv is an invariant of the file: the objects lie in it one after the
\* other, in a ring, wherever the header points and whichever write a process
\* died after.
THEOREM RingInvariance == Spec => []RingInv
<1>1. RingInv /\ [Next]_vars => RingInv'
  BY RingStep DEF RingStepOK
<1> QED
  BY <1>1, InitRingInv, PTL DEF Spec

\* TypeOK holds of the file and of doadd(): every offset that is computed is
\* in the file, and every size that is read was written.
THEOREM TypeCorrect == Spec => []TypeOK
<1>1. RingInv => TypeOK
  BY DEF RingInv
<1> QED
  BY <1>1, RingInvariance, PTL

-----------------------------------------------------------------------------
(* The queue of tlscache.h.                                                *)

Records == [val : Sessions, my : Sizes]

\* A search of a ring ends at its oldest object.
LEMMA GeometryArrives ==
  ASSUME NEW f \in Files, NEW hd, NEW s, Geometry(f, hd, s)
  PROVE  Arrives(hd, s)
<1>1. CASE s = <<>>
  BY <1>1 DEF Arrives
<1>2. ASSUME NEW k, Ring(f, hd, s, k) PROVE Arrives(hd, s)
  BY <1>2 DEF Ring, RingHeader, Arrives, Last
<1> QED
  BY <1>1, <1>2 DEF Geometry

\* What it lists.
LEMMA ListedIs ==
  ASSUME NEW f \in Files, NEW hd, NEW s, Geometry(f, hd, s)
  PROVE  /\ Listed(f, s) \in Seq(Records) /\ Len(Listed(f, s)) = Len(s) /\ Len(s) \in Nat
         /\ DOMAIN s = 1 .. Len(s)
         /\ \A i \in 1 .. Len(s) :
              Listed(f, s)[i] = [val |-> f[s[i]].val, my |-> f[s[i]].my]
<1>1. CASE s = <<>>
  <2>1. DOMAIN s = {} /\ Len(s) = 0
    BY <1>1
  <2>2. Listed(f, s) = <<>>
    BY <2>1 DEF Listed
  <2> QED
    BY <2>1, <2>2
<1>2. ASSUME NEW k, Ring(f, hd, s, k)
      PROVE  /\ Listed(f, s) \in Seq(Records) /\ Len(Listed(f, s)) = Len(s) /\ Len(s) \in Nat
             /\ DOMAIN s = 1 .. Len(s)
             /\ \A i \in 1 .. Len(s) :
                  Listed(f, s)[i] = [val |-> f[s[i]].val, my |-> f[s[i]].my]
  <2>1. PICK n \in Nat : n = Len(s) /\ DOMAIN s = 1 .. n
    BY <1>2, RingFacts
  <2>2. Listed(f, s) = [i \in 1 .. n |-> [val |-> f[s[i]].val, my |-> f[s[i]].my]]
    BY <2>1 DEF Listed
  <2>3. \A i \in 1 .. n : [val |-> f[s[i]].val, my |-> f[s[i]].my] \in Records
    BY <1>2, <2>1, RingFacts DEF Records
  <2>4. Listed(f, s) \in [1 .. n -> Records]
    BY <2>2, <2>3
  <2>5. Listed(f, s) \in Seq(Records) /\ Len(Listed(f, s)) = n
    BY <2>4
  <2> QED
    BY <2>1, <2>2, <2>5
<1> QED
  BY <1>1, <1>2 DEF Geometry

\* The cached sessions are the objects of the ring.
LEMMA EntriesAre == RingInv => Entries = Listed(cells, Path(cells, hdr))
BY RingInvIs, GeometryArrives DEF Entries

\* And in the next state.
LEMMA EntriesNext ==
  ASSUME RingInv', NEW t, Path(cells', hdr') = t
  PROVE  Entries' = Listed(cells', t) /\ cells' \in Files /\ Geometry(cells', hdr', t)
<1>1. cells' \in Files /\ Geometry(cells', hdr', t)
  BY DEF RingInv, TypeOK, Files
<1>2. Arrives(hdr', t)
  BY <1>1, GeometryArrives
<1> QED
  BY <1>1, <1>2 DEF Entries

\* Each step is one of the queue, or none.
LEMMA QueueStep == RingInv /\ [Next]_vars => [Cache!Next]_Entries
<1> SUFFICES ASSUME RingInv, [Next]_vars PROVE [Cache!Next]_Entries
  OBVIOUS
<1>1. PICK s : s = Path(cells, hdr)
  OBVIOUS
<1>2. PICK t : RingInv' /\ Path(cells', hdr') = t /\ Change(s, t)
  BY <1>1, RingStep DEF RingStepOK
<1>3. cells \in Files /\ Geometry(cells, hdr, s) /\ Adding(s)
  BY <1>1, RingInvIs
<1>4. PICK old : old = Entries
  OBVIOUS
<1>5. PICK new : new = Entries'
  OBVIOUS
<1>6. /\ old \in Seq(Records) /\ Len(old) = Len(s) /\ Len(s) \in Nat
      /\ \A i \in 1 .. Len(s) : old[i] = [val |-> cells[s[i]].val, my |-> cells[s[i]].my]
  BY <1>1, <1>3, <1>4, EntriesAre, ListedIs
<1>7. cells' \in Files /\ Geometry(cells', hdr', t) /\ new = Listed(cells', t)
  BY <1>2, <1>5, EntriesNext
<1>8. /\ new \in Seq(Records) /\ Len(new) = Len(t) /\ Len(t) \in Nat
      /\ \A i \in 1 .. Len(t) : new[i] = [val |-> cells'[t[i]].val, my |-> cells'[t[i]].my]
  BY <1>7, ListedIs
<1>9. SUFFICES \/ new = old
               \/ Cache!Added(old, new) \/ Cache!OldestDropped(old, new)
               \/ Cache!Updated(old, new) \/ Cache!Removed(new)
  BY <1>4, <1>5 DEF Cache!Next
<1>10. CASE Same(s, t)
  <2>1. t = s /\ \A i \in 1 .. Len(s) : cells'[s[i]].my = cells[s[i]].my
    BY <1>10 DEF Same
  <2>2. CASE \A i \in 1 .. Len(s) : cells'[s[i]].val = cells[s[i]].val
    <3>1. ASSUME NEW i \in 1 .. Len(s) PROVE new[i] = old[i]
      <4>1. old[i] = [val |-> cells[s[i]].val, my |-> cells[s[i]].my]
        BY <1>6
      <4>2. new[i] = [val |-> cells'[s[i]].val, my |-> cells'[s[i]].my]
        BY <2>1, <1>8
      <4> QED
        BY <4>1, <4>2, <2>1, <2>2
    <3> QED
      BY <3>1, <2>1, <1>6, <1>8
  <2>3. ASSUME NEW i \in 1 .. Len(s),
               \A j \in 1 .. Len(s) : j # i => cells'[s[j]].val = cells[s[j]].val
        PROVE  Cache!Updated(old, new)
    <3>1. ASSUME NEW j \in 1 .. Len(s), j # i PROVE new[j] = old[j]
      <4>1. old[j] = [val |-> cells[s[j]].val, my |-> cells[s[j]].my]
        BY <1>6
      <4>2. new[j] = [val |-> cells'[s[j]].val, my |-> cells'[s[j]].my]
        BY <2>1, <1>8
      <4> QED
        BY <4>1, <4>2, <3>1, <2>1, <2>3
    <3>2. DOMAIN old = 1 .. Len(s) /\ DOMAIN new = 1 .. Len(s) /\ new[i] \in Records
      BY <2>1, <1>6, <1>8
    <3>3. new = [old EXCEPT ![i] = new[i]]
      BY <3>1, <3>2, <2>1, <1>6, <1>8
    <3> QED
      BY <3>2, <3>3 DEF Cache!Updated, Records
  <2> QED
    BY <1>10, <2>2, <2>3 DEF Same
<1>11. CASE Popped(s, t)
  <2>1. Len(s) > 1 /\ t = SubSeq(s, 1, Len(s) - 1)
        /\ \A i \in 1 .. Len(s) - 1 : cells'[s[i]] = cells[s[i]]
    BY <1>11 DEF Popped
  <2>2. Len(t) = Len(s) - 1 /\ \A i \in 1 .. Len(s) - 1 : t[i] = s[i] /\ i \in 1 .. Len(s)
    <3>1. s \in Seq(Offsets)
      BY <1>1, RingInvIs
    <3> QED
      BY <2>1, <3>1
  <2>3. ASSUME NEW i \in 1 .. Len(s) - 1 PROVE new[i] = old[i]
    <3>1. old[i] = [val |-> cells[s[i]].val, my |-> cells[s[i]].my]
      BY <2>2, <1>6
    <3>2. t[i] = s[i] /\ new[i] = [val |-> cells'[t[i]].val, my |-> cells'[t[i]].my]
      BY <2>2, <1>8
    <3>3. cells'[s[i]] = cells[s[i]]
      BY <2>1
    <3> QED
      BY <3>1, <3>2, <3>3
  <2>4. new = SubSeq(old, 1, Len(old) - 1)
    BY <2>1, <2>2, <2>3, <1>6, <1>8
  <2>5. old # <<>>
    BY <2>1, <1>6
  <2> QED
    BY <2>4, <2>5 DEF Cache!OldestDropped
<1>12. CASE Pushed(s, t)
  <2>1. cells' = cells /\ t = <<h.head>> \o s
    BY <1>12 DEF Pushed
  <2>2. Len(t) = Len(s) + 1 /\ \A i \in 1 .. Len(s) : t[i + 1] = s[i] /\ i + 1 \in 1 .. Len(t)
    <3>1. s \in Seq(Offsets) /\ h.head \in Offsets
      BY <1>1, RingInvIs DEF Headers
    <3> QED
      BY <2>1, <3>1
  <2>3. \A i \in 1 .. Len(s) : new[i + 1] = old[i]
    BY <2>1, <2>2, <1>6, <1>8
  <2>4. Len(new) = Len(old) + 1 /\ new # <<>> /\ 1 \in 1 .. Len(new)
    BY <2>2, <1>6, <1>8
  <2>5. Head(new) \in Records
    BY <2>4, <1>8
  <2>6. Tail(new) = old
    <3>1. Len(Tail(new)) = Len(old) /\ Tail(new) \in Seq(Records)
          /\ \A i \in 1 .. Len(old) : Tail(new)[i] = new[i + 1]
      BY <2>4, <1>6, <1>8
    <3> QED
      BY <3>1, <2>3, <1>6
  <2> QED
    BY <2>4, <2>5, <2>6 DEF Cache!Added, Records
<1>13. CASE t = <<>>
  <2>1. Len(new) = 0
    BY <1>13, <1>8
  <2> QED
    BY <2>1, <1>8 DEF Cache!Removed
<1> QED
  BY <1>2, <1>10, <1>11, <1>12, <1>13 DEF Change

\* ImplementsCache, for every size of the file and of the sessions: the ring
\* with its headers, its sizes and its wraps is the queue that tlscache.h
\* promises, and a process that dies between two writes adds nothing or all.
THEOREM RingIsQueue == Spec => ImplementsCache
<1>1. Init => Cache!Init
  <2> SUFFICES ASSUME Init PROVE Entries = <<>>
    BY DEF Cache!Init
  <2>1. cells \in Files /\ Geometry(cells, hdr, <<>>)
    BY EmptyIsHeader DEF Init, Geometry
  <2>2. Path(cells, hdr) = <<>>
    BY <2>1, PathIs
  <2>3. Entries = Listed(cells, <<>>)
    BY <2>2, InitRingInv, EntriesAre
  <2> QED
    BY <2>3 DEF Listed
<1> QED
  BY <1>1, QueueStep, RingInvariance, PTL DEF Spec, ImplementsCache, Cache!Spec

-----------------------------------------------------------------------------
(* The room in the file.                                                   *)

\* The bytes from one object of the ring to another are all taken, where the
\* ring does not wrap between them.
LEMMA Covered ==
  ASSUME NEW f \in Files, NEW hd, NEW s, NEW k, Ring(f, hd, s, k),
         NEW i0 \in 1 .. Len(s), NEW j0 \in 1 .. Len(s), i0 <= j0, j0 <= k \/ k < i0,
         NEW b \in Int, s[i0] <= b, b < s[j0] + f[s[j0]].my
  PROVE  b \in Bytes(f, s)
<1>1. PICK n \in Nat : n = Len(s) /\ DOMAIN s = 1 .. n
  BY RingFacts
<1>2. \A i \in 1 .. n : s[i] \in Int /\ s[i] >= HdrSize /\ f[s[i]].my \in Nat
                        /\ s[i] + f[s[i]].my <= FileSize
  BY <1>1, RingFacts
<1> DEFINE T == {i \in i0 .. j0 : b < s[i] + f[s[i]].my}
<1>3. PICK i \in T : \A j \in T : i <= j
  <2>1. T \in SUBSET Nat
    BY <1>1
  <2>2. j0 \in T
    BY <1>1
  <2> QED
    BY <2>1, <2>2, Least
<1>4. i \in i0 .. j0 /\ i \in 1 .. n /\ b < s[i] + f[s[i]].my
  BY <1>1, <1>3
<1>5. s[i] <= b
  <2>1. CASE i = i0
    BY <2>1
  <2>2. CASE i # i0
    <3>1. i - 1 \in i0 .. j0 /\ i - 1 \in 1 .. n - 1 /\ i - 1 # k /\ i - 1 \in 1 .. n
      BY <1>1, <1>4, <2>2, RingFacts
    <3>2. i - 1 \notin T
      BY <1>3, <1>4
    <3>3. b >= s[i - 1] + f[s[i - 1]].my
      BY <1>2, <3>1, <3>2
    <3>4. s[(i - 1) + 1] = s[i - 1] + f[s[i - 1]].my
      BY <1>1, <3>1 DEF Ring, RingOrder, Ends
    <3>5. (i - 1) + 1 = i
      BY <1>4
    <3> QED
      BY <3>3, <3>4, <3>5
  <2> QED
    BY <2>1, <2>2
<1>6. b \in s[i] .. s[i] + f[s[i]].my - 1
  BY <1>2, <1>4, <1>5
<1>7. b \in Offsets
  BY <1>2, <1>4, <1>5, RingAssumption DEF Offsets
<1> QED
  BY <1>1, <1>4, <1>6, <1>7 DEF Bytes

\* The cardinality of an interval.
LEMMA Interval ==
  ASSUME NEW a \in Int, NEW b \in Int, a <= b
  PROVE  IsFiniteSet(a .. b - 1) /\ Cardinality(a .. b - 1) = b - a
<1>1. PICK e \in Int : e = b - 1
  OBVIOUS
<1>2. IsFiniteSet(a .. e) /\ Cardinality(a .. e) = IF a > e THEN 0 ELSE e - a + 1
  BY FS_Interval
<1>3. Cardinality(a .. e) = b - a
  BY <1>1, <1>2
<1> QED
  BY <1>1, <1>2, <1>3

\* The cardinality of a disjoint union.
LEMMA TwoParts ==
  ASSUME NEW S, IsFiniteSet(S), NEW T, IsFiniteSet(T), S \cap T = {}
  PROVE  Cardinality(S \cup T) = Cardinality(S) + Cardinality(T)
<1>1. Cardinality(S \cap T) = 0
  BY FS_EmptySet
<1>2. Cardinality(S \cup T) = Cardinality(S) + Cardinality(T) - Cardinality(S \cap T)
  BY FS_Union
<1>3. PICK a \in Nat : a = Cardinality(S)
  BY FS_CardinalityType
<1>4. PICK b \in Nat : b = Cardinality(T)
  BY FS_CardinalityType
<1> QED
  BY <1>1, <1>2, <1>3, <1>4

\* The bytes that objects take are finitely many.
LEMMA BytesFinite ==
  ASSUME NEW f, NEW s
  PROVE  IsFiniteSet(Bytes(f, s)) /\ Cardinality(Bytes(f, s)) \in Nat
<1>1. IsFiniteSet(Offsets)
  BY FS_Interval, RingAssumption DEF Offsets
<1>2. Bytes(f, s) \subseteq Offsets
  BY DEF Bytes
<1> QED
  BY <1>1, <1>2, FS_Subset, FS_CardinalityType

\* The objects of a ring take what Free leaves.
LEMMA RingTakes ==
  ASSUME NEW f \in Files, NEW hd, NEW s, NEW k, Ring(f, hd, s, k)
  PROVE  Cardinality(Bytes(f, s)) >= FileSize - HdrSize - Free(f, hd)
<1>1. PICK n \in Nat \ {0} : n = Len(s) /\ k \in 1 .. n
  BY RingFacts
<1>2. \A i \in 1 .. n : s[i] \in Int /\ s[i] >= HdrSize /\ f[s[i]].my \in Nat
                        /\ s[i] + f[s[i]].my <= FileSize
  BY <1>1, RingFacts
<1>3. /\ hd.head = s[1] /\ hd.tail = s[n] /\ hd.first \in Int
      /\ hd.first <= hd.tail /\ (hd.head <= hd.tail <=> k = n)
  BY <1>1, RingHeaderFacts
<1>4. 1 \in 1 .. n /\ n \in 1 .. n
  BY <1>1
<1>5. PICK c : c = Cardinality(Bytes(f, s)) /\ c \in Nat
  BY BytesFinite
<1>6. PICK e : e = s[n] + f[s[n]].my /\ e \in Int /\ e >= s[n]
  BY <1>2, <1>4
<1>7. CASE k = n
  <2>1. s[1] .. e - 1 \subseteq Bytes(f, s)
    <3> SUFFICES ASSUME NEW b \in s[1] .. e - 1 PROVE b \in Bytes(f, s)
      OBVIOUS
    <3>1. b \in Int /\ s[1] <= b /\ b < s[n] + f[s[n]].my
      BY <1>2, <1>4, <1>6
    <3> QED
      BY <3>1, <1>1, <1>4, <1>7, Covered
  <2>2. s[1] \in Int /\ s[1] <= e
    BY <1>2, <1>3, <1>4, <1>6, <1>7
  <2>3. c >= e - s[1]
    <3>1. Cardinality(s[1] .. e - 1) = e - s[1]
      BY <2>2, <1>6, Interval
    <3>2. Cardinality(s[1] .. e - 1) <= c
      BY <2>1, <1>5, BytesFinite, FS_Subset
    <3> QED
      BY <3>1, <3>2
  <2>4. Free(f, hd) = FileSize - HdrSize - (e - s[1])
    <3>1. Free(f, hd) = FileSize - HdrSize - (hd.tail + f[hd.tail].my - hd.head)
      BY <1>3, <1>7 DEF Free
    <3>2. /\ hd.tail + f[hd.tail].my = e /\ hd.tail \in Int /\ f[hd.tail].my \in Int
          /\ hd.head = s[1] /\ s[1] \in Int
      BY <1>2, <1>3, <1>4, <1>6
    <3> QED
      BY <3>1, <3>2, <1>6, RingAssumption
  <2> QED
    BY <2>2, <2>3, <2>4, <1>5, <1>6, RingAssumption
<1>8. CASE k # n
  <2>1. /\ s[k] + f[s[k]].my = FileSize /\ hd.first = s[k + 1]
        /\ k \in 1 .. n /\ k + 1 \in 1 .. n /\ k < n
    BY <1>1, <1>8 DEF Ring, RingHeader, Ends
  <2>2. s[1] .. FileSize - 1 \subseteq Bytes(f, s)
    <3> SUFFICES ASSUME NEW b \in s[1] .. FileSize - 1 PROVE b \in Bytes(f, s)
      OBVIOUS
    <3>1. b \in Int /\ s[1] <= b /\ b < s[k] + f[s[k]].my
      BY <1>2, <1>4, <2>1, RingAssumption
    <3>2. 1 <= k
      BY <2>1
    <3> QED
      BY <3>1, <3>2, <1>1, <1>4, <2>1, Covered
  <2>3. s[k + 1] .. e - 1 \subseteq Bytes(f, s)
    <3> SUFFICES ASSUME NEW b \in s[k + 1] .. e - 1 PROVE b \in Bytes(f, s)
      OBVIOUS
    <3>1. b \in Int /\ s[k + 1] <= b /\ b < s[n] + f[s[n]].my
      BY <1>2, <1>4, <1>6, <2>1
    <3>2. k + 1 <= n /\ k < k + 1
      BY <2>1
    <3> QED
      BY <3>1, <3>2, <1>1, <1>4, <2>1, Covered
  <2>4. e <= s[1]
    <3>1. 1 <= k
      BY <2>1
    <3> QED
      BY <3>1, <1>1, <1>4, <1>6, <2>1 DEF Ring, RingOrder, Ends
  <2>5. /\ s[1] \in Int /\ s[1] <= FileSize
        /\ s[k + 1] \in Int /\ s[k + 1] <= e
    BY <1>2, <1>3, <1>4, <1>6, <2>1
  <2> DEFINE A == s[1] .. FileSize - 1
             B == s[k + 1] .. e - 1
  <2>6. IsFiniteSet(A) /\ Cardinality(A) = FileSize - s[1]
    BY <2>5, Interval, RingAssumption
  <2>7. IsFiniteSet(B) /\ Cardinality(B) = e - s[k + 1]
    BY <2>5, <1>6, Interval
  <2>8. A \cap B = {}
    BY <2>4, <2>5, <1>6, RingAssumption
  <2>9. Cardinality(A \cup B) = Cardinality(A) + Cardinality(B)
    <3> HIDE DEF A, B
    <3> QED
      BY <2>6, <2>7, <2>8, TwoParts
  <2>10. Cardinality(A \cup B) <= c
    <3>1. A \cup B \subseteq Bytes(f, s)
      BY <2>2, <2>3
    <3> HIDE DEF A, B
    <3> QED
      BY <3>1, <1>5, BytesFinite, FS_Subset
  <2>11. Free(f, hd) = FileSize - HdrSize - (FileSize - s[1] + e - s[k + 1])
    <3>1. ~ (hd.head <= hd.tail)
      BY <1>3, <1>8
    <3>2. Free(f, hd) = FileSize - HdrSize - (FileSize - hd.head + hd.tail + f[hd.tail].my - hd.first)
      BY <3>1 DEF Free
    <3>3. hd.tail + f[hd.tail].my = e /\ hd.tail \in Int /\ f[hd.tail].my \in Int
      BY <1>2, <1>3, <1>4, <1>6
    <3> QED
      BY <3>2, <3>3, <1>3, <1>6, <2>1, <2>5, RingAssumption
  <2>12. c >= FileSize - s[1] + (e - s[k + 1])
    <3> HIDE DEF A, B
    <3> QED
      BY <2>6, <2>7, <2>9, <2>10, <2>5, <1>5, <1>6, RingAssumption
  <2> QED
    BY <2>5, <2>11, <2>12, <1>5, <1>6, RingAssumption
<1> QED
  BY <1>7, <1>8

\* There is no room where a drop is needed: Free is less than what is added
\* and the largest object take.
LEMMA NoRoom ==
  ASSUME RingInv, NEW s, s = Path(cells, hdr), Sized(s), CanPop
  PROVE  Len(s) > 1 /\ Free(cells, hdr) < len + largest /\ len <= largest
         /\ len \in Sizes /\ len \in Nat /\ largest \in Nat
         /\ Free(cells, hdr) \in Int /\ cells[hdr.tail].my <= largest
         /\ (hdr.head <= hdr.tail => FileSize - (hdr.tail + cells[hdr.tail].my) < len
                                     /\ hdr.head < HdrSize + len)
<1>1. /\ TypeOK /\ cells \in Files /\ hdr \in Headers /\ Geometry(cells, hdr, s)
      /\ Adding(s) /\ s \in Seq(Offsets)
  BY RingInvIs
<1>2. pc = "alloc" /\ ~ Fits /\ Readable(h.tail) /\ h.head # h.tail
  BY DEF CanPop, Trying
<1>3. h = hdr /\ len \in Sizes /\ len <= largest
  BY <1>1, <1>2 DEF Adding
<1>4. len \in Nat /\ largest \in Nat
  BY <1>1 DEF TypeOK
<1>5. s # <<>>
  BY <1>1, <1>2, <1>3, EmptyRing DEF Empty
<1>6. PICK k \in 1 .. Len(s) : Ring(cells, hdr, s, k)
  BY <1>1, <1>5, EmptyRing
<1>7. PICK n \in Nat \ {0} : n = Len(s) /\ k \in 1 .. n
  BY <1>1, <1>6, RingFacts
<1>8. \A i \in 1 .. n : s[i] \in Int /\ s[i] >= HdrSize /\ cells[s[i]].my \in Nat
                        /\ s[i] + cells[s[i]].my <= FileSize
                        /\ cells[s[i]].my <= largest
  BY <1>1, <1>6, <1>7, RingFacts DEF Sized
<1>9. /\ hdr.head = s[1] /\ hdr.tail = s[n] /\ hdr.first \in Int
      /\ hdr.head \in Int /\ hdr.tail \in Int /\ hdr.head >= HdrSize
      /\ hdr.first <= hdr.tail /\ (hdr.head <= hdr.tail <=> k = n)
  BY <1>1, <1>6, <1>7, RingHeaderFacts
<1>10. 1 \in 1 .. n /\ n \in 1 .. n
  BY <1>7
<1>11. n > 1
  BY <1>2, <1>3, <1>7, <1>9
<1>12. PICK y \in Nat : y = cells[hdr.tail].my /\ y <= largest
  BY <1>8, <1>9, <1>10
<1>13. ~ FirstTime
  BY <1>3, <1>9, RingAssumption DEF FirstTime
<1>14. CASE hdr.head <= hdr.tail
  <2>1. ~ Wrapped
    BY <1>3, <1>9, <1>14 DEF Wrapped
  <2>2. hdr.head < HdrSize + len
    <3>1. ~ RoomBefore
      BY <1>2 DEF Fits
    <3> QED
      BY <3>1, <2>1, <1>3, <1>4, <1>9, <1>13, RingAssumption DEF RoomBefore
  <2>3. FileSize - (hdr.tail + y) < len
    <3>1. ~ RoomAfter
      BY <1>2, <1>13, <2>1 DEF Fits
    <3>2. ~ (FileSize - (hdr.tail + y) >= len)
      BY <3>1, <1>2, <1>3, <1>12 DEF RoomAfter, TailEnd
    <3> QED
      BY <3>2, <1>4, <1>9, RingAssumption
  <2>4. Free(cells, hdr) = FileSize - HdrSize - (hdr.tail + y - hdr.head)
    BY <1>12, <1>14 DEF Free
  <2>5. Free(cells, hdr) < len + largest /\ Free(cells, hdr) \in Int
    <3>1. PICK a \in Int : a = hdr.head
      BY <1>9
    <3>2. PICK b \in Int : b = hdr.tail
      BY <1>9
    <3>3. Free(cells, hdr) = FileSize - HdrSize - (b + y - a)
      BY <2>4, <3>1, <3>2
    <3>4. a < HdrSize + len /\ FileSize - (b + y) < len
      BY <2>2, <2>3, <3>1, <3>2
    <3> QED
      BY <3>3, <3>4, <1>3, <1>4, RingAssumption
  <2> QED
    BY <2>2, <2>3, <2>5, <1>3, <1>4, <1>7, <1>11, <1>12, <1>14
<1>15. CASE ~ (hdr.head <= hdr.tail)
  <2>1. Wrapped
    BY <1>3, <1>9, <1>15 DEF Wrapped
  <2>2. hdr.head < hdr.tail + y + len
    <3>1. ~ RoomBetween
      BY <1>2, <2>1 DEF Fits
    <3>2. ~ (hdr.head >= hdr.tail + y + len)
      BY <3>1, <1>2, <1>3, <1>12 DEF RoomBetween, TailEnd
    <3> QED
      BY <3>2, <1>4, <1>9, <1>12
  <2>3. hdr.first < HdrSize + largest
    <3>1. hdr.first < HdrSize + cells[s[k]].my
      BY <1>6, <1>7, <1>9, <1>15 DEF Ring, RingHeader
    <3> QED
      BY <3>1, <1>4, <1>7, <1>8, <1>9, RingAssumption
  <2>4. Free(cells, hdr)
        = FileSize - HdrSize - (FileSize - hdr.head + hdr.tail + y - hdr.first)
    BY <1>12, <1>15 DEF Free
  <2>5. Free(cells, hdr) < len + largest /\ Free(cells, hdr) \in Int
    <3>1. PICK a \in Int : a = hdr.head
      BY <1>9
    <3>2. PICK b \in Int : b = hdr.tail
      BY <1>9
    <3>3. PICK c \in Int : c = hdr.first
      BY <1>9
    <3>4. Free(cells, hdr) = FileSize - HdrSize - (FileSize - a + b + y - c)
      BY <2>4, <3>1, <3>2, <3>3
    <3>5. a < b + y + len /\ c < HdrSize + largest
      BY <2>2, <2>3, <3>1, <3>2, <3>3
    <3> QED
      BY <3>4, <3>5, <1>3, <1>4, RingAssumption
  <2> QED
    BY <2>5, <1>3, <1>4, <1>7, <1>11, <1>12, <1>15
<1> QED
  BY <1>14, <1>15

\* A drop makes room for the object that is dropped.
LEMMA PopFrees ==
  ASSUME NEW f \in Files, NEW hd \in Headers, NEW s, NEW k, Ring(f, hd, s, k), Len(s) > 1
  PROVE  /\ Free(f, PopHeader(f, hd)) = Free(f, hd) + f[hd.tail].my
         /\ PopHeader(f, hd).tail = s[Len(s) - 1]
<1>1. PICK n \in Nat \ {0} : n = Len(s) /\ k \in 1 .. n /\ n > 1
  BY RingFacts
<1>2. \A i \in 1 .. n : s[i] \in Int /\ s[i] >= HdrSize /\ f[s[i]].my \in Nat
                        /\ s[i] + f[s[i]].my <= FileSize
  BY <1>1, RingFacts
<1>3. 1 \in 1 .. n /\ n \in 1 .. n /\ n - 1 \in 1 .. n - 1 /\ n - 1 \in 1 .. n
  BY <1>1
<1>4. /\ hd.head = s[1] /\ hd.tail = s[n] /\ hd.first \in Int
      /\ (hd.head <= hd.tail <=> k = n)
  BY <1>1, RingHeaderFacts
<1>5. PICK j \in 1 .. n - 1 : j = k \/ (k = n /\ j = k - 1)
  BY <1>1
<1>6. PICK t : t = SubSeq(s, 1, Len(s) - 1)
  OBVIOUS
<1>7. PICK g : g = PopHeader(f, hd)
  OBVIOUS
<1>8. /\ Ring(f, g, t, j) /\ (HdrSize + f[hd.tail].prev > hd.tail <=> k = n - 1)
      /\ (k = n - 1 => hd.tail = hd.first) /\ f[hd.tail].prev \in Sizes
  BY <1>1, <1>5, <1>6, <1>7, RingPop
<1>9. Len(t) = n - 1 /\ t[1] = s[1] /\ t[n - 1] = s[n - 1]
  <2>1. s \in Seq(Offsets)
    BY RingFacts
  <2> QED
    BY <2>1, <1>1, <1>3, <1>6
<1>10. g.head = s[1] /\ g.tail = s[n - 1] /\ (g.head <= g.tail <=> j = n - 1)
  BY <1>8, <1>9, RingHeaderFacts
<1>11. PICK y \in Nat : y = f[s[n]].my
  BY <1>2, <1>3
<1>12. PICK z \in Nat : z = f[s[n - 1]].my
  BY <1>2, <1>3
<1>13. f[hd.tail].prev \in Nat
  BY <1>8, RingAssumption DEF Sizes
<1>14. PICK a \in Int : a = s[1]
  BY <1>2, <1>3
<1>15. PICK b \in Int : b = s[n]
  BY <1>2, <1>3
<1>16. PICK c \in Int : c = s[n - 1]
  BY <1>2, <1>3
<1>17. PICK d \in Int : d = hd.first
  BY <1>4
<1>18. CASE k = n
  <2>1. s[n] = s[n - 1] + z
    <3>1. s[(n - 1) + 1] = s[n - 1] + f[s[n - 1]].my
      BY <1>1, <1>3, <1>18 DEF Ring, RingOrder, Ends
    <3> QED
      BY <3>1, <1>12
  <2>2. g.head <= g.tail
    BY <1>1, <1>5, <1>10, <1>18
  <2>3. Free(f, g) = FileSize - HdrSize - (c + z - a)
    BY <2>2, <1>10, <1>12, <1>14, <1>16 DEF Free
  <2>4. Free(f, hd) = FileSize - HdrSize - (b + y - a)
    BY <1>4, <1>11, <1>18, <1>14, <1>15 DEF Free
  <2>5. b = c + z
    BY <2>1, <1>15, <1>16
  <2>6. Free(f, g) = Free(f, hd) + y
    BY <2>3, <2>4, <2>5, RingAssumption
  <2> QED
    BY <2>6, <1>1, <1>4, <1>7, <1>10, <1>11
<1>19. CASE k = n - 1
  <2>1. s[n - 1] + z = FileSize /\ hd.first = s[n]
    BY <1>1, <1>4, <1>8, <1>12, <1>19 DEF Ring, RingHeader, Ends
  <2>2. g.head <= g.tail /\ ~ (hd.head <= hd.tail)
    BY <1>1, <1>4, <1>5, <1>10, <1>19
  <2>3. Free(f, g) = FileSize - HdrSize - (c + z - a)
    BY <2>2, <1>10, <1>12, <1>14, <1>16 DEF Free
  <2>4. Free(f, hd) = FileSize - HdrSize - (FileSize - a + b + y - b)
    BY <2>1, <2>2, <1>4, <1>11, <1>14, <1>15 DEF Free
  <2>5. c + z = FileSize
    BY <2>1, <1>16
  <2>6. Free(f, g) = Free(f, hd) + y
    BY <2>3, <2>4, <2>5, RingAssumption
  <2> QED
    BY <2>6, <1>1, <1>4, <1>7, <1>10, <1>11
<1>20. CASE k < n - 1
  <2>1. s[n] = s[n - 1] + z
    <3>1. s[(n - 1) + 1] = s[n - 1] + f[s[n - 1]].my
      BY <1>1, <1>3, <1>20 DEF Ring, RingOrder, Ends
    <3> QED
      BY <3>1, <1>12
  <2>2. ~ (g.head <= g.tail) /\ ~ (hd.head <= hd.tail)
    BY <1>1, <1>4, <1>5, <1>10, <1>20
  <2>3. g.first = hd.first
    <3>1. HdrSize + f[hd.tail].prev <= hd.tail
      <4>1. ~ (HdrSize + f[hd.tail].prev > hd.tail)
        BY <1>1, <1>8, <1>20
      <4>2. hd.tail \in Int
        BY <1>2, <1>3, <1>4
      <4> QED
        BY <4>1, <4>2, <1>13, RingAssumption
    <3> QED
      BY <3>1, <1>7 DEF PopHeader, Headers
  <2>4. Free(f, g) = FileSize - HdrSize - (FileSize - a + c + z - d)
    BY <2>2, <2>3, <1>10, <1>12, <1>14, <1>16, <1>17 DEF Free
  <2>5. Free(f, hd) = FileSize - HdrSize - (FileSize - a + b + y - d)
    BY <2>2, <1>4, <1>11, <1>14, <1>15, <1>17 DEF Free
  <2>6. b = c + z
    BY <2>1, <1>15, <1>16
  <2>7. Free(f, g) = Free(f, hd) + y
    BY <2>4, <2>5, <2>6, RingAssumption
  <2> QED
    BY <2>7, <1>1, <1>4, <1>7, <1>10, <1>11
<1> QED
  BY <1>1, <1>18, <1>19, <1>20

\* The largest object stays so, until the file is removed.
LEMMA LargestGrows ==
  ASSUME RingInv, RingInv', [Next]_vars, ~ Open
  PROVE  largest \in Nat /\ largest' \in Nat /\ largest' >= largest /\ (Large => Large')
<1>1. largest \in Nat /\ largest' \in Nat /\ len' \in Nat
  BY DEF RingInv, TypeOK
<1>2. largest' >= largest
  <2>1. CASE \E id \in Ids, n \in Lengths : Add(id, n)
    <3>1. largest' = Max({largest, len'})
      BY <2>1 DEF Add
    <3> QED
      BY <3>1, <1>1, MaxOfTwo
  <2>2. CASE UNCHANGED largest
    BY <2>2, <1>1
  <2> QED
    BY <2>1, <2>2 DEF Next, vars, AllocFirst, AllocBefore, AllocWrap, AllocBetween, Place,
       PopNext, PopWrap, PopTo, NoSpace, Unlink, WriteObj, WritePrev, WriteHdr, Crash,
       Delete, Expire
<1>3. Large => Large'
  <2>1. PICK a \in Nat : a = largest
    BY <1>1
  <2>2. PICK b \in Nat : b = largest'
    BY <1>1
  <2>3. b >= a
    BY <1>2, <2>1, <2>2
  <2>4. (Large <=> 4 * a > FileSize - HdrSize) /\ (Large' <=> 4 * b > FileSize - HdrSize)
    BY <2>1, <2>2 DEF Large
  <2>5. 4 * a > FileSize - HdrSize => 4 * b > FileSize - HdrSize
    BY <2>3, RingAssumption
  <2> QED
    BY <2>4, <2>5
<1> QED
  BY <1>1, <1>2, <1>3

\* The object that was written, before the header makes it part of the ring.
LEMMA WrittenObj ==
  ASSUME RingInv, WriteObj, NEW s, s = Path(cells, hdr)
  PROVE  Written(s)'
<1>1. TypeOK /\ cells \in Files /\ hdr \in Headers /\ Geometry(cells, hdr, s) /\ Adding(s)
  BY RingInvIs
<1>2. /\ pc = "write" /\ UNCHANGED <<h, len, largest>>
  BY DEF WriteObj, local
<1>3. len \in Sizes /\ len <= largest /\ Placed(cells, hdr, s, h, len)
  BY <1>1, <1>2 DEF Adding
<1>4. /\ h.head \in Int /\ len \in Nat /\ len > 0
      /\ (s = <<>> => h.head + len = FileSize)
  BY <1>1, <1>3, PlacedFree
<1>5. h.head \in Offsets
  BY <1>1 DEF TypeOK, Headers
<1>6. PICK f : f = [Overwritten(h.head, len) EXCEPT ![h.head] = Obj]
  OBVIOUS
<1>7. f[h.head] = Obj
  BY <1>5, <1>6 DEF Overwritten
<1>8. cells' = IF AtEnd THEN f ELSE Prev(f, h.head + len)
  BY <1>6 DEF WriteObj
<1>9. cells'[h.head] = Obj
  <2>1. CASE AtEnd
    BY <2>1, <1>7, <1>8
  <2>2. CASE ~ AtEnd
    <3>1. cells' = f \/ cells' = [f EXCEPT ![h.head + len].prev = len]
      BY <2>2, <1>8 DEF Prev
    <3>2. h.head + len # h.head
      BY <1>4
    <3>3. h.head \in DOMAIN f
      BY <1>5, <1>6 DEF Overwritten
    <3> QED
      BY <3>1, <3>2, <3>3, <1>7
  <2> QED
    BY <2>1, <2>2
<1>10. cells'[h.head].my = len
  BY <1>9 DEF Obj
<1> QED
  BY <1>2, <1>3, <1>4, <1>10 DEF Written

\* The second write leaves the size of the object as it is.
LEMMA WrittenPrev ==
  ASSUME RingInv, WritePrev, NEW s, s = Path(cells, hdr)
  PROVE  Written(s)'
<1>1. TypeOK /\ cells \in Files /\ Adding(s)
  BY RingInvIs
<1>2. /\ pc = "prev" /\ UNCHANGED <<h, len, largest>> /\ cells' = Prev(cells, h.first)
  BY DEF WritePrev, local
<1>3. s # <<>> /\ cells[h.head] = [prev |-> 0, my |-> len, val |-> val] /\ len <= largest
  BY <1>1, <1>2 DEF Adding
<1>4. h.head \in Offsets /\ h.first \in Offsets /\ len \in 0 .. FileSize
  BY <1>1 DEF TypeOK, Headers
<1>5. cells'[h.head].my = cells[h.head].my
  <2>1. CASE cells[h.first] = Junk
    BY <2>1, <1>2 DEF Prev
  <2>2. CASE cells[h.first] # Junk
    BY <2>2, <1>1, <1>2, <1>4, PrevIs
  <2> QED
    BY <2>1, <2>2
<1>6. cells[h.head].my = len
  BY <1>3
<1> QED
  BY <1>2, <1>3, <1>5, <1>6 DEF Written

\* It is known before each step, and after it.
LEMMA WrittenStep ==
  ASSUME RingInv, [Next]_vars, NEW s, s = Path(cells, hdr), NEW t, t = Path(cells', hdr'),
         Written(s)
  PROVE  Written(t)'
<1>1. CASE WriteObj
  <2>1. Geometry(cells', hdr', s) /\ cells' \in Files
    BY <1>1, WriteKeeps
  <2>2. t = s
    BY <2>1, PathIs
  <2> QED
    BY <1>1, <2>2, WrittenObj
<1>2. CASE WritePrev
  <2>1. Geometry(cells', hdr', s) /\ cells' \in Files
    BY <1>2, PrevKeeps
  <2>2. t = s
    BY <2>1, PathIs
  <2> QED
    BY <1>2, <2>2, WrittenPrev
<1>3. CASE UNCHANGED vars
  <2>1. t = s
    BY <1>3 DEF vars, file
  <2> QED
    BY <1>3, <2>1 DEF Written, vars, file, local
<1>4. CASE pc' # "header"
  BY <1>4 DEF Written
<1>5. WriteObj \/ WritePrev \/ UNCHANGED vars \/ pc' # "header"
  <2>1. CASE \E id \in Ids, n \in Lengths : Add(id, n)
    BY <2>1 DEF Add
  <2>2. CASE AllocFirst \/ AllocBefore \/ AllocWrap \/ AllocBetween
    BY <2>2 DEF AllocFirst, AllocBefore, AllocWrap, AllocBetween, Place
  <2>3. CASE PopNext \/ PopWrap
    BY <2>3 DEF PopNext, PopWrap, PopTo, CanPop, Trying
  <2>4. CASE NoSpace \/ Unlink \/ Open \/ WriteHdr \/ Crash
    BY <2>4 DEF NoSpace, Unlink, Open, WriteHdr, Crash, Return
  <2>5. CASE Expire \/ \E id \in Ids : Delete(id)
    BY <2>5 DEF Expire, Delete, Locked
  <2> QED
    BY <2>1, <2>2, <2>3, <2>4, <2>5 DEF Next
<1> QED
  BY <1>1, <1>2, <1>3, <1>4, <1>5

\* A new file has no ring.
LEMMA OpenIsEmpty == Open => Path(cells', hdr') = <<>>
<1> SUFFICES ASSUME Open PROVE Path(cells', hdr') = <<>>
  OBVIOUS
<1>1. cells' \in Files /\ Geometry(cells', hdr', <<>>)
  BY EmptyIsHeader DEF Open, Geometry
<1> QED
  BY <1>1, PathIs

\* Sized, from one ring to the next.
LEMMA SizedStep ==
  ASSUME RingInv, RingInv', [Next]_vars, NEW s, s = Path(cells, hdr), NEW t, t = Path(cells', hdr'),
         Change(s, t), Sized(s), Written(s)
  PROVE  Sized(t)'
<1>1. s \in Seq(Offsets) /\ cells \in Files
  BY RingInvIs
<1>2. PICK n \in Nat : n = Len(s)
  BY <1>1
<1>3. largest \in Nat /\ largest' \in Nat
  BY DEF RingInv, TypeOK
<1>4. \A i \in 1 .. n : cells[s[i]].my \in Nat /\ cells[s[i]].my <= largest
  <2>1. CASE s = <<>>
    BY <2>1, <1>2
  <2>2. CASE s # <<>>
    <3>1. PICK k : Ring(cells, hdr, s, k)
      BY <2>2, RingInvIs, EmptyRing
    <3> QED
      BY <3>1, <1>1, <1>2, RingFacts DEF Sized
  <2> QED
    BY <2>1, <2>2
<1>5. CASE Open
  BY <1>5, OpenIsEmpty DEF Sized
<1>6. CASE ~ Open
  <2>1. largest' >= largest
    BY <1>6, LargestGrows
  <2>2. CASE Same(s, t)
    <3>1. t = s /\ \A i \in 1 .. n : cells'[s[i]].my = cells[s[i]].my
      BY <2>2, <1>2 DEF Same
    <3>2. \A i \in 1 .. n : cells'[s[i]].my <= largest'
      BY <3>1, <2>1, <1>3, <1>4
    <3> QED
      BY <3>1, <3>2, <1>2 DEF Sized
  <2>3. CASE Popped(s, t)
    <3>1. n > 1 /\ t = SubSeq(s, 1, n - 1)
          /\ \A i \in 1 .. n - 1 : cells'[s[i]] = cells[s[i]]
      BY <2>3, <1>2 DEF Popped
    <3>2. Len(t) = n - 1 /\ \A i \in 1 .. n - 1 : t[i] = s[i] /\ i \in 1 .. n
      BY <3>1, <1>1, <1>2
    <3>3. \A i \in 1 .. n - 1 : cells'[t[i]].my <= largest'
      BY <3>1, <3>2, <2>1, <1>3, <1>4
    <3> QED
      BY <3>2, <3>3 DEF Sized
  <2>4. CASE Pushed(s, t)
    <3>1. WriteHdr /\ cells' = cells /\ t = <<h.head>> \o s
      BY <2>4 DEF Pushed
    <3>2. pc = "header" /\ largest' = largest
      BY <3>1 DEF WriteHdr
    <3>3. h.head \in Offsets
      BY DEF RingInv, TypeOK, Headers
    <3>4. Len(t) = n + 1 /\ t[1] = h.head /\ \A i \in 1 .. n : t[i + 1] = s[i]
      BY <3>1, <3>3, <1>1, <1>2
    <3>5. cells[h.head].my <= largest
      BY <3>2 DEF Written
    <3>6. ASSUME NEW i \in 1 .. n + 1 PROVE cells[t[i]].my <= largest
      <4>1. CASE i = 1
        BY <4>1, <3>4, <3>5
      <4>2. CASE i # 1
        <5>1. i - 1 \in 1 .. n /\ (i - 1) + 1 = i
          BY <4>2
        <5> QED
          BY <5>1, <3>4, <1>4
      <4> QED
        BY <4>1, <4>2
    <3> QED
      BY <3>1, <3>2, <3>4, <3>6 DEF Sized
  <2>5. CASE Open /\ t = <<>>
    BY <2>5, <1>6
  <2> QED
    BY <2>2, <2>3, <2>4, <2>5 DEF Change
<1> QED
  BY <1>5, <1>6

\* A drop that leaves one object leaves it at the end of the file, unless the
\* file was full with objects of a quarter of its size.
LEMMA LoneDrop ==
  ASSUME RingInv, PopNext \/ PopWrap, NEW s, s = Path(cells, hdr), Sized(s), Len(s) = 2
  PROVE  Large \/ s[1] + cells[s[1]].my = FileSize
<1>1. CanPop
  BY DEF PopNext, PopWrap
<1>2. cells \in Files /\ Geometry(cells, hdr, s) /\ hdr \in Headers
  BY RingInvIs
<1>3. s # <<>>
  OBVIOUS
<1>4. PICK k \in 1 .. 2 : Ring(cells, hdr, s, k)
  BY <1>2, <1>3, EmptyRing
<1>5. /\ \A i \in 1 .. 2 : s[i] \in Int /\ cells[s[i]].my \in Nat /\ cells[s[i]].my <= largest
      /\ hdr.head = s[1] /\ hdr.tail = s[2] /\ (hdr.head <= hdr.tail <=> k = 2)
  <2>1. /\ hdr.head = s[1] /\ hdr.tail = s[2] /\ (hdr.head <= hdr.tail <=> k = 2)
    BY <1>2, <1>4, RingHeaderFacts
  <2>2. \A i \in 1 .. 2 : s[i] \in Int /\ cells[s[i]].my \in Nat
    BY <1>2, <1>4, RingFacts
  <2>3. \A i \in 1 .. 2 : cells[s[i]].my <= largest
    BY DEF Sized
  <2> QED
    BY <2>1, <2>2, <2>3
<1>6. CASE k = 1
  BY <1>4, <1>6 DEF Ring, RingHeader, Ends
<1>7. CASE k = 2
  <2>1. PICK x \in Nat : x = cells[s[1]].my /\ x <= largest
    BY <1>5
  <2>2. PICK y \in Nat : y = cells[s[2]].my /\ y <= largest
    BY <1>5
  <2>3. PICK a \in Int : a = s[1]
    BY <1>5
  <2>4. PICK b \in Int : b = s[2]
    BY <1>5
  <2>5. b = a + x
    <3>1. 1 \in 1 .. Len(s) - 1 /\ 1 # k
      BY <1>7
    <3>2. s[1 + 1] = s[1] + cells[s[1]].my
      BY <3>1, <1>4 DEF Ring, RingOrder, Ends
    <3> QED
      BY <3>2, <2>1, <2>3, <2>4
  <2>6. PICK l \in Nat : l = largest
    BY <1>1, NoRoom
  <2>7. PICK m \in Nat : m = len /\ m <= l
    BY <1>1, <2>6, NoRoom
  <2>8. FileSize - (b + y) < m /\ a < HdrSize + m
    <3>1. hdr.head <= hdr.tail
      BY <1>5, <1>7
    <3>2. FileSize - (hdr.tail + cells[hdr.tail].my) < len /\ hdr.head < HdrSize + len
      BY <3>1, <1>1, NoRoom
    <3> QED
      BY <3>2, <1>5, <2>2, <2>3, <2>4, <2>7
  <2>9. 4 * l > FileSize - HdrSize
    BY <2>1, <2>2, <2>5, <2>6, <2>7, <2>8, RingAssumption
  <2> QED
    BY <2>6, <2>9 DEF Large
<1> QED
  BY <1>6, <1>7

\* Lone, from one ring to the next.
LEMMA LoneStep ==
  ASSUME RingInv, RingInv', [Next]_vars, NEW s, s = Path(cells, hdr), NEW t, t = Path(cells', hdr'),
         Change(s, t), Sized(s), Written(s), Lone(s)
  PROVE  Lone(t)'
<1>1. s \in Seq(Offsets)
  BY RingInvIs
<1> SUFFICES ASSUME Len(t) = 1
             PROVE  Large' \/ t[1] + cells'[t[1]].my = FileSize
  BY DEF Lone, Ends
<1>2. PICK m \in Nat : m = Len(t) /\ m = 1
  OBVIOUS
<1>3. ~ Open
  BY OpenIsEmpty
<1>4. largest \in Nat /\ largest' \in Nat /\ (Large => Large')
  BY <1>3, LargestGrows
<1>5. CASE Same(s, t)
  <2>1. t = s /\ cells'[s[1]].my = cells[s[1]].my
    BY <1>5, <1>2 DEF Same
  <2>2. Large \/ s[1] + cells[s[1]].my = FileSize
    BY <2>1 DEF Lone, Ends
  <2> QED
    BY <2>1, <2>2, <1>4
<1>6. CASE Popped(s, t)
  <2>1. PopNext \/ PopWrap
    BY <1>6 DEF Popped
  <2>2. PICK n \in Nat : n = Len(s)
    BY <1>1
  <2>3. n > 1 /\ t = SubSeq(s, 1, n - 1) /\ \A i \in 1 .. n - 1 : cells'[s[i]] = cells[s[i]]
    BY <2>2, <1>6 DEF Popped
  <2>4. Len(t) = n - 1 /\ t[1] = s[1]
    BY <2>2, <2>3, <1>1
  <2>5. n = 2
    <3>1. m = n - 1
      BY <2>4, <1>2
    <3> QED
      BY <3>1, <1>2
  <2>6. cells'[s[1]] = cells[s[1]]
    BY <2>3, <2>5
  <2>7. Large \/ s[1] + cells[s[1]].my = FileSize
    BY <2>1, <2>2, <2>5, LoneDrop
  <2> QED
    BY <2>4, <2>6, <2>7, <1>4
<1>7. CASE Pushed(s, t)
  <2>1. WriteHdr /\ cells' = cells /\ t = <<h.head>> \o s
    BY <1>7 DEF Pushed
  <2>2. pc = "header"
    BY <2>1 DEF WriteHdr
  <2>3. h.head \in Offsets
    BY DEF RingInv, TypeOK, Headers
  <2>4. Len(t) = Len(s) + 1 /\ t[1] = h.head
    <3>1. t = <<h.head>> \o s
      BY <2>1
    <3>2. Len(<<h.head>> \o s) = Len(s) + 1 /\ (<<h.head>> \o s)[1] = h.head
      BY <2>3, <1>1, InFront, Zenon
    <3> QED
      BY <3>1, <3>2, Zenon
  <2>5. s = <<>>
    <3>1. PICK k \in Nat : k = Len(s)
      BY <1>1
    <3>2. m = k + 1
      BY <2>4, <1>2, <3>1, Zenon
    <3>3. m = 1
      BY <1>2, Zenon
    <3>4. k = 0
      BY <3>2, <3>3
    <3>5. Len(s) = 0
      BY <3>1, <3>4, Zenon
    <3> QED
      BY <1>1, <3>5
  <2>6. h.head + cells[h.head].my = FileSize
    BY <2>2, <2>5 DEF Written
  <2> QED
    BY <2>1, <2>4, <2>6
<1> QED
  BY <1>3, <1>5, <1>6, <1>7 DEF Change

\* The objects of a ring fit into the file.
LEMMA FreeIsNat ==
  ASSUME NEW f \in Files, NEW hd, NEW s, NEW k, Ring(f, hd, s, k)
  PROVE  Free(f, hd) \in Nat
<1>1. PICK n \in Nat \ {0} : n = Len(s) /\ k \in 1 .. n
  BY RingFacts
<1>2. 1 \in 1 .. n /\ n \in 1 .. n
  BY <1>1
<1>3. PICK a \in Int : a = s[1] /\ a >= HdrSize /\ a <= FileSize
  <2>1. s[1] \in Int /\ s[1] >= HdrSize /\ f[s[1]].my \in Nat /\ s[1] + f[s[1]].my <= FileSize
    BY <1>1, <1>2, RingFacts
  <2>2. s[1] <= FileSize
    BY <2>1, RingAssumption
  <2> QED
    BY <2>1, <2>2
<1>4. PICK b \in Int : b = s[n] /\ b >= HdrSize
  BY <1>1, <1>2, RingFacts
<1>5. PICK y \in Nat : y = f[s[n]].my /\ b + y <= FileSize
  BY <1>1, <1>2, <1>4, RingFacts
<1>6. hd.head = a /\ hd.tail = b /\ (hd.head <= hd.tail <=> k = n)
  BY <1>1, <1>3, <1>4, RingHeaderFacts
<1>7. CASE k = n
  <2>1. Free(f, hd) = FileSize - HdrSize - (b + y - a)
    BY <1>4, <1>5, <1>6, <1>7 DEF Free
  <2> QED
    BY <2>1, <1>3, <1>5, RingAssumption
<1>8. CASE k # n
  <2>1. k \in 1 .. n /\ k + 1 \in 1 .. n /\ k < n /\ 1 <= k /\ hd.first = s[k + 1]
    BY <1>1, <1>8 DEF Ring, RingHeader
  <2>2. PICK c \in Int : c = hd.first /\ c >= HdrSize
    BY <1>1, <2>1, RingFacts
  <2>3. b + y <= a
    BY <1>1, <1>2, <1>3, <1>4, <1>5, <2>1 DEF Ring, RingOrder, Ends
  <2>4. Free(f, hd) = FileSize - HdrSize - (FileSize - a + b + y - c)
    BY <1>4, <1>5, <1>6, <1>8, <2>2 DEF Free
  <2> QED
    BY <2>2, <2>3, <2>4, RingAssumption
<1> QED
  BY <1>7, <1>8

\* Sizes are numbers.
LEMMA SizesAre ==
  ASSUME NEW m \in Sizes
  PROVE  m \in Nat /\ m > ObjSize /\ m >= 1 /\ HdrSize + m <= FileSize
<1>1. PICK l \in Lengths : m = ObjSize + l
  BY DEF Sizes
<1> QED
  BY <1>1, RingAssumption

\* Dropping, after a drop.
LEMMA DropCounted ==
  ASSUME RingInv, PopNext \/ PopWrap, NEW s, s = Path(cells, hdr), Sized(s), Dropping
  PROVE  Dropping'
<1> SUFFICES ASSUME NEW m \in Sizes, \A l \in Sizes : m <= l
             PROVE  pops' * m <= Free(cells, hdr)' /\ (pops' - 1) * m < 2 * largest'
  BY DEF Dropping
<1>1. /\ CanPop /\ pc = "alloc" /\ pops' = pops + 1 /\ largest' = largest
  BY DEF PopNext, PopWrap, PopTo, CanPop, Trying
<1>2. cells \in Files /\ hdr \in Headers /\ Geometry(cells, hdr, s) /\ pops \in Nat
  BY RingInvIs, RingAssumption DEF TypeOK
<1>3. PICK n \in Nat : n = Len(s) /\ n > 1
  BY PopDrops
<1>4. PICK k : Ring(cells, hdr, s, k)
  <2>1. s # <<>>
    BY <1>3
  <2> QED
    BY <2>1, <1>2, EmptyRing
<1>5. PICK y \in Nat : y = cells[hdr.tail].my /\ m <= y
  <2>1. n \in 1 .. n /\ hdr.tail = s[n]
    BY <1>2, <1>3, <1>4, RingHeaderFacts
  <2>2. cells[s[n]].my \in Sizes /\ cells[s[n]].my \in Nat
    BY <2>1, <1>2, <1>3, <1>4, RingFacts
  <2> QED
    BY <2>1, <2>2
<1>6. PICK a \in Nat : a = Free(cells, hdr)
  BY <1>2, <1>4, FreeIsNat
<1>7. Free(cells', hdr') = a + y
  <2>1. PICK g : g = PopHeader(cells, hdr)
    OBVIOUS
  <2>2. Free(cells, g) = a + y /\ g.tail = s[n - 1]
    BY <2>1, <1>2, <1>3, <1>4, <1>5, <1>6, PopFrees
  <2>3. hdr' = g /\ cells'[s[n - 1]] = cells[s[n - 1]]
    <3>1. n - 1 \in 1 .. n - 1
      BY <1>3
    <3> QED
      BY <2>1, <3>1, <1>3, PopDrops
  <2>4. Free(cells', g) = Free(cells, g)
    BY <2>2, <2>3 DEF Free
  <2> QED
    BY <2>2, <2>3, <2>4
<1>8. PICK q \in Int : q = pops * m /\ q <= a
  <2>1. m \in Nat
    BY SizesAre
  <2>2. CASE pops = 0
    <3>1. pops * m = 0
      BY <2>1, <2>2
    <3> QED
      BY <3>1
  <2>3. CASE pops > 0
    <3>1. pops * m <= a
      BY <2>3, <1>1, <1>6 DEF Dropping
    <3>2. pops * m \in Int
      BY <2>1, <1>2
    <3> QED
      BY <3>1, <3>2
  <2> QED
    BY <2>2, <2>3, <1>2
<1>9. (pops + 1) * m = q + m /\ ((pops + 1) - 1) * m = q
  <2>1. m \in Nat
    BY SizesAre
  <2>2. (pops + 1) * m = pops * m + m
    BY <2>1, <1>2
  <2>3. (pops + 1) - 1 = pops
    BY <1>2
  <2> QED
    BY <2>2, <2>3, <1>8
<1>10. a < len + largest /\ len <= largest /\ len \in Nat /\ largest \in Nat
  BY <1>1, <1>6, NoRoom
<1>11. q < 2 * largest /\ q + m <= a + y
  BY <1>5, <1>8, <1>10, SizesAre
<1> QED
  BY <1>1, <1>7, <1>9, <1>11

\* Dropping, after each step.
LEMMA DroppingStep ==
  ASSUME RingInv, [Next]_vars, NEW s, s = Path(cells, hdr), Sized(s), Dropping
  PROVE  Dropping'
<1>1. CASE PopNext \/ PopWrap
  BY <1>1, DropCounted
<1>2. CASE \E id \in Ids, n \in Lengths : Add(id, n)
  <2>1. pops' = 0
    BY <1>2 DEF Add
  <2> QED
    BY <2>1 DEF Dropping
<1>3. CASE UNCHANGED vars
  BY <1>3 DEF Dropping, Free, vars, file, local
<1>4. CASE pc' # "alloc"
  BY <1>4 DEF Dropping
<1>5. PopNext \/ PopWrap \/ (\E id \in Ids, n \in Lengths : Add(id, n))
      \/ UNCHANGED vars \/ pc' # "alloc"
  <2>1. CASE AllocFirst \/ AllocBefore \/ AllocWrap \/ AllocBetween
    BY <2>1 DEF AllocFirst, AllocBefore, AllocWrap, AllocBetween, Place
  <2>2. CASE NoSpace \/ Unlink \/ Open \/ WriteObj \/ WritePrev \/ WriteHdr \/ Crash
    BY <2>2 DEF NoSpace, Unlink, Open, WriteObj, WritePrev, WriteHdr, Crash, Return
  <2>3. CASE Expire \/ \E id \in Ids : Delete(id)
    BY <2>3 DEF Expire, Delete, Locked
  <2> QED
    BY <2>1, <2>2, <2>3 DEF Next
<1> QED
  BY <1>1, <1>2, <1>3, <1>4, <1>5

\* The sanity check of readobj() passes for the oldest object, unless nothing
\* is younger.
LEMMA TailReadable ==
  ASSUME NEW k, cells \in Files, NEW s, Ring(cells, hdr, s, k), Len(s) > 1
  PROVE  Readable(hdr.tail)
<1>1. PICK n \in Nat \ {0} : n = Len(s) /\ n > 1
  BY RingFacts
<1>2. n \in 1 .. n /\ n - 1 \in 1 .. n - 1 /\ n - 1 \in 1 .. n /\ (n - 1) + 1 = n
  BY <1>1
<1>3. hdr.tail = s[n]
  BY <1>1, RingHeaderFacts
<1>4. s[n] \in Int /\ cells[s[n]] # Junk /\ cells[s[n]].my \in Sizes
      /\ s[n] + cells[s[n]].my <= FileSize /\ cells[s[n - 1]].my \in Sizes
  BY <1>1, <1>2, RingFacts
<1>5. cells[s[n]].prev = cells[s[n - 1]].my
  BY <1>1, <1>2 DEF Ring, RingObjects
<1>6. ASSUME NEW m \in Sizes PROVE m \in ObjSize .. FileSize - 1
  BY SizesAre, RingAssumption
<1>7. cells[s[n]].my <= FileSize - s[n]
  BY <1>4, SizesAre, RingAssumption
<1> QED
  BY <1>3, <1>4, <1>5, <1>6, <1>7 DEF Readable

\* Where an object can be dropped, doadd() finds what it expects.
LEMMA DropExpected ==
  ASSUME RingInv, CanPop, HdrSize + cells[h.tail].prev > h.tail
  PROVE  h.tail = h.first
<1>1. PICK s : s = Path(cells, hdr)
  OBVIOUS
<1>2. /\ cells \in Files /\ hdr \in Headers /\ Geometry(cells, hdr, s) /\ Adding(s)
      /\ s \in Seq(Offsets)
  BY <1>1, RingInvIs
<1>3. h = hdr /\ h.head # h.tail
  BY <1>2 DEF CanPop, Trying, Adding
<1>4. s # <<>>
  BY <1>2, <1>3, EmptyRing DEF Empty
<1>5. PICK k \in 1 .. Len(s) : Ring(cells, hdr, s, k)
  BY <1>2, <1>4, EmptyRing
<1>6. PICK n \in Nat \ {0} : n = Len(s) /\ hdr.head = s[1] /\ hdr.tail = s[n]
  BY <1>2, <1>5, RingFacts, RingHeaderFacts
<1>7. n > 1
  BY <1>3, <1>6
<1>8. PICK j \in 1 .. n - 1 : j = k \/ (k = n /\ j = k - 1)
  BY <1>5, <1>6, <1>7
<1>9. (HdrSize + cells[hdr.tail].prev > hdr.tail <=> k = n - 1)
      /\ (k = n - 1 => hdr.tail = hdr.first)
  BY <1>2, <1>5, <1>6, <1>7, <1>8, RingPop
<1> QED
  BY <1>3, <1>9

\* The check of the oldest object fails only where it is alone, and had to be
\* dropped for an object that would not fit with it.
LEMMA UnreadableIsLarge ==
  ASSUME RingInv, NEW s, s = Path(cells, hdr), Sized(s), Lone(s),
         Trying, ~ Fits, ~ Readable(h.tail)
  PROVE  Large
<1>1. /\ TypeOK /\ cells \in Files /\ hdr \in Headers /\ Geometry(cells, hdr, s) /\ Adding(s)
      /\ s \in Seq(Offsets)
  BY RingInvIs
<1>2. h = hdr /\ len \in Sizes /\ len <= largest
  BY <1>1 DEF Trying, Adding
<1>3. s # <<>>
  <2>1. ~ FirstTime
    BY DEF Fits
  <2> QED
    BY <2>1, <1>1, <1>2 DEF FirstTime, Geometry, Empty
<1>4. PICK k \in 1 .. Len(s) : Ring(cells, hdr, s, k)
  BY <1>1, <1>3, EmptyRing
<1>5. PICK n \in Nat \ {0} : n = Len(s)
  BY <1>1, <1>4, RingFacts
<1>6. n = 1
  BY <1>1, <1>2, <1>4, <1>5, TailReadable
<1>7. PICK a \in Int : a = hdr.head /\ a = hdr.tail /\ a = s[1] /\ a >= HdrSize
  BY <1>1, <1>4, <1>5, <1>6, RingHeaderFacts
<1>8. PICK l \in Nat : l = largest
  BY <1>1 DEF TypeOK
<1>9. PICK m \in Nat : m = len /\ m <= l
  BY <1>2, <1>8, SizesAre
<1>10. PICK y \in Nat : y = cells[s[1]].my /\ y <= l
  <2>1. 1 \in 1 .. Len(s)
    BY <1>5, <1>6
  <2> QED
    BY <2>1, <1>1, <1>4, <1>8, RingFacts DEF Sized
<1>11. a < HdrSize + m
  <2>1. ~ FirstTime /\ ~ Wrapped
    BY <1>2, <1>7, RingAssumption DEF FirstTime, Wrapped
  <2>2. ~ (h.head >= HdrSize + len)
    BY <2>1 DEF Fits, RoomBefore
  <2> QED
    BY <2>2, <1>2, <1>7, <1>9, RingAssumption
<1>12. a + y = FileSize => 4 * l > FileSize - HdrSize
  BY <1>9, <1>10, <1>11, RingAssumption
<1>13. Large \/ a + y = FileSize
  BY <1>5, <1>6, <1>7, <1>10 DEF Lone, Ends
<1> QED
  BY <1>8, <1>12, <1>13 DEF Large

\* The loop of doadd() ends before its hundredth turn.
LEMMA LoopEnds ==
  ASSUME EnoughPops, RingInv, Dropping, pc = "alloc", pops = MaxPops,
         largest \in Sizes \cup {0}
  PROVE  Large
<1>1. TypeOK /\ Adding(Path(cells, hdr))
  BY RingInvIs
<1>2. len \in Sizes /\ len <= largest
  BY <1>1 DEF Adding
<1>3. PICK l \in Nat : l = largest /\ l \in Sizes /\ l >= 1
  <2>1. len \in Nat /\ len >= 1 /\ largest \in Nat
    BY <1>1, <1>2, SizesAre DEF TypeOK
  <2>2. largest # 0
    BY <2>1, <1>2
  <2> QED
    BY <2>1, <2>2, SizesAre
<1>4. PICK m \in Sizes : \A x \in Sizes : m <= x
  <2>1. Sizes \in SUBSET Nat
    BY SizesAre
  <2>2. Sizes # {}
    BY <1>2
  <2> QED
    BY <2>1, <2>2, Least
<1>5. m \in Nat /\ m >= 1 /\ MaxPops \in Nat
  BY SizesAre, RingAssumption
<1>6. PICK q \in Int : q = (MaxPops - 1) * m
  <2>1. (MaxPops - 1) * m \in Int
    BY <1>5
  <2> QED
    BY <2>1
<1>7. q < 2 * l
  <2>1. CASE MaxPops = 0
    <3>1. MaxPops - 1 = -1
      BY <2>1
    <3>2. q = (-1) * m
      BY <1>6, <3>1
    <3>3. (-1) * m = -m
      BY <1>5
    <3> QED
      BY <3>2, <3>3, <1>3, <1>5
  <2>2. CASE MaxPops > 0
    BY <2>2, <1>3, <1>4, <1>6 DEF Dropping
  <2> QED
    BY <2>1, <2>2, <1>5
<1>8. 4 * l <= FileSize - HdrSize => 2 * l <= q
  BY <1>3, <1>4, <1>6 DEF EnoughPops
<1>9. 4 * l > FileSize - HdrSize
  BY <1>3, <1>6, <1>7, <1>8, RingAssumption
<1> QED
  BY <1>3, <1>9 DEF Large

\* The file is removed for a large object only.
LEMMA UnlinkedIsLarge ==
  ASSUME EnoughPops, RingInv, NEW s, s = Path(cells, hdr), Sized(s), Lone(s), Dropping,
         largest \in Sizes \cup {0}, Unlink
  PROVE  Large
<1>1. CASE pc = "alloc" /\ pops = MaxPops
  BY <1>1, LoopEnds
<1>2. CASE Trying /\ ~ Fits /\ ~ Readable(h.tail)
  BY <1>2, UnreadableIsLarge
<1>3. CASE CanPop /\ HdrSize + cells[h.tail].prev > h.tail /\ h.tail # h.first
  BY <1>3, DropExpected
<1>4. CASE Locked /\ Broken(hdr)
  BY <1>4, NeverBroken
<1> QED
  BY <1>1, <1>2, <1>3, <1>4 DEF Unlink, Corrupted

\* The largest object has one of the sizes.
LEMMA LargestIs ==
  ASSUME RingInv, RingInv', [Next]_vars, largest \in Sizes \cup {0}
  PROVE  largest' \in Sizes \cup {0}
<1>1. CASE \E id \in Ids, n \in Lengths : Add(id, n)
  <2>1. PICK id \in Ids, n \in Lengths : Add(id, n)
    BY <1>1
  <2>2. largest' = Max({largest, len'}) /\ len' = ObjSize + n
    BY <2>1 DEF Add
  <2>3. len' \in Sizes
    BY <2>2 DEF Sizes
  <2>4. largest \in Int /\ len' \in Int
    BY DEF RingInv, TypeOK
  <2>5. largest' \in {largest, len'}
    BY <2>2, <2>4, MaxOfTwo
  <2> QED
    BY <2>3, <2>5
<1>2. CASE largest' = largest \/ largest' = 0
  BY <1>2
<1> QED
  BY <1>1, <1>2 DEF Next, vars, AllocFirst, AllocBefore, AllocWrap, AllocBetween, Place,
     PopNext, PopWrap, PopTo, NoSpace, Unlink, Open, WriteObj, WritePrev, WriteHdr, Crash,
     Delete, Expire

\* A removed file was to hold a large object.
LEMMA RemovedStep ==
  ASSUME EnoughPops, RingInv, RingInv', [Next]_vars, NEW s, s = Path(cells, hdr),
         Sized(s), Lone(s), Dropping, largest \in Sizes \cup {0}, RemovedIfLarge
  PROVE  RemovedIfLarge'
<1> SUFFICES ASSUME pc' = "removed" PROVE Large'
  BY DEF RemovedIfLarge, Large
<1>1. Large /\ largest' = largest
  <2>1. CASE Unlink
    <3>1. Large
      BY <2>1, UnlinkedIsLarge
    <3> QED
      BY <2>1, <3>1 DEF Unlink
  <2>2. CASE UNCHANGED vars
    BY <2>2 DEF vars, RemovedIfLarge, Large
  <2>3. CASE \E id \in Ids, n \in Lengths : Add(id, n)
    BY <2>3 DEF Add
  <2>4. CASE AllocFirst \/ AllocBefore \/ AllocWrap \/ AllocBetween
    BY <2>4 DEF AllocFirst, AllocBefore, AllocWrap, AllocBetween, Place
  <2>5. CASE NoSpace \/ Open \/ WriteHdr \/ Crash
    BY <2>5 DEF NoSpace, Open, WriteHdr, Crash, Return
  <2>6. CASE WriteObj \/ WritePrev
    BY <2>6 DEF WriteObj, WritePrev
  <2>7. CASE PopNext \/ PopWrap
    BY <2>7 DEF PopNext, PopWrap, PopTo, CanPop, Trying
  <2>8. CASE Expire \/ \E id \in Ids : Delete(id)
    BY <2>8 DEF Expire, Delete, Locked
  <2> QED
    BY <2>1, <2>2, <2>3, <2>4, <2>5, <2>6, <2>7, <2>8 DEF Next
<1> QED
  BY <1>1 DEF Large

-----------------------------------------------------------------------------

\* SizeInv of a new file.
LEMMA SizeInvInit == Init => SizeInv /\ RemovedIfLarge
<1> SUFFICES ASSUME Init PROVE SizeInv /\ RemovedIfLarge
  OBVIOUS
<1>1. RingInv
  BY InitRingInv
<1>2. cells \in Files /\ Geometry(cells, hdr, <<>>)
  BY EmptyIsHeader DEF Init, Geometry
<1>3. Path(cells, hdr) = <<>>
  BY <1>2, PathIs
<1>4. pc = "idle" /\ largest = 0
  BY DEF Init
<1>5. Sized(<<>>) /\ Written(<<>>) /\ Lone(<<>>)
  BY <1>4 DEF Sized, Written, Lone
<1> QED
  BY <1>1, <1>3, <1>4, <1>5 DEF SizeInv, Dropping, RemovedIfLarge

\* SizeInv, after each step.
LEMMA SizeInvStep == SizeInv /\ [Next]_vars => SizeInv'
<1> SUFFICES ASSUME SizeInv, [Next]_vars PROVE SizeInv'
  OBVIOUS
<1>1. PICK s : s = Path(cells, hdr)
  OBVIOUS
<1>2. RingInv /\ Sized(s) /\ Written(s) /\ Lone(s) /\ Dropping /\ largest \in Sizes \cup {0}
  BY <1>1 DEF SizeInv
<1>3. PICK t : RingInv' /\ t = Path(cells', hdr') /\ Change(s, t)
  BY <1>1, <1>2, RingStep DEF RingStepOK
<1>4. Sized(t)'
  BY <1>1, <1>2, <1>3, SizedStep
<1>5. Written(t)'
  BY <1>1, <1>2, <1>3, WrittenStep
<1>6. Lone(t)'
  BY <1>1, <1>2, <1>3, LoneStep
<1>7. Dropping'
  BY <1>1, <1>2, DroppingStep
<1>8. largest' \in Sizes \cup {0}
  BY <1>2, <1>3, LargestIs
<1> QED
  BY <1>3, <1>4, <1>5, <1>6, <1>7, <1>8 DEF SizeInv

\* SizeInv is an invariant: no cached object is larger than the largest that
\* was added, one that is alone is at the end of the file, and what the drops
\* of one doadd() free adds up.
THEOREM SizeInvariance == Spec => []SizeInv
BY SizeInvInit, SizeInvStep, PTL DEF Spec

\* DropsForRoom: doadd() drops a cached session only where the file is full
\* with what is cached, what is added and the gap that wrapping leaves.
THEOREM DropsAreForRoom == Spec => DropsForRoom
<1>1. SizeInv /\ [Next]_vars =>
        [pc = "alloc" /\ hdr.tail # hdr'.tail =>
           Used + len + largest > FileSize - HdrSize]_vars
  <2> SUFFICES ASSUME SizeInv, Next, pc = "alloc", hdr.tail # hdr'.tail
               PROVE  Used + len + largest > FileSize - HdrSize
    OBVIOUS
  <2>1. PICK s : s = Path(cells, hdr)
    OBVIOUS
  <2>2. RingInv /\ Sized(s)
    BY <2>1 DEF SizeInv
  <2>3. PopNext \/ PopWrap
    BY DEF Next, Add, Locked, AllocFirst, AllocBefore, AllocWrap, AllocBetween, Place,
       NoSpace, Unlink, Open, WriteObj, WritePrev, WriteHdr, Crash, Delete, Expire, file
  <2>4. CanPop
    BY <2>3 DEF PopNext, PopWrap
  <2>5. /\ Free(cells, hdr) < len + largest /\ Len(s) > 1
        /\ len \in Nat /\ largest \in Nat /\ Free(cells, hdr) \in Int
    BY <2>1, <2>2, <2>4, NoRoom
  <2>6. cells \in Files /\ Geometry(cells, hdr, s)
    BY <2>1, <2>2, RingInvIs
  <2>7. s # <<>>
    BY <2>5
  <2>8. PICK k : Ring(cells, hdr, s, k)
    BY <2>6, <2>7, EmptyRing
  <2>9. Used = Cardinality(Bytes(cells, s))
    BY <2>1 DEF Used
  <2>10. Used >= FileSize - HdrSize - Free(cells, hdr) /\ Used \in Nat
    BY <2>6, <2>8, <2>9, RingTakes, BytesFinite
  <2> QED
    BY <2>5, <2>10, RingAssumption
<1> QED
  BY <1>1, SizeInvariance, PTL DEF Spec, DropsForRoom

\* RemovedIfLarge, where the hundred turns of the loop of doadd() are enough:
\* no sanity check of the cache fails on what the cache wrote, unless it was
\* to hold an object larger than a quarter of the file.
THEOREM RemovedIsLarge ==
  ASSUME EnoughPops
  PROVE  Spec => []RemovedIfLarge
<1>1. SizeInv /\ RemovedIfLarge /\ [Next]_vars => RemovedIfLarge'
  <2> SUFFICES ASSUME SizeInv, RemovedIfLarge, [Next]_vars PROVE RemovedIfLarge'
    OBVIOUS
  <2>1. PICK s : s = Path(cells, hdr)
    OBVIOUS
  <2>2. RingInv /\ Sized(s) /\ Lone(s) /\ Dropping /\ largest \in Sizes \cup {0}
    BY <2>1 DEF SizeInv
  <2>3. RingInv'
    BY SizeInvStep DEF SizeInv
  <2> QED
    BY <2>1, <2>2, <2>3, RemovedStep
<1> QED
  BY <1>1, SizeInvariance, SizeInvInit, PTL DEF Spec
=============================================================================
