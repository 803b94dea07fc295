--------------------------- MODULE TcpdSlotsProofs ---------------------------
(***************************************************************************)
(* Proofs about the slots of couriertcpd, for any number of slots, process *)
(* ids, addresses, netblocks and limits, and whatever the bounds on edits  *)
(* and on the kernel's queue.  TcpdInv says that children and slots that   *)
(* are taken correspond one to one, but for the child whose slot the loop  *)
(* is about to fill with SIGCHLD blocked; the limits follow from it, as a  *)
(* child judges them from the table.                                       *)
(***************************************************************************)
EXTENDS TcpdSlots, FiniteSetTheorems, TLAPS

\* The table starts empty.
LEMMA InitTcpdInv == Init => TcpdInv
<1> SUFFICES ASSUME Init PROVE TcpdInv
  OBVIOUS
<1>1. FlagsOK
  BY Zenon DEF Init, FlagsOK
<1>2. TypeOK
  BY <1>1, SlotAssumption DEF Init, TypeOK, Closed, Slots, Places
<1>3. SlotInv /\ LoopInv /\ AddrInv /\ HupNotLost
  BY SlotAssumption DEF Init, SlotInv, LoopInv, AddrInv, HupNotLost, Slots,
     Children, Unstored
<1>4. \A a \in Addrs : ServedFrom(a) = {} /\ ServedBlock(a) = {}
  BY DEF Init, ServedFrom, ServedBlock
<1>5. Cardinality({}) = 0
  BY FS_EmptySet
<1>6. AddressLimits
  BY <1>4, <1>5, SlotAssumption DEF AddressLimits
<1> QED
  BY <1>2, <1>3, <1>6 DEF TcpdInv

\* The search wraps around the end of the table.
LEMMA NthIsSlot == ASSUME ptr \in Slots, NEW i \in Slots PROVE Nth(i) \in Slots
<1>1. ptr + i \in Nat
  BY DEF Slots
<1> QED
  BY <1>1, SlotAssumption DEF Slots, Nth

\* Every step leaves the flags Boolean.
LEMMA FlagsStep == FlagsOK /\ [Next]_vars => FlagsOK'
<1> SUFFICES ASSUME FlagsOK, [Next]_vars PROVE FlagsOK'
  OBVIOUS
<1> USE DEF FlagsOK, signal, access
<1>1. CASE Select \/ Found \/ Full \/ Discard \/ Wait \/ Accept \/ AcceptFails
  BY <1>1, Zenon DEF Select, Found, Full, Discard, Wait, Accept, AcceptFails
<1>2. CASE TestHup \/ Reopen \/ Fork \/ ForkFail \/ Store \/ ChildSig
  BY <1>2, Zenon DEF TestHup, Reopen, Fork, ForkFail, Store, ChildSig
<1>3. ASSUME NEW p \in Pids, Exit(p) PROVE FlagsOK'
  BY <1>3, Zenon DEF Exit
<1>4. CASE Connect \/ Edit \/ Hup \/ UNCHANGED vars
  BY <1>4, Zenon DEF Connect, Edit, Hup, vars
<1> QED
  BY <1>1, <1>2, <1>3, <1>4, Zenon DEF Next, Parent

\* Every step keeps the types: the search ends in the table, and a connection
\* is in hand when a slot is filled.
LEMMA TypeStep == TypeOK /\ LoopInv /\ [Next]_vars => TypeOK'
<1> SUFFICES ASSUME TypeOK, LoopInv, [Next]_vars PROVE TypeOK'
  OBVIOUS
<1>0. FlagsOK'
  BY FlagsStep DEF TypeOK
<1> USE <1>0, SlotAssumption DEF TypeOK, Closed, Places, table, kernel, access
<1>1. CASE Select \/ Full \/ Discard \/ Accept \/ AcceptFails
  BY <1>1 DEF Select, Full, Discard, Accept, AcceptFails
<1>2. CASE Found
  BY <1>2, NthIsSlot DEF Found
<1>3. CASE Wait
  BY <1>3 DEF Wait, Reaped, Gone, Zombies
<1>4. CASE TestHup \/ Reopen \/ ForkFail
  BY <1>4 DEF TestHup, Reopen, ForkFail
<1>10. CASE Store
  BY <1>10 DEF Store, LoopInv
<1>5. CASE Fork
  BY <1>5 DEF Fork
<1>6. CASE ChildSig
  BY <1>6 DEF ChildSig, Reaped, Gone, Zombies
<1>7. ASSUME NEW p \in Pids, Exit(p) PROVE TypeOK'
  BY <1>7 DEF Exit
<1>8. CASE Connect \/ Edit
  BY <1>8 DEF Connect, Edit
<1>11. CASE Hup
  BY <1>11 DEF Hup
<1>9. CASE UNCHANGED vars
  BY <1>9 DEF vars
<1> QED
  BY <1>1, <1>2, <1>3, <1>4, <1>5, <1>6, <1>7, <1>8, <1>9, <1>10,
     <1>11 DEF Next, Parent

\* A step that leaves the children and the table alone, and is not about to fill
\* a slot before or after, keeps what relates the two.
LEMMA LoopFrame ==
  ASSUME TcpdInv, UNCHANGED <<pids, addrs, kernel>>,
         pc # "store", pc' # "store"
  PROVE  SlotInv' /\ AddrInv' /\ AddressLimits'
<1> USE DEF kernel, TcpdInv
<1>1. Children' = Children
  BY DEF Children
<1>2. SlotInv'
  BY <1>1 DEF SlotInv, Unstored
<1>3. AddrInv'
  BY DEF AddrInv, Unstored
<1>4. AddressLimits'
  BY DEF AddressLimits, ServedFrom, ServedBlock
<1> QED
  BY <1>2, <1>3, <1>4

\* So does a step of somebody else that leaves the children and the loop alone.
LEMMA OtherFrame ==
  ASSUME TcpdInv, UNCHANGED <<table, kernel, pc, conn, child, blocked>>
  PROVE  SlotInv' /\ LoopInv' /\ AddrInv' /\ AddressLimits'
<1> USE DEF table, kernel, TcpdInv
<1>1. Children' = Children /\ \A p : Unstored(p)' <=> Unstored(p)
  BY DEF Children, Unstored
<1>2. SlotInv'
  BY <1>1 DEF SlotInv
<1>3. LoopInv'
  BY <1>1 DEF LoopInv
<1>4. AddrInv'
  BY <1>1 DEF AddrInv
<1>5. AddressLimits'
  BY DEF AddressLimits, ServedFrom, ServedBlock
<1> QED
  BY <1>2, <1>3, <1>4, <1>5

\* The steps of the loop that touch neither the table nor the children.
LEMMA LoopStep ==
  ASSUME TcpdInv,
         \/ Select \/ Found \/ Full \/ Discard \/ Accept \/ AcceptFails
         \/ TestHup \/ Reopen \/ ForkFail
  PROVE  SlotInv' /\ LoopInv' /\ AddrInv' /\ AddressLimits'
<1>1. /\ UNCHANGED <<pids, addrs, kernel>>
      /\ pc # "store" /\ pc' # "store"
  BY DEF Select, Found, Full, Discard, Accept, AcceptFails, TestHup, Reopen,
     ForkFail, table
<1>2. SlotInv' /\ AddrInv' /\ AddressLimits'
  BY <1>1, LoopFrame
<1>3. CASE Select \/ Full \/ Discard \/ AcceptFails \/ ForkFail
  BY <1>1, <1>2, <1>3 DEF Select, Full, Discard, AcceptFails, ForkFail, LoopInv
<1>4. CASE Found
  BY <1>1, <1>2, <1>4 DEF Found, FirstFree, Nth, LoopInv, Slots, TcpdInv
<1>5. CASE Accept \/ TestHup \/ Reopen
  BY <1>1, <1>2, <1>5 DEF Accept, TestHup, Reopen, LoopInv, TcpdInv, table
<1> QED
  BY <1>2, <1>3, <1>4, <1>5

\* Every child has a slot of its own, or the free one that was found for it, so
\* there are never more children than slots.
LEMMA ChildrenFit ==
  ASSUME TcpdInv
  PROVE  IsFiniteSet(Children) /\ Cardinality(Children) <= NProcs
<1> USE DEF TcpdInv
<1> DEFINE slot == [p \in Children |-> IF Unstored(p) THEN ptr
                                       ELSE CHOOSE n \in Slots : pids[n] = p]
<1>1. ASSUME NEW p \in Children
      PROVE  /\ slot[p] \in Slots
             /\ ~ Unstored(p) => pids[slot[p]] = p
             /\ Unstored(p) => pids[slot[p]] = Free
  <2>1. CASE Unstored(p)
    BY <2>1 DEF LoopInv, TypeOK, Unstored
  <2>2. CASE ~ Unstored(p)
    BY <2>2 DEF SlotInv
  <2> QED
    BY <2>1, <2>2
<1>2. Free \notin Children
  BY SlotAssumption DEF Children
<1>3. ASSUME NEW p \in Children, NEW q \in Children, slot[p] = slot[q]
      PROVE  p = q
  BY <1>1, <1>2, <1>3 DEF Unstored
<1>4. slot \in Injection(Children, Slots)
  BY <1>1, <1>3 DEF Injection, IsInjective
<1>5. IsFiniteSet(Slots) /\ Cardinality(Slots) = NProcs
  <2>1. /\ IsFiniteSet(0 .. NProcs - 1)
        /\ Cardinality(0 .. NProcs - 1) =
             IF 0 > NProcs - 1 THEN 0 ELSE NProcs - 1 - 0 + 1
    BY FS_Interval, SlotAssumption
  <2> QED
    BY <2>1, SlotAssumption DEF Slots
<1> QED
  BY <1>4, <1>5, FS_Injection

\* The connections that are served are finitely many.
LEMMA ServedFinite ==
  ASSUME TcpdInv, NEW a \in Addrs
  PROVE  IsFiniteSet(ServedFrom(a)) /\ IsFiniteSet(ServedBlock(a))
<1>1. ServedFrom(a) \subseteq Children /\ ServedBlock(a) \subseteq Children
  BY DEF ServedFrom, ServedBlock, Children
<1> QED
  BY <1>1, ChildrenFit, FS_Subset

\* While no slot is about to be filled, what a child counts in the table is no
\* less than what is served.
LEMMA ServedInTable ==
  ASSUME TcpdInv, pc # "store", NEW a \in Addrs
  PROVE  /\ Cardinality(ServedFrom(a)) <= Cardinality(SameIp(a))
         /\ Cardinality(ServedBlock(a)) <= Cardinality(SameBlock(a))
<1> USE DEF TcpdInv
<1> DEFINE SlotOf(p) == CHOOSE n \in Slots : pids[n] = p
<1>1. ASSUME NEW p \in Pids, proc[p] = "served"
      PROVE  /\ SlotOf(p) \in Slots /\ pids[SlotOf(p)] = p
             /\ pids[SlotOf(p)] # Free /\ addrs[SlotOf(p)] = from[p]
  <2>1. \E n \in Slots : pids[n] = p
    BY <1>1 DEF SlotInv, Children, Unstored
  <2> QED
    BY <1>1, <2>1, SlotAssumption DEF AddrInv
<1>2. IsFiniteSet(Slots)
  BY FS_Interval, SlotAssumption DEF Slots
<1>3. Cardinality(ServedFrom(a)) <= Cardinality(SameIp(a))
  <2> DEFINE f == [p \in ServedFrom(a) |-> SlotOf(p)]
  <2>1. f \in Injection(ServedFrom(a), SameIp(a))
    BY <1>1 DEF Injection, IsInjective, ServedFrom, SameIp
  <2>2. IsFiniteSet(SameIp(a))
    BY <1>2, FS_Subset DEF SameIp
  <2> QED
    BY <2>1, <2>2, FS_Injection
<1>4. Cardinality(ServedBlock(a)) <= Cardinality(SameBlock(a))
  <2> DEFINE f == [p \in ServedBlock(a) |-> SlotOf(p)]
  <2>1. f \in Injection(ServedBlock(a), SameBlock(a))
    BY <1>1 DEF Injection, IsInjective, ServedBlock, SameBlock
  <2>2. IsFiniteSet(SameBlock(a))
    BY <1>2, FS_Subset DEF SameBlock
  <2> QED
    BY <2>1, <2>2, FS_Injection
<1> QED
  BY <1>3, <1>4

\* No set of connections that are served grows when no child begins to serve.
LEMMA FewerServed ==
  ASSUME TcpdInv,
         \A p \in Pids : proc'[p] = "served" => proc[p] = "served" /\ from'[p] = from[p]
  PROVE  AddressLimits'
<1> SUFFICES ASSUME NEW a \in Addrs
             PROVE  /\ Cardinality(ServedFrom(a)') <= MaxPerIp[a]
                    /\ Cardinality(ServedBlock(a)') <= MaxPerC
  BY DEF AddressLimits
<1>0. IsFiniteSet(ServedFrom(a)) /\ IsFiniteSet(ServedBlock(a))
  BY ServedFinite
<1>1. ServedFrom(a)' \subseteq ServedFrom(a) /\ ServedBlock(a)' \subseteq ServedBlock(a)
  BY DEF ServedFrom, ServedBlock
<1>2. /\ Cardinality(ServedFrom(a)') <= Cardinality(ServedFrom(a))
      /\ Cardinality(ServedBlock(a)') <= Cardinality(ServedBlock(a))
  BY <1>0, <1>1, FS_Subset
<1>3. /\ IsFiniteSet(ServedFrom(a)') /\ IsFiniteSet(ServedBlock(a)')
  BY <1>0, <1>1, FS_Subset
<1>4. /\ {Cardinality(ServedFrom(a)), Cardinality(ServedBlock(a))} \subseteq Nat
      /\ {Cardinality(ServedFrom(a)'), Cardinality(ServedBlock(a)')} \subseteq Nat
  BY <1>0, <1>3, FS_CardinalityType
<1> QED
  BY <1>2, <1>4, SlotAssumption DEF TcpdInv, AddressLimits

\* The children that ended are forgotten, and their slots are free.
LEMMA ReapStep ==
  ASSUME TcpdInv, pc # "store", pc' = pc \/ pc' = "search",
         UNCHANGED <<addrs, ptr, conn>>,
         NEW dead \in SUBSET Zombies, pids' = Reaped(dead), Gone(dead)
  PROVE  SlotInv' /\ LoopInv' /\ AddrInv' /\ AddressLimits'
<1> USE DEF TcpdInv, TypeOK
<1>1. Children' = Children \ dead
  BY DEF Children, Gone
<1>2. \A n \in Slots : pids'[n] = IF pids[n] \in dead THEN Free ELSE pids[n]
  BY DEF Reaped
<1>3. SlotInv'
  BY <1>1, <1>2, SlotAssumption DEF SlotInv, Unstored, Children
<1>4. LoopInv'
  BY <1>2 DEF LoopInv
<1>5. AddrInv'
  BY <1>2, SlotAssumption DEF AddrInv, Unstored, Gone
<1>6. AddressLimits'
  <2>1. \A p \in Pids : proc'[p] = "served" => proc[p] = "served" /\ from'[p] = from[p]
    BY DEF Gone
  <2> QED
    BY <2>1, FewerServed
<1> QED
  BY <1>3, <1>4, <1>5, <1>6

\* A child that ends keeps its slot.
LEMMA ExitStep ==
  ASSUME TcpdInv, NEW p \in Pids, Exit(p)
  PROVE  SlotInv' /\ LoopInv' /\ AddrInv' /\ AddressLimits'
<1> USE DEF TcpdInv, TypeOK, Exit, table
<1>1. Children' = Children /\ \A q : Unstored(q)' <=> Unstored(q)
  BY DEF Children, Unstored
<1>2. SlotInv'
  BY <1>1 DEF SlotInv
<1>3. LoopInv'
  BY <1>1 DEF LoopInv
<1>4. \A q \in Pids : proc'[q] = "served" => proc[q] = "served" /\ from'[q] = from[q]
  OBVIOUS
<1>5. AddrInv'
  BY <1>1, <1>4 DEF AddrInv
<1>6. AddressLimits'
  BY <1>4, FewerServed
<1> QED
  BY <1>2, <1>3, <1>5, <1>6

\* The new child has no slot yet; if it serves its client, there was room.
LEMMA ForkStep ==
  ASSUME TcpdInv, Fork
  PROVE  SlotInv' /\ LoopInv' /\ AddrInv' /\ AddressLimits'
<1> USE DEF TcpdInv, TypeOK
<1>1. PICK p \in Pids, verdict \in {"served", "refused"} :
        /\ proc[p] = "none" /\ child' = p
        /\ verdict = "served" => WithinLimits(conn)
        /\ proc' = [proc EXCEPT ![p] = verdict]
        /\ from' = [from EXCEPT ![p] = IF verdict = "served" THEN conn ELSE Free]
  BY DEF Fork
<1>2. /\ pc = "fork" /\ pc' = "store" /\ blocked'
      /\ UNCHANGED <<table, conn>>
  BY DEF Fork
<1>3. Children' = Children \cup {p} /\ p \notin Children
  BY <1>1 DEF Children
<1>4. \A q : Unstored(q)' <=> q = p
  BY <1>1, <1>2 DEF Unstored
<1>5. \A n \in Slots : pids[n] # p
  BY <1>1, <1>3, SlotAssumption DEF SlotInv
<1>6. SlotInv'
  BY <1>2, <1>3, <1>4 DEF SlotInv, Unstored, table
<1>7. LoopInv'
  BY <1>1, <1>2, <1>3, <1>5 DEF LoopInv, table
<1>8. AddrInv'
  <2> SUFFICES ASSUME NEW q \in Pids, proc'[q] = "served"
               PROVE  /\ from'[q] \in Addrs
                      /\ Unstored(q)' => from'[q] = conn'
                      /\ \A n \in Slots : pids'[n] = q => addrs'[n] = from'[q]
    BY DEF AddrInv
  <2>1. CASE q = p
    BY <1>1, <1>2, <1>5, <2>1 DEF LoopInv, table
  <2>2. CASE q # p
    BY <1>1, <1>2, <1>4, <2>2 DEF AddrInv, table
  <2> QED
    BY <2>1, <2>2
<1>9. CASE verdict = "refused"
  <2>1. \A q \in Pids : proc'[q] = "served" => proc[q] = "served" /\ from'[q] = from[q]
    BY <1>1, <1>9
  <2> QED
    BY <1>6, <1>7, <1>8, <2>1, FewerServed
<1>10. CASE verdict = "served"
  <2> SUFFICES ASSUME NEW a \in Addrs
               PROVE  /\ Cardinality(ServedFrom(a)') <= MaxPerIp[a]
                      /\ Cardinality(ServedBlock(a)') <= MaxPerC
    BY <1>6, <1>7, <1>8 DEF AddressLimits
  <2>1. /\ conn \in Addrs
        /\ Cardinality(SameIp(conn)) < MaxPerIp[conn]
        /\ Cardinality(SameBlock(conn)) < MaxPerC
    BY <1>1, <1>2, <1>10 DEF WithinLimits, LoopInv
  <2>2. /\ Cardinality(ServedFrom(conn)) <= Cardinality(SameIp(conn))
        /\ Cardinality(ServedBlock(conn)) <= Cardinality(SameBlock(conn))
    BY <1>2, <2>1, ServedInTable
  <2>3. /\ IsFiniteSet(SameIp(conn)) /\ IsFiniteSet(SameBlock(conn))
    <3>1. IsFiniteSet(Slots)
      BY FS_Interval, SlotAssumption DEF Slots
    <3> QED
      BY <3>1, FS_Subset DEF SameIp, SameBlock
  <2>4. /\ IsFiniteSet(ServedFrom(a)) /\ IsFiniteSet(ServedBlock(a))
        /\ IsFiniteSet(ServedFrom(conn)) /\ IsFiniteSet(ServedBlock(conn))
    BY <2>1, ServedFinite
  <2>5. {Cardinality(SameIp(conn)), Cardinality(SameBlock(conn)),
         Cardinality(ServedFrom(a)), Cardinality(ServedBlock(a)),
         Cardinality(ServedFrom(conn)), Cardinality(ServedBlock(conn))} \subseteq Nat
    BY <2>3, <2>4, FS_CardinalityType
  <2>6. p \notin ServedFrom(a) /\ p \notin ServedBlock(a)
    BY <1>1 DEF ServedFrom, ServedBlock
  <2>7. Cardinality(ServedFrom(a)') <= MaxPerIp[a]
    <3>1. CASE a = conn
      <4>1. ServedFrom(a)' = ServedFrom(a) \cup {p}
        BY <1>1, <1>10, <3>1 DEF ServedFrom
      <4>2. Cardinality(ServedFrom(a)') = Cardinality(ServedFrom(a)) + 1
        BY <2>4, <2>6, <4>1, FS_AddElement
      <4> QED
        BY <2>1, <2>2, <2>5, <3>1, <4>2, SlotAssumption
    <3>2. CASE a # conn
      <4>1. ServedFrom(a)' = ServedFrom(a)
        BY <1>1, <1>10, <3>2 DEF ServedFrom
      <4> QED
        BY <4>1 DEF AddressLimits
    <3> QED
      BY <3>1, <3>2
  <2>8. Cardinality(ServedBlock(a)') <= MaxPerC
    <3>1. CASE Block[a] = Block[conn]
      <4>1. ServedBlock(a)' = ServedBlock(a) \cup {p} /\ ServedBlock(a) = ServedBlock(conn)
        BY <1>1, <1>10, <3>1 DEF ServedBlock
      <4>2. Cardinality(ServedBlock(a)') = Cardinality(ServedBlock(a)) + 1
        BY <2>4, <2>6, <4>1, FS_AddElement
      <4> QED
        BY <2>1, <2>2, <2>5, <4>1, <4>2, SlotAssumption
    <3>2. CASE Block[a] # Block[conn]
      <4>1. ServedBlock(a)' = ServedBlock(a)
        BY <1>1, <1>10, <3>2 DEF ServedBlock
      <4> QED
        BY <4>1 DEF AddressLimits
    <3> QED
      BY <3>1, <3>2
  <2> QED
    BY <2>7, <2>8
<1> QED
  BY <1>1, <1>9, <1>10

\* The child gets the slot that was found for it.
LEMMA StoreStep ==
  ASSUME TcpdInv, Store
  PROVE  SlotInv' /\ LoopInv' /\ AddrInv' /\ AddressLimits'
<1> USE DEF TcpdInv, TypeOK, Store, kernel
<1>1. Children' = Children
  BY DEF Children
<1>2. /\ ptr \in Slots /\ pids[ptr] = Free
      /\ child \in Children /\ \A n \in Slots : pids[n] # child
  BY DEF LoopInv
<1>3. \A n \in Slots : /\ pids'[n] = IF n = ptr THEN child ELSE pids[n]
                       /\ addrs'[n] = IF n = ptr THEN conn ELSE addrs[n]
  BY <1>2
<1>4. SlotInv'
  <2>1. \A n \in Slots : pids'[n] # Free => pids'[n] \in Children'
    BY <1>1, <1>2, <1>3 DEF SlotInv
  <2>2. \A n, k \in Slots : pids'[n] = pids'[k] /\ pids'[n] # Free => n = k
    BY <1>2, <1>3 DEF SlotInv
  <2>3. ASSUME NEW p \in Children PROVE \E n \in Slots : pids'[n] = p
    <3>1. CASE p = child
      BY <1>2, <1>3, <3>1
    <3>2. CASE p # child
      <4>1. PICK n \in Slots : pids[n] = p
        BY <3>2 DEF SlotInv, Unstored
      <4>2. p # Free
        BY SlotAssumption DEF Children
      <4> QED
        BY <1>2, <1>3, <4>1, <4>2
    <3> QED
      BY <3>1, <3>2
  <2> QED
    BY <1>1, <2>1, <2>2, <2>3 DEF SlotInv
<1>5. LoopInv'
  BY DEF LoopInv
<1>6. AddrInv'
  <2>1. \A p : ~ Unstored(p)'
    BY DEF Unstored
  <2> QED
    BY <1>3, <2>1 DEF AddrInv, Unstored
<1>7. AddressLimits'
  BY DEF AddressLimits, ServedFrom, ServedBlock
<1> QED
  BY <1>4, <1>5, <1>6, <1>7

-----------------------------------------------------------------------------
\* No SIGHUP is lost in any step: the flag is cleared before the file is read.
LEMMA HupStep == TypeOK /\ HupNotLost /\ [Next]_vars => HupNotLost'
<1> SUFFICES ASSUME TypeOK, HupNotLost, [Next]_vars PROVE HupNotLost'
  OBVIOUS
<1> USE SlotAssumption DEF TypeOK, HupNotLost, Closed, access
<1>1. CASE Select \/ Found \/ Full \/ Discard \/ Wait \/ Accept \/ AcceptFails
  BY <1>1 DEF Select, Found, Full, Discard, Wait, Accept, AcceptFails
<1>2. CASE TestHup
  BY <1>2 DEF TestHup
<1>3. CASE Reopen
  BY <1>3 DEF Reopen
<1>4. CASE Fork \/ ForkFail \/ Store \/ ChildSig
  BY <1>4 DEF Fork, ForkFail, Store, ChildSig
<1>5. ASSUME NEW p \in Pids, Exit(p) PROVE HupNotLost'
  BY <1>5 DEF Exit
<1>6. CASE Connect \/ Edit \/ Hup
  BY <1>6 DEF Connect, Edit, Hup
<1>7. CASE UNCHANGED vars
  BY <1>7 DEF vars
<1> QED
  BY <1>1, <1>2, <1>3, <1>4, <1>5, <1>6, <1>7 DEF Next, Parent

\* Every step of the parent, its children, its clients and its administrator
\* keeps the inductive invariant.
LEMMA NextTcpdInv == TcpdInv /\ [Next]_vars => TcpdInv'
<1> SUFFICES ASSUME TcpdInv, [Next]_vars PROVE TcpdInv'
  OBVIOUS
<1>1. TypeOK' /\ HupNotLost'
  BY TypeStep, HupStep DEF TcpdInv
<1> SUFFICES SlotInv' /\ LoopInv' /\ AddrInv' /\ AddressLimits'
  BY <1>1 DEF TcpdInv
<1>2. CASE \/ Select \/ Found \/ Full \/ Discard \/ Accept \/ AcceptFails
           \/ TestHup \/ Reopen \/ ForkFail
  BY <1>2, LoopStep
<1>3. CASE Wait
  <2>1. CASE Children = {} /\ UNCHANGED <<pids, kernel>>
    BY <1>3, <2>1, LoopFrame DEF Wait, LoopInv
  <2>2. ASSUME NEW p \in Zombies, pids' = Reaped({p}), Gone({p})
        PROVE  SlotInv' /\ LoopInv' /\ AddrInv' /\ AddressLimits'
    BY <1>3, <2>2, ReapStep DEF Wait
  <2> QED
    BY <1>3, <2>1, <2>2 DEF Wait
<1>4. CASE ChildSig
  <2>1. pc # "store"
    BY <1>4 DEF ChildSig, TcpdInv, LoopInv
  <2> QED
    BY <1>4, <2>1, ReapStep DEF ChildSig
<1>5. CASE Fork \/ Store
  BY <1>5, ForkStep, StoreStep
<1>6. ASSUME NEW p \in Pids, Exit(p)
      PROVE  SlotInv' /\ LoopInv' /\ AddrInv' /\ AddressLimits'
  BY <1>6, ExitStep
<1>7. CASE Connect \/ Edit \/ Hup \/ UNCHANGED vars
  <2>1. UNCHANGED <<table, kernel, pc, conn, child, blocked>>
    BY <1>7 DEF Connect, Edit, Hup, vars, signal
  <2> QED
    BY <2>1, OtherFrame
<1> QED
  BY <1>2, <1>3, <1>4, <1>5, <1>6, <1>7 DEF Next, Parent

\* The inductive invariant holds throughout.
THEOREM TcpdInvariance == Spec => []TcpdInv
  BY InitTcpdInv, NextTcpdInv, PTL DEF Spec

\* Every variable keeps its type: ptr never leaves the table, and no child is
\* stored without the address of a connection.
THEOREM TypeCorrect == Spec => []TypeOK
<1>1. TcpdInv => TypeOK
  BY DEF TcpdInv
<1> QED
  BY <1>1, TcpdInvariance, PTL

\* A slot is taken exactly by a child that has not been reaped, in whatever
\* order children end, signals come and the loop goes on.
THEOREM SlotsAlwaysMatch == Spec => []SlotsMatch
<1>1. TcpdInv => SlotsMatch
  <2> SUFFICES ASSUME TcpdInv, NEW p \in Children
               PROVE  Cardinality({n \in Slots : pids[n] = p}) =
                        IF pc = "store" /\ p = child THEN 0 ELSE 1
    BY DEF SlotsMatch, TcpdInv, SlotInv
  <2>1. CASE Unstored(p)
    <3>1. {n \in Slots : pids[n] = p} = {}
      BY <2>1 DEF TcpdInv, LoopInv, Unstored
    <3> QED
      BY <2>1, <3>1, FS_EmptySet DEF Unstored
  <2>2. CASE ~ Unstored(p)
    <3>1. PICK n \in Slots : pids[n] = p
      BY <2>2 DEF TcpdInv, SlotInv
    <3>2. p # Free
      BY SlotAssumption DEF Children
    <3>3. {k \in Slots : pids[k] = p} = {n}
      BY <3>1, <3>2 DEF TcpdInv, SlotInv
    <3> QED
      BY <2>2, <3>3, FS_Singleton DEF Unstored
  <2> QED
    BY <2>1, <2>2
<1> QED
  BY <1>1, TcpdInvariance, PTL

\* The limits hold, by address, by netblock and in total, although each child
\* judges them from a table that is out of date when it looks.
THEOREM LimitsAreKept == Spec => []LimitsKept
<1>1. TcpdInv => LimitsKept
  BY ChildrenFit DEF TcpdInv, LimitsKept
<1> QED
  BY <1>1, TcpdInvariance, PTL

\* No SIGHUP is forgotten.
THEOREM HupsAreKept == Spec => []HupNotLost
<1>1. TcpdInv => HupNotLost
  BY DEF TcpdInv
<1> QED
  BY <1>1, TcpdInvariance, PTL
=============================================================================
