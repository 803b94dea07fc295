----------------------------- MODULE TlsCacheRing -----------------------------
(***************************************************************************)
(* The file of cached TLS sessions (tcpd/tlscache.c) and the callbacks     *)
(* that keep OpenSSL's sessions in it (tcpd/libcouriertls.c).              *)
(*                                                                         *)
(* Objects are written from the end of the file towards its beginning and  *)
(* wrap around.  Every operation holds a lock on the whole file, so        *)
(* operations of several processes follow each other; but a process may    *)
(* die between two writes, and the next one finds what it left.            *)
(*                                                                         *)
(* The file is a function from offsets to the object header that starts    *)
(* there, with the session that follows it, or Junk.  Sizes are those of   *)
(* the code, scaled down by the constants.                                 *)
(***************************************************************************)
EXTENDS Integers, FiniteSets, SequencesExt

CONSTANTS
  FileSize, HdrSize, ObjSize,  \* TLS_CACHESIZE, sizeof(hdr), sizeof(obj)
  Lengths,                     \* lengths of what is added
  Ids,                         \* session ids
  IntSize, SizeSize,           \* sizeof(unsigned int), sizeof(size_t)
  MaxPops,                     \* 100, the limit of the loop of doadd()
  Junk

ASSUME RingAssumption ==
  /\ FileSize \in Nat /\ HdrSize \in Nat \ {0} /\ ObjSize \in Nat \ {0}
  /\ HdrSize + ObjSize <= FileSize
  /\ Lengths \subseteq Nat \ {0}
  /\ \A n \in Lengths : HdrSize + ObjSize + n <= FileSize
  /\ IntSize \in Nat /\ SizeSize \in Nat /\ MaxPops \in Nat

Offsets == 0 .. FileSize - 1
Sizes == {ObjSize + n : n \in Lengths}
(* The timeout of a session is to come, has passed, or was set to 0.       *)
States == {"live", "expired", "deleted"}
Sessions == [id : Ids, state : States]
Objects == [prev : 0 .. FileSize, my : 0 .. FileSize, val : Sessions]
Headers == [head : Offsets, tail : Offsets, first : Offsets]

ASSUME JunkAssumption == Junk \notin Objects /\ Junk \notin Sessions

VARIABLES
  cells,    \* the objects in the file
  hdr,      \* struct hdr at the start of the file
  pc,       \* where the process that holds the lock is
  h,        \* doadd(): its copy of the header
  val,      \* doadd(): the session that is added
  len,      \* doadd(): vallen + sizeof(struct obj)
  pops,     \* doadd(): timer
  largest   \* history: the largest object since the file was made

file == <<cells, hdr>>
local == <<h, val, len, pops>>
vars == <<file, pc, local, largest>>

TypeOK ==
  /\ cells \in [Offsets -> Objects \cup {Junk}]
  /\ hdr \in Headers /\ h \in Headers
  /\ pc \in {"idle", "alloc", "write", "prev", "header", "removed"}
  /\ val \in Sessions \cup {Junk}
  /\ len \in 0 .. FileSize
  /\ pops \in 0 .. MaxPops
  /\ largest \in 0 .. FileSize

Empty == [head |-> 0, tail |-> 0, first |-> 0]
Blank == [p \in Offsets |-> Junk]

(* init(): a file of zeros, and its header.                                *)
Init ==
  /\ cells = Blank /\ hdr = Empty
  /\ pc = "idle"
  /\ h = Empty /\ val = Junk /\ len = 0 /\ pops = 0
  /\ largest = 0

-----------------------------------------------------------------------------
(* Reading the ring.                                                       *)

(* readobj() and its sanity check.                                         *)
Readable(p) ==
  /\ cells[p] # Junk
  /\ cells[p].prev \in ObjSize .. FileSize - 1
  /\ cells[p].my \in ObjSize .. FileSize - 1
  /\ cells[p].my <= FileSize - p

(* dowalk(): the object before the one at p, at hd.first at the file's end. *)
(* Nowhere is a failed sanity check.                                       *)
Nowhere == FileSize
Older(f, hd, p) ==
  IF f[p] = Junk THEN Nowhere
  ELSE LET q == p + f[p].my IN
       IF q < FileSize THEN IF p < hd.tail /\ q > hd.tail THEN Nowhere ELSE q
       ELSE IF q > FileSize \/ hd.first < HdrSize THEN Nowhere
       ELSE hd.first

(* The offsets a search of the cache reads in the file f, the newest       *)
(* object's first, up to hd.tail; each object has room for its header.     *)
MaxObjects == FileSize \div ObjSize
Further(f, hd) ==
  [s \in Seq(0 .. FileSize) |->
     IF Last(s) \in {hd.tail, Nowhere} THEN s
     ELSE Append(s, Older(f, hd, Last(s)))]
Path(f, hd) ==
  LET walk[n \in 0 .. MaxObjects - 1] ==
        IF n = 0 THEN <<hd.head>> ELSE Further(f, hd)[walk[n - 1]]
  IN  IF hd.head = 0 /\ hd.tail = 0 THEN <<>> ELSE walk[MaxObjects - 1]

Arrives(hd, path) == path # <<>> => Last(path) = hd.tail

(* readhdr(), or a search, finds the file corrupted.                       *)
Broken(hd) ==
  hd.first > hd.head \/ hd.first > hd.tail \/ ~Arrives(hd, Path(cells, hd))

-----------------------------------------------------------------------------
(* tls_cache_add().                                                        *)

Locked == pc = "idle"

Return ==
  /\ pc' = "idle"
  /\ h' = Empty /\ val' = Junk /\ len' = 0 /\ pops' = 0

(* cache_add(), of an id that no session has: OpenSSL makes them up.  Here  *)
(* the ids of sessions that are not live are used again, so that few do.   *)
(* The header is read.                                                     *)
Add(id, n) ==
  /\ Locked
  /\ \A p \in Range(Path(cells, hdr)) \ {Nowhere} :
       cells[p] # Junk => cells[p].val # [id |-> id, state |-> "live"]
  /\ h' = hdr
  /\ val' = [id |-> id, state |-> "live"]
  /\ len' = ObjSize + n
  /\ pops' = 0
  /\ pc' = "alloc"
  /\ largest' = Max({largest, len'})
  /\ UNCHANGED file

Trying == pc = "alloc" /\ pops < MaxPops
FirstTime == h.head = 0 /\ h.tail = 0
Wrapped == h.head > h.tail
TailEnd == h.tail + cells[h.tail].my
RoomBefore == ~FirstTime /\ ~Wrapped /\ h.head >= HdrSize + len
RoomAfterNever == FALSE                              \* fault: never wraps
RoomAfter == Readable(h.tail) /\ FileSize - TailEnd >= len
RoomBetween == Readable(h.tail) /\ h.head >= TailEnd + len
Fits ==
  \/ FirstTime
  \/ RoomBefore
  \/ ~FirstTime /\ ~Wrapped /\ RoomAfter
  \/ Wrapped /\ RoomBetween

Place(head, tail, first) ==
  /\ h' = [head |-> head, tail |-> tail, first |-> first]
  /\ pc' = "write"
  /\ UNCHANGED <<file, val, len, pops, largest>>

AllocFirst ==
  /\ Trying /\ FirstTime
  /\ Place(FileSize - len, FileSize - len, h.first)

AllocBefore ==
  /\ Trying /\ RoomBefore
  /\ Place(h.head - len, h.tail, h.first)

(* Fault: where the ring wraps is not remembered.                          *)
AllocWrapToTail ==
  /\ Trying /\ ~FirstTime /\ ~Wrapped /\ ~RoomBefore /\ RoomAfter
  /\ Place(FileSize - len, h.tail, h.tail)

AllocWrap ==
  /\ Trying /\ ~FirstTime /\ ~Wrapped /\ ~RoomBefore /\ RoomAfter
  /\ Place(FileSize - len, h.tail, h.head)

AllocBetween ==
  /\ Trying /\ Wrapped /\ RoomBetween
  /\ Place(h.head - len, h.tail, h.first)

(* One object is dropped from the tail, and the header written.  Its bytes *)
(* stay, and are never read again; here they become Junk.                  *)
PopTo(tail, first) ==
  /\ pops' = pops + 1
  /\ h' = [h EXCEPT !.tail = tail, !.first = first]
  /\ hdr' = h'
  /\ cells' = [cells EXCEPT ![hdr.tail] = Junk]
  /\ UNCHANGED <<pc, val, len, largest>>

CanPop == Trying /\ ~Fits /\ Readable(h.tail) /\ h.head # h.tail

PopNext ==
  /\ CanPop /\ HdrSize + cells[h.tail].prev <= h.tail
  /\ PopTo(h.tail - cells[h.tail].prev, h.first)

(* Fault: the end of the file, not the object before it.                   *)
PopWrapToEnd ==
  /\ CanPop /\ HdrSize + cells[h.tail].prev > h.tail /\ h.tail = h.first
  /\ PopTo(FileSize, 0)

PopWrap ==
  /\ CanPop /\ HdrSize + cells[h.tail].prev > h.tail /\ h.tail = h.first
  /\ PopTo(FileSize - cells[h.tail].prev, 0)

(* head == tail: the object is not added.                                  *)
NoSpace ==
  /\ Trying /\ ~Fits /\ Readable(h.tail) /\ h.head = h.tail
  /\ Return
  /\ UNCHANGED <<file, largest>>

(* A failed sanity check, in doadd() or in a search: the file is removed.  *)
Corrupted ==
  \/ pc = "alloc" /\ pops = MaxPops
  \/ Trying /\ ~Fits /\ ~Readable(h.tail)
  \/ CanPop /\ HdrSize + cells[h.tail].prev > h.tail /\ h.tail # h.first
  \/ Locked /\ Broken(hdr)

Unlink ==
  /\ Corrupted
  /\ pc' = "removed"
  /\ UNCHANGED <<file, local, largest>>

(* tls_cache_open() of the next process makes a new file.                  *)
Open ==
  /\ pc = "removed"
  /\ cells' = Blank /\ hdr' = Empty /\ largest' = 0
  /\ Return

(* The bytes of an object: what started among them is gone.                *)
Overwritten(p, n) ==
  [q \in Offsets |-> IF q \in p .. p + n - 1 THEN Junk ELSE cells[q]]

Prev(f, p) == IF f[p] = Junk THEN f ELSE [f EXCEPT ![p].prev = len]

(* The object, and in the same write the size of the object after it; at   *)
(* the end of the file that size is at h.first, and written apart.         *)
AtEnd == h.head + len >= FileSize
Obj == [prev |-> 0, my |-> len, val |-> val]

(* Fault: the object after it does not learn its size.                     *)
WriteObjOnly ==
  /\ pc = "write"
  /\ cells' = [Overwritten(h.head, len) EXCEPT ![h.head] = Obj]
  /\ pc' = IF AtEnd /\ h.head # h.tail THEN "prev" ELSE "header"
  /\ UNCHANGED <<hdr, local, largest>>

WriteObj ==
  /\ pc = "write"
  /\ LET f == [Overwritten(h.head, len) EXCEPT ![h.head] = Obj]
     IN  cells' = IF AtEnd THEN f ELSE Prev(f, h.head + len)
  /\ pc' = IF AtEnd /\ h.head # h.tail THEN "prev" ELSE "header"
  /\ UNCHANGED <<hdr, local, largest>>

WritePrev ==
  /\ pc = "prev"
  /\ cells' = Prev(cells, h.first)
  /\ pc' = "header"
  /\ UNCHANGED <<hdr, local, largest>>

WriteHdr ==
  /\ pc = "header"
  /\ hdr' = h
  /\ Return
  /\ UNCHANGED <<cells, largest>>

(* The process dies, perhaps in the middle of the write of the object; the *)
(* kernel releases its lock.                                               *)
Crash ==
  /\ pc \in {"alloc", "write", "prev", "header"}
  /\ \/ UNCHANGED cells
     \/ pc = "write" /\ cells' = Overwritten(h.head, len)
  /\ Return
  /\ UNCHANGED <<hdr, largest>>

-----------------------------------------------------------------------------
(* cache_get() and cache_del() search for a session.                       *)

(* cache_add() writes the length of an id as an unsigned int, and the id   *)
(* after it; get_func() and del_func() read it as a size_t.                *)
IdIsRead == SizeSize = IntSize
Matches(e, id) == IdIsRead /\ e.id = id

(* cache_get() returns the first session that it hits; it compares the     *)
(* timeout with the clock.                                                 *)
Found(id) ==
  LET path == Path(cells, hdr)
  IN  \E i \in DOMAIN path :
        cells[path[i]].val.state = "live" /\ Matches(cells[path[i]].val, id)

(* cache_del() compares it with 0, and so hits those that have timed out   *)
(* too; it sets the timeout of the first one to 0.                         *)
Delete(id) ==
  /\ Locked /\ ~Broken(hdr)
  /\ LET path == Path(cells, hdr)
         hit(i) == LET e == cells[path[i]].val
                   IN  e.state # "deleted" /\ Matches(e, id)
     IN  \E i \in DOMAIN path :
           /\ hit(i) /\ \A j \in 1 .. i - 1 : ~hit(j)
           /\ cells' = [cells EXCEPT ![path[i]].val.state = "deleted"]
  /\ UNCHANGED <<hdr, pc, local, largest>>

(* The timeout of the oldest session that has not timed out passes.        *)
Expire ==
  /\ Locked /\ ~Broken(hdr)
  /\ LET path == Path(cells, hdr)
         live(i) == cells[path[i]].val.state = "live"
     IN  \E i \in DOMAIN path :
           /\ live(i) /\ \A j \in i + 1 .. Len(path) : ~live(j)
           /\ cells' = [cells EXCEPT ![path[i]].val.state = "expired"]
  /\ UNCHANGED <<hdr, pc, local, largest>>

Next ==
  \/ \E id \in Ids, n \in Lengths : Add(id, n)
  \/ AllocFirst \/ AllocBefore \/ AllocWrap \/ AllocBetween
  \/ PopNext \/ PopWrap \/ NoSpace \/ Unlink \/ Open
  \/ WriteObj \/ WritePrev \/ WriteHdr \/ Crash
  \/ \E id \in Ids : Delete(id)
  \/ Expire

Spec == Init /\ [][Next]_vars

-----------------------------------------------------------------------------
(* The cached sessions, as a search reads them from the file.              *)
Listed(f, path) ==
  [i \in DOMAIN path |-> [val |-> f[path[i]].val, my |-> f[path[i]].my]]
Entries ==
  LET path == Path(cells, hdr)
  IN  IF Arrives(hdr, path) THEN Listed(cells, path) ELSE <<>>

Cache == INSTANCE SessionCache WITH
           Objects <- [val : Sessions, my : Sizes], entries <- Entries

(* The file is the queue tlscache.h promises: an add puts its object in    *)
(* front, objects are dropped from the oldest, and nothing else changes    *)
(* but in place, wherever the ring wraps and whichever write a process     *)
(* dies after.                                                             *)
ImplementsCache == Cache!Spec

(* No sanity check of doadd() or dowalk() fails, and so the cache is never *)
(* removed, unless it was to hold an object larger than a quarter of it.   *)
RemovedIfLarge == pc = "removed" => 4 * largest > FileSize - HdrSize

(* The bytes of the file that cached objects take.                         *)
Bytes(f, path) ==
  {b \in Offsets : \E i \in DOMAIN path : b \in path[i] .. path[i] + f[path[i]].my - 1}
Used == Cardinality(Bytes(cells, Path(cells, hdr)))

(* An object is dropped only for room: with what is added and the gap that *)
(* wrapping leaves, smaller than the largest object, the file is full.     *)
DropsForRoom ==
  [][pc = "alloc" /\ hdr.tail # hdr'.tail =>
       Used + len + largest > FileSize - HdrSize]_vars

(* libcouriertls.h:350: a file that is used to cache sessions.  cache_get() *)
(* finds a session that has just been added.                               *)
AddedIsFound ==
  [][\A id \in Ids :
       hdr' # hdr /\ pc = "header" /\ val.id = id => Found(id)']_vars

-----------------------------------------------------------------------------
(* The inductive invariant.  s lists the objects of the ring from the      *)
(* newest to the oldest; the first k go up to the end of the file, and the *)
(* others, if there are any, go up from hd.first.                          *)
Ends(f, s, i) == s[i] + f[s[i]].my

RingObjects(f, s) ==
  /\ s \in Seq(Offsets) /\ s # <<>>
  /\ \A i \in 1 .. Len(s) :
       f[s[i]] # Junk /\ f[s[i]].my \in Sizes
       /\ s[i] >= HdrSize /\ Ends(f, s, i) <= FileSize
  /\ \A i \in 1 .. Len(s) - 1 : f[s[i + 1]].prev = f[s[i]].my

RingOrder(f, s, k) ==
  /\ \A i, j \in 1 .. Len(s) :
       i < j /\ (j <= k \/ k < i) => Ends(f, s, i) <= s[j]
  /\ \A i, j \in 1 .. Len(s) : i <= k /\ k < j => Ends(f, s, j) <= s[i]
  /\ \A i \in 1 .. Len(s) - 1 : i # k => s[i + 1] = Ends(f, s, i)

RingHeader(f, hd, s, k) ==
  /\ hd.head = s[1] /\ hd.tail = s[Len(s)]
  /\ k = Len(s) => hd.first = 0
  /\ k < Len(s) => /\ Ends(f, s, k) = FileSize
                   /\ hd.first = s[k + 1]
                   /\ hd.first < HdrSize + f[s[k]].my

Ring(f, hd, s, k) ==
  k \in 1 .. Len(s) /\ RingObjects(f, s) /\ RingOrder(f, s, k) /\ RingHeader(f, hd, s, k)

Geometry(f, hd, s) == (s = <<>> /\ hd = Empty) \/ \E k \in 1 .. Len(s) : Ring(f, hd, s, k)

(* Where doadd() may place an object of n bytes: hd is the header it read, *)
(* and g the one it will write.                                            *)
Placed(f, hd, s, g, n) ==
  \/ s = <<>> /\ g = [head |-> FileSize - n, tail |-> FileSize - n, first |-> 0]
  \/ /\ s # <<>> /\ hd.head <= hd.tail /\ hd.head >= HdrSize + n
     /\ g = [head |-> hd.head - n, tail |-> hd.tail, first |-> hd.first]
  \/ /\ s # <<>> /\ hd.head <= hd.tail /\ hd.head < HdrSize + n
     /\ hd.tail + f[hd.tail].my <= FileSize - n
     /\ g = [head |-> FileSize - n, tail |-> hd.tail, first |-> hd.head]
  \/ /\ s # <<>> /\ hd.head > hd.tail
     /\ hd.tail + f[hd.tail].my <= hd.head - n
     /\ g = [head |-> hd.head - n, tail |-> hd.tail, first |-> hd.first]

Adding(path) ==
  /\ pc \in {"alloc", "write", "prev", "header"} =>
       val \in Sessions /\ len \in Sizes /\ len <= largest
  /\ pc = "alloc" => h = hdr
  /\ pc \in {"write", "prev"} => Placed(cells, hdr, path, h, len)
  /\ pc = "prev" => path # <<>> /\ h.first = hdr.head
  /\ pc = "prev" => cells[h.head] = [prev |-> 0, my |-> len, val |-> val]
  /\ pc = "header" => Geometry(cells, h, <<h.head>> \o path)

RingInv ==
  TypeOK /\ \E path \in {Path(cells, hdr)} : Geometry(cells, hdr, path) /\ Adding(path)

(* What the sizes add to it.  Free is what the objects leave of the file.  *)
Large == 4 * largest > FileSize - HdrSize
Free(f, hd) ==
  FileSize - HdrSize -
    (IF hd.head <= hd.tail THEN hd.tail + f[hd.tail].my - hd.head
     ELSE FileSize - hd.head + hd.tail + f[hd.tail].my - hd.first)

Sized(path) == \A i \in 1 .. Len(path) : cells[path[i]].my <= largest
Written(path) ==
  pc = "header" => /\ cells[h.head].my <= largest
                   /\ path = <<>> => h.head + cells[h.head].my = FileSize

Lone(path) == Len(path) = 1 => Large \/ Ends(cells, path, 1) = FileSize

(* Each drop frees as much as the smallest object takes, at least.         *)
Dropping ==
  pc = "alloc" /\ pops > 0 =>
    \A m \in Sizes : (\A l \in Sizes : m <= l) =>
      pops * m <= Free(cells, hdr) /\ (pops - 1) * m < 2 * largest

SizeInv ==
  /\ RingInv /\ Dropping /\ largest \in Sizes \cup {0}
  /\ \E path \in {Path(cells, hdr)} : Sized(path) /\ Written(path) /\ Lone(path)

(* The loop of doadd() goes on until there is room: where the largest      *)
(* object takes a quarter of the file, half of it is less than MaxPops of  *)
(* the smallest take.                                                      *)
EnoughPops ==
  \A m, n \in Sizes : 4 * n <= FileSize - HdrSize => 2 * n <= (MaxPops - 1) * m
=============================================================================
