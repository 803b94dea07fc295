------------------------------ MODULE TcpdSlots ------------------------------
(***************************************************************************)
(* couriertcpd's connection slots (tcpd/tcpd.c) over waitlib's handling of *)
(* SIGCHLD (waitlib/waitlib.c, the build with wait3 and sigprocmask).      *)
(*                                                                         *)
(* One parent accepts connections and forks a child for each.  pids and    *)
(* addrs, the table of slots, are filled by the accept loop and cleared by *)
(* the handler of SIGCHLD, which the kernel runs between any two steps of  *)
(* the loop while the signal is not blocked.  A child inherits the table   *)
(* and judges the limits for its address from that copy.                   *)
(*                                                                         *)
(* SIGCHLD does not queue: `pending' is one bit, and giving the signal its *)
(* default action, which is to ignore it, drops it even while it is        *)
(* blocked.  The kernel may give a process the id of one that was reaped.  *)
(***************************************************************************)
EXTENDS Integers, FiniteSets

CONSTANTS
  NProcs,      \* -maxprocs, the number of slots
  Pids,        \* the process ids the kernel hands out
  Addrs,       \* addresses of clients
  Block,       \* Block[a]: the netblock of a, all of its bytes but the last
  MaxPerIp,    \* MaxPerIp[a]: -maxperip, or MAXCPERIP of the access file
               \* where that is the same in all editions, and if none is open
  MaxPerC,     \* -maxperc
  MaxBacklog,  \* bound: connections in the kernel's queue
  MaxEdits,    \* bound: edits of the access file
  ForkFails,   \* whether fork() may fail
  Aborts,      \* whether a connection may be gone when it is accepted
  Free         \* pids[n] == -1

ASSUME SlotAssumption ==
  /\ NProcs \in Nat \ {0}
  /\ MaxPerC \in Nat \ {0}
  /\ MaxPerIp \in [Addrs -> Nat \ {0}]
  /\ Addrs = DOMAIN Block
  /\ Free \notin Pids \cup Addrs
  /\ MaxBacklog \in Nat /\ MaxEdits \in Nat
  /\ ForkFails \in BOOLEAN /\ Aborts \in BOOLEAN

Slots == 0 .. NProcs - 1
Closed == -1

VARIABLES
  pids,      \* the child in each slot, or Free
  addrs,     \* its address; kept when the slot is cleared
  ptr,       \* pidptr of doit(): where the search for a slot goes on
  pc,        \* where the accept loop is
  conn,      \* the address of the connection in hand, or Free
  child,     \* what fork() returned
  blocked,   \* SIGCHLD is blocked
  pending,   \* SIGCHLD is pending
  handler,   \* childsig is the action of SIGCHLD (or its default)
  proc,      \* kernel: what each process id is
  from,      \* the client that each child serves, or Free
  backlog,   \* the connections that wait in the kernel's queue
  sighup,    \* sighup_received
  file,      \* the edition of the access file on disk
  rules,     \* the edition the parent has open, or Closed
  hupFile    \* the edition on disk when the last SIGHUP was sent

table  == <<pids, addrs, ptr>>
signal == <<blocked, pending, handler>>
kernel == <<proc, from>>
access == <<sighup, file, rules, hupFile>>
vars == <<table, pc, conn, child, signal, kernel, backlog, access>>

Places == {"select", "search", "discard", "wait", "accept", "hup", "reopen",
           "fork", "store"}

(* Whether SIGCHLD is blocked, pending and handled, and SIGHUP received.    *)
FlagsOK == {blocked, pending, handler, sighup} \subseteq BOOLEAN

TypeOK ==
  /\ pids \in [Slots -> Pids \cup {Free}]
  /\ addrs \in [Slots -> Addrs]
  /\ ptr \in Slots
  /\ pc \in Places
  /\ conn \in Addrs \cup {Free}
  /\ child \in Pids \cup {Free}
  /\ FlagsOK
  /\ proc \in [Pids -> {"none", "served", "refused", "zombie"}]
  /\ from \in [Pids -> Addrs \cup {Free}]
  /\ backlog \in 0 .. MaxBacklog
  /\ file \in 0 .. MaxEdits /\ rules \in Closed .. file /\ hupFile \in 0 .. file

Init ==
  /\ conn = Free
  /\ pids = [n \in Slots |-> Free]
  /\ \E a \in Addrs : addrs = [n \in Slots |-> a]     \* not initialized
  /\ ptr = 0
  /\ pc = "select"
  /\ child = Free
  /\ blocked = FALSE /\ pending = FALSE /\ handler = TRUE
  /\ proc = [p \in Pids |-> "none"]
  /\ from = [p \in Pids |-> Free]
  /\ backlog = 0
  /\ sighup = FALSE /\ file = 0 /\ rules = 0 /\ hupFile = 0

-----------------------------------------------------------------------------
(* doreap(): the slot of each process that was reaped is cleared.          *)

Reaped(dead) ==
  [n \in Slots |-> IF pids[n] \in dead THEN Free ELSE pids[n]]

Children == {p \in Pids : proc[p] # "none"}
Zombies == {p \in Pids : proc[p] = "zombie"}

(* The kernel forgets the children that were waited for.                   *)
Gone(dead) ==
  /\ proc' = [p \in Pids |-> IF p \in dead THEN "none" ELSE proc[p]]
  /\ UNCHANGED from

(* childsig() and wait_reap(): every child that ended is reaped.           *)
ChildSig ==
  /\ pending /\ ~blocked /\ handler
  /\ pids' = Reaped(Zombies)
  /\ Gone(Zombies)
  /\ pending' = FALSE
  /\ UNCHANGED <<addrs, ptr, pc, conn, child, blocked, handler, backlog, access>>

-----------------------------------------------------------------------------
(* The accept loop.                                                        *)

(* select() reports a connection.                                          *)
Select ==
  /\ pc = "select" /\ backlog > 0
  /\ pc' = "search"
  /\ UNCHANGED <<table, conn, child, signal, kernel, backlog, access>>

(* getfreeslot(): the slots in the order of the search, from *pidptr.      *)
Nth(i) == (ptr + i) % NProcs
FirstFree(i) == pids[Nth(i)] = Free /\ \A j \in 0 .. i - 1 : pids[Nth(j)] # Free

(* Fault: the search runs off the end of the table.                        *)
FoundNoWrap ==
  /\ pc = "search"
  /\ \E i \in Slots : FirstFree(i) /\ ptr' = ptr + i
  /\ blocked' = FALSE
  /\ pc' = "accept"
  /\ UNCHANGED <<pids, addrs, conn, child, pending, handler, kernel, backlog,
                 access>>

Found ==
  /\ pc = "search"
  /\ \E i \in Slots : FirstFree(i) /\ ptr' = Nth(i)
  /\ blocked' = FALSE
  /\ pc' = "accept"
  /\ UNCHANGED <<pids, addrs, conn, child, pending, handler, kernel, backlog,
                 access>>

Full ==
  /\ pc = "search"
  /\ \A n \in Slots : pids[n] # Free
  /\ blocked' = TRUE
  /\ pc' = "discard"
  /\ UNCHANGED <<table, conn, child, pending, handler, kernel, backlog, access>>

(* wait_forchild(): SIGCHLD gets its default action, which drops it; one   *)
(* child is waited for and reaped; childsig becomes the action again.      *)
Discard ==
  /\ pc = "discard"
  /\ handler' = FALSE
  /\ pending' = FALSE
  /\ pc' = "wait"
  /\ UNCHANGED <<table, conn, child, blocked, kernel, backlog, access>>

(* Fault: the child that was waited for keeps its slot.                    *)
WaitOnly ==
  /\ pc = "wait"
  /\ \/ \E p \in Zombies : Gone({p}) /\ UNCHANGED pids
     \/ Children = {} /\ UNCHANGED <<pids, kernel>>
  /\ handler' = TRUE
  /\ pc' = "search"
  /\ UNCHANGED <<addrs, ptr, conn, child, blocked, pending, backlog, access>>

Wait ==
  /\ pc = "wait"
  /\ \/ \E p \in Zombies : pids' = Reaped({p}) /\ Gone({p})
     \/ Children = {} /\ UNCHANGED <<pids, kernel>>     \* wait() fails: ECHILD
  /\ handler' = TRUE
  /\ pc' = "search"
  /\ UNCHANGED <<addrs, ptr, conn, child, blocked, pending, backlog, access>>

(* sox_accept() and the system calls on the socket before the fork.        *)
Accept ==
  /\ pc = "accept" /\ backlog > 0
  /\ backlog' = backlog - 1
  /\ conn' \in Addrs
  /\ pc' = "hup"
  /\ UNCHANGED <<table, child, signal, kernel, access>>

AcceptFails ==
  /\ pc = "accept" /\ (Aborts \/ backlog = 0)
  /\ backlog' = IF backlog > 0 THEN backlog - 1 ELSE 0
  /\ pc' = "select"
  /\ UNCHANGED <<table, conn, child, signal, kernel, access>>

(* SIGHUP was received: the flag is cleared, then the access file is       *)
(* opened again.  When that fails the loop goes on with none.              *)
TestHup ==
  /\ pc = "hup"
  /\ sighup' = FALSE
  /\ pc' = IF sighup THEN "reopen" ELSE "fork"
  /\ UNCHANGED <<table, conn, child, signal, kernel, backlog, file, rules,
                 hupFile>>

Reopen ==
  /\ pc = "reopen"
  /\ rules' \in {file, Closed}
  /\ pc' = "fork"
  /\ UNCHANGED <<table, conn, child, signal, kernel, backlog, sighup, file,
                 hupFile>>

(* The start of run(): the connections of an address and of its netblock   *)
(* in the child's copy of the table.                                       *)
SameIp(a) == {n \in Slots : pids[n] # Free /\ addrs[n] = a}
SameBlock(a) == {n \in Slots : pids[n] # Free /\ Block[addrs[n]] = Block[a]}
(* Fault: the connection that comes on top is not counted.                 *)
WithinLimitsPlusOne(a) ==
  /\ Cardinality(SameIp(a)) <= MaxPerIp[a]
  /\ Cardinality(SameBlock(a)) <= MaxPerC

WithinLimits(a) ==
  /\ Cardinality(SameIp(a)) < MaxPerIp[a]
  /\ Cardinality(SameBlock(a)) < MaxPerC

(* Fault: no wait_block() around fork() and the table.                     *)
ForkUnblocked ==
  /\ pc = "fork"
  /\ \E p \in Pids :
       /\ proc[p] = "none"
       /\ child' = p
       /\ \E verdict \in {"served", "refused"} :
            /\ verdict = "served" => WithinLimits(conn)
            /\ proc' = [proc EXCEPT ![p] = verdict]
            /\ from' = [from EXCEPT ![p] = IF verdict = "served" THEN conn ELSE Free]
  /\ pc' = "store"
  /\ UNCHANGED <<table, conn, blocked, pending, handler, backlog, access>>

(* wait_block() and fork().  The child that is not refused for a limit may *)
(* be for its address (allowaccess(), check_drop()).                       *)
Fork ==
  /\ pc = "fork"
  /\ blocked' = TRUE
  /\ \E p \in Pids :
       /\ proc[p] = "none"
       /\ child' = p
       /\ \E verdict \in {"served", "refused"} :
            /\ verdict = "served" => WithinLimits(conn)
            /\ proc' = [proc EXCEPT ![p] = verdict]
            /\ from' = [from EXCEPT ![p] = IF verdict = "served" THEN conn ELSE Free]
  /\ pc' = "store"
  /\ UNCHANGED <<table, conn, pending, handler, backlog, access>>

(* fork() fails: the return leaves SIGCHLD blocked.                        *)
ForkFail ==
  /\ pc = "fork"
  /\ ForkFails \/ Pids \subseteq Children
  /\ blocked' = TRUE
  /\ conn' = Free
  /\ pc' = "select"
  /\ UNCHANGED <<table, child, pending, handler, kernel, backlog, access>>

(* Fault: the flag is cleared when the connection has been dealt with.      *)
StoreAndClear ==
  /\ pc = "store"
  /\ pids' = [pids EXCEPT ![ptr] = child]
  /\ addrs' = [addrs EXCEPT ![ptr] = conn]
  /\ blocked' = FALSE
  /\ child' = Free /\ conn' = Free
  /\ sighup' = FALSE
  /\ pc' = "select"
  /\ UNCHANGED <<ptr, pending, handler, kernel, backlog, file, rules,
                 hupFile>>

Store ==
  /\ pc = "store"
  /\ pids' = [pids EXCEPT ![ptr] = child]
  /\ addrs' = [addrs EXCEPT ![ptr] = conn]
  /\ blocked' = FALSE
  /\ child' = Free /\ conn' = Free
  /\ pc' = "select"
  /\ UNCHANGED <<ptr, pending, handler, kernel, backlog, access>>

-----------------------------------------------------------------------------
(* The children, the clients and the administrator.                        *)

Exit(p) ==
  /\ proc[p] \in {"served", "refused"}
  /\ proc' = [proc EXCEPT ![p] = "zombie"]
  /\ from' = [from EXCEPT ![p] = Free]
  /\ pending' = TRUE
  /\ UNCHANGED <<table, pc, conn, child, blocked, handler, backlog, access>>

Connect ==
  /\ backlog < MaxBacklog
  /\ backlog' = backlog + 1
  /\ UNCHANGED <<table, pc, conn, child, signal, kernel, access>>

Edit ==
  /\ file < MaxEdits
  /\ file' = file + 1
  /\ UNCHANGED <<table, pc, conn, child, signal, kernel, backlog, sighup, rules,
                 hupFile>>

Hup ==
  /\ sighup' = TRUE
  /\ hupFile' = file
  /\ <<sighup, hupFile>> # <<TRUE, file>>
  /\ UNCHANGED <<table, pc, conn, child, signal, kernel, backlog, file, rules>>

Parent ==
  \/ Select \/ Found \/ Full \/ Discard \/ Wait \/ Accept \/ AcceptFails
  \/ TestHup \/ Reopen \/ Fork \/ ForkFail \/ Store

Next ==
  \/ Parent \/ ChildSig
  \/ \E p \in Pids : Exit(p)
  \/ Connect \/ Edit \/ Hup

Spec == Init /\ [][Next]_vars

(* The kernel runs the parent and delivers its signals, and every          *)
(* connection ends.                                                        *)
FairSpec ==
  /\ Spec
  /\ WF_vars(Parent)
  /\ WF_vars(ChildSig)
  /\ \A p \in Pids : WF_vars(Exit(p))

-----------------------------------------------------------------------------
(* Every child that was not reaped has one slot, and every slot that is    *)
(* taken such a child; only the child of a fork() whose slot is about to   *)
(* be filled has none.  A child reaped before its slot is filled would     *)
(* keep the slot for ever; one whose slot was lost would not be counted.   *)
SlotsMatch ==
  /\ \A p \in Children :
       Cardinality({n \in Slots : pids[n] = p}) =
         IF pc = "store" /\ p = child THEN 0 ELSE 1
  /\ \A n \in Slots : pids[n] # Free => pids[n] \in Children

(* The connections of an address, and of its netblock, that are served.    *)
ServedFrom(a) == {p \in Pids : proc[p] = "served" /\ from[p] = a}
ServedBlock(a) == {p \in Pids : proc[p] = "served" /\ Block[from[p]] = Block[a]}
AddressLimits ==
  \A a \in Addrs : /\ Cardinality(ServedFrom(a)) <= MaxPerIp[a]
                   /\ Cardinality(ServedBlock(a)) <= MaxPerC

(* No more than maxperip connections of an address are served at a time,   *)
(* no more than maxperc of a netblock, and no more than maxprocs children  *)
(* exist.                                                                  *)
LimitsKept == AddressLimits /\ Cardinality(Children) <= NProcs

(* No SIGHUP is lost: while the flag is clear and the file is not about to *)
(* be opened, the parent has at least the edition that was on disk when    *)
(* the last SIGHUP was sent, or none because it could not be opened.       *)
HupNotLost == sighup \/ pc = "reopen" \/ rules = Closed \/ rules >= hupFile

(* The loop never stops for good: a connection that waits is taken,        *)
(* whatever ended, or was blocked or dropped, while the slots were full.   *)
ConnectionTaken == backlog > 0 ~> pc = "accept"
-----------------------------------------------------------------------------
(* The inductive invariant of the table.                                   *)

(* The child whose slot is about to be filled, which SIGCHLD must wait for. *)
Unstored(p) == pc = "store" /\ p = child

(* Children and slots that are taken correspond one to one.                *)
SlotInv ==
  /\ \A n \in Slots : pids[n] # Free => pids[n] \in Children
  /\ \A n, k \in Slots : pids[n] = pids[k] /\ pids[n] # Free => n = k
  /\ \A p \in Children : Unstored(p) \/ \E n \in Slots : pids[n] = p

(* The slot that was found stays free: only this loop fills slots.         *)
LoopInv ==
  /\ pc \in {"accept", "hup", "reopen", "fork", "store"} => pids[ptr] = Free
  /\ pc \in {"hup", "reopen", "fork", "store"} => conn \in Addrs
  /\ pc = "store" => /\ blocked
                     /\ child \in Children
                     /\ \A n \in Slots : pids[n] # child

(* The table says what address each child serves.                          *)
AddrInv ==
  \A p \in Pids : proc[p] = "served" =>
    /\ from[p] \in Addrs
    /\ Unstored(p) => from[p] = conn
    /\ \A n \in Slots : pids[n] = p => addrs[n] = from[p]

TcpdInv == TypeOK /\ SlotInv /\ LoopInv /\ AddrInv /\ AddressLimits /\ HupNotLost
=============================================================================
