----------------------------- MODULE SessionCache -----------------------------
(***************************************************************************)
(* What tcpd/tlscache.h promises of the cache of TLS sessions: a queue     *)
(* searched from the object that was added last, which forgets the oldest  *)
(* objects, and changes an object only in place.  A cache that looks       *)
(* corrupt is removed.                                                     *)
(***************************************************************************)
EXTENDS Sequences, Naturals

CONSTANT Objects      \* what can be cached

VARIABLE entries      \* the cached objects, the newest first

Init == entries = <<>>

Added(old, new) == new # <<>> /\ Head(new) \in Objects /\ Tail(new) = old

OldestDropped(old, new) ==
  old # <<>> /\ new = SubSeq(old, 1, Len(old) - 1)

Updated(old, new) ==
  /\ DOMAIN old = DOMAIN new
  /\ \E i \in DOMAIN old :
       new[i] \in Objects /\ new = [old EXCEPT ![i] = new[i]]

Removed(new) == new = <<>>

Next ==
  \E old \in {entries}, new \in {entries'} :
    Added(old, new) \/ OldestDropped(old, new) \/ Updated(old, new) \/ Removed(new)

Spec == Init /\ [][Next]_entries
=============================================================================
