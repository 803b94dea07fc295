---------------------------- MODULE UidSequence ----------------------------
(***************************************************************************)
(* What IMAP clients are promised of UIDs: the messages of a mailbox are   *)
(* given UIDs that are never given again while its UIDVALIDITY stays the   *)
(* same, and messages that come later are given larger ones.               *)
(***************************************************************************)
EXTENDS Naturals

VARIABLE given   \* all [uidv, uid, msg] that have been given

Init == given = {}

\* Messages are given UIDs, one each, above all those given so far.
Give ==
    /\ given \subseteq given'
    /\ \A g \in given' \ given :
          /\ \A h \in given : h.uidv = g.uidv => h.uid < g.uid
          /\ \A h \in given' \ given : h.uidv = g.uidv /\ h.uid = g.uid => h = g

Spec == Init /\ [][Give]_given
=============================================================================
