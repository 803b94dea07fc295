--------------------------- MODULE MCMaildirQuota ---------------------------
(* Constants for MaildirQuota.  No symmetry: the runs check liveness. *)
EXTENDS MaildirQuota

CONSTANTS m1, m2, m3

TwoMsgs == {m1, m2}
ThreeMsgs == {m1, m2, m3}
=============================================================================
