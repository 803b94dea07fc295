---------------------------- MODULE MCMaildirLock ----------------------------
(* Instances of MaildirLock for TLC: the hosts of the processes.            *)
EXTENDS MaildirLock, TLC

CONSTANTS p1, p2, p3

OneHost  == [p \in Procs |-> "here"]
TwoHosts == [p \in Procs |-> IF p = p1 THEN "there" ELSE "here"]

=============================================================================
