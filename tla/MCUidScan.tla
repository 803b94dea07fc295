------------------------------ MODULE MCUidScan ------------------------------
(* Instances of UidScan for TLC: messages m1, m2, ... whose file names are   *)
(* in the order of their numbers, and sessions that are alike.               *)
EXTENDS UidScan, TLC

CONSTANTS m1, m2, m3, s1, s2, s3

FileOrder == [m \in Msgs |-> IF m = m1 THEN 1 ELSE IF m = m2 THEN 2 ELSE 3]

Symmetry == Permutations(Sessions)
=============================================================================
