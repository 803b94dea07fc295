----------------------------- MODULE MCTcpdSlots -----------------------------
(* Instances of TcpdSlots for TLC: two addresses of one netblock, one of    *)
(* which has a limit of its own.                                            *)
EXTENDS TcpdSlots, TLC
CONSTANTS p1, p2, p3, a1, a2
Netblocks == [a \in {a1, a2} |-> "a"]
Limits == [a \in {a1, a2} |-> IF a = a1 THEN 1 ELSE 2]
=============================================================================
