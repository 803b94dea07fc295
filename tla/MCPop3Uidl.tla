----------------------------- MODULE MCPop3Uidl -----------------------------
(* Constants for Pop3Uidl.  The messages are ordered by their names, so that *)
(* only the sessions are symmetric.                                         *)
EXTENDS Pop3Uidl, TLC

CONSTANTS m1, m2, s1, s2

NameOrder == <<m1, m2>>
Symmetry == Permutations(Sessions)

Torn == {m \in Msgs : torn[m] # 0}
Busy == {s \in Sessions : sess[s].pc # "out"}

\* Bounds: one fault, or one message that is renamed while a session reads cur;
\* and two sessions at once only where there is neither, with one flag and the
\* deletions of one of them.
Few ==
    /\ faults + Cardinality(Torn) <= 1
    /\ Cardinality(Busy) > 1 =>
        /\ faults = 0 /\ Torn = {}
        /\ Cardinality(seen) <= 1
        /\ Cardinality({s \in Busy : sess[s].asked # {}}) <= 1
=============================================================================
