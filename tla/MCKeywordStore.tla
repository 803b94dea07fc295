--------------------------- MODULE MCKeywordStore ---------------------------
(* Instances of KeywordStore for TLC.                                       *)
EXTENDS KeywordStore, TLC

CONSTANTS m1, m2, s1, s2, w1, w2, w3, a1, a2

\* Messages are alike, and so are the processes of each kind.
Symmetry == Permutations(Msgs) \cup Permutations(Scanners)
            \cup Permutations(Setters) \cup Permutations(Adders)
=============================================================================
