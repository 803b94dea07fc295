---------------------------- MODULE MCThreadPool ----------------------------
(* Instances of ThreadPool for TLC.                                         *)
EXTENDS ThreadPool, TLC
CONSTANTS c1, c2, j1, j2, j3
Symmetry == Permutations(Callers) \cup Permutations(Tasks)
=============================================================================
