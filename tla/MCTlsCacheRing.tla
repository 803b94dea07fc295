---------------------------- MODULE MCTlsCacheRing ----------------------------
(* Instances of TlsCacheRing for TLC. *)
EXTENDS TlsCacheRing, TLC
CONSTANTS i1, i2
Symmetry == Permutations(Ids)
=============================================================================
