------------------------- MODULE MCMemoryAuthority -------------------------
(* Instances of MemoryAuthority for TLC. *)
EXTENDS MemoryAuthority, TLC

Symmetry == Permutations(Outcomes) \cup Permutations(Ids)
=============================================================================
