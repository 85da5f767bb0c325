------------------------ MODULE MCRecoverableEffects ------------------------
(* Instances of RecoverableEffects for TLC. *)
EXTENDS RecoverableEffects, TLC

Symmetry == Permutations(Keys)
=============================================================================
