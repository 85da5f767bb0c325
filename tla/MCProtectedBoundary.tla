------------------------ MODULE MCProtectedBoundary ------------------------
(* Instances of ProtectedBoundary for TLC. *)
EXTENDS ProtectedBoundary, TLC

Symmetry == Permutations(Keys) \cup Permutations(Effects) \cup Permutations(Outcomes)
            \cup Permutations(RefusalIds)
=============================================================================
