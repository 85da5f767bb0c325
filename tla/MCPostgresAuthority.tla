------------------------ MODULE MCPostgresAuthority ------------------------
(* Instances of PostgresAuthority for TLC. *)
EXTENDS PostgresAuthority, TLC

Symmetry == Permutations(Sessions) \cup Permutations(Ids)
SymmetryAll == Symmetry \cup Permutations(Outcomes)
=============================================================================
