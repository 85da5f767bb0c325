----------------------------- MODULE MCKernelStore -----------------------------
(* Instances of KernelStore for TLC. *)
EXTENDS KernelStore, TLC

CONSTANTS docs, root

\* A domain that governs nothing, and one that is its own subordinate.
Rule(subordinates) ==
  [controller |-> root, admins |-> {}, subordinates |-> subordinates]

MCGovernances == {[d \in Domains |-> Rule({})], [d \in Domains |-> Rule(Domains)]}

Symmetry == Permutations(Caps) \cup Permutations(Boots) \cup Permutations(Actions)
            \cup Permutations(Principals) \cup Permutations(Effects)
=============================================================================
