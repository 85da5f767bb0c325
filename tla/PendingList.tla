------------------------------ MODULE PendingList ------------------------------
(***************************************************************************)
(* Snapshot.pending_effects of dar/store.py as EffectGate uses it: a list of  *)
(* intents, each known by its key.                                          *)
(***************************************************************************)
EXTENDS Naturals, Sequences

InList(seq, c) == \E i \in DOMAIN seq : seq[i] = c

\* tuple(x for x in pending_effects if x['key'] != key).  No key is in the list twice (its
\* capability is used up when it is added), so this takes one entry away.
\* Uncleared is the form a mistake would give it (a mutant).
Uncleared(seq, c) == seq
Without(seq, c) ==
  LET at == CHOOSE i \in DOMAIN seq : seq[i] = c IN
  IF InList(seq, c) THEN [i \in 1..(Len(seq) - 1) |-> seq[IF i < at THEN i ELSE i + 1]]
                    ELSE seq
=============================================================================
