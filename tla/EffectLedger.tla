----------------------------- MODULE EffectLedger -----------------------------
(***************************************************************************)
(* What the recoverable path promises about one external effect per key:     *)
(* it is opened durably before anything happens, it happens at most once,     *)
(* it is concluded as done only after it happened, and otherwise stays open   *)
(* until somebody decides to drop it (README.md:46-51 of dar_v36_14,           *)
(* "Recovery semantics").  There is no journal, adapter or crash here:         *)
(* RecoverableEffects is the detailed module that has them.                   *)
(***************************************************************************)
EXTENDS Naturals

CONSTANT Keys        \* idempotency keys

VARIABLES
  phase,             \* what the Store says of a key
  effects            \* how often its effect happened

vars == <<phase, effects>>

Phases == {"new", "open", "done", "dropped"}

TypeOK ==
  /\ phase \in [Keys -> Phases]
  /\ effects \in [Keys -> 0..1]

Init ==
  /\ phase = [k \in Keys |-> "new"]
  /\ effects = [k \in Keys |-> 0]

Move(k, from, to) ==
  /\ phase[k] = from
  /\ phase' = [phase EXCEPT ![k] = to]
  /\ UNCHANGED effects

Open(k) == Move(k, "new", "open")

\* A request that is under way when its key is dropped may still take effect.
Happen(k) ==
  /\ phase[k] # "new"
  /\ effects[k] = 0
  /\ effects' = [effects EXCEPT ![k] = 1]
  /\ UNCHANGED phase

Conclude(k) == effects[k] = 1 /\ Move(k, "open", "done")

Drop(k) == Move(k, "open", "dropped")

Next == \E k \in Keys : Open(k) \/ Happen(k) \/ Conclude(k) \/ Drop(k)

Spec == Init /\ [][Next]_vars
=============================================================================
