---------------------------- MODULE OutcomeFence ----------------------------
(***************************************************************************)
(* What an external authority promises to the boundary: every outcome has  *)
(* a fence, at most one terminal refusal and at most one idempotency key    *)
(* that produced it, and the three operations on them are atomic.  There    *)
(* are no requests, transactions or replies here: PostgresAuthority and     *)
(* MemoryAuthority are the detailed modules that have them.                 *)
(*                                                                         *)
(* This is the contract the adapter of dar/effect_transaction.py has to     *)
(* offer (FencedEffectAdapter, lines 31-51).                                *)
(***************************************************************************)
EXTENDS Naturals

CONSTANTS
  Outcomes,          \* outcome keys
  Ids,               \* idempotency keys and refusal ids
  Epochs,            \* the epochs callers name
  None,              \* "no row"
  LateRefusal        \* may an outcome be refused once it has been produced?

VARIABLES
  fence,             \* fence[o]: the current fence of o
  refused,           \* refused[o]: the terminal refusal of o, or None
  produced           \* produced[o]: the key that produced o, or None

vars == <<fence, refused, produced>>

RefusalType == [epoch : Epochs, id : Ids]

TypeOK ==
  /\ fence \in [Outcomes -> Epochs \cup {0}]
  /\ refused \in [Outcomes -> RefusalType \cup {None}]
  /\ produced \in [Outcomes -> Ids \cup {None}]

Init ==
  /\ fence = [o \in Outcomes |-> 0]
  /\ refused = [o \in Outcomes |-> None]
  /\ produced = [o \in Outcomes |-> None]

Open(o) == refused[o] = None

Refusable(o) == produced[o] = None \/ LateRefusal

FreshKey(id) == \A p \in Outcomes : produced[p] # id

Mark(e, id) == [epoch |-> e, id |-> id]

(***************************************************************************)
(* The fence may be raised until the outcome is refused.                   *)
(***************************************************************************)
AdvanceFence(o, e) ==
  /\ Open(o)
  /\ e >= fence[o]
  /\ fence' = [fence EXCEPT ![o] = e]
  /\ UNCHANGED <<refused, produced>>

(***************************************************************************)
(* One step installs the refusal and moves the fence to its epoch.         *)
(***************************************************************************)
Refuse(o, e, id) ==
  /\ Open(o)
  /\ Refusable(o)
  /\ e >= fence[o]
  /\ fence' = [fence EXCEPT ![o] = e]
  /\ refused' = [refused EXCEPT ![o] = Mark(e, id)]
  /\ UNCHANGED produced

(***************************************************************************)
(* The outcome is produced under its current fence, once, by a key that     *)
(* has produced nothing else, and never after a refusal.                   *)
(***************************************************************************)
Commit(o, e, id) ==
  /\ Open(o)
  /\ e = fence[o]
  /\ produced[o] = None
  /\ FreshKey(id)
  /\ produced' = [produced EXCEPT ![o] = id]
  /\ UNCHANGED <<fence, refused>>

Next ==
  \E o \in Outcomes, e \in Epochs :
    \/ AdvanceFence(o, e)
    \/ \E id \in Ids : Refuse(o, e, id) \/ Commit(o, e, id)

Spec == Init /\ [][Next]_vars

(***************************************************************************)
(* Properties: what a boundary may rely on.                                *)
(***************************************************************************)

\* A refused outcome was not and will not be produced (FORMAL_PROPERTY_v3, "Q(O)"),
\* as long as the authority turns late refusals down.
RefusalExcludesProduction ==
  ~LateRefusal => \A o \in Outcomes : refused[o] # None => produced[o] = None

\* A key stands for one outcome: a retry can never produce another one
\* (effect_transaction.py:39, the idempotency key).
KeyProducesOnce ==
  \A o, p \in Outcomes : produced[o] = produced[p] /\ produced[o] # None => o = p

\* A refusal is terminal: nothing about its outcome changes any more, and its fence
\* stands at the refusal's epoch (effect_transaction.py:45-51).
RefusalTerminal ==
  [][\A o \in Outcomes : refused[o] # None =>
       /\ fence[o] = refused[o].epoch
       /\ fence'[o] = fence[o]
       /\ refused'[o] = refused[o]
       /\ produced'[o] = produced[o]]_vars
=============================================================================
