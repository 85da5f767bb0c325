------------------------- MODULE OutcomeFenceProofs -------------------------
(***************************************************************************)
(* Proofs about the contract of an external authority, for any outcomes,    *)
(* keys and epochs.  Since PostgresAuthority implements the contract with    *)
(* LateRefusal = FALSE (PostgresAuthorityProofs, Refinement), what is proved *)
(* here holds of it too.                                                    *)
(***************************************************************************)
EXTENDS OutcomeFence, TLAPS

\* The fence of a refused outcome is the refusal's epoch: with the rest, inductive.
FencePinned == \A o \in Outcomes : refused[o] # None => fence[o] = refused[o].epoch

IInv ==
  /\ TypeOK
  /\ FencePinned
  /\ RefusalExcludesProduction
  /\ KeyProducesOnce

\* The invariant holds at the start, when there are no rows.
LEMMA InitInv == Init => IInv
  <1>1. 0 \in Epochs \cup {0}
    OBVIOUS
  <1> QED
    BY <1>1 DEF Init, IInv, TypeOK, FencePinned, RefusalExcludesProduction, KeyProducesOnce

\* Every operation of the authority preserves it.
LEMMA StepInv == IInv /\ [Next]_vars => IInv'
<1> SUFFICES ASSUME IInv, [Next]_vars PROVE IInv'
  OBVIOUS
<1> USE DEF IInv
<1>1. CASE UNCHANGED vars
  BY <1>1 DEF vars, TypeOK, FencePinned, RefusalExcludesProduction, KeyProducesOnce
<1>2. ASSUME NEW o \in Outcomes, NEW e \in Epochs, AdvanceFence(o, e) PROVE IInv'
  BY <1>2 DEF AdvanceFence, Open, TypeOK, FencePinned, RefusalExcludesProduction,
              KeyProducesOnce
<1>3. ASSUME NEW o \in Outcomes, NEW e \in Epochs, NEW id \in Ids, Refuse(o, e, id)
      PROVE  IInv'
  <2>1. Mark(e, id) \in RefusalType
    BY DEF Mark, RefusalType
  <2>2. Mark(e, id).epoch = e
    BY DEF Mark
  <2>3. TypeOK'
    BY <1>3, <2>1 DEF Refuse, TypeOK
  <2>4. FencePinned'
    BY <1>3, <2>2 DEF Refuse, TypeOK, FencePinned
  <2>5. RefusalExcludesProduction' /\ KeyProducesOnce'
    BY <1>3 DEF Refuse, Refusable, TypeOK, RefusalExcludesProduction, KeyProducesOnce
  <2> QED
    BY <2>3, <2>4, <2>5
<1>4. ASSUME NEW o \in Outcomes, NEW e \in Epochs, NEW id \in Ids, Commit(o, e, id)
      PROVE  IInv'
  <2>1. TypeOK' /\ FencePinned'
    BY <1>4 DEF Commit, TypeOK, FencePinned
  <2>2. RefusalExcludesProduction'
    BY <1>4 DEF Commit, Open, TypeOK, RefusalExcludesProduction
  <2>3. KeyProducesOnce'
    BY <1>4 DEF Commit, FreshKey, TypeOK, KeyProducesOnce
  <2> QED
    BY <2>1, <2>2, <2>3
<1> QED
  BY <1>1, <1>2, <1>3, <1>4 DEF Next

\* The inductive invariant holds in every reachable state.
THEOREM Invariant == Spec => []IInv
  BY InitInv, StepInv, PTL DEF Spec

\* An authority that turns late refusals down never has an outcome both refused and
\* produced, and no key stands for two outcomes (effect_transaction.py:34-37).
THEOREM ContractSafe == Spec => [](TypeOK /\ RefusalExcludesProduction /\ KeyProducesOnce)
  BY Invariant, PTL DEF IInv

\* One step leaves a refused outcome as it is, late refusals or not.
LEMMA TerminalStep ==
  IInv /\ [Next]_vars =>
    [\A o \in Outcomes : refused[o] # None =>
       /\ fence[o] = refused[o].epoch
       /\ fence'[o] = fence[o]
       /\ refused'[o] = refused[o]
       /\ produced'[o] = produced[o]]_vars
<1> SUFFICES ASSUME IInv, Next, NEW x \in Outcomes, refused[x] # None
             PROVE  /\ fence[x] = refused[x].epoch
                    /\ fence'[x] = fence[x]
                    /\ refused'[x] = refused[x]
                    /\ produced'[x] = produced[x]
  OBVIOUS
<1> USE DEF IInv, TypeOK
<1>1. fence[x] = refused[x].epoch
  BY DEF FencePinned
<1>2. ASSUME NEW o \in Outcomes, NEW e \in Epochs, AdvanceFence(o, e)
      PROVE  fence'[x] = fence[x] /\ refused'[x] = refused[x] /\ produced'[x] = produced[x]
  BY <1>2 DEF AdvanceFence, Open
<1>3. ASSUME NEW o \in Outcomes, NEW e \in Epochs, NEW id \in Ids, Refuse(o, e, id)
      PROVE  fence'[x] = fence[x] /\ refused'[x] = refused[x] /\ produced'[x] = produced[x]
  BY <1>3 DEF Refuse, Open
<1>4. ASSUME NEW o \in Outcomes, NEW e \in Epochs, NEW id \in Ids, Commit(o, e, id)
      PROVE  fence'[x] = fence[x] /\ refused'[x] = refused[x] /\ produced'[x] = produced[x]
  BY <1>4 DEF Commit, Open
<1> QED
  BY <1>1, <1>2, <1>3, <1>4 DEF Next

\* A refusal is terminal in every behaviour of the contract.
THEOREM RefusalTerminalAlways == Spec => RefusalTerminal
  BY Invariant, TerminalStep, PTL DEF Spec, RefusalTerminal
=============================================================================
