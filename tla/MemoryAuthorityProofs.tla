------------------------- MODULE MemoryAuthorityProofs -------------------------
(***************************************************************************)
(* What holds of MemoryAuthority for any number of outcomes, ids, epochs and  *)
(* restarts, proved with TLAPS.                                            *)
(*                                                                         *)
(* The argument: one lock makes a handler one step, so the invariant relates  *)
(* the four dictionaries only.  committed and effects are each other's        *)
(* inverse, and a refused outcome has its fence where the refusal put it; a   *)
(* restart begins again with empty dictionaries, of which both are true.      *)
(***************************************************************************)
EXTENDS MemoryAuthority, TLAPS

RefusalRow == [epoch : Epochs, id : Ids]
EffectRow == [outcome : Outcomes, epoch : Epochs]

RefusalPinsFence ==
  \A o \in Outcomes : refusals[o] # None => fences[o] = refusals[o].epoch

IInv == TypeOK /\ IndexesAgree /\ RefusalPinsFence

----------------------------------------------------------------------------
(* What the handlers write *)

\* A handler that writes nothing: only the answer changes.
Rejected == UNCHANGED <<tables, boot>>

\* Fences are numbers, as the epochs callers name are.
LEMMA FenceNat == ASSUME TypeOK, NEW o \in Outcomes PROVE fences[o] \in Nat
<1>1. fences[o] \in Epochs \cup {0}
  BY DEF TypeOK
<1>2. CASE fences[o] = 0
  BY <1>2
<1>3. CASE fences[o] \in Epochs
  BY <1>3, EpochsAssumption
<1> QED BY <1>1, <1>2, <1>3

\* /fence either writes nothing or raises the fence of an outcome that is not refused.
LEMMA FenceWrites ==
  ASSUME NEW r \in Requests, Fence(r), TypeOK
  PROVE  \/ Rejected
         \/ /\ r.outcome \in Outcomes /\ r.epoch \in Epochs
            /\ r.epoch >= fences[r.outcome] /\ refusals[r.outcome] = None
            /\ fences' = [fences EXCEPT ![r.outcome] = r.epoch]
            /\ UNCHANGED <<refusals, effects, committed, boot>>
<1>1. r.outcome \in Outcomes /\ r.epoch \in Epochs
  BY DEF Requests
<1>2. r.epoch \in Nat /\ fences[r.outcome] \in Nat
  BY <1>1, FenceNat, EpochsAssumption
<1> QED BY <1>1, <1>2 DEF Fence, Rollback, Reject, Rejected

\* /refuse writes the refusal of an outcome that has none, and its fence with it.
LEMMA RefuseWrites ==
  ASSUME NEW r \in Requests, Refuse(r), TypeOK
  PROVE  \/ Rejected
         \/ /\ r.outcome \in Outcomes /\ r.epoch \in Epochs /\ r.id \in Ids
            /\ r.epoch >= fences[r.outcome] /\ refusals[r.outcome] = None
            /\ fences' = [fences EXCEPT ![r.outcome] = r.epoch]
            /\ refusals' = [refusals EXCEPT ![r.outcome] = [epoch |-> r.epoch, id |-> r.id]]
            /\ UNCHANGED <<effects, committed, boot>>
<1>1. r.outcome \in Outcomes /\ r.epoch \in Epochs /\ r.id \in Ids
  BY DEF Requests, Refuse
<1>2. r.epoch \in Nat /\ fences[r.outcome] \in Nat
  BY <1>1, FenceNat, EpochsAssumption
<1> QED BY <1>1, <1>2 DEF Refuse, Rollback, Reject, Rejected, Mark

\* /commit writes both indexes, for an outcome that is open and a key that is new.
LEMMA CommitWrites ==
  ASSUME NEW r \in Requests, Commit(r), TypeOK
  PROVE  \/ Rejected
         \/ /\ r.outcome \in Outcomes /\ r.epoch \in Epochs /\ r.id \in Ids
            /\ r.epoch = fences[r.outcome] /\ refusals[r.outcome] = None
            /\ effects[r.id] = None /\ committed[r.outcome] = None
            /\ effects' = [effects EXCEPT ![r.id] =
                             [outcome |-> r.outcome, epoch |-> r.epoch]]
            /\ committed' = [committed EXCEPT ![r.outcome] = r.id]
            /\ UNCHANGED <<fences, refusals, boot>>
<1>1. r.outcome \in Outcomes /\ r.epoch \in Epochs /\ r.id \in Ids
  BY DEF Requests, Commit
<1> QED
  BY <1>1 DEF Commit, CommitOpen, RefusedOutcome, CommittedOutcome, Reject, Rejected

----------------------------------------------------------------------------
(* The invariant *)

\* Whatever a handler answers has the answer's type.
LEMMA AnswerTyped ==
  ASSUME NEW r \in Requests, Fence(r) \/ Refuse(r) \/ Commit(r)
  PROVE  answer' \in [req : Requests, result : Results]
<1>1. CASE Fence(r)
  BY <1>1 DEF Fence, Reject, Answer, Results
<1>2. CASE Refuse(r)
  BY <1>2 DEF Refuse, Reject, Answer, Results
<1>3. CASE Commit(r)
  BY <1>3 DEF Commit, CommitOpen, Reject, Answer, Results
<1> QED BY <1>1, <1>2, <1>3

\* The types say nothing else of a step that writes nothing.
LEMMA RejectedStep ==
  ASSUME IInv, Rejected, answer' \in [req : Requests, result : Results] \cup {None}
  PROVE  IInv'
  BY DEF IInv, TypeOK, IndexesAgree, RefusalPinsFence, Rejected, tables

\* Advancing a fence writes nothing but the fence of an open outcome.
LEMMA FenceStep ==
  ASSUME IInv, NEW r \in Requests, Fence(r)
  PROVE  IInv'
<1>1. answer' \in [req : Requests, result : Results]
  BY AnswerTyped
<1>2. CASE Rejected
  BY <1>1, <1>2, RejectedStep
<1>3. CASE ~Rejected
  <2>1. /\ r.outcome \in Outcomes /\ r.epoch \in Epochs /\ refusals[r.outcome] = None
        /\ fences' = [fences EXCEPT ![r.outcome] = r.epoch]
        /\ UNCHANGED <<refusals, effects, committed, boot>>
    BY <1>3, FenceWrites DEF IInv
  <2>2. TypeOK'
    BY <1>1, <2>1 DEF IInv, TypeOK
  <2>3. IndexesAgree'
    BY <2>1 DEF IInv, IndexesAgree
  <2>4. RefusalPinsFence'
    BY <2>1 DEF IInv, TypeOK, RefusalPinsFence
  <2> QED BY <2>2, <2>3, <2>4 DEF IInv
<1> QED BY <1>2, <1>3

\* A refusal pins the fence of its outcome at its epoch.
LEMMA RefuseStep ==
  ASSUME IInv, NEW r \in Requests, Refuse(r)
  PROVE  IInv'
<1>1. answer' \in [req : Requests, result : Results]
  BY AnswerTyped
<1>2. CASE Rejected
  BY <1>1, <1>2, RejectedStep
<1>3. CASE ~Rejected
  <2>1. /\ r.outcome \in Outcomes /\ r.epoch \in Epochs /\ r.id \in Ids
        /\ fences' = [fences EXCEPT ![r.outcome] = r.epoch]
        /\ refusals' = [refusals EXCEPT ![r.outcome] = [epoch |-> r.epoch, id |-> r.id]]
        /\ UNCHANGED <<effects, committed, boot>>
    BY <1>3, RefuseWrites DEF IInv
  <2>2. TypeOK'
    BY <1>1, <2>1 DEF IInv, TypeOK
  <2>3. IndexesAgree'
    BY <2>1 DEF IInv, IndexesAgree
  <2>4. RefusalPinsFence'
    BY <2>1 DEF IInv, TypeOK, RefusalPinsFence
  <2> QED BY <2>2, <2>3, <2>4 DEF IInv
<1> QED BY <1>2, <1>3

\* A commit writes its key and its outcome into both indexes.
LEMMA CommitStep ==
  ASSUME IInv, NEW r \in Requests, Commit(r)
  PROVE  IInv'
<1>1. answer' \in [req : Requests, result : Results]
  BY AnswerTyped
<1>2. CASE Rejected
  BY <1>1, <1>2, RejectedStep
<1>3. CASE ~Rejected
  <2> DEFINE row == [outcome |-> r.outcome, epoch |-> r.epoch]
  <2>1. /\ r.outcome \in Outcomes /\ r.epoch \in Epochs /\ r.id \in Ids
        /\ effects[r.id] = None /\ committed[r.outcome] = None
        /\ effects' = [effects EXCEPT ![r.id] = row]
        /\ committed' = [committed EXCEPT ![r.outcome] = r.id]
        /\ UNCHANGED <<fences, refusals, boot>>
    BY <1>3, CommitWrites DEF IInv
  <2>2. row \in EffectRow /\ row # None /\ r.id # None
    BY <2>1, NoneAssumption DEF EffectRow
  <2>3. TypeOK'
    BY <1>1, <2>1, <2>2 DEF IInv, TypeOK, EffectRow
  <2>4. ASSUME NEW o \in Outcomes, NEW id \in Ids
        PROVE  committed'[o] = id <=> (effects'[id] # None /\ effects'[id].outcome = o)
    <3>1. CASE id = r.id
      BY <2>1, <2>2, <3>1 DEF IInv, TypeOK, IndexesAgree
    <3>2. CASE id # r.id /\ o = r.outcome
      <4>1. ~(effects[id] # None /\ effects[id].outcome = o)
        BY <2>1, <3>2, NoneAssumption DEF IInv, IndexesAgree
      <4> QED BY <2>1, <3>2, <4>1 DEF IInv, TypeOK
    <3>3. CASE id # r.id /\ o # r.outcome
      BY <2>1, <3>3 DEF IInv, TypeOK, IndexesAgree
    <3> QED BY <3>1, <3>2, <3>3
  <2>5. RefusalPinsFence'
    BY <2>1 DEF IInv, RefusalPinsFence
  <2> QED BY <2>3, <2>4, <2>5 DEF IInv, IndexesAgree
<1> QED BY <1>2, <1>3

\* Empty dictionaries satisfy whatever the invariant says of them.
LEMMA EmptyTables ==
  ASSUME fences = NoFences, refusals = NoRows(Outcomes), effects = NoRows(Ids),
         committed = NoRows(Outcomes), boot \in 1..MaxBoots, answer = None
  PROVE  IInv
  BY NoneAssumption DEF NoFences, NoRows, IInv, TypeOK, IndexesAgree, RefusalPinsFence

\* A restart empties every table.
LEMMA RestartStep ==
  ASSUME IInv, Restart
  PROVE  IInv'
<1>1. boot' \in 1..MaxBoots /\ answer' = None
  BY MaxBootsAssumption DEF IInv, TypeOK, Restart
<1>2. /\ fences' = NoFences' /\ refusals' = NoRows(Outcomes)'
      /\ effects' = NoRows(Ids)' /\ committed' = NoRows(Outcomes)'
  BY DEF Restart, NoFences, NoRows
<1> QED
  BY <1>1, <1>2, NoneAssumption
  DEF NoFences, NoRows, IInv, TypeOK, IndexesAgree, RefusalPinsFence

\* Every step keeps the invariant.
LEMMA InvStep == IInv /\ [Next]_vars => IInv'
<1> SUFFICES ASSUME IInv, [Next]_vars PROVE IInv'
  OBVIOUS
<1>1. CASE UNCHANGED vars
  BY <1>1 DEF vars, tables, IInv, TypeOK, IndexesAgree, RefusalPinsFence
<1> QED BY <1>1, FenceStep, RefuseStep, CommitStep, RestartStep DEF Next

\* The first start has empty tables.
LEMMA InvInit == Init => IInv
  BY EmptyTables, MaxBootsAssumption DEF Init

\* The invariant holds in every reachable state.
THEOREM Invariant == Spec => []IInv
  BY InvInit, InvStep, PTL DEF Spec

\* The in-memory authority is well typed, whatever is asked of it and however often it is
\* restarted.
THEOREM TypeCorrect == Spec => []TypeOK
<1>1. IInv => TypeOK
  BY DEF IInv
<1> QED BY <1>1, Invariant, PTL

\* committed_outcomes and effects never disagree about who produced an outcome.
THEOREM IndexesAgreeAlways == Spec => []IndexesAgree
<1>1. IInv => IndexesAgree
  BY DEF IInv
<1> QED BY <1>1, Invariant, PTL

----------------------------------------------------------------------------
(* Steps *)

\* Within one BOOT_ID nothing about a refused outcome changes any more.
THEOREM RefusalSettlesAlways == Spec => RefusalSettles
<1> DEFINE Settled(o) == /\ refusals'[o] = refusals[o]
                         /\ fences'[o] = fences[o]
                         /\ committed'[o] = committed[o]
           Settles == boot' = boot => \A o \in Outcomes : refusals[o] # None => Settled(o)
<1>1. IInv /\ [Next]_vars => Settles
  <2> SUFFICES ASSUME IInv, [Next]_vars, boot' = boot,
                      NEW o \in Outcomes, refusals[o] # None
               PROVE  Settled(o)
    OBVIOUS
  <2> USE DEF IInv, TypeOK
  <2>1. CASE UNCHANGED vars
    BY <2>1 DEF vars, tables
  <2>2. ASSUME NEW r \in Requests, Fence(r) PROVE Settled(o)
    BY <2>2, FenceWrites DEF Rejected, tables
  <2>3. ASSUME NEW r \in Requests, Refuse(r) PROVE Settled(o)
    BY <2>3, RefuseWrites DEF Rejected, tables
  <2>4. ASSUME NEW r \in Requests, Commit(r) PROVE Settled(o)
    BY <2>4, CommitWrites DEF Rejected, tables
  <2>5. ~Restart
    BY DEF Restart
  <2> QED BY <2>1, <2>2, <2>3, <2>4, <2>5 DEF Next
<1>2. IInv /\ [Next]_vars => [Settles]_vars
  BY <1>1
<1> HIDE DEF Settles
<1>3. Spec => [][Settles]_vars
  BY <1>2, Invariant, PTL DEF Spec
<1> QED BY <1>3 DEF RefusalSettles, Settles

----------------------------------------------------------------------------
(* Refinement *)

\* A key without a row has produced nothing: the indexes agree.
LEMMA NewKeyIsFresh ==
  ASSUME IInv, NEW id \in Ids, effects[id] = None
  PROVE  Contract!FreshKey(id)
  BY DEF IInv, IndexesAgree, Contract!FreshKey

\* Every handler is one step of the contract or changes nothing of it.
LEMMA HandlerRefines ==
  ASSUME IInv, NEW r \in Requests, Fence(r) \/ Refuse(r) \/ Commit(r)
  PROVE  Contract!Next \/ UNCHANGED Contract!vars
<1>1. CASE Rejected
  BY <1>1 DEF Rejected, tables, Contract!vars
<1>2. CASE ~Rejected /\ Fence(r)
  <2>1. r.outcome \in Outcomes /\ r.epoch \in Epochs
    BY <1>2, FenceWrites DEF IInv
  <2>2. Contract!AdvanceFence(r.outcome, r.epoch)
    BY <1>2, FenceWrites DEF IInv, Contract!AdvanceFence, Contract!Open
  <2> QED BY <2>1, <2>2 DEF Contract!Next
<1>3. CASE ~Rejected /\ Refuse(r)
  <2>1. r.outcome \in Outcomes /\ r.epoch \in Epochs /\ r.id \in Ids
    BY <1>3, RefuseWrites DEF IInv
  <2>2. Contract!Refuse(r.outcome, r.epoch, r.id)
    BY <1>3, RefuseWrites
    DEF IInv, Contract!Refuse, Contract!Open, Contract!Refusable, Contract!Mark
  <2> QED BY <2>1, <2>2 DEF Contract!Next
<1>4. CASE ~Rejected /\ Commit(r)
  <2>1. r.outcome \in Outcomes /\ r.epoch \in Epochs /\ r.id \in Ids /\ effects[r.id] = None
    BY <1>4, CommitWrites DEF IInv
  <2>2. Contract!Commit(r.outcome, r.epoch, r.id)
    BY <1>4, <2>1, CommitWrites, NewKeyIsFresh DEF IInv, Contract!Commit, Contract!Open
  <2> QED BY <2>1, <2>2 DEF Contract!Next
<1> QED BY <1>1, <1>2, <1>3, <1>4

\* From one start of the process to the next the in-memory authority implements the
\* contract in which a refusal may be late.
THEOREM Refinement == Spec => ImplementsContract
<1> DEFINE Refines == IF boot' = boot THEN Contract!Next \/ UNCHANGED Contract!vars
                                      ELSE Contract!Init'
<1>1. Init => Contract!Init
  BY DEF Init, NoFences, NoRows, Contract!Init
<1>2. IInv /\ [Next]_vars => [Refines]_vars
  <2> SUFFICES ASSUME IInv, Next PROVE Refines
    OBVIOUS
  <2>1. ASSUME NEW r \in Requests, Fence(r) \/ Refuse(r) \/ Commit(r) PROVE Refines
    <3>1. boot' = boot
      BY <2>1 DEF Fence, Refuse, Commit
    <3> QED BY <2>1, <3>1, HandlerRefines
  <2>2. CASE Restart
    <3>1. boot' # boot
      BY <2>2 DEF Restart, IInv, TypeOK
    <3>2. Contract!Init'
      BY <2>2 DEF Restart, NoFences, NoRows, Contract!Init
    <3> QED BY <3>1, <3>2
  <2> QED BY <2>1, <2>2 DEF Next
<1> HIDE DEF Refines
<1>3. Spec => Contract!Init /\ [][Refines]_vars
  BY <1>1, <1>2, Invariant, PTL DEF Spec
<1> QED BY <1>3 DEF ImplementsContract, Refines
=============================================================================
