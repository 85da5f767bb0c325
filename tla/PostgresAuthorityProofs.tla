---------------------- MODULE PostgresAuthorityProofs ----------------------
(***************************************************************************)
(* What holds of PostgresAuthority for any number of sessions, outcomes,    *)
(* ids and epochs, proved with TLAPS.                                      *)
(*                                                                         *)
(* The argument: whoever is past Lock holds the advisory lock of its        *)
(* outcome, so what it has read of that outcome is still true when it        *)
(* writes (Knows), although nothing in the tables says so.  Hence no write   *)
(* breaks the relation between the three tables (RowsAgree).               *)
(***************************************************************************)
EXTENDS PostgresAuthority, TLAPS

Locked == Statements \ {"lock"}

Writing(s) == pc[s] = "end" /\ result[s] = "written"

Serving == \A s \in Sessions : pc[s] # "idle" => req[s] \in Requests

Locking == \A s \in Sessions : pc[s] \in Locked => holder[req[s].outcome] = s

\* What the SELECTs a session has behind it established about its outcome.
KnowsNotRefused(s) ==
  \/ pc[s] \in {"upsert", "insert"}
  \/ pc[s] \in {"idem", "effect"}
  \/ pc[s] = "fence" /\ req[s].op # "fence"
  \/ Writing(s)

KnowsFence(s) ==
  \/ pc[s] \in {"upsert", "insert", "idem", "effect"}
  \/ pc[s] = "refusal" /\ req[s].op = "fence"
  \/ Writing(s)

KnowsNotProduced(s) ==
  /\ pc[s] \in {"upsert", "insert"} \/ Writing(s)
  /\ req[s].op # "fence"

Knows(s) ==
  /\ KnowsNotRefused(s) => refusals[req[s].outcome] = None
  /\ KnowsFence(s) => IF req[s].op = "commit"
                        THEN fences[req[s].outcome] = req[s].epoch
                        ELSE fences[req[s].outcome] =< req[s].epoch
  /\ KnowsNotProduced(s) => ~Produced(req[s].outcome)

KeysFree ==
  \A s \in Sessions, id \in Ids : Inserting(s, id) =>
    /\ effects[id] = None
    /\ \A t \in Sessions \ {s} : ~Inserting(t, id)

OutcomeOnce ==
  \A i, j \in Ids :
    effects[i] # None /\ effects[j] # None /\ effects[i].outcome = effects[j].outcome => i = j

RowsAgree == RefusalExcludesEffect /\ RefusalPinsFence /\ OutcomeOnce

IInv ==
  /\ TypeOK
  /\ Serving
  /\ Locking
  /\ \A s \in Sessions : Knows(s)
  /\ KeysFree
  /\ RowsAgree

----------------------------------------------------------------------------
(* Types *)

\* Every reachable state is well typed, whatever the constants: each request is
\* served with its own fields and each row holds what a request carried.
LEMMA TypeInit == Init => TypeOK /\ Serving
  BY DEF Init, TypeOK, Serving, Labels, Statements, Results

\* Every action keeps the types.
LEMMA TypeStep ==
  ASSUME TypeOK, Serving, [Next]_vars
  PROVE  TypeOK' /\ Serving'
<1>1. CASE UNCHANGED vars
  BY <1>1 DEF TypeOK, Serving, vars
<1>2. ASSUME NEW s \in Sessions, NEW r \in Requests, Begin(s, r)
      PROVE  TypeOK' /\ Serving'
  BY <1>2 DEF TypeOK, Serving, Begin, tables, Labels, Statements
<1>3. ASSUME NEW s \in Sessions, Lock(s)
      PROVE  TypeOK' /\ Serving'
  BY <1>3 DEF TypeOK, Serving, Lock, tables, Labels, Statements
<1>4. ASSUME NEW s \in Sessions, NEW l \in Statements, Goto(s, l), pc[s] # "idle"
      PROVE  TypeOK' /\ Serving'
  BY <1>4 DEF TypeOK, Serving, Goto, tables, Labels, Statements
<1>5. ASSUME NEW s \in Sessions, NEW a \in Results, Return(s, a), pc[s] # "idle"
      PROVE  TypeOK' /\ Serving'
  BY <1>5 DEF TypeOK, Serving, Return, tables, Labels, Statements
<1>6. ASSUME NEW s \in Sessions, Abandon(s), pc[s] # "idle"
      PROVE  TypeOK' /\ Serving'
  BY <1>6 DEF TypeOK, Serving, Abandon, ExceptionAnswer, Release, tables, Labels, Results
<1>7. ASSUME NEW s \in Sessions, Execute(s)
      PROVE  TypeOK' /\ Serving'
  <2>1. CASE FenceOp(s)
    BY <2>1, <1>4, <1>5 DEF FenceOp, At, Statements, Results, Rejections
  <2>2. CASE RefuseOp(s)
    BY <2>2, <1>4, <1>5 DEF RefuseOp, At, Statements, Results, Rejections
  <2>3. CASE CommitOp(s)
    BY <2>3, <1>4, <1>5, <1>6 DEF CommitOp, InsertEffect, At, Statements, Results,
                                  Rejections
  <2> QED BY <1>7, <2>1, <2>2, <2>3 DEF Execute
<1>8. ASSUME NEW s \in Sessions, EndTxn(s)
      PROVE  TypeOK' /\ Serving'
  <2>1. req[s] \in Requests
    BY <1>8 DEF EndTxn, Serving
  <2>2. fences' \in [Outcomes -> Epochs \cup {0}]
    BY <1>8, <2>1 DEF EndTxn, ExceptionAnswer, ApplyWrites, Greatest, tables, TypeOK,
                      Requests
  <2>3. refusals' \in [Outcomes -> RefusalRow \cup {None}]
    BY <1>8, <2>1 DEF EndTxn, ApplyWrites, tables, TypeOK, Requests, RefusalRow
  <2>4. effects' \in [Ids -> EffectRow \cup {None}]
    BY <1>8, <2>1 DEF EndTxn, ApplyWrites, tables, TypeOK, Requests, EffectRow
  <2>5. /\ holder' \in [Outcomes -> Sessions \cup {None}]
        /\ pc' \in [Sessions -> Labels]
        /\ req' \in [Sessions -> Requests \cup {None}]
        /\ result' \in [Sessions -> Results]
    BY <1>8 DEF EndTxn, ExceptionAnswer, Release, TypeOK, Labels, Results
  <2>6. Serving'
    BY <1>8 DEF EndTxn, Serving, TypeOK
  <2> QED BY <2>2, <2>3, <2>4, <2>5, <2>6 DEF TypeOK
<1>9. ASSUME NEW s \in Sessions, Abort(s)
      PROVE  TypeOK' /\ Serving'
  BY <1>9, <1>6 DEF Abort, Statements
<1>10. ASSUME NEW s \in Sessions, Reply(s)
       PROVE  TypeOK' /\ Serving'
  BY <1>10 DEF TypeOK, Serving, Reply, tables, Labels, Results
<1> QED BY <1>1, <1>2, <1>3, <1>7, <1>8, <1>9, <1>10 DEF Next

\* PostgresAuthority is well typed in every reachable state.
THEOREM TypeCorrect == Spec => []TypeOK
<1>1. Init => TypeOK /\ Serving
  BY TypeInit
<1>2. (TypeOK /\ Serving) /\ [Next]_vars => (TypeOK /\ Serving)'
  BY TypeStep
<1> QED BY <1>1, <1>2, PTL DEF Spec

----------------------------------------------------------------------------
(* Mutual exclusion *)

\* Leaving the transaction gives back only the locks of that session.
LEMMA ReleaseOthers ==
  ASSUME TypeOK, Serving, Locking, NEW s \in Sessions, NEW t \in Sessions \ {s},
         pc[t] \in Locked
  PROVE  Release(s)[req[t].outcome] = t
<1>1. req[t].outcome \in Outcomes
  BY DEF Serving, Locked, Statements, Requests
<1> QED BY <1>1 DEF Release, Locking

\* Two sessions past Lock work on different outcomes.
LEMMA Exclusive ==
  ASSUME Locking, NEW s \in Sessions, NEW t \in Sessions \ {s},
         pc[s] \in Locked, pc[t] \in Locked
  PROVE  req[s].outcome # req[t].outcome
  BY DEF Locking

\* No step puts two sessions past Lock on the same outcome.
LEMMA LockingStep ==
  ASSUME TypeOK, Serving, Locking, [Next]_vars
  PROVE  Locking'
<1>1. CASE UNCHANGED vars
  BY <1>1 DEF Locking, vars
<1>2. ASSUME NEW s \in Sessions, NEW r \in Requests, Begin(s, r)
      PROVE  Locking'
  BY <1>2 DEF Locking, Begin, TypeOK, Locked, Statements
<1>3. ASSUME NEW s \in Sessions, Lock(s)
      PROVE  Locking'
  <2>1. req[s].outcome \in Outcomes
    BY <1>3 DEF Lock, Serving, Requests
  <2>2. ASSUME NEW t \in Sessions \ {s}, pc[t] \in Locked
        PROVE  req[t].outcome # req[s].outcome
    BY <1>3, <2>2, NoneAssumption DEF Lock, LockFree, Locking
  <2> QED BY <1>3, <2>1, <2>2 DEF Lock, Locking, TypeOK, Locked, Statements
<1>4. ASSUME NEW s \in Sessions, NEW l \in Labels, Goto(s, l), pc[s] \in Locked
      PROVE  Locking'
  BY <1>4 DEF Locking, Goto, TypeOK
<1>5. ASSUME NEW s \in Sessions, NEW a \in Results, Return(s, a), pc[s] \in Locked
      PROVE  Locking'
  BY <1>5 DEF Locking, Return, TypeOK
<1>6. ASSUME NEW s \in Sessions, Abandon(s)
      PROVE  Locking'
  <2> SUFFICES ASSUME NEW t \in Sessions, pc'[t] \in Locked
               PROVE  holder'[req'[t].outcome] = t
    BY DEF Locking
  <2>1. t # s /\ pc[t] \in Locked
    BY <1>6 DEF Abandon, TypeOK, Locked, Statements
  <2> QED BY <1>6, <2>1, ReleaseOthers DEF Abandon
<1>7. ASSUME NEW s \in Sessions, Execute(s)
      PROVE  Locking'
  <2>1. CASE FenceOp(s)
    BY <2>1, <1>4, <1>5 DEF FenceOp, At, Locked, Statements, Labels, Results, Rejections
  <2>2. CASE RefuseOp(s)
    BY <2>2, <1>4, <1>5 DEF RefuseOp, At, Locked, Statements, Labels, Results, Rejections
  <2>3. CASE CommitOp(s)
    BY <2>3, <1>4, <1>5, <1>6
    DEF CommitOp, InsertEffect, At, Locked, Statements, Labels, Results, Rejections
  <2> QED BY <1>7, <2>1, <2>2, <2>3 DEF Execute
<1>8. ASSUME NEW s \in Sessions, EndTxn(s)
      PROVE  Locking'
  <2> SUFFICES ASSUME NEW t \in Sessions, pc'[t] \in Locked
               PROVE  holder'[req'[t].outcome] = t
    BY DEF Locking
  <2>1. t # s /\ pc[t] \in Locked
    BY <1>8 DEF EndTxn, TypeOK, Locked, Statements
  <2> QED BY <1>8, <2>1, ReleaseOthers DEF EndTxn
<1>9. ASSUME NEW s \in Sessions, Reply(s)
      PROVE  Locking'
  BY <1>9 DEF Locking, Reply, TypeOK, Locked, Statements
<1> QED BY <1>1, <1>2, <1>3, <1>6, <1>7, <1>8, <1>9 DEF Next, Abort

----------------------------------------------------------------------------
(* Steps that write nothing *)

\* A session that does not move keeps its knowledge when the tables stay.
LEMMA KnowsFrame ==
  ASSUME NEW t \in Sessions, Knows(t), UNCHANGED tables,
         pc'[t] = pc[t], req'[t] = req[t], result'[t] = result[t]
  PROVE  Knows(t)'
  BY DEF Knows, KnowsNotRefused, KnowsFence, KnowsNotProduced, Writing, Produced, tables

\* Each SELECT establishes what the next statement relies on.
LEMMA ExecuteKnows ==
  ASSUME IInv, NEW s \in Sessions, Execute(s)
  PROVE  /\ Knows(s)'
         /\ UNCHANGED tables
         /\ \A t \in Sessions \ {s} :
              pc'[t] = pc[t] /\ req'[t] = req[t] /\ result'[t] = result[t]
<1> USE DEF IInv, TypeOK, tables
<1>1. req[s] \in Requests
  BY DEF Execute, FenceOp, RefuseOp, CommitOp, InsertEffect, At, Serving
<1>2. fences[req[s].outcome] \in Nat /\ req[s].epoch \in Nat
  BY <1>1, EpochsAssumption DEF Requests
<1>3. CASE FenceOp(s)
  BY <1>1, <1>2, <1>3 DEF FenceOp, Rollback, RefusalRowExists, At, Goto, Return, Knows,
                          KnowsNotRefused, KnowsFence,
     KnowsNotProduced, Writing, Produced
<1>4. CASE RefuseOp(s)
  BY <1>1, <1>2, <1>4 DEF RefuseOp, Rollback, EffectRowExists, At, Goto, Return, Knows,
                          KnowsNotRefused, KnowsFence,
     KnowsNotProduced, Writing, Produced
<1>5. CASE CommitOp(s)
  BY <1>1, <1>2, <1>5 DEF CommitOp, RefusalRowExists, EffectRowExists, SameOutcome,
                          InsertEffect, UniqueViolation, At, Goto, Return, Abandon,
                          ExceptionAnswer, Knows,
     KnowsNotRefused, KnowsFence, KnowsNotProduced, Writing, Produced
<1> QED BY <1>3, <1>4, <1>5 DEF Execute

\* A dar_effects row in the making is new, and in the making only once.
LEMMA ExecuteKeysFree ==
  ASSUME IInv, NEW s \in Sessions, Execute(s)
  PROVE  KeysFree'
<1> SUFFICES ASSUME NEW u \in Sessions, NEW id \in Ids, Inserting(u, id)'
             PROVE  effects'[id] = None /\ \A t \in Sessions \ {u} : ~Inserting(t, id)'
  BY DEF KeysFree
<1>1. UNCHANGED effects /\ \A t \in Sessions \ {s}, i \in Ids : Inserting(t, i)' = Inserting(t, i)
  BY ExecuteKnows DEF Inserting, tables
<1>2. \A i \in Ids : Inserting(s, i)' =>
        effects[i] = None /\ \A t \in Sessions \ {s} : ~Inserting(t, i)
  <2> SUFFICES ASSUME NEW i \in Ids, Inserting(s, i)'
               PROVE  effects[i] = None /\ \A t \in Sessions \ {s} : ~Inserting(t, i)
    OBVIOUS
  <2>1. CASE FenceOp(s)
    BY <2>1 DEF FenceOp, At, Goto, Return, Inserting, IInv, TypeOK
  <2>2. CASE RefuseOp(s)
    BY <2>2 DEF RefuseOp, At, Goto, Return, Inserting, IInv, TypeOK
  <2>3. CASE CommitOp(s) /\ ~InsertEffect(s)
    BY <2>3 DEF CommitOp, At, Goto, Return, Inserting, IInv, TypeOK
  <2>4. CASE InsertEffect(s)
    BY <2>4 DEF InsertEffect, UniqueViolation, At, Return, Abandon, ExceptionAnswer,
                Inserting, IInv, TypeOK
  <2> QED BY <2>1, <2>2, <2>3, <2>4 DEF Execute
<1> QED BY <1>1, <1>2 DEF IInv, KeysFree

----------------------------------------------------------------------------
(* COMMIT *)

\* What COMMIT writes, given what the session knows: one row of each table at
\* most, and only of its own outcome.
LEMMA CommitWrites ==
  ASSUME IInv, NEW s \in Sessions, EndTxn(s), Writing(s)
  PROVE  LET r == req[s]
             o == req[s].outcome
         IN
         /\ r \in Requests
         /\ refusals[o] = None
         /\ \/ /\ r.op = "fence" /\ r.epoch >= fences[o]
               /\ fences' = [fences EXCEPT ![o] = r.epoch]
               /\ UNCHANGED <<refusals, effects>>
            \/ /\ r.op = "refuse" /\ r.epoch >= fences[o] /\ ~Produced(o)
               /\ fences' = [fences EXCEPT ![o] = r.epoch]
               /\ refusals' = [refusals EXCEPT ![o] = [epoch |-> r.epoch, id |-> r.id]]
               /\ UNCHANGED effects
            \/ /\ r.op = "commit" /\ r.epoch = fences[o] /\ ~Produced(o)
               /\ effects[r.id] = None
               /\ effects' = [effects EXCEPT ![r.id] = [outcome |-> o, epoch |-> r.epoch]]
               /\ UNCHANGED <<fences, refusals>>
<1>1. req[s] \in Requests
  BY DEF EndTxn, IInv, Serving
<1>2. /\ req[s].outcome \in Outcomes
      /\ fences[req[s].outcome] \in Nat
      /\ req[s].epoch \in Nat
  BY <1>1, EpochsAssumption DEF Requests, IInv, TypeOK
<1>3. /\ refusals[req[s].outcome] = None
      /\ req[s].op = "commit" => fences[req[s].outcome] = req[s].epoch
      /\ req[s].op # "commit" => fences[req[s].outcome] =< req[s].epoch
      /\ req[s].op # "fence" => ~Produced(req[s].outcome)
  BY DEF IInv, Knows, KnowsNotRefused, KnowsFence, KnowsNotProduced
<1>4. req[s].op = "commit" => effects[req[s].id] = None
  BY <1>1 DEF IInv, KeysFree, Inserting, Writing, Requests
<1>5. ApplyWrites(s) /\ result[s] = "written"
  BY DEF EndTxn, Writing
<1>6. CASE req[s].op = "fence"
  BY <1>1, <1>2, <1>3, <1>5, <1>6 DEF ApplyWrites
<1>7. CASE req[s].op = "refuse"
  <2>1. fences' = [fences EXCEPT ![req[s].outcome] = req[s].epoch]
    BY <1>2, <1>3, <1>5, <1>7 DEF ApplyWrites, Greatest, IInv, TypeOK
  <2> QED BY <1>1, <1>2, <1>3, <1>5, <1>7, <2>1 DEF ApplyWrites
<1>8. CASE req[s].op = "commit"
  BY <1>1, <1>2, <1>3, <1>4, <1>5, <1>8 DEF ApplyWrites
<1> QED BY <1>1, <1>6, <1>7, <1>8 DEF Requests

\* COMMIT or rollback moves only its own session, and gives its locks back.
LEMMA EndTxnFrame ==
  ASSUME IInv, NEW s \in Sessions, EndTxn(s)
  PROVE  /\ pc'[s] = "reply"
         /\ ~Writing(s) => UNCHANGED tables
         /\ \A t \in Sessions \ {s} :
              pc'[t] = pc[t] /\ req'[t] = req[t] /\ result'[t] = result[t]
  BY DEF IInv, TypeOK, EndTxn, ApplyWrites, Writing

\* A COMMIT on another outcome takes nothing away from what a session knows.
LEMMA EndTxnKnows ==
  ASSUME IInv, NEW s \in Sessions, EndTxn(s), NEW t \in Sessions
  PROVE  Knows(t)'
<1>1. CASE t = s
  BY <1>1, EndTxnFrame DEF Knows, KnowsNotRefused, KnowsFence, KnowsNotProduced, Writing
<1>2. CASE t # s /\ pc[t] \notin Locked
  BY <1>2, EndTxnFrame DEF Knows, KnowsNotRefused, KnowsFence, KnowsNotProduced, Writing,
     Locked, Statements
<1>3. CASE t # s /\ pc[t] \in Locked /\ ~Writing(s)
  BY <1>3, EndTxnFrame, KnowsFrame DEF IInv
<1>4. CASE t # s /\ pc[t] \in Locked /\ Writing(s)
  <2>1. req[t].outcome # req[s].outcome
    BY <1>4, Exclusive DEF IInv, Writing, Locked, Statements
  <2>2. req[t].outcome \in Outcomes
    BY <1>4 DEF IInv, Serving, Locked, Statements, Requests
  <2>3. /\ fences'[req[t].outcome] = fences[req[t].outcome]
        /\ refusals'[req[t].outcome] = refusals[req[t].outcome]
    BY <1>4, <2>1, <2>2, CommitWrites DEF IInv, TypeOK
  <2>4. Produced(req[t].outcome)' => Produced(req[t].outcome)
    <3>1. req'[t] = req[t]
      BY <1>4, EndTxnFrame
    <3>2. ASSUME NEW id \in Ids, effects'[id].outcome = req[t].outcome
          PROVE  effects'[id] = effects[id]
      <4>1. CASE req[s].op = "commit" /\ req[s].id = id
        <5>1. /\ id \in Ids
              /\ effects' = [effects EXCEPT ![id] =
                               [outcome |-> req[s].outcome, epoch |-> req[s].epoch]]
          BY <1>4, <4>1, CommitWrites
        <5>2. effects'[id].outcome = req[s].outcome
          BY <5>1 DEF IInv, TypeOK
        <5> QED BY <2>1, <3>2, <5>2
      <4>2. CASE ~(req[s].op = "commit" /\ req[s].id = id)
        BY <1>4, <4>2, CommitWrites DEF IInv, TypeOK
      <4> QED BY <4>1, <4>2
    <3> QED BY <3>1, <3>2 DEF Produced
  <2> QED BY <1>4, <2>3, <2>4, EndTxnFrame
          DEF IInv, Knows, KnowsNotRefused, KnowsFence, KnowsNotProduced, Writing
<1> QED BY <1>1, <1>2, <1>3, <1>4

\* The rows other sessions are about to insert stay free of conflicts.
LEMMA EndTxnKeysFree ==
  ASSUME IInv, NEW s \in Sessions, EndTxn(s)
  PROVE  KeysFree'
<1> SUFFICES ASSUME NEW u \in Sessions, NEW id \in Ids, Inserting(u, id)'
             PROVE  effects'[id] = None /\ \A t \in Sessions \ {u} : ~Inserting(t, id)'
  BY DEF KeysFree
<1>1. u # s /\ Inserting(u, id) /\ \A t \in Sessions : Inserting(t, id)' => Inserting(t, id)
  BY EndTxnFrame DEF Inserting
<1>2. effects[id] = None /\ \A t \in Sessions \ {u} : ~Inserting(t, id)
  BY <1>1 DEF IInv, KeysFree
<1>3. effects'[id] = None
  <2>1. CASE ~Writing(s)
    BY <1>2, <2>1, EndTxnFrame DEF tables
  <2>2. CASE Writing(s)
    <3>1. ~(req[s].op = "commit" /\ req[s].id = id)
      BY <1>1, <1>2, <2>2 DEF Inserting, Writing
    <3> QED BY <1>2, <2>2, <3>1, CommitWrites DEF IInv, TypeOK
  <2> QED BY <2>1, <2>2
<1> QED BY <1>1, <1>2, <1>3

\* COMMIT keeps the three tables in agreement.
LEMMA EndTxnRows ==
  ASSUME IInv, NEW s \in Sessions, EndTxn(s)
  PROVE  RowsAgree'
<1> DEFINE r == req[s]
           o == req[s].outcome
<1>1. CASE ~Writing(s)
  BY <1>1, EndTxnFrame DEF IInv, RowsAgree, RefusalExcludesEffect, RefusalPinsFence,
     OutcomeOnce, Produced, tables
<1>2. CASE Writing(s) /\ r.op = "fence"
  <2>1. /\ refusals[o] = None
        /\ fences' = [fences EXCEPT ![o] = r.epoch]
        /\ effects' = effects /\ refusals' = refusals
    BY <1>2, CommitWrites
  <2>2. RefusalPinsFence'
    BY <2>1 DEF IInv, TypeOK, RowsAgree, RefusalPinsFence
  <2> QED BY <2>1, <2>2 DEF IInv, RowsAgree, RefusalExcludesEffect, OutcomeOnce, Produced
<1>3. CASE Writing(s) /\ r.op = "refuse"
  <2>1. /\ r \in Requests /\ o \in Outcomes /\ ~Produced(o)
        /\ fences' = [fences EXCEPT ![o] = r.epoch]
        /\ refusals' = [refusals EXCEPT ![o] = [epoch |-> r.epoch, id |-> r.id]]
        /\ effects' = effects
    BY <1>3, CommitWrites DEF Requests
  <2>2. RefusalPinsFence'
    BY <2>1 DEF IInv, TypeOK, RowsAgree, RefusalPinsFence
  <2>3. \A p \in Outcomes : Produced(p)' = Produced(p)
    BY <2>1 DEF Produced
  <2>4. RefusalExcludesEffect'
    BY <2>1, <2>3 DEF IInv, TypeOK, RowsAgree, RefusalExcludesEffect
  <2> QED BY <2>1, <2>2, <2>4 DEF IInv, RowsAgree, OutcomeOnce
<1>4. CASE Writing(s) /\ r.op = "commit"
  <2>1. /\ r \in Requests /\ o \in Outcomes /\ r.id \in Ids
        /\ ~Produced(o) /\ refusals[o] = None
        /\ effects' = [effects EXCEPT ![r.id] = [outcome |-> o, epoch |-> r.epoch]]
        /\ fences' = fences /\ refusals' = refusals
    BY <1>4, CommitWrites DEF Requests
  <2>2. /\ effects'[r.id].outcome = o
        /\ \A id \in Ids \ {r.id} : effects'[id] = effects[id]
    BY <2>1 DEF IInv, TypeOK
  <2>3. \A p \in Outcomes \ {o} : Produced(p)' => Produced(p)
    BY <2>2 DEF Produced
  <2>4. RefusalExcludesEffect'
    BY <2>1, <2>3 DEF IInv, RowsAgree, RefusalExcludesEffect
  <2>5. OutcomeOnce'
    BY <2>1, <2>2 DEF IInv, RowsAgree, OutcomeOnce, Produced
  <2> QED BY <2>1, <2>4, <2>5 DEF IInv, RowsAgree, RefusalPinsFence
<1>5. Writing(s) => r.op \in {"fence", "refuse", "commit"}
  BY CommitWrites
<1> QED BY <1>1, <1>2, <1>3, <1>4, <1>5

----------------------------------------------------------------------------
(* The inductive invariant *)

\* With empty tables and idle sessions the invariant holds.
LEMMA InitInv == Init => IInv
<1> SUFFICES ASSUME Init PROVE IInv
  OBVIOUS
<1>1. TypeOK /\ Serving
  BY TypeInit
<1>2. Locking /\ (\A s \in Sessions : Knows(s)) /\ KeysFree
  BY DEF Init, Locking, Locked, Statements, Knows, KnowsNotRefused, KnowsFence,
     KnowsNotProduced, Writing, KeysFree, Inserting
<1>3. RowsAgree
  BY DEF Init, RowsAgree, RefusalExcludesEffect, RefusalPinsFence, OutcomeOnce
<1> QED BY <1>1, <1>2, <1>3 DEF IInv

\* Begin, Lock, Abandon and Reply move one session to a label at which it
\* claims no knowledge yet, or none any more.
LEMMA QuietStep ==
  ASSUME IInv, NEW s \in Sessions,
         Lock(s) \/ Abandon(s) \/ Reply(s) \/ \E r \in Requests : Begin(s, r)
  PROVE  (\A t \in Sessions : Knows(t)') /\ KeysFree' /\ RowsAgree'
<1>1. /\ UNCHANGED tables
      /\ pc'[s] \in {"idle", "lock", "reply"} \/ (pc'[s] = "fence" /\ req'[s].op = "fence")
                                             \/ (pc'[s] = "refusal" /\ req'[s].op # "fence")
      /\ \A t \in Sessions \ {s} :
           pc'[t] = pc[t] /\ req'[t] = req[t] /\ result'[t] = result[t]
  BY DEF IInv, TypeOK, Lock, Abandon, Reply, Begin
<1>2. Knows(s)'
  BY <1>1 DEF Knows, KnowsNotRefused, KnowsFence, KnowsNotProduced, Writing
<1>3. \A t \in Sessions \ {s} : Knows(t)'
  BY <1>1, KnowsFrame DEF IInv
<1>4. \A t \in Sessions, id \in Ids : Inserting(t, id)' => Inserting(t, id)
  BY <1>1 DEF Inserting
<1>5. KeysFree'
  BY <1>1, <1>4 DEF IInv, KeysFree, tables
<1>6. RowsAgree'
  BY <1>1 DEF IInv, RowsAgree, RefusalExcludesEffect, RefusalPinsFence, OutcomeOnce,
     Produced, tables
<1> QED BY <1>2, <1>3, <1>5, <1>6

\* Every action preserves it: EndTxn writes, Execute learns, the rest is quiet.
LEMMA StepInv == IInv /\ [Next]_vars => IInv'
<1> SUFFICES ASSUME IInv, [Next]_vars PROVE IInv'
  OBVIOUS
<1>1. TypeOK' /\ Serving' /\ Locking'
  BY TypeStep, LockingStep DEF IInv
<1>2. CASE UNCHANGED vars
  BY <1>2 DEF vars, IInv, TypeOK, Serving, Locking, Knows, KnowsNotRefused, KnowsFence,
     KnowsNotProduced, Writing, Produced, KeysFree, Inserting, RowsAgree,
     RefusalExcludesEffect, RefusalPinsFence, OutcomeOnce
<1>3. ASSUME NEW s \in Sessions, Execute(s)
      PROVE  IInv'
  <2>1. \A t \in Sessions : Knows(t)'
    BY <1>3, ExecuteKnows, KnowsFrame DEF IInv
  <2>2. RowsAgree'
    BY <1>3, ExecuteKnows DEF IInv, RowsAgree, RefusalExcludesEffect, RefusalPinsFence,
       OutcomeOnce, Produced, tables
  <2> QED BY <1>1, <1>3, <2>1, <2>2, ExecuteKeysFree DEF IInv
<1>4. ASSUME NEW s \in Sessions, EndTxn(s)
      PROVE  IInv'
  BY <1>1, <1>4, EndTxnKnows, EndTxnKeysFree, EndTxnRows DEF IInv
<1>5. ASSUME NEW s \in Sessions,
             Lock(s) \/ Abort(s) \/ Reply(s) \/ \E r \in Requests : Begin(s, r)
      PROVE  IInv'
  BY <1>1, <1>5, QuietStep DEF IInv, Abort
<1> QED BY <1>2, <1>3, <1>4, <1>5 DEF Next

\* The inductive invariant holds in every reachable state, whatever transactions
\* overlap or are lost (postgres_authority.py:76-122).
THEOREM Invariant == Spec => []IInv
<1>1. Init => IInv
  BY InitInv
<1>2. IInv /\ [Next]_vars => IInv'
  BY StepInv
<1> QED BY <1>1, <1>2, PTL DEF Spec

\* However transactions overlap, no outcome is ever both refused and produced.
THEOREM RefusalExcludesEffectAlways == Spec => []RefusalExcludesEffect
<1>1. IInv => RefusalExcludesEffect
  BY DEF IInv, RowsAgree
<1> QED BY <1>1, Invariant, PTL

\* The fence of a refused outcome is the refusal's epoch for ever.
THEOREM RefusalPinsFenceAlways == Spec => []RefusalPinsFence
<1>1. IInv => RefusalPinsFence
  BY DEF IInv, RowsAgree
<1> QED BY <1>1, Invariant, PTL

----------------------------------------------------------------------------
(* What a step may never do *)

\* Every step either leaves the tables alone or is a COMMIT with its writes.
LEMMA TablesStep ==
  ASSUME IInv, [Next]_vars
  PROVE  \/ UNCHANGED tables
         \/ \E s \in Sessions : EndTxn(s) /\ Writing(s)
<1>1. CASE UNCHANGED vars
  BY <1>1 DEF vars, tables
<1>2. ASSUME NEW s \in Sessions,
             Lock(s) \/ Abort(s) \/ Reply(s) \/ \E r \in Requests : Begin(s, r)
      PROVE  UNCHANGED tables
  BY <1>2 DEF Lock, Abort, Abandon, Reply, Begin
<1>3. ASSUME NEW s \in Sessions, Execute(s)
      PROVE  UNCHANGED tables
  BY <1>3, ExecuteKnows
<1>4. ASSUME NEW s \in Sessions, EndTxn(s), ~Writing(s)
      PROVE  UNCHANGED tables
  BY <1>4, EndTxnFrame
<1> QED BY <1>1, <1>2, <1>3, <1>4 DEF Next

\* Fences never go down in a step.
LEMMA StepFences ==
  ASSUME IInv, [Next]_vars, NEW o \in Outcomes
  PROVE  fences[o] \in Nat /\ fences'[o] \in Nat /\ fences'[o] >= fences[o]
<1>1. fences[o] \in Nat /\ fences'[o] \in Nat
  <2>1. TypeOK /\ TypeOK'
    BY StepInv DEF IInv
  <2>2. fences[o] \in Epochs \cup {0} /\ fences'[o] \in Epochs \cup {0}
    BY <2>1 DEF TypeOK
  <2>3. Epochs \cup {0} \subseteq Nat
    BY EpochsAssumption
  <2> QED BY <2>2, <2>3
<1>2. CASE UNCHANGED tables
  BY <1>1, <1>2 DEF tables
<1>3. ASSUME NEW s \in Sessions, EndTxn(s), Writing(s)
      PROVE  fences'[o] >= fences[o]
  <2>1. CASE req[s].op \in {"fence", "refuse"}
    <3>1. /\ fences' = [fences EXCEPT ![req[s].outcome] = req[s].epoch]
          /\ req[s].epoch >= fences[req[s].outcome]
      BY <1>3, <2>1, CommitWrites
    <3> QED BY <1>1, <3>1 DEF IInv, TypeOK
  <2>2. CASE req[s].op = "commit"
    <3>1. fences' = fences
      BY <1>3, <2>2, CommitWrites
    <3> QED BY <1>1, <3>1
  <2>3. req[s].op \in {"fence", "refuse", "commit"}
    BY <1>3, CommitWrites
  <2> QED BY <2>1, <2>2, <2>3
<1> QED BY <1>1, <1>2, <1>3, TablesStep

\* No step clears or replaces a row.
LEMMA StepRows ==
  ASSUME IInv, [Next]_vars
  PROVE  /\ \A o \in Outcomes : refusals[o] # None => refusals'[o] = refusals[o]
         /\ \A id \in Ids : effects[id] # None => effects'[id] = effects[id]
<1>1. CASE UNCHANGED tables
  BY <1>1 DEF tables
<1>2. ASSUME NEW s \in Sessions, EndTxn(s), Writing(s), NEW o \in Outcomes, refusals[o] # None
      PROVE  refusals'[o] = refusals[o]
  BY <1>2, CommitWrites DEF IInv, TypeOK
<1>3. ASSUME NEW s \in Sessions, EndTxn(s), Writing(s), NEW id \in Ids, effects[id] # None
      PROVE  effects'[id] = effects[id]
  BY <1>3, CommitWrites DEF IInv, TypeOK
<1> QED BY <1>1, <1>2, <1>3, TablesStep

\* An effect appears under the fence of its outcome as it is at that instant.
LEMMA StepProduced ==
  ASSUME IInv, [Next]_vars, NEW id \in Ids, effects[id] = None, effects'[id] # None
  PROVE  /\ refusals[effects'[id].outcome] = None
         /\ fences[effects'[id].outcome] = effects'[id].epoch
         /\ ~Produced(effects'[id].outcome)
<1>1. PICK s \in Sessions : EndTxn(s) /\ Writing(s)
  BY TablesStep DEF tables
<1>2. /\ req[s].op = "commit" /\ req[s].id \in Ids
      /\ refusals[req[s].outcome] = None
      /\ fences[req[s].outcome] = req[s].epoch
      /\ ~Produced(req[s].outcome)
      /\ effects' = [effects EXCEPT ![req[s].id] =
                       [outcome |-> req[s].outcome, epoch |-> req[s].epoch]]
  BY <1>1, CommitWrites DEF Requests
<1>3. effects'[id] = [outcome |-> req[s].outcome, epoch |-> req[s].epoch]
  BY <1>2 DEF IInv, TypeOK
<1> QED BY <1>2, <1>3

\* Fences are monotone, rows are permanent and effects appear under the current
\* fence: the three action properties, for all sessions and interleavings.
THEOREM StepsSafe == Spec => FenceMonotone /\ RowsPermanent /\ ProducedUnderFence
<1>1. IInv /\ [Next]_vars => [\A o \in Outcomes : fences'[o] >= fences[o]]_vars
  BY StepFences
<1>2. IInv /\ [Next]_vars =>
        [/\ \A o \in Outcomes : refusals[o] # None => refusals'[o] = refusals[o]
         /\ \A id \in Ids : effects[id] # None => effects'[id] = effects[id]]_vars
  BY StepRows
<1>3. IInv /\ [Next]_vars =>
        [\A id \in Ids : effects[id] = None /\ effects'[id] # None =>
           LET row == effects'[id] IN
           /\ refusals[row.outcome] = None
           /\ fences[row.outcome] = row.epoch
           /\ ~Produced(row.outcome)]_vars
  BY StepProduced
<1> QED BY <1>1, <1>2, <1>3, Invariant, PTL
        DEF Spec, FenceMonotone, RowsPermanent, ProducedUnderFence

----------------------------------------------------------------------------
(* Answers *)

\* What an answer stands for, from the statement that decides it to its delivery.
Decided(s) ==
  LET r == req[s] IN
  pc[s] \in {"end", "reply"} =>
    /\ result[s] = "idempotent" =>
         \/ r.op = "refuse" /\ refusals[r.outcome] = [epoch |-> r.epoch, id |-> r.id]
         \/ r.op = "commit" /\ effects[r.id] # None /\ effects[r.id].outcome = r.outcome
    /\ result[s] = "terminal_refusal" => refusals[r.outcome] # None
    /\ result[s] = "outcome_already_committed" => Produced(r.outcome)
    /\ pc[s] = "reply" /\ result[s] = "written" =>
         \/ r.op = "fence" /\ fences[r.outcome] >= r.epoch
         \/ r.op = "refuse" /\ refusals[r.outcome] = [epoch |-> r.epoch, id |-> r.id]
         \/ r.op = "commit" /\ effects[r.id] # None /\ effects[r.id].outcome = r.outcome

\* Facts about rows outlast later transactions, so a decided answer stays right.
LEMMA DecidedFrame ==
  ASSUME IInv, [Next]_vars, NEW t \in Sessions, Decided(t),
         pc'[t] = pc[t], req'[t] = req[t], result'[t] = result[t]
  PROVE  Decided(t)'
<1> SUFFICES ASSUME pc[t] \in {"end", "reply"} PROVE Decided(t)'
  BY DEF Decided
<1>1. req[t] \in Requests /\ req[t].outcome \in Outcomes /\ req[t].epoch \in Nat
  BY EpochsAssumption DEF IInv, Serving, Requests
<1>2. refusals[req[t].outcome] # None => refusals'[req[t].outcome] = refusals[req[t].outcome]
  BY <1>1, StepRows
<1>3. Produced(req[t].outcome) => Produced(req[t].outcome)'
  BY StepRows DEF Produced
<1>4. fences[req[t].outcome] >= req[t].epoch => fences'[req[t].outcome] >= req[t].epoch
  BY <1>1, StepFences
<1>5. req[t].op = "commit" /\ effects[req[t].id] # None => effects'[req[t].id] = effects[req[t].id]
  BY <1>1, StepRows DEF Requests
<1>6. req[t].op = "refuse" => [epoch |-> req[t].epoch, id |-> req[t].id] # None
  BY <1>1, NoneAssumption DEF Requests, RefusalRow
<1> QED BY <1>2, <1>3, <1>4, <1>5, <1>6 DEF Decided

\* A handler returns an answer only on what its own statements have found.
LEMMA ExecuteDecided ==
  ASSUME IInv, NEW s \in Sessions, Execute(s)
  PROVE  Decided(s)'
<1>1. UNCHANGED tables /\ req'[s] = req[s]
  BY ExecuteKnows DEF Execute, FenceOp, RefuseOp, CommitOp, InsertEffect, Abandon,
                      Goto, Return
<1>2. CASE FenceOp(s)
  BY <1>1, <1>2 DEF IInv, TypeOK, FenceOp, Rollback, RefusalRowExists, At, Goto,
                    Return, Decided, tables
<1>3. CASE RefuseOp(s)
  BY <1>1, <1>3 DEF IInv, TypeOK, RefuseOp, Rollback, EffectRowExists, At, Goto,
                    Return, Decided, Produced, tables
<1>4. CASE CommitOp(s) /\ ~InsertEffect(s)
  BY <1>1, <1>4 DEF IInv, TypeOK, CommitOp, RefusalRowExists, EffectRowExists,
                    SameOutcome, At, Goto, Return, Decided, Produced, tables
<1>5. CASE InsertEffect(s)
  BY <1>1, <1>5 DEF IInv, TypeOK, InsertEffect, UniqueViolation, At, Abandon,
                    ExceptionAnswer, Return, Decided
<1> QED BY <1>2, <1>3, <1>4, <1>5 DEF Execute

\* COMMIT makes a "written" answer true; an applied but unconfirmed one says 503.
LEMMA EndTxnDecided ==
  ASSUME IInv, NEW s \in Sessions, EndTxn(s), Decided(s)
  PROVE  Decided(s)'
<1>1. /\ pc[s] = "end" /\ pc'[s] = "reply" /\ req'[s] = req[s]
      /\ result'[s] \in {result[s], "unavailable"}
  BY DEF IInv, TypeOK, EndTxn, ExceptionAnswer
<1>2. CASE ~Writing(s)
  BY <1>1, <1>2, EndTxnFrame DEF Decided, Writing, Produced, tables
<1>3. CASE Writing(s) /\ req[s].op = "fence"
  <2>1. fences'[req[s].outcome] = req[s].epoch /\ req[s].epoch \in Nat
    BY <1>3, CommitWrites, EpochsAssumption DEF IInv, TypeOK, Requests
  <2> QED BY <1>1, <1>3, <2>1 DEF Decided, Writing
<1>4. CASE Writing(s) /\ req[s].op = "refuse"
  <2>1. refusals'[req[s].outcome] = [epoch |-> req[s].epoch, id |-> req[s].id]
    BY <1>4, CommitWrites DEF IInv, TypeOK, Requests
  <2> QED BY <1>1, <1>4, <2>1 DEF Decided, Writing
<1>5. CASE Writing(s) /\ req[s].op = "commit"
  <2>1. /\ effects'[req[s].id] = [outcome |-> req[s].outcome, epoch |-> req[s].epoch]
        /\ effects'[req[s].id] \in EffectRow
    <3>1. req[s].id \in Ids /\ req[s].outcome \in Outcomes /\ req[s].epoch \in Epochs
      BY <1>5, CommitWrites DEF Requests
    <3>2. effects' = [effects EXCEPT ![req[s].id] =
                        [outcome |-> req[s].outcome, epoch |-> req[s].epoch]]
      BY <1>5, CommitWrites
    <3> QED BY <3>1, <3>2 DEF IInv, TypeOK, EffectRow
  <2> QED BY <1>1, <1>5, <2>1, NoneAssumption DEF Decided, Writing
<1>6. Writing(s) => req[s].op \in {"fence", "refuse", "commit"}
  BY CommitWrites
<1> QED BY <1>2, <1>3, <1>4, <1>5, <1>6

\* Whatever a caller is told was true when it was decided and is still true when
\* the answer is sent, after the lock was released.
THEOREM RepliesTruthful == Spec => []TruthfulReply
<1> DEFINE AllDecided == \A s \in Sessions : Decided(s)
<1>1. Init => AllDecided
  BY DEF Init, Decided
<1>2. IInv /\ AllDecided /\ [Next]_vars => AllDecided'
  <2> SUFFICES ASSUME IInv, AllDecided, [Next]_vars, NEW t \in Sessions
               PROVE  Decided(t)'
    OBVIOUS
  <2>1. CASE UNCHANGED vars
    BY <2>1, DecidedFrame DEF vars
  <2>2. ASSUME NEW s \in Sessions,
               Lock(s) \/ Abort(s) \/ Reply(s) \/ \E r \in Requests : Begin(s, r)
        PROVE  Decided(t)'
    <3>1. CASE t = s
      BY <2>2, <3>1 DEF IInv, TypeOK, Lock, LockFree, Abort, Abandon, ExceptionAnswer,
                        Reply, Begin, Decided
    <3>2. CASE t # s
      BY <2>2, <3>2, DecidedFrame DEF IInv, TypeOK, Lock, Abort, Abandon, Reply, Begin
    <3> QED BY <3>1, <3>2
  <2>3. ASSUME NEW s \in Sessions, Execute(s)
        PROVE  Decided(t)'
    BY <2>3, ExecuteDecided, ExecuteKnows, DecidedFrame
  <2>4. ASSUME NEW s \in Sessions, EndTxn(s)
        PROVE  Decided(t)'
    BY <2>4, EndTxnDecided, EndTxnFrame, DecidedFrame
  <2> QED BY <2>1, <2>2, <2>3, <2>4 DEF Next
<1>3. IInv /\ AllDecided => TruthfulReply
  BY DEF Decided, TruthfulReply
<1> QED BY <1>1, <1>2, <1>3, Invariant, PTL DEF Spec

----------------------------------------------------------------------------
(* Refinement *)

\* The producer of an outcome is the one key whose row names it.
LEMMA ProducerKnown ==
  ASSUME OutcomeOnce, NEW o \in Outcomes, NEW id \in Ids,
         effects[id] # None, effects[id].outcome = o
  PROVE  producer[o] = id
<1>1. Produced(o)
  BY DEF Produced
<1>2. producer[o] = CHOOSE i \in Ids : effects[i] # None /\ effects[i].outcome = o
  BY <1>1 DEF producer
<1> QED BY <1>2 DEF OutcomeOnce

\* An outcome without a row in dar_effects has no producer.
LEMMA ProducerNone ==
  ASSUME NEW o \in Outcomes, ~Produced(o)
  PROVE  producer[o] = None
  BY DEF producer

\* The producer is read off dar_effects alone.
LEMMA ProducerFrame == UNCHANGED effects => UNCHANGED producer
  BY DEF producer, Produced

\* Of the three writes, only a commit changes who produced what, and it adds one.
LEMMA ProducerCommit ==
  ASSUME OutcomeOnce, OutcomeOnce', TypeOK, NEW o \in Outcomes, NEW id \in Ids, NEW e \in Epochs,
         effects[id] = None, ~Produced(o),
         effects' = [effects EXCEPT ![id] = [outcome |-> o, epoch |-> e]]
  PROVE  /\ producer' = [producer EXCEPT ![o] = id]
         /\ producer[o] = None
         /\ \A p \in Outcomes : producer[p] # id
<1>1. effects'[id] = [outcome |-> o, epoch |-> e] /\ effects'[id] # None
  BY NoneAssumption DEF TypeOK, EffectRow
<1>2. producer'[o] = id
  <2>1. effects'[id].outcome = o
    BY <1>1
  <2>2. Produced(o)'
    BY <1>1, <2>1 DEF Produced
  <2>3. producer'[o] = CHOOSE i \in Ids : effects'[i] # None /\ effects'[i].outcome = o
    BY <2>2 DEF producer
  <2> QED BY <1>1, <2>1, <2>3 DEF OutcomeOnce
<1>3. ASSUME NEW p \in Outcomes \ {o}
      PROVE  producer'[p] = producer[p]
  <2>1. \A i \in Ids : (effects'[i] # None /\ effects'[i].outcome = p)
                        <=> (effects[i] # None /\ effects[i].outcome = p)
    BY <1>1 DEF TypeOK
  <2> QED BY <2>1 DEF producer, Produced
<1>4. producer[o] = None
  BY ProducerNone
<1>5. ASSUME NEW p \in Outcomes
      PROVE  producer[p] # id
  <2>1. CASE Produced(p)
    <3>1. PICK i \in Ids : effects[i] # None /\ effects[i].outcome = p
      BY <2>1 DEF Produced
    <3> QED BY <3>1, ProducerKnown
  <2>2. CASE ~Produced(p)
    BY <2>2, ProducerNone, NoneAssumption
  <2> QED BY <2>1, <2>2
<1>6. producer' = [producer EXCEPT ![o] = id]
  <2> DEFINE after == [producer EXCEPT ![o] = id]
  <2>1. producer = [p \in Outcomes |-> producer[p]] /\ producer' = [p \in Outcomes |-> producer'[p]]
    BY DEF producer
  <2>2. after = [p \in Outcomes |-> after[p]]
    BY <2>1
  <2>3. ASSUME NEW p \in Outcomes
        PROVE  after[p] = producer'[p]
    <3>1. CASE p = o
      BY <1>2, <2>1, <3>1
    <3>2. CASE p # o
      BY <1>3, <2>1, <3>2
    <3> QED BY <3>1, <3>2
  <2> HIDE DEF after
  <2>4. after = producer'
    BY <2>1, <2>2, <2>3, Zenon
  <2> QED BY <2>4 DEF after
<1> QED BY <1>4, <1>5, <1>6

\* The authority implements OutcomeFence: a transaction is invisible until its
\* COMMIT, and its COMMIT is exactly one step of the contract.
THEOREM Refinement == Spec => ImplementsContract
<1>1. Init => Contract!Init
  BY DEF Init, Contract!Init, producer, Produced
<1>2. IInv /\ IInv' /\ [Next]_vars => [Contract!Next]_(Contract!vars)
  <2> SUFFICES ASSUME IInv, IInv', [Next]_vars
               PROVE  [Contract!Next]_(Contract!vars)
    OBVIOUS
  <2>1. CASE UNCHANGED tables
    BY <2>1 DEF tables, Contract!vars, producer, Produced
  <2>2. ASSUME NEW s \in Sessions, EndTxn(s), Writing(s)
        PROVE  Contract!Next
    <3>1. req[s].op \in {"fence", "refuse", "commit"} /\ req[s].outcome \in Outcomes
            /\ req[s].epoch \in Epochs
      BY <2>2, CommitWrites DEF Requests
    <3>2. CASE req[s].op = "fence"
      <4>1. /\ refusals[req[s].outcome] = None /\ req[s].epoch >= fences[req[s].outcome]
            /\ fences' = [fences EXCEPT ![req[s].outcome] = req[s].epoch]
            /\ UNCHANGED <<refusals, effects>>
        BY <2>2, <3>2, CommitWrites
      <4>2. Contract!AdvanceFence(req[s].outcome, req[s].epoch)
        BY <4>1, ProducerFrame DEF Contract!AdvanceFence, Contract!Open
      <4> QED BY <3>1, <4>2 DEF Contract!Next
    <3>3. CASE req[s].op = "refuse"
      <4>1. req[s].id \in Ids
        BY <2>2, <3>3, CommitWrites DEF Requests
      <4>2. producer[req[s].outcome] = None
        BY <2>2, <3>1, <3>3, CommitWrites, ProducerNone
      <4>3. /\ refusals[req[s].outcome] = None /\ req[s].epoch >= fences[req[s].outcome]
            /\ fences' = [fences EXCEPT ![req[s].outcome] = req[s].epoch]
            /\ refusals' = [refusals EXCEPT ![req[s].outcome] =
                               [epoch |-> req[s].epoch, id |-> req[s].id]]
            /\ UNCHANGED effects
        BY <2>2, <3>3, CommitWrites
      <4>4. Contract!Refuse(req[s].outcome, req[s].epoch, req[s].id)
        BY <4>2, <4>3, ProducerFrame DEF Contract!Refuse, Contract!Open, Contract!Refusable,
                                          Contract!Mark
      <4> QED BY <3>1, <4>1, <4>4 DEF Contract!Next
    <3>4. CASE req[s].op = "commit"
      <4>1. req[s].id \in Ids
        BY <2>2, <3>4, CommitWrites DEF Requests
      <4>2. /\ refusals[req[s].outcome] = None /\ req[s].epoch = fences[req[s].outcome]
            /\ ~Produced(req[s].outcome) /\ effects[req[s].id] = None
            /\ effects' = [effects EXCEPT ![req[s].id] =
                              [outcome |-> req[s].outcome, epoch |-> req[s].epoch]]
            /\ UNCHANGED <<fences, refusals>>
        BY <2>2, <3>4, CommitWrites
      <4>3. TypeOK /\ OutcomeOnce /\ OutcomeOnce'
        BY DEF IInv, RowsAgree
      <4>4. /\ producer' = [producer EXCEPT ![req[s].outcome] = req[s].id]
            /\ producer[req[s].outcome] = None
            /\ \A p \in Outcomes : producer[p] # req[s].id
        BY <3>1, <4>1, <4>2, <4>3, ProducerCommit
      <4>5. Contract!Commit(req[s].outcome, req[s].epoch, req[s].id)
        BY <4>2, <4>4 DEF Contract!Commit, Contract!Open, Contract!FreshKey
      <4> QED BY <3>1, <4>1, <4>5 DEF Contract!Next
    <3> QED BY <3>1, <3>2, <3>3, <3>4
  <2> QED BY <2>1, <2>2, TablesStep
<1> QED BY <1>1, <1>2, Invariant, PTL DEF Spec, ImplementsContract, Contract!Spec

----------------------------------------------------------------------------
(* What the contract promises, promised here *)

Promised == INSTANCE OutcomeFenceProofs WITH
  fence <- fences, refused <- refusals, produced <- producer, LateRefusal <- FALSE

\* The contract is the one OutcomeFenceProofs proves about.
LEMMA SameContract == Contract!Spec <=> Promised!Spec
BY DEF Contract!Spec, Contract!Init, Contract!Next, Contract!vars, Contract!AdvanceFence,
       Contract!Refuse, Contract!Commit, Contract!Open, Contract!Refusable,
       Contract!FreshKey, Contract!Mark,
       Promised!Spec, Promised!Init, Promised!Next, Promised!vars, Promised!AdvanceFence,
       Promised!Refuse, Promised!Commit, Promised!Open, Promised!Refusable,
       Promised!FreshKey, Promised!Mark

\* Seen through its tables the authority never has an outcome both refused and produced,
\* no key stands for two outcomes, and nothing about a refused outcome changes any more
\* (effect_transaction.py:34-51).
THEOREM TablesKeepPromises ==
  Spec => [](Contract!RefusalExcludesProduction /\ Contract!KeyProducesOnce)
          /\ Contract!RefusalTerminal
<1>1. Spec => Promised!Spec
  BY Refinement, SameContract DEF ImplementsContract
<1>2. Promised!Spec => []Promised!RefusalExcludesProduction /\ []Promised!KeyProducesOnce
  BY Promised!ContractSafe, PTL
<1>3. Promised!Spec => Promised!RefusalTerminal
  BY Promised!RefusalTerminalAlways
<1>4. /\ Promised!RefusalExcludesProduction <=> Contract!RefusalExcludesProduction
      /\ Promised!KeyProducesOnce <=> Contract!KeyProducesOnce
  BY DEF Promised!RefusalExcludesProduction, Contract!RefusalExcludesProduction,
         Promised!KeyProducesOnce, Contract!KeyProducesOnce
<1>5. Promised!RefusalTerminal <=> Contract!RefusalTerminal
  BY DEF Promised!RefusalTerminal, Contract!RefusalTerminal, Promised!vars, Contract!vars
<1> QED BY <1>1, <1>2, <1>3, <1>4, <1>5, PTL
=============================================================================
