-------------------------- MODULE PostgresAuthority --------------------------
(***************************************************************************)
(* The durable external authority, postgres_authority.py, behind the        *)
(* threaded HTTP server external_authority_server.py.                       *)
(*                                                                         *)
(* A session is one handler thread with the database transaction it opens   *)
(* for its request.  Sessions interleave between SQL statements.  What the  *)
(* database does is modelled from how the code uses it: a transaction-level *)
(* advisory lock per outcome, READ COMMITTED reads (a statement sees what    *)
(* was committed when it starts), writes that appear at COMMIT, the unique   *)
(* constraints of dar_effects, and rollback when the connection is lost.     *)
(* A caller that lost a reply sends its request again: any session may       *)
(* begin any request at any time.                                           *)
(*                                                                         *)
(* Simplified: a missing fence row is fence 0 (the code reads it so), and    *)
(* two outcomes never share an advisory lock key (sharing one would only     *)
(* serialise more).                                                         *)
(***************************************************************************)
EXTENDS Naturals

CONSTANTS
  Sessions,          \* handler threads
  Outcomes,          \* outcome keys
  Ids,               \* idempotency keys and refusal ids
  Epochs,            \* the epochs callers name
  None               \* "no row", "nobody"

ASSUME EpochsAssumption == Epochs \subseteq Nat

VARIABLES
  fences,            \* dar_fences:   outcome -> fence
  refusals,          \* dar_refusals: outcome -> [epoch, id] or None
  effects,           \* dar_effects:  idempotency key -> [outcome, epoch] or None
  holder,            \* advisory lock: outcome -> session or None
  pc,                \* the statement a session executes next
  req,               \* the request it serves
  result             \* its answer, once decided

vars == <<fences, refusals, effects, holder, pc, req, result>>
tables == <<fences, refusals, effects>>

----------------------------------------------------------------------------
(* Types *)

RefusalRow == [epoch : Epochs, id : Ids]
EffectRow == [outcome : Outcomes, epoch : Epochs]

ASSUME NoneAssumption ==
  None \notin Ids \cup Sessions \cup Outcomes \cup RefusalRow \cup EffectRow

Requests ==
  [op : {"fence"}, outcome : Outcomes, epoch : Epochs, id : {None}]
    \cup [op : {"refuse", "commit"}, outcome : Outcomes, epoch : Epochs, id : Ids]

\* "written": 200 with a row written;  "idempotent": 200, done before;
\* "other_refusal": 200 with ok = false;  "unavailable": 503;  the rest: 409.
Rejections == {"fence_rollback", "terminal_refusal", "stale_fence",
               "idempotency_key_reuse", "outcome_already_committed"}
Results == Rejections \cup {"none", "written", "idempotent", "other_refusal", "unavailable"}

Statements == {"lock", "refusal", "fence", "idem", "effect", "upsert", "insert", "end"}
Labels == Statements \cup {"idle", "reply"}

TypeOK ==
  /\ fences \in [Outcomes -> Epochs \cup {0}]
  /\ refusals \in [Outcomes -> RefusalRow \cup {None}]
  /\ effects \in [Ids -> EffectRow \cup {None}]
  /\ holder \in [Outcomes -> Sessions \cup {None}]
  /\ pc \in [Sessions -> Labels]
  /\ req \in [Sessions -> Requests \cup {None}]
  /\ result \in [Sessions -> Results]

----------------------------------------------------------------------------
(* Helpers *)

Produced(o) == \E id \in Ids : effects[id] # None /\ effects[id].outcome = o

\* The conditions of the handlers.  Beside each stands the form a plausible mistake
\* would give it (Unchecked..., Any..., Session..., Swallowed...): the mutants.

\* if epoch < current
UncheckedRollback(s) == FALSE
Rollback(s) == req[s].epoch < fences[req[s].outcome]

\* SELECT 1 FROM dar_refusals
UncheckedRefusal(o) == FALSE
RefusalRowExists(o) == refusals[o] # None

\* SELECT 1 FROM dar_effects WHERE outcome_key
UncheckedEffect(o) == FALSE
EffectRowExists(o) == Produced(o)

\* existing["outcome_key"] == outcome
AnyOutcome(s) == TRUE
SameOutcome(s) == effects[req[s].id].outcome = req[s].outcome

\* PRIMARY KEY and UNIQUE of dar_effects
UncheckedConstraint(s) == FALSE
UniqueViolation(s) == effects[req[s].id] # None \/ Produced(req[s].outcome)

\* pg_advisory_xact_lock returns
UncheckedLock(s) == TRUE
LockFree(s) == holder[req[s].outcome] = None

\* GREATEST(dar_fences.fence, EXCLUDED.fence)
FenceAfter(o, e) == e + 1
Greatest(o, e) == IF e > fences[o] THEN e ELSE fences[o]

\* except Exception: 503
SwallowedException == "written"
ExceptionAnswer == "unavailable"

At(s, op, label) == pc[s] = label /\ req[s].op = op

Goto(s, label) ==
  /\ pc' = [pc EXCEPT ![s] = label]
  /\ UNCHANGED <<tables, holder, req, result>>

\* The handler returns: leaving the "with" block ends the transaction.
Return(s, answer) ==
  /\ pc' = [pc EXCEPT ![s] = "end"]
  /\ result' = [result EXCEPT ![s] = answer]
  /\ UNCHANGED <<tables, holder, req>>

\* The uncommitted dar_effects row of s.
Inserting(s, id) ==
  pc[s] = "end" /\ result[s] = "written" /\ req[s].op = "commit" /\ req[s].id = id

\* The lock of a transaction goes with it; a session-level lock would stay.
SessionLock(s) == holder
Release(s) == [o \in Outcomes |-> IF holder[o] = s THEN None ELSE holder[o]]

\* An exception, or the loss of the connection: rollback, the lock is released.
Abandon(s) ==
  /\ pc' = [pc EXCEPT ![s] = "reply"]
  /\ result' = [result EXCEPT ![s] = ExceptionAnswer]
  /\ holder' = Release(s)
  /\ UNCHANGED <<tables, req>>

----------------------------------------------------------------------------
(* Requests *)

Begin(s, r) ==
  /\ pc[s] = "idle"
  /\ pc' = [pc EXCEPT ![s] = "lock"]
  /\ req' = [req EXCEPT ![s] = r]
  /\ UNCHANGED <<tables, holder, result>>

Lock(s) ==
  /\ pc[s] = "lock"
  /\ LockFree(s)
  /\ holder' = [holder EXCEPT ![req[s].outcome] = s]
  /\ pc' = [pc EXCEPT ![s] = IF req[s].op = "fence" THEN "fence" ELSE "refusal"]
  /\ UNCHANGED <<tables, req, result>>

FenceOp(s) ==
  LET o == req[s].outcome IN
  \/ /\ At(s, "fence", "fence")
     /\ IF Rollback(s) THEN Return(s, "fence_rollback") ELSE Goto(s, "refusal")
  \/ /\ At(s, "fence", "refusal")
     /\ IF RefusalRowExists(o) THEN Return(s, "terminal_refusal") ELSE Goto(s, "upsert")
  \/ /\ At(s, "fence", "upsert")
     /\ Return(s, "written")

RefuseOp(s) ==
  LET o == req[s].outcome
      same == refusals[o] = [epoch |-> req[s].epoch, id |-> req[s].id]
  IN
  \/ /\ At(s, "refuse", "refusal")
     /\ IF refusals[o] # None
          THEN Return(s, IF same THEN "idempotent" ELSE "other_refusal")
          ELSE Goto(s, "fence")
  \/ /\ At(s, "refuse", "fence")
     /\ IF Rollback(s) THEN Return(s, "fence_rollback") ELSE Goto(s, "effect")
  \/ /\ At(s, "refuse", "effect")
     /\ IF EffectRowExists(o) THEN Return(s, "outcome_already_committed") ELSE Goto(s, "upsert")
  \/ /\ At(s, "refuse", "upsert")
     /\ Goto(s, "insert")
  \/ /\ At(s, "refuse", "insert")
     /\ Return(s, "written")

\* The INSERT waits while another transaction holds an uncommitted row with the
\* same key, and fails on a unique constraint: the exception rolls back, 503.
InsertEffect(s) ==
  LET id == req[s].id IN
  /\ At(s, "commit", "insert")
  /\ \A t \in Sessions \ {s} : ~Inserting(t, id)
  /\ IF UniqueViolation(s) THEN Abandon(s) ELSE Return(s, "written")

CommitOp(s) ==
  LET o == req[s].outcome
      id == req[s].id
  IN
  \/ /\ At(s, "commit", "refusal")
     /\ IF RefusalRowExists(o) THEN Return(s, "terminal_refusal") ELSE Goto(s, "fence")
  \/ /\ At(s, "commit", "fence")
     /\ IF fences[o] # req[s].epoch THEN Return(s, "stale_fence") ELSE Goto(s, "idem")
  \/ /\ At(s, "commit", "idem")
     /\ \/ effects[id] = None /\ Goto(s, "effect")
        \/ effects[id] # None /\ SameOutcome(s) /\ Return(s, "idempotent")
        \/ effects[id] # None /\ ~SameOutcome(s) /\ Return(s, "idempotency_key_reuse")
  \/ /\ At(s, "commit", "effect")
     /\ IF EffectRowExists(o) THEN Return(s, "outcome_already_committed") ELSE Goto(s, "insert")
  \/ InsertEffect(s)

Abort(s) ==
  /\ pc[s] \in Statements
  /\ Abandon(s)

\* COMMIT: the rows of a "written" transaction become visible, then the lock goes.
ApplyWrites(s) ==
  LET r == req[s]
      o == r.outcome
  IN
  IF result[s] # "written" THEN UNCHANGED tables
  ELSE
    \/ /\ r.op = "fence"
       /\ fences' = [fences EXCEPT ![o] = r.epoch]
       /\ UNCHANGED <<refusals, effects>>
    \/ /\ r.op = "refuse"
       /\ fences' = [fences EXCEPT ![o] = Greatest(o, r.epoch)]
       /\ refusals' = [refusals EXCEPT ![o] = [epoch |-> r.epoch, id |-> r.id]]
       /\ UNCHANGED effects
    \/ /\ r.op = "commit"
       /\ effects' = [effects EXCEPT ![r.id] = [outcome |-> o, epoch |-> r.epoch]]
       /\ UNCHANGED <<fences, refusals>>

\* The connection may break before COMMIT is confirmed: applied, answered 503.
EndTxn(s) ==
  /\ pc[s] = "end"
  /\ ApplyWrites(s)
  /\ pc' = [pc EXCEPT ![s] = "reply"]
  /\ result' \in {result, [result EXCEPT ![s] = ExceptionAnswer]}
  /\ holder' = Release(s)
  /\ UNCHANGED req

\* The answer reaches the caller or is lost: the thread is done either way.
Reply(s) ==
  /\ pc[s] = "reply"
  /\ pc' = [pc EXCEPT ![s] = "idle"]
  /\ req' = [req EXCEPT ![s] = None]
  /\ result' = [result EXCEPT ![s] = "none"]
  /\ UNCHANGED <<tables, holder>>

Init ==
  /\ fences = [o \in Outcomes |-> 0]
  /\ refusals = [o \in Outcomes |-> None]
  /\ effects = [id \in Ids |-> None]
  /\ holder = [o \in Outcomes |-> None]
  /\ pc = [s \in Sessions |-> "idle"]
  /\ req = [s \in Sessions |-> None]
  /\ result = [s \in Sessions |-> "none"]

Execute(s) == FenceOp(s) \/ RefuseOp(s) \/ CommitOp(s)

Next ==
  \E s \in Sessions :
    \/ \E r \in Requests : Begin(s, r)
    \/ Lock(s)
    \/ Execute(s)
    \/ EndTxn(s)
    \/ Abort(s)
    \/ Reply(s)

Spec == Init /\ [][Next]_vars

\* Threads keep running.  The advisory lock queue and the wait for another
\* inserter are first come, first served, so a waiting session is not passed over
\* for ever: strong fairness for those two, weak for the rest.
Fairness ==
  \A s \in Sessions :
    /\ SF_vars(Lock(s))
    /\ SF_vars(InsertEffect(s))
    /\ WF_vars(Execute(s))
    /\ WF_vars(EndTxn(s))
    /\ WF_vars(Reply(s))

FairSpec == Spec /\ Fairness

----------------------------------------------------------------------------
(* Properties *)

\* No outcome is both refused and produced, whatever transactions overlap
\* (postgres_authority.py:83, 99, 108: the three checks under the lock).
RefusalExcludesEffect == \A o \in Outcomes : refusals[o] # None => ~Produced(o)

\* The fence of a refused outcome stays at the refusal's epoch: what refuse
\* installs in two statements (lines 101-102) never comes apart, and a later
\* /fence cannot move it.  refusal.py:101 relies on it.
RefusalPinsFence ==
  \A o \in Outcomes : refusals[o] # None => fences[o] = refusals[o].epoch

\* What an answer says is still so when it is sent, after the lock was released:
\* ok means the row is there for this very outcome and key (on a retry as well,
\* though a retried commit may name a later epoch than the row's), and the 409s
\* terminal_refusal and outcome_already_committed name a fact.
TruthfulReply ==
  \A s \in Sessions : pc[s] = "reply" =>
    LET r == req[s]
        ok == result[s] \in {"written", "idempotent"}
    IN
    /\ r.op = "fence" /\ ok => fences[r.outcome] >= r.epoch
    /\ r.op = "refuse" /\ ok => refusals[r.outcome] = [epoch |-> r.epoch, id |-> r.id]
    /\ r.op = "commit" /\ ok => effects[r.id] # None /\ effects[r.id].outcome = r.outcome
    /\ result[s] = "terminal_refusal" => refusals[r.outcome] # None
    /\ result[s] = "outcome_already_committed" => Produced(r.outcome)

\* Fences never go down, although a check and its write are separate statements
\* and the /fence upsert overwrites unconditionally (lines 79-85).
FenceMonotone == [][\A o \in Outcomes : fences'[o] >= fences[o]]_vars

\* Rows are permanent: a refusal is never cleared or replaced by another, and a
\* key never comes to stand for another outcome.
RowsPermanent ==
  [][/\ \A o \in Outcomes : refusals[o] # None => refusals'[o] = refusals[o]
     /\ \A id \in Ids : effects[id] # None => effects'[id] = effects[id]]_vars

\* When an effect becomes visible its outcome is not refused, has no other effect,
\* and its epoch is the fence at that instant, not the one read four statements
\* earlier (lines 108-121).
ProducedUnderFence ==
  [][\A id \in Ids : effects[id] = None /\ effects'[id] # None =>
       LET row == effects'[id] IN
       /\ refusals[row.outcome] = None
       /\ fences[row.outcome] = row.epoch
       /\ ~Produced(row.outcome)]_vars

\* Every request is answered: no two transactions wait for each other.
EveryRequestAnswered == \A s \in Sessions : pc[s] = "lock" ~> pc[s] = "reply"

----------------------------------------------------------------------------
(* The authority implements the contract, without late refusals. *)

producer ==
  [o \in Outcomes |->
     IF Produced(o)
       THEN CHOOSE id \in Ids : effects[id] # None /\ effects[id].outcome = o
       ELSE None]

Contract == INSTANCE OutcomeFence WITH
  fence <- fences, refused <- refusals, produced <- producer, LateRefusal <- FALSE

\* Each transaction takes effect at its COMMIT or not at all, as one step of
\* OutcomeFence: the atomicity FORMAL_PROPERTY_v3_OUTCOME_FENCE.md asks for.
ImplementsContract == Contract!Spec
=============================================================================
