--------------------------- MODULE MemoryAuthority ---------------------------
(***************************************************************************)
(* The external authority without a database: the dictionaries and the      *)
(* handlers of external_authority_server.py in its "memory" mode.  One lock *)
(* covers each handler from its first test to its answer, so a request is   *)
(* one step.  A restart of the process loses everything and draws a new     *)
(* BOOT_ID, which every GET reports.                                        *)
(***************************************************************************)
EXTENDS Naturals

CONSTANTS
  Outcomes,          \* outcome keys
  Ids,               \* idempotency keys and refusal ids
  Epochs,            \* the epochs callers name
  None,              \* "no entry"
  MaxBoots           \* bound: how often the process starts

ASSUME EpochsAssumption == Epochs \subseteq Nat
ASSUME MaxBootsAssumption == MaxBoots \in Nat \ {0}
ASSUME NoneAssumption ==
  None \notin Ids \cup [epoch : Epochs, id : Ids] \cup [outcome : Outcomes, epoch : Epochs]

VARIABLES
  fences,            \* outcome -> fence, 0 when absent
  refusals,          \* outcome -> [epoch, id] or None
  effects,           \* idempotency key -> [outcome, epoch] or None
  committed,         \* committed_outcomes: outcome -> idempotency key or None
  boot,              \* BOOT_ID
  answer             \* the last answer: the request and its result

tables == <<fences, refusals, effects, committed>>
vars == <<tables, boot, answer>>

Requests ==
  [op : {"fence"}, outcome : Outcomes, epoch : Epochs, id : {None}]
    \cup [op : {"refuse", "commit"}, outcome : Outcomes, epoch : Epochs, id : Ids]

Results == {"written", "idempotent", "other_refusal", "fence_rollback",
            "terminal_refusal", "stale_fence", "outcome_already_committed"}

TypeOK ==
  /\ fences \in [Outcomes -> Epochs \cup {0}]
  /\ refusals \in [Outcomes -> [epoch : Epochs, id : Ids] \cup {None}]
  /\ effects \in [Ids -> [outcome : Outcomes, epoch : Epochs] \cup {None}]
  /\ committed \in [Outcomes -> Ids \cup {None}]
  /\ boot \in 1..MaxBoots
  /\ answer \in [req : Requests, result : Results] \cup {None}

Answer(r, result) == answer' = [req |-> r, result |-> result]
Reject(r, result) == Answer(r, result) /\ UNCHANGED tables

NoFences == [o \in Outcomes |-> 0]
NoRows(S) == [x \in S |-> None]

Init ==
  /\ fences = NoFences
  /\ refusals = NoRows(Outcomes)
  /\ effects = NoRows(Ids)
  /\ committed = NoRows(Outcomes)
  /\ boot = 1
  /\ answer = None

\* The conditions, each after the form a mistake would give it (the mutants).
UncheckedRollback(r) == FALSE
Rollback(r) == r.epoch < fences[r.outcome]

UncheckedRefusal(r) == FALSE
RefusedOutcome(r) == refusals[r.outcome] # None

UncheckedOutcome(r) == FALSE
CommittedOutcome(r) == committed[r.outcome] # None

\* refusals[outcome] = [epoch, refusal_id]
SwappedMark(r) == [epoch |-> r.id, id |-> r.epoch]
Mark(r) == [epoch |-> r.epoch, id |-> r.id]

Fence(r) ==
  /\ r.op = "fence"
  /\ UNCHANGED boot
  /\ \/ Rollback(r) /\ Reject(r, "fence_rollback")
     \/ ~Rollback(r) /\ refusals[r.outcome] # None /\ Reject(r, "terminal_refusal")
     \/ /\ ~Rollback(r) /\ refusals[r.outcome] = None
        /\ fences' = [fences EXCEPT ![r.outcome] = r.epoch]
        /\ Answer(r, "written")
        /\ UNCHANGED <<refusals, effects, committed>>

\* Nothing asks whether the outcome was already committed: a refusal may be late.
Refuse(r) ==
  /\ r.op = "refuse"
  /\ UNCHANGED boot
  /\ \/ refusals[r.outcome] = Mark(r) /\ Reject(r, "idempotent")
     \/ refusals[r.outcome] \notin {Mark(r), None} /\ Reject(r, "other_refusal")
     \/ refusals[r.outcome] = None /\ Rollback(r) /\ Reject(r, "fence_rollback")
     \/ /\ refusals[r.outcome] = None /\ ~Rollback(r)
        /\ fences' = [fences EXCEPT ![r.outcome] = r.epoch]
        /\ refusals' = [refusals EXCEPT ![r.outcome] = Mark(r)]
        /\ Answer(r, "written")
        /\ UNCHANGED <<effects, committed>>

\* A key seen before is acknowledged without asking which outcome it stands for.
CommitOpen(r) ==
  \/ effects[r.id] # None /\ Reject(r, "idempotent")
  \/ effects[r.id] = None /\ CommittedOutcome(r) /\ Reject(r, "outcome_already_committed")
  \/ /\ effects[r.id] = None /\ ~CommittedOutcome(r)
     /\ effects' = [effects EXCEPT ![r.id] = [outcome |-> r.outcome, epoch |-> r.epoch]]
     /\ committed' = [committed EXCEPT ![r.outcome] = r.id]
     /\ Answer(r, "written")
     /\ UNCHANGED <<fences, refusals>>

Commit(r) ==
  LET current == fences[r.outcome] = r.epoch IN
  /\ r.op = "commit"
  /\ UNCHANGED boot
  /\ \/ RefusedOutcome(r) /\ Reject(r, "terminal_refusal")
     \/ ~RefusedOutcome(r) /\ ~current /\ Reject(r, "stale_fence")
     \/ ~RefusedOutcome(r) /\ current /\ CommitOpen(r)

Restart ==
  /\ boot < MaxBoots
  /\ boot' = boot + 1
  /\ fences' = NoFences
  /\ refusals' = NoRows(Outcomes)
  /\ effects' = NoRows(Ids)
  /\ committed' = NoRows(Outcomes)
  /\ answer' = None

Next ==
  \/ \E r \in Requests : Fence(r) \/ Refuse(r) \/ Commit(r)
  \/ Restart

Spec == Init /\ [][Next]_vars

----------------------------------------------------------------------------
(* Properties *)

\* The two dictionaries of /commit are each other's inverse, so /state never shows
\* an outcome as committed by a key that stands for another one (lines 157-162).
IndexesAgree ==
  \A o \in Outcomes, id \in Ids :
    committed[o] = id <=> (effects[id] # None /\ effects[id].outcome = o)

\* Within one BOOT_ID a refused outcome is settled: its refusal, its fence and its
\* producer (there may be one, from before a late refusal) no longer change.
RefusalSettles ==
  [][boot' = boot =>
       \A o \in Outcomes : refusals[o] # None =>
         /\ refusals'[o] = refusals[o]
         /\ fences'[o] = fences[o]
         /\ committed'[o] = committed[o]]_vars

\* FORMAL_PROPERTY_v3_OUTCOME_FENCE.md:30: a recovery answer "refers to the same
\* external transaction/outcome": an acknowledged commit is one of that outcome.
CommitAckNamesOutcome ==
  LET r == answer.req IN
  (answer # None /\ r.op = "commit" /\ answer.result \in {"written", "idempotent"})
    => committed[r.outcome] = r.id

----------------------------------------------------------------------------

Contract == INSTANCE OutcomeFence WITH
  fence <- fences, refused <- refusals, produced <- committed, LateRefusal <- TRUE

\* Each process, from its start with empty dictionaries to its end, implements the
\* contract in its weaker form, with late refusals: one lock makes a handler one step.
ImplementsContract ==
  /\ Contract!Init
  /\ [][IF boot' = boot THEN Contract!Next \/ UNCHANGED Contract!vars
                        ELSE Contract!Init']_vars
=============================================================================
