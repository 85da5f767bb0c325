-------------------------- MODULE RecoverableEffects --------------------------
(***************************************************************************)
(* EffectGate.execute_recoverable, reconcile_pending for intents without an   *)
(* outcome key, and recover of dar/effect_transaction.py: the Store's pending *)
(* list, the journal file and an external adapter of either kind.            *)
(*                                                                         *)
(* One operation at a time holds the Store lock (pc, mode, cur, todo, known). *)
(* A crash or an exception may end it at any step, in the middle of a journal *)
(* append too (EffectJournal); what is on disk stays as it is.               *)
(*                                                                         *)
(* Adapters (external).  An "idempotent" one makes the effect of a key once,  *)
(* perhaps later than it answers, and may serve a request after its caller    *)
(* gave up.  An "attached" one makes the effect of every request it serves,   *)
(* but no request outlives its caller.                                       *)
(*                                                                         *)
(* Abstracted: Store._write_atomic is one step; sequence numbers, permissions, *)
(* boot ids and nonces (KernelStore has them); params, whose digest mismatch  *)
(* is an exception; the checks of line 113, which the Store lock makes idle.   *)
(***************************************************************************)
EXTENDS EffectJournal, PendingList

CONSTANTS
  Effects,           \* effect ids
  Adapters,          \* kinds of adapters
  MaxEpoch,          \* bound on epochs
  None               \* "no entry"

ASSUME MaxEpochAssumption == MaxEpoch \in Nat
ASSUME AdaptersAssumption == Adapters \subseteq {"idempotent", "attached"}
ASSUME NoneAssumption == None \notin Keys

VARIABLES
  epoch,             \* Store: current epoch
  caps,              \* Store commits: capability -> [effect, epoch] or None
  consumed,          \* Store: capabilities used up
  pending,           \* Store: pending intents, oldest first
  refused,           \* Store: effects refused
  journal,           \* the journal file
  adapter,           \* the kind of the adapter
  status,            \* adapter: status per idempotency key
  effects,           \* adapter: how often the effect of a key happened
  late,              \* requests to the adapter whose caller gave up
  pc,                \* next step of the operation that holds the Store lock
  mode,              \* which operation that is
  cur,               \* the intent it is about
  todo,              \* reconcile: intents still to look at
  known,             \* reconcile: keys of the journal as it was last validated
  dropped            \* history: intents given up by reconcile

store == <<epoch, caps, consumed, pending, refused>>
external == <<adapter, status, effects, late>>
op == <<pc, mode, cur, todo, known>>
vars == <<store, journal, external, op, dropped>>

----------------------------------------------------------------------------
(* Types *)

Epochs == 0..MaxEpoch
Capability == [effect : Effects, epoch : Epochs]
TxnStatus == {"UNKNOWN", "PREPARED", "COMMITTED", "FAILED"}

Labels == {"free", "prepared", "status", "execute", "confirm", "committed", "clear",
           "next", "decide", "refuse", "forget"}

TypeOK ==
  /\ epoch \in Epochs
  /\ caps \in [Keys -> Capability \cup {None}]
  /\ consumed \subseteq Keys
  /\ pending \in Seq(Keys)
  /\ refused \subseteq Effects
  /\ journal \in Files
  /\ adapter \in Adapters
  /\ status \in [Keys -> TxnStatus]
  /\ effects \in [Keys -> Nat]
  /\ late \subseteq Keys
  /\ pc \in Labels
  /\ mode \in {"none", "execute", "reconcile"}
  /\ cur \in Keys \cup {None}
  /\ todo \in Seq(Keys)
  /\ known \subseteq Keys
  /\ dropped \subseteq Keys

Init ==
  /\ epoch = 0
  /\ caps = [c \in Keys |-> None]
  /\ consumed = {}
  /\ pending = <<>>
  /\ refused = {}
  /\ journal = EmptyFile
  /\ adapter \in Adapters
  /\ status = [c \in Keys |-> "UNKNOWN"]
  /\ effects = [c \in Keys |-> 0]
  /\ late = {}
  /\ pc = "free" /\ mode = "none" /\ cur = None /\ todo = <<>> /\ known = {}
  /\ dropped = {}

----------------------------------------------------------------------------
(* Steps *)

Goto(label) == pc' = label /\ UNCHANGED <<mode, cur, todo, known>>

\* The operation ends: it returns, or an exception leaves the "with" block.
Finish == pc' = "free" /\ mode' = "none" /\ cur' = None /\ todo' = <<>> /\ known' = {}

\* The intent whose operation is over leaves the Store's list; reconcile goes on.
DropIntent ==
  /\ pending' = Without(pending, cur)
  /\ IF mode = "execute" THEN Finish
     ELSE pc' = "next" /\ cur' = None /\ UNCHANGED <<mode, todo, known>>
  /\ UNCHANGED <<epoch, caps, consumed, refused>>

----------------------------------------------------------------------------
(* Kernel.issue and RefusalAuthority.commit, as far as they concern the gate *)

\* validate_transition asks for the next epoch.  Definitions that a plausible mistake
\* would get wrong stand after the mistaken form (the mutants).
SkippedEpoch == epoch + 2
NextEpoch == epoch + 1

Issue(c, e) ==
  /\ pc = "free" /\ caps[c] = None /\ epoch < MaxEpoch
  /\ epoch' = NextEpoch
  /\ caps' = [caps EXCEPT ![c] = [effect |-> e, epoch |-> NextEpoch]]
  /\ UNCHANGED <<consumed, pending, refused, journal, external, op, dropped>>

\* A refusal whose id is on record already moves the epoch only.
RefusedAfter(e) ==
  {refused \cup {e}} \cup (IF refused = {} THEN {} ELSE {refused})

Refuse(e, target) ==
  /\ pc = "free" /\ target > epoch
  /\ epoch' = target
  /\ refused' \in RefusedAfter(e)
  /\ UNCHANGED <<caps, consumed, pending, journal, external, op, dropped>>

----------------------------------------------------------------------------
(* The adapter *)

Happens(c) ==
  /\ status' = [status EXCEPT ![c] = "COMMITTED"]
  /\ effects' = [effects EXCEPT ![c] = @ + 1]

Becomes(c, st) == status' = [status EXCEPT ![c] = st] /\ UNCHANGED effects

\* execute(idempotency_key, params) is served.
Serve(c) ==
  \/ Happens(c) /\ (adapter = "idempotent" => status[c] \in {"UNKNOWN", "PREPARED"})
  \/ status[c] = "UNKNOWN" /\ Becomes(c, "FAILED")
  \/ status[c] = "UNKNOWN" /\ adapter = "idempotent" /\ Becomes(c, "PREPARED")
  \/ /\ status[c] # "UNKNOWN" /\ adapter = "idempotent"
     /\ UNCHANGED <<status, effects>>

Answered(c) == Serve(c) /\ Goto("confirm") /\ UNCHANGED late

\* The answer is lost, or the caller gives up before the request is served.
Unanswered(c) ==
  /\ \/ Serve(c) /\ UNCHANGED late
     \/ /\ late' = IF adapter = "idempotent" THEN late \cup {c} ELSE late
        /\ UNCHANGED <<status, effects>>
  /\ Finish

AdapterFinishes(c) ==
  /\ status[c] = "PREPARED"
  /\ Happens(c) \/ Becomes(c, "FAILED")
  /\ UNCHANGED <<store, journal, adapter, late, op, dropped>>

\* An abandoned request is served after all; a copy of it may stay in flight.
ServeLate(c) ==
  /\ c \in late
  /\ Serve(c)
  /\ late' \in {late, late \ {c}}
  /\ UNCHANGED <<store, journal, adapter, op, dropped>>

----------------------------------------------------------------------------
(* The journal *)

Write(st, label) == journal' = Appended(journal, Record(cur, st)) /\ Goto(label)

\* Reconcile appends PREPARED when it has not seen a record of the intent.
MissingPrepared == todo # <<>> /\ Head(todo) \notin known

\* execute_recoverable appends COMMITTED at once; reconcile_pending validates the file
\* first, and appends only what is missing.
MissingCommitted ==
  mode = "execute" \/ (Readable(journal) /\ ~Concluded(journal, cur, "COMMITTED"))

\* What the operation appends next, if anything.
NextRecord ==
  CASE pc = "prepared" -> {Record(cur, "PREPARED")}
    [] pc = "committed" /\ MissingCommitted -> {Record(cur, "COMMITTED")}
    [] pc = "refuse" -> {Record(cur, "REFUSED")}
    [] pc = "next" /\ MissingPrepared -> {Record(Head(todo), "PREPARED")}
    [] OTHER -> {}

\* A crash of the process or an exception, also in the middle of an append.
Interrupt ==
  /\ pc # "free"
  /\ journal' \in {journal} \cup UNION {AppendFailed(journal, r) : r \in NextRecord}
  /\ Finish
  /\ UNCHANGED <<store, external, dropped>>

----------------------------------------------------------------------------
(* EffectGate.execute_recoverable *)

\* Kernel.verify_locked: issued here, in the epoch that still is.
Valid(c) == caps[c] # None /\ caps[c].epoch = epoch

ExecuteBegin(c) ==
  /\ pc = "free"
  /\ Valid(c)
  /\ caps[c].effect \notin refused
  /\ c \notin consumed
  /\ consumed' = consumed \cup {c}
  /\ pending' = Append(pending, c)
  /\ pc' = "prepared" /\ mode' = "execute" /\ cur' = c /\ UNCHANGED <<todo, known>>
  /\ UNCHANGED <<epoch, caps, refused, journal, external, dropped>>

UnwrittenPrepared ==
  /\ pc = "prepared"
  /\ Goto("execute")
  /\ UNCHANGED <<journal, store, external, dropped>>
JournalPrepared ==
  /\ pc = "prepared"
  /\ Write("PREPARED", "execute")
  /\ UNCHANGED <<store, external, dropped>>

CallExecute ==
  /\ pc = "execute"
  /\ Answered(cur) \/ Unanswered(cur)
  /\ UNCHANGED <<store, journal, adapter, dropped>>

\* After execute the status must be COMMITTED, in execute_recoverable and in recover.
Unconfirmed ==
  /\ pc = "confirm"
  /\ Goto("committed")
  /\ UNCHANGED <<store, journal, external, dropped>>
AskConfirmed ==
  /\ pc = "confirm"
  /\ IF status[cur] = "COMMITTED" THEN Goto("committed") ELSE Finish
  /\ UNCHANGED <<store, journal, external, dropped>>

\* reconcile_pending validates the file again after what it appended.
JournalCommitted ==
  /\ pc = "committed"
  /\ \/ mode = "execute" /\ Write("COMMITTED", "clear")
     \/ /\ mode = "reconcile"
        /\ journal' = IF MissingCommitted THEN Appended(journal, Record(cur, "COMMITTED"))
                                          ELSE journal
        /\ IF Readable(journal) /\ Readable(journal')
             THEN pc' = "clear" /\ known' = KnownKeys(journal') /\ UNCHANGED <<mode, cur, todo>>
             ELSE Finish
  /\ UNCHANGED <<store, external, dropped>>

ClearPending == pc = "clear" /\ DropIntent /\ UNCHANGED <<journal, external, dropped>>

----------------------------------------------------------------------------
(* EffectGate.reconcile_pending and recover *)

ReconcileBegin ==
  /\ pc = "free" /\ pending # <<>>
  /\ Readable(journal)
  /\ pc' = "next" /\ mode' = "reconcile" /\ todo' = pending /\ known' = KnownKeys(journal)
  /\ UNCHANGED <<cur, store, journal, external, dropped>>

\* A missing PREPARED record is appended and the journal validated again.  Whether it is
\* missing is asked of the records validated last.
ReconcileNext ==
  /\ pc = "next"
  /\ \/ todo = <<>> /\ Finish /\ UNCHANGED journal
     \/ /\ todo # <<>> /\ Head(todo) \in known
        /\ pc' = "decide" /\ cur' = Head(todo) /\ todo' = Tail(todo)
        /\ UNCHANGED <<mode, known, journal>>
     \/ /\ MissingPrepared
        /\ journal' = Appended(journal, Record(Head(todo), "PREPARED"))
        /\ IF Readable(journal')
             THEN /\ pc' = "decide" /\ cur' = Head(todo) /\ todo' = Tail(todo)
                  /\ known' = KnownKeys(journal') /\ UNCHANGED mode
             ELSE Finish
  /\ UNCHANGED <<store, external, dropped>>

RefusedOnly(c) == caps[c].effect \in refused
Outdated(c) == caps[c].effect \in refused \/ caps[c].epoch # epoch

ReconcileDecide ==
  /\ pc = "decide"
  /\ Goto(IF Outdated(cur) THEN "refuse" ELSE "status")
  /\ UNCHANGED <<store, journal, external, dropped>>

JournalRefused ==
  /\ pc = "refuse"
  /\ Write("REFUSED", "forget")
  /\ UNCHANGED <<store, external, dropped>>

ForgetPending ==
  /\ pc = "forget"
  /\ DropIntent
  /\ dropped' = dropped \cup {cur}
  /\ UNCHANGED <<journal, external>>

\* recover: a committed effect is not asked for again, a failed one raises.
BlindRecovery ==
  /\ pc = "status"
  /\ Goto("execute")
  /\ UNCHANGED <<store, journal, external, dropped>>
AskStatus ==
  /\ pc = "status"
  /\ CASE status[cur] = "COMMITTED" -> Goto("committed")
       [] status[cur] \in {"UNKNOWN", "PREPARED"} -> Goto("execute")
       [] OTHER -> Finish
  /\ UNCHANGED <<store, journal, external, dropped>>

----------------------------------------------------------------------------

Execute ==
  \/ \E c \in Keys : ExecuteBegin(c)
  \/ JournalPrepared
  \/ CallExecute
  \/ AskConfirmed
  \/ JournalCommitted
  \/ ClearPending

Reconcile ==
  \/ ReconcileBegin
  \/ ReconcileNext
  \/ ReconcileDecide
  \/ JournalRefused
  \/ ForgetPending
  \/ AskStatus

Next ==
  \/ \E c \in Keys, e \in Effects : Issue(c, e)
  \/ \E e \in Effects, target \in Epochs : Refuse(e, target)
  \/ Execute
  \/ Reconcile
  \/ Interrupt
  \/ \E c \in Keys : AdapterFinishes(c) \/ ServeLate(c)

Spec == Init /\ [][Next]_vars

\* An operation under way goes on, the adapter finishes what it prepared, and whoever
\* runs the boundary calls reconcile_pending again and again.
Continue == pc # "free" /\ (Execute \/ Reconcile)

FairSpec ==
  /\ Spec
  /\ WF_vars(Continue)
  /\ SF_vars(ReconcileBegin)
  /\ \A c \in Keys : WF_vars(AdapterFinishes(c))

----------------------------------------------------------------------------
(* Properties *)

\* For either kind of adapter the whole path keeps the ledger: one durable intent per
\* key, at most one effect of it, done only when it happened (effect_gate.py:66-85,
\* effect_transaction.py:55-64).
Phase(c) ==
  IF c \notin consumed THEN "new"
  ELSE IF InList(pending, c) THEN "open"
  ELSE IF c \in dropped THEN "dropped" ELSE "done"

Ledger == INSTANCE EffectLedger WITH phase <- [c \in Keys |-> Phase(c)]

ImplementsLedger == Ledger!Spec

\* A request was made of the adapter: it is in flight, or the adapter knows of it.
Asked(c) == c \in late \/ status[c] # "UNKNOWN"

\* The Store knows the intent of whatever was asked of the adapter, and so does the
\* journal, as long as every line of it is whole (README.md:48 of dar_v36_14).
IntentAhead ==
  \A c \in Keys : Asked(c) =>
    /\ c \in consumed
    /\ Whole(journal) => Recorded(journal, c)

\* A COMMITTED record is true, also in a file torn elsewhere (README.md:50, "requires
\* authoritative adapter COMMITTED status before recording COMMITTED").
CommittedTrue ==
  \A c \in Keys : Concluded(journal, c, "COMMITTED") => status[c] = "COMMITTED"

\* A step that asks the adapter for the effect of c: a call, the first as well as one made
\* again after a lost answer; or whatever else makes the adapter know of it.
Asks(c) == (CallExecute /\ cur = c) \/ (~Asked(c) /\ Asked(c)')

\* No call is made of the adapter for an effect that is refused, or for an intent of an
\* earlier epoch; what takes effect after a refusal was asked for before.
NothingAskedTooLate ==
  [][\A c \in Keys : Asks(c) =>
       caps[c].effect \notin refused /\ caps[c].epoch = epoch]_vars

\* Recovery converges: when reconcile_pending is no longer disturbed, the oldest intent is
\* concluded or dropped and leaves the list (README.md:51), unless the journal cannot be
\* read or the adapter reports its effect as failed.
Blocked(c) == ~Readable(journal) \/ status[c] = "FAILED"

RecoveryStep ==
  \/ Reconcile
  \/ pc = "execute" /\ Answered(cur)
  \/ AskConfirmed
  \/ JournalCommitted
  \/ ClearPending

FinallyUndisturbed == <>[][mode = "reconcile" /\ op' # op => RecoveryStep]_vars

Oldest(c) == pending # <<>> /\ Head(pending) = c

RecoveryConverges ==
  FinallyUndisturbed => \A c \in Keys : Oldest(c) ~> (~Oldest(c) \/ Blocked(c))

\* README.md:21 of dar_v36_14: "if PREPARED cannot be durably recorded, execution fails
\* before the external effect is invoked": what was asked of the adapter has a PREPARED
\* record that can be read back.
PreparedDurable == \A c \in Keys : Asked(c) => Recorded(journal, c)
=============================================================================
