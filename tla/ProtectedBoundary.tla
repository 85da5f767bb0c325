-------------------------- MODULE ProtectedBoundary --------------------------
(***************************************************************************)
(* The local boundary of dar/: Kernel.issue_protected, EffectGate's          *)
(* execute_protected and reconcile_pending, EffectJournal, and               *)
(* RefusalAuthority's issue, commit and commit_protected, around the Store,  *)
(* against an external authority other clients use as well.                 *)
(*                                                                         *)
(* Every local operation runs under the Store's exclusive file lock, so at   *)
(* most one is under way (pc, mode, cur, todo, known).  A crash or an         *)
(* exception ends it between any two durable steps and in the middle of a    *)
(* journal append (EffectJournal); both release the lock and leave what was  *)
(* written.  The authority serves requests one at a time (PostgresAuthority  *)
(* shows that it does) at any moment in between; a request whose caller gave *)
(* up may still be served later (late).                                     *)
(*                                                                         *)
(* Abstracted: Store._write_atomic replaces the file in one step (its        *)
(* sequence number and anchor are left out), permissions (a denied issue     *)
(* changes nothing), params (a digest mismatch is an exception), boot ids.   *)
(* A capability is bound to its effect id, so its journal and idempotency    *)
(* key txid:effect_id (Keys) is the capability itself.  The checks of lines  *)
(* 111 and 113 of effect_gate.py are idle under the Store lock.              *)
(* Not here: a capability of a protected outcome that is spent through plain *)
(* execute, which never asks the authority (effect_gate.py:36-46).           *)
(***************************************************************************)
EXTENDS EffectJournal, PendingList

CONSTANTS
  Effects,           \* effect ids
  Outcomes,          \* outcome keys
  RefusalIds,        \* refusal ids of this boundary
  Others,            \* keys and refusal ids of the authority's other clients
  MaxEpoch,          \* bound on epochs
  None               \* "no entry"

ASSUME MaxEpochAssumption == MaxEpoch \in Nat
\* The keys of capabilities hold a fresh uuid (txid:effect_id, effect_gate.py:50): no
\* refusal and no other client has the id of one.
ASSUME IdsAssumption == Keys \cap (RefusalIds \cup Others) = {}
ASSUME NoneAssumption ==
  /\ None \notin Keys \cup RefusalIds \cup Others
  /\ None \notin [epoch : 0..MaxEpoch, id : Keys \cup RefusalIds \cup Others]

VARIABLES
  epoch,             \* Store: current epoch
  caps,              \* Store commits: capability -> [effect, outcome, epoch] or None
  consumed,          \* Store: capabilities used up
  pending,           \* Store: pending effect intents, oldest first
  refusals,          \* Store: published refusals
  journal,           \* the journal file
  intents,           \* refusal intents that were issued, in their callers' hands
  fence,             \* authority: outcome -> fence
  refused,           \* authority: outcome -> [epoch, id] or None
  produced,          \* authority: outcome -> key that produced it or None
  late,              \* requests in flight whose caller has given up
  pc,                \* next step of the operation that holds the Store lock
  mode,              \* which operation that is
  cur,               \* the capability or refusal intent it is about
  todo,              \* reconcile: intents still to look at
  known,             \* reconcile: keys of the journal as it was last validated
  sealed             \* history: refusals commit_protected has returned

store == <<epoch, caps, consumed, pending, refusals>>
authority == <<fence, refused, produced>>
op == <<pc, mode, cur, todo, known>>
vars == <<store, journal, intents, authority, late, op, sealed>>

----------------------------------------------------------------------------
(* Types *)

Epochs == 0..MaxEpoch
Ids == Keys \cup RefusalIds \cup Others
Capability == [effect : Effects, outcome : Outcomes, epoch : Epochs]
Refusal ==
  [id : RefusalIds, effect : Effects, outcome : Outcomes \cup {None}, target : Epochs]
Request == [op : {"commit", "refuse"}, outcome : Outcomes, epoch : Epochs, id : Ids]

Labels == {"free", "prepare", "is_refused", "current_fence", "commit", "journal", "clear",
           "next", "decide", "journal_refused",
           "refusal_fence", "refusal_query", "refuse", "confirm", "confirm_fence", "publish"}

TypeOK ==
  /\ epoch \in Epochs
  /\ caps \in [Keys -> Capability \cup {None}]
  /\ consumed \subseteq Keys
  /\ pending \in Seq(Keys)
  /\ refusals \subseteq Refusal
  /\ journal \in Files
  /\ intents \subseteq Refusal
  /\ fence \in [Outcomes -> Epochs]
  /\ refused \in [Outcomes -> [epoch : Epochs, id : Ids] \cup {None}]
  /\ produced \in [Outcomes -> Ids \cup {None}]
  /\ late \subseteq Request
  /\ pc \in Labels
  /\ mode \in {"none", "execute", "reconcile", "refuse"}
  /\ cur \in Keys \cup Refusal \cup {None}
  /\ todo \in Seq(Keys)
  /\ known \subseteq Keys
  /\ sealed \subseteq Refusal

Init ==
  /\ epoch = 0
  /\ caps = [c \in Keys |-> None]
  /\ consumed = {}
  /\ pending = <<>>
  /\ refusals = {}
  /\ journal = EmptyFile
  /\ intents = {}
  /\ fence = [o \in Outcomes |-> 0]
  /\ refused = [o \in Outcomes |-> None]
  /\ produced = [o \in Outcomes |-> None]
  /\ late = {}
  /\ pc = "free" /\ mode = "none" /\ cur = None /\ todo = <<>> /\ known = {}
  /\ sealed = {}

----------------------------------------------------------------------------
(* The Store *)

\* validate_transition asks for the next epoch.  Definitions that a plausible mistake
\* would get wrong stand after the mistaken form (the mutants).
SkippedEpoch == epoch + 2
NextEpoch == epoch + 1

\* Kernel.issue replaces the state payload but carries the refusals over.
KeptRefusals == refusals

\* EffectGate._is_refused: by effect id or by outcome key.
LocallyRefused(c) ==
  \E r \in refusals : r.effect = caps[c].effect \/ r.outcome = caps[c].outcome

\* RefusalAuthority._has_refusal looks at the refusal id and the outcome only.
HasRefusal(r) == \E x \in refusals : x.id = r.id /\ x.outcome = r.outcome

WithRefusal(r) == IF HasRefusal(r) THEN refusals ELSE refusals \cup {r}

\* Kernel.verify_locked: the capability was issued here, in the epoch that still is.
Valid(c) == caps[c] # None /\ caps[c].epoch = epoch

\* RefusalAuthority.verify: only an intent that was issued carries a good MAC.
Authentic(r) == r \in intents

Step(label) == pc' = label /\ UNCHANGED <<mode, cur, todo, known>>

\* The operation ends: it returns, or an exception leaves the "with" block.
Finish == pc' = "free" /\ mode' = "none" /\ cur' = None /\ todo' = <<>> /\ known' = {}

----------------------------------------------------------------------------
(* The journal *)

Write(st, label) == journal' = Appended(journal, Record(cur, st)) /\ Step(label)

\* Reconcile appends PREPARED when it has not seen a record of the intent.
MissingPrepared == todo # <<>> /\ Head(todo) \notin known

\* execute_protected appends COMMITTED at once; reconcile_pending validates the file
\* first, and appends only what is missing.
MissingCommitted ==
  mode = "execute" \/ (Readable(journal) /\ ~Concluded(journal, cur, "COMMITTED"))

\* What the operation appends next, if anything.
NextRecord ==
  CASE pc = "prepare" -> {Record(cur, "PREPARED")}
    [] pc = "journal" /\ MissingCommitted -> {Record(cur, "COMMITTED")}
    [] pc = "journal_refused" -> {Record(cur, "REFUSED")}
    [] pc = "next" /\ MissingPrepared -> {Record(Head(todo), "PREPARED")}
    [] OTHER -> {}

----------------------------------------------------------------------------
(* The authority's handlers; cf. PostgresAuthority *)

UnfencedCommit(o, e, id) ==
  /\ fence[o] = e
  /\ produced[o] = id \/ (produced[o] = None /\ \A p \in Outcomes : produced[p] # id)
CommitAccepted(o, e, id) ==
  /\ refused[o] = None
  /\ fence[o] = e
  /\ produced[o] = id \/ (produced[o] = None /\ \A p \in Outcomes : produced[p] # id)

LateRefuse(o, e, id) ==
  \/ refused[o] = [epoch |-> e, id |-> id]
  \/ refused[o] = None /\ e >= fence[o]
RefuseAccepted(o, e, id) ==
  \/ refused[o] = [epoch |-> e, id |-> id]
  \/ refused[o] = None /\ produced[o] = None /\ e >= fence[o]

Accepted(m) ==
  IF m.op = "commit" THEN CommitAccepted(m.outcome, m.epoch, m.id)
                     ELSE RefuseAccepted(m.outcome, m.epoch, m.id)

\* What serving request m does to the authority, accepted or not.
Serve(m) ==
  \/ /\ ~Accepted(m)
     /\ UNCHANGED authority
  \/ /\ m.op = "commit" /\ Accepted(m)
     /\ produced' = [produced EXCEPT ![m.outcome] = m.id]
     /\ UNCHANGED <<fence, refused>>
  \/ /\ m.op = "refuse" /\ Accepted(m)
     /\ fence' = [fence EXCEPT ![m.outcome] = m.epoch]
     /\ refused' = [refused EXCEPT ![m.outcome] = [epoch |-> m.epoch, id |-> m.id]]
     /\ UNCHANGED produced

\* A request made by this boundary is served and answered: the caller goes on, or
\* gets the error.
Answered(m, next) ==
  /\ Serve(m)
  /\ IF Accepted(m) THEN Step(next) ELSE Finish
  /\ UNCHANGED late

\* Without an answer the caller gives up.
PressOn(next) == Step(next)
GiveUp(next) == Finish

\* It is served but the answer is lost; or the caller's timeout comes first and the
\* request stays in flight.
Unanswered(m, next) ==
  /\ \/ Serve(m) /\ UNCHANGED late
     \/ UNCHANGED authority /\ late' = late \cup {m}
  /\ GiveUp(next)

Call(m, next) == Answered(m, next) \/ Unanswered(m, next)

----------------------------------------------------------------------------
(* Issuing *)

IssueProtected(c, eff, o) ==
  /\ pc = "free" /\ caps[c] = None /\ epoch < MaxEpoch
  /\ epoch' = NextEpoch
  /\ caps' = [caps EXCEPT ![c] = [effect |-> eff, outcome |-> o, epoch |-> NextEpoch]]
  /\ refusals' = KeptRefusals
  /\ UNCHANGED <<consumed, pending, journal, intents, authority, late, op, sealed>>

\* An issue for an effect outside the protected path moves the epoch as well.
IssueOther ==
  /\ pc = "free" /\ epoch < MaxEpoch
  /\ epoch' = NextEpoch
  /\ refusals' = KeptRefusals
  /\ UNCHANGED <<caps, consumed, pending>>
  /\ UNCHANGED <<journal, intents, authority, late, op, sealed>>

\* A refusal intent names an epoch newer than the current one; nothing is written.
\* Ids are not issued twice (uuid4 unless the caller says otherwise).
IssueRefusal(r) ==
  /\ pc = "free"
  /\ \A x \in intents : x.id # r.id
  /\ r.target > epoch
  /\ intents' = intents \cup {r}
  /\ UNCHANGED <<store, journal, authority, late, op, sealed>>

----------------------------------------------------------------------------
(* EffectGate.execute_protected *)

\* The checks, then one Store write: consumed and pending together.
ExecuteBegin(c) ==
  /\ pc = "free"
  /\ Valid(c)
  /\ ~LocallyRefused(c)
  /\ c \notin consumed
  /\ consumed' = consumed \cup {c}
  /\ pending' = Append(pending, c)
  /\ pc' = "prepare" /\ mode' = "execute" /\ cur' = c /\ UNCHANGED <<todo, known>>
  /\ UNCHANGED <<epoch, caps, refusals, journal, intents, authority, late, sealed>>

UnwrittenPrepared ==
  /\ pc = "prepare"
  /\ Step("is_refused")
  /\ UNCHANGED <<store, journal, intents, authority, late, sealed>>
JournalPrepared ==
  /\ pc = "prepare"
  /\ Write("PREPARED", "is_refused")
  /\ UNCHANGED <<store, intents, authority, late, sealed>>

\* protected_commit: two advisory reads, then the commit.  Each read is a request of
\* its own, and the authority may move on in between.
AskRefused ==
  /\ pc = "is_refused"
  /\ IF refused[caps[cur].outcome] # None THEN Finish ELSE Step("current_fence")
  /\ UNCHANGED <<store, journal, intents, authority, late, sealed>>

AskFence ==
  /\ pc = "current_fence"
  /\ IF fence[caps[cur].outcome] # caps[cur].epoch THEN Finish ELSE Step("commit")
  /\ UNCHANGED <<store, journal, intents, authority, late, sealed>>

CommitRequest(c) ==
  [op |-> "commit", outcome |-> caps[c].outcome, epoch |-> caps[c].epoch, id |-> c]

UnjournaledCommit ==
  /\ pc = "commit"
  /\ Call(CommitRequest(cur), "clear")
  /\ UNCHANGED <<store, journal, intents, sealed>>
CallCommit ==
  /\ pc = "commit"
  /\ Call(CommitRequest(cur), "journal")
  /\ UNCHANGED <<store, journal, intents, sealed>>

\* reconcile_pending validates the file again after what it appended.
JournalCommitted ==
  /\ pc = "journal"
  /\ \/ mode = "execute" /\ Write("COMMITTED", "clear")
     \/ /\ mode = "reconcile"
        /\ journal' = IF MissingCommitted THEN Appended(journal, Record(cur, "COMMITTED"))
                                          ELSE journal
        /\ IF Readable(journal) /\ Readable(journal')
             THEN pc' = "clear" /\ known' = KnownKeys(journal') /\ UNCHANGED <<mode, cur, todo>>
             ELSE Finish
  /\ UNCHANGED <<store, intents, authority, late, sealed>>

\* The last Store write of an intent: it is no longer pending.
ClearPending ==
  /\ pc = "clear"
  /\ pending' = Without(pending, cur)
  /\ IF mode = "execute" THEN Finish
     ELSE pc' = "next" /\ cur' = None /\ UNCHANGED <<mode, todo, known>>
  /\ UNCHANGED <<epoch, caps, consumed, refusals, journal, intents, authority, late, sealed>>

----------------------------------------------------------------------------
(* EffectGate.reconcile_pending *)

ReconcileBegin ==
  /\ pc = "free"
  /\ pending # <<>>
  /\ Readable(journal)
  /\ pc' = "next" /\ mode' = "reconcile" /\ todo' = pending /\ known' = KnownKeys(journal)
  /\ UNCHANGED <<cur, store, journal, intents, authority, late, sealed>>

\* The next intent.  Whether its PREPARED record is missing is asked of the records that
\* were validated last; one that is appended is validated at once.
ReconcileNext ==
  /\ pc = "next"
  /\ \/ todo = <<>> /\ Finish /\ UNCHANGED journal
     \/ /\ todo # <<>> /\ Head(todo) \in known
        /\ pc' = "decide" /\ cur' = Head(todo) /\ todo' = Tail(todo)
        /\ UNCHANGED <<mode, known, journal>>
     \/ /\ MissingPrepared
        /\ journal' = Appended(journal, Record(Head(todo), "PREPARED"))
        /\ IF Readable(journal')
             THEN /\ pc' = "decide" /\ cur' = Head(todo) /\ todo' = Tail(todo)
                  /\ known' = KnownKeys(journal') /\ UNCHANGED mode
             ELSE Finish
  /\ UNCHANGED <<store, intents, authority, late, sealed>>

\* A refused or outdated intent is given up without asking the authority.
Outdated(c) == LocallyRefused(c) \/ caps[c].epoch # epoch

ReconcileDecide ==
  /\ pc = "decide"
  /\ Step(IF Outdated(cur) THEN "journal_refused" ELSE "is_refused")
  /\ UNCHANGED <<store, journal, intents, authority, late, sealed>>

\* REFUSED is appended and not read back.
JournalRefused ==
  /\ pc = "journal_refused"
  /\ Write("REFUSED", "clear")
  /\ UNCHANGED <<store, intents, authority, late, sealed>>

----------------------------------------------------------------------------
(* RefusalAuthority.commit and commit_protected *)

\* Local publication only: the Store's epoch jumps to the target.
PublishLocal(r) ==
  /\ pc = "free"
  /\ Authentic(r)
  /\ r.target > epoch
  /\ epoch' = r.target
  /\ refusals' = WithRefusal(r)
  /\ UNCHANGED <<caps, consumed, pending, journal, intents, authority, late, op, sealed>>

RefusalBegin(r) ==
  /\ pc = "free"
  /\ Authentic(r) /\ r.outcome # None
  /\ r.target > epoch \/ HasRefusal(r)
  /\ pc' = "refusal_fence" /\ mode' = "refuse" /\ cur' = r /\ UNCHANGED <<todo, known>>
  /\ UNCHANGED <<store, journal, intents, authority, late, sealed>>

RefusalFence ==
  /\ pc = "refusal_fence"
  /\ IF fence[cur.outcome] > cur.target THEN Finish ELSE Step("refusal_query")
  /\ UNCHANGED <<store, journal, intents, authority, late, sealed>>

RefusalQuery ==
  /\ pc = "refusal_query"
  /\ Step(IF refused[cur.outcome] = None THEN "refuse" ELSE "confirm")
  /\ UNCHANGED <<store, journal, intents, authority, late, sealed>>

RefuseRequest(r) == [op |-> "refuse", outcome |-> r.outcome, epoch |-> r.target, id |-> r.id]

CallRefuse ==
  /\ pc = "refuse"
  /\ Call(RefuseRequest(cur), "confirm")
  /\ UNCHANGED <<store, journal, intents, sealed>>

ConfirmRefused ==
  /\ pc = "confirm"
  /\ IF refused[cur.outcome] = None THEN Finish ELSE Step("confirm_fence")
  /\ UNCHANGED <<store, journal, intents, authority, late, sealed>>

\* The fence must stand at the target; a refusal published before returns here.
ConfirmFence ==
  /\ pc = "confirm_fence"
  /\ \/ fence[cur.outcome] # cur.target /\ Finish /\ UNCHANGED sealed
     \/ /\ fence[cur.outcome] = cur.target /\ HasRefusal(cur)
        /\ Finish /\ sealed' = sealed \cup {cur}
     \/ /\ fence[cur.outcome] = cur.target /\ ~HasRefusal(cur)
        /\ Step("publish") /\ UNCHANGED sealed
  /\ UNCHANGED <<store, journal, intents, authority, late>>

Publish ==
  /\ pc = "publish"
  /\ epoch' = cur.target
  /\ refusals' = WithRefusal(cur)
  /\ sealed' = sealed \cup {cur}
  /\ Finish
  /\ UNCHANGED <<caps, consumed, pending, journal, intents, authority, late>>

----------------------------------------------------------------------------
(* Interruptions, requests that arrive late, other clients of the authority *)

\* A crash of the process, or an exception that is not an answer of the authority; also
\* in the middle of an append.
Interrupt ==
  /\ pc # "free"
  /\ journal' \in {journal} \cup UNION {AppendFailed(journal, r) : r \in NextRecord}
  /\ Finish
  /\ UNCHANGED <<store, intents, authority, late, sealed>>

\* An abandoned request is served after all.  Copies of it may remain in flight:
\* the boundary asks again after a timeout.
ServeLate ==
  \E m \in late :
    /\ Serve(m)
    /\ late' \in {late, late \ {m}}
    /\ UNCHANGED <<store, journal, intents, op, sealed>>

\* POST /fence: whoever deploys the boundary moves the fence to the current epoch.
OtherFence(o, e) ==
  /\ refused[o] = None
  /\ e >= fence[o]
  /\ fence' = [fence EXCEPT ![o] = e]
  /\ UNCHANGED <<store, journal, intents, refused, produced, late, op, sealed>>

\* Another boundary with its own Store commits or refuses the same outcome.  Its epochs
\* begin with 1, too (policy.py:24 and refusal.py:36 ask for a newer one).
OtherRequest(m) ==
  /\ m.id \in Others /\ m.epoch > 0
  /\ Serve(m)
  /\ UNCHANGED <<store, journal, intents, late, op, sealed>>

Issue ==
  \/ IssueOther
  \/ \E c \in Keys, eff \in Effects, o \in Outcomes : IssueProtected(c, eff, o)
  \/ \E r \in Refusal : IssueRefusal(r)

Execute ==
  \/ \E c \in Keys : ExecuteBegin(c)
  \/ JournalPrepared
  \/ AskRefused
  \/ AskFence
  \/ CallCommit
  \/ JournalCommitted
  \/ ClearPending

Reconcile == ReconcileBegin \/ ReconcileNext \/ ReconcileDecide \/ JournalRefused

Refuse ==
  \/ \E r \in Refusal : PublishLocal(r) \/ RefusalBegin(r)
  \/ RefusalFence
  \/ RefusalQuery
  \/ CallRefuse
  \/ ConfirmRefused
  \/ ConfirmFence
  \/ Publish

Environment ==
  \/ ServeLate
  \/ \E o \in Outcomes, e \in Epochs : OtherFence(o, e)
  \/ \E m \in Request : OtherRequest(m)

Next == Issue \/ Execute \/ Reconcile \/ Refuse \/ Interrupt \/ Environment

Spec == Init /\ [][Next]_vars

\* An operation that is under way goes on (the adapter's requests time out), and
\* whoever runs the boundary calls reconcile_pending again and again.
Continue == pc # "free" /\ (Execute \/ Reconcile \/ Refuse)

FairSpec == Spec /\ WF_vars(Continue) /\ SF_vars(ReconcileBegin)

----------------------------------------------------------------------------
(* Properties *)

\* Once commit_protected has returned a refusal, its outcome is refused and not
\* produced, whichever process, retry or late request tries (refusal.py:76-104).
SealedNeverProduced ==
  \A r \in sealed :
    /\ refused[r.outcome] # None
    /\ fence[r.outcome] = r.target
    /\ produced[r.outcome] = None

\* Nothing leaves for the authority, now or late, that the Store does not know of, and the
\* journal has a record of it as long as every line of the file is whole.  A PREPARED that
\* was written onto a torn line is not on record, and the commit is asked for all the same
\* (effect_gate.py:58-61); in RecoverableEffects the same append breaks PreparedDurable.
Sent(c) ==
  \/ \E m \in late : m.id = c
  \/ \E o \in Outcomes : produced[o] = c

WriteAhead ==
  \A c \in Keys : Sent(c) =>
    /\ c \in consumed
    /\ Whole(journal) => Recorded(journal, c)

\* An intent leaves the pending list only when the authority holds its outcome under its
\* key, or when it is refused or of an earlier epoch; and its journal entry is concluded,
\* as long as every line of the file is whole.  Where a REFUSED was written onto a PREPARED
\* without its newline, neither is on record (effect_gate.py:63-65, 99-100, 109-114).
NoneForgotten ==
  \A c \in consumed : ~InList(pending, c) =>
    /\ produced[caps[c].outcome] = c \/ Outdated(c)
    /\ Whole(journal) => Concluded(journal, c, "COMMITTED") \/ Concluded(journal, c, "REFUSED")

\* A COMMITTED record tells the truth, also in a file torn elsewhere: the authority holds
\* the outcome under this very key (README "COMMITTED is recorded only after authoritative
\* ... status").
JournalTrue ==
  \A c \in Keys : Concluded(journal, c, "COMMITTED") => produced[caps[c].outcome] = c

\* The authority as modelled here, between this boundary's requests, late ones and
\* those of other clients, is the contract that PostgresAuthority implements.
Contract == INSTANCE OutcomeFence WITH LateRefusal <- FALSE

AuthorityObeysContract == Contract!Spec

\* Recovery converges: when reconcile_pending is no longer disturbed, the oldest
\* intent is concluded and leaves the list (README "Recovery semantics", 5), unless
\* the authority or the journal stands in its way; then it blocks those behind it
\* (effect_gate.py:104-106).
Blocked(c) ==
  LET o == caps[c].outcome IN
  \/ refused[o] # None
  \/ fence[o] # caps[c].epoch
  \/ produced[o] \notin {c, None}
  \/ ~Readable(journal)

RecoveryStep ==
  \/ Reconcile
  \/ AskRefused
  \/ AskFence
  \/ pc = "commit" /\ Answered(CommitRequest(cur), "journal")
  \/ JournalCommitted
  \/ ClearPending

FinallyUndisturbed ==
  <>[][mode = "reconcile" /\ op' # op => RecoveryStep]_vars

Oldest(c) == pending # <<>> /\ Head(pending) = c

RecoveryConverges ==
  FinallyUndisturbed => \A c \in Keys : Oldest(c) ~> (~Oldest(c) \/ Blocked(c))

\* A journal whose lines are all whole stays readable, so that reconcile_pending keeps
\* working: README.md:26 of dar_v36_14 promises "pending-intent reconciliation for crashes
\* or journal failures after external execution".
JournalReadable == Whole(journal) => Readable(journal)

\* FORMAL_PROPERTY_v3_OUTCOME_FENCE.md:50: a crash between the external outcome and
\* the local journal "MUST NOT be interpreted as non-occurrence": what the journal
\* concludes as REFUSED did not happen.
RefusedDidNotHappen ==
  \A c \in Keys : Concluded(journal, c, "REFUSED") => \A o \in Outcomes : produced[o] # c
=============================================================================
