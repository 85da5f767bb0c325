# TLA+ models of the human stop boundary (DAR v36.14)

This directory models the part of the repository that carries its central claim:
once a human refusal of an *outcome* is installed, no protected path produces that
outcome any more, whatever crashes, retries, lost answers and rival clients do.
Beside it stands the local half: one Store file whose capabilities, refusals and
permissions must survive crashes, restarts and restored backups, the journal and the
recoverable path behind it, and the dispatcher processes that serve it. TLC checks the models
on small instances; TLAPS proves every safety property of these runs, and every refinement,
for every value of the constants.

All paths below are relative to the repository; `dar/` stands for
`dar_v36_14/dar/`.

## 1. The system

| Part | Code | State | Operations | What makes it correct |
|---|---|---|---|---|
| External authority, durable | `dar_v36_14/postgres_authority.py` behind `external_authority_server.py` | tables `dar_fences`, `dar_refusals`, `dar_effects`; advisory locks | `/fence`, `/refuse`, `/commit` (threads, one transaction each) | refusal and production exclude each other; fences never fall; rows are permanent; answers stay true |
| External authority, in memory | `external_authority_server.py` | dictionaries, `BOOT_ID` | the same, under one lock; restart | the same within one boot, with late refusals allowed |
| Adapter | `dar/effect_transaction.py`, `HTTPFencedAdapter` in `deployment_evidence.py` | none | `is_refused`, `current_fence`, `commit`, `refuse_outcome` over HTTP, 5 s timeout | an unanswered call is an error, never a success |
| Effect gate | `dar/effect_gate.py` | in the Store | `execute`, `execute_protected`, `execute_recoverable`, `reconcile_pending` | write ahead; consume once; recover without forgetting or inventing an effect |
| Effect journal | `dar/effect_journal.py` | append-only file of PREPARED / COMMITTED / REFUSED records | `append`, `records`, `_validated_state` | intents are recorded before anything is asked for; COMMITTED is true, also in a torn file |
| Refusal authority | `dar/refusal.py` | in the Store | `issue`, `commit`, `commit_protected` | external refusal first, then local; a returned refusal is terminal |
| Kernel, policy, model | `dar/kernel.py`, `policy.py`, `model.py` | in the Store | `issue`, `issue_protected`, `verify_locked`, `validate_transition` | epochs advance by one, refusals are carried over, permissions only shrink |
| Store and anchors | `dar/store.py`, `rekor_anchor.py` | one authenticated file, a lock file, an optional monotonic floor | `tx`, `_read`, `_write_atomic`, `rebind_boot` | atomic replacement, rollback detection |
| Dispatcher | `dar/process_dispatcher.py`, `boundary.py`, `run_privileged_server.py` | socket, daemon lock, boot generation | `serve_forever`, `serve_once`, `handle`, the client's `execute`, file effects | one instance, one generation, one execution and one positive answer per capability; no superseded request runs; no connection waits for ever |
| Others | `canonical.py`, `hardening.py`, `audit.py`, `transaction.py`, tools, tests, site | - | - | - |

How they interact. The kernel issues a capability (Store epoch + 1). `execute_protected`
takes the Store's exclusive file lock, writes the consumed capability and a pending
intent, journals PREPARED, asks the authority twice (refused? fence current?), calls
`/commit`, journals COMMITTED and rewrites the Store without the intent. A crash
anywhere releases the lock; `reconcile_pending` picks the intents up later.
`commit_protected` installs the refusal at the authority, confirms it by two reads and
publishes it in the Store, moving the epoch to the refusal's target. The two reads of
`protected_commit` are advisory: the decisive checks are the authority's own.

The plain path (`execute`) needs no authority: under the same file lock it writes the
consumed capability, then calls an executor. Every Store write first advances the
anchor, if there is one, then replaces the file; `_read` rejects a file below the
anchor's floor. A dispatcher generation takes the daemon lock and writes its boot id
into the Store (`rebind_boot`) before it serves; `serve_once` does neither.

The recoverable path (`execute_recoverable`) has an adapter instead of an authority: intent
into the Store, PREPARED into the journal, `adapter.execute`, `adapter.status`, COMMITTED
into the journal, intent out of the Store. `reconcile_pending` serves both kinds of
intents: one with an outcome key goes through `protected_commit`, one without through
`recover`, which asks for the status before it executes again.

The hard behaviour is therefore in six places: statements of overlapping transactions
in the database, crashes between the durable steps of the boundary, journal lines written
in parts, requests that are lost, repeated or served after their caller gave up, server
processes that come and go over one socket name, and snapshots of the Store that
come back after something newer was decided. `PROJECT.json` lists every
hazard at its line with the properties that watch it.

## 2. Modules

| Module | Models | Correspondence |
|---|---|---|
| `OutcomeFence` | the contract `FencedEffectAdapter` (`effect_transaction.py:31-51`) asks of an authority | `fence`, `refused`, `produced` per outcome; `AdvanceFence`, `Refuse`, `Commit` are atomic. `LateRefusal` tells the two backends apart |
| `PostgresAuthority` | the durable authority | a *session* is a handler thread with its transaction; `pc` is the next SQL statement. `Lock` is `pg_advisory_xact_lock`; `FenceOp`, `RefuseOp`, `CommitOp` are the handlers, one disjunct per statement; `EndTxn` is COMMIT with the writes of the transaction; `Abort` the loss of the connection (or any exception) before it. COMMIT may be applied and still be answered 503. `Reply` ends the thread |
| `MemoryAuthority` | the authority without a database | one action per handler (one lock covers it), `Restart` loses the dictionaries |
| `ProtectedBoundary` | gate, journal (`EffectJournal`), refusal authority, kernel and Store around an authority that serves one request at a time | `pc`, `mode`, `cur`, `todo`, `known` are the operation that holds the Store lock; one action per durable step or per request to the authority. `Interrupt` is a crash or exception between any two, or within an append; `late` holds requests whose caller gave up; `OtherFence`, `OtherRequest` are the authority's other clients |
| `Policy` | `model.py`, `policy.py` | permissions per principal and domain; `ValidTransition` is what `validate_transition` lets pass, `HasCycle` the governance cycle |
| `KernelStore` | one Store file under an anchor: `Store`, `Kernel.issue`, `verify_locked`, `EffectGate.execute`, `RefusalAuthority.commit`, generations of `UnixDispatcherServer` | `disk`, `floor`, `gen` are the file, the anchor and the running generation; `pc` and `job` the operation that holds the Store lock. `Start`, `Issue`, `Execute`, `Refuse` read and compute (`BeginWrite`), `AdvanceAnchor` and `ReplaceFile` are `_write_atomic`'s two durable steps, `Run` the executor. `Crash`, `Fail` may come between any two; `Restore` puts any earlier snapshot back at any time |
| `EffectLedger` | what the recoverable path promises (`README.md:46-51` of `dar_v36_14`): one durable intent per key, at most one effect, concluded only after it happened | `phase` is what the Store says of a key, `effects` counts; `Open`, `Happen`, `Conclude`, `Drop` are atomic |
| `EffectJournal` | the journal file | `lines` and whether the last one is still `open` (no newline): `Appended` glues a record onto an open line; `AppendFailed` is what a crash or error within the writes leaves; `Readable` is `records()` with `_validated_state()` |
| `RecoverableEffects` | `execute_recoverable`, `reconcile_pending` without outcome keys, `recover`, over the Store's pending list, `EffectJournal` and an external adapter | `pc`, `mode`, `cur`, `todo`, `known` as in `ProtectedBoundary`; `known` is the code's `records`, which is older than the file after a `continue`. `Interrupt` ends an operation at any step, also within an append. `late` holds requests of callers that gave up, `AdapterFinishes` is an adapter that works after its answer |
| `Dispatcher` | `UnixDispatcherServer`, `UnixDispatcherClient` | `pc[s]` is the next step of a server process: `Launch`/`LaunchOnce`, `BindGeneration`, `Unlink`, `Listen`, then `Accept`, `Receive`, `Gate`, `Run`, `Respond`; `Stop`, `Tidy`, `Release` are the `finally` clauses in order, `Kill` may come anywhere. `path` is the process the socket name leads to, `queue` the backlog, `call` what a client has heard |
| `PendingList` | the Store's list of pending intents, used by both modules of the effect gate | `InList`, and `Without`, which takes a concluded intent away |
| `...Proofs` | - | the theorems about the module of that name, and their proofs; `IntentProofs` has the lemmas about `PendingList` and `EffectJournal` |
| `MC...` | - | symmetry sets for TLC |

How they compose: `PostgresAuthority` implements `OutcomeFence` (refinement, checked and
proved), which justifies serving each request in one step in `ProtectedBoundary`; there,
the same contract is checked again of the authority's variables (`AuthorityObeysContract`),
with the boundary, late requests and other clients as its callers. `MemoryAuthority`
implements the weaker contract (`LateRefusal = TRUE`) within each boot.
`ProtectedBoundary` and `RecoverableEffects` extend `EffectJournal` and `PendingList`: both
write the same journal and the same list. `RecoverableEffects` implements `EffectLedger`
(`ImplementsLedger`, with `Phase` as the refinement mapping). `Dispatcher` takes from
`KernelStore` what it shows of the Store (an execution is checked and consumed under one
lock) and adds the processes and clients around it.

A condition that a plausible mistake would get wrong is an operator of its own, and the
mistaken form stands just before it (`UncheckedEffect` before `EffectRowExists`,
`UnwrittenPrepared` before `JournalPrepared`, ...). Replacing the one by the other breaks
the property `PROJECT.json` pairs it with: each property is sensitive to the code.

### Abstractions

* Outcomes, effects, keys and refusal ids are model values: canonicalisation and MACs are
  reduced to identity (`Authentic`, `Valid`). A capability is bound to its effect id, so the
  journal key `txid:effect_id` is the capability.
* `PostgresAuthority`: a missing fence row is fence 0, as the code reads it. Two outcomes
  never share an advisory lock key (64 bits of SHA-256); sharing would only serialise more.
  The database is external: READ COMMITTED reads, transaction-level advisory locks, unique
  constraints that wait for an uncommitted duplicate, rollback on a lost connection.
* `ProtectedBoundary`: `Store._write_atomic` is one step. Sequence numbers, the anchor,
  permissions, nonces, boot ids and parameters are left out; a denied request or a digest
  mismatch changes nothing, or is an exception (`Interrupt`). Other clients' requests carry
  epochs from 1 on, as no Store issues for epoch 0 (`policy.py:24`, `refusal.py:36`); the
  checks of `effect_gate.py:111` and `113` are idle, since nobody else holds the Store lock.
  A capability of a protected outcome that is spent through plain `execute`, which looks at
  its effect id only (`effect_gate.py:36-46`), is not modelled.
  The authority in this module is the durable one: a refusal of a produced outcome fails.
  The reads of the adapter take one field of one `/state` answer each.
* `KernelStore`: a snapshot whose MAC verifies is one that was written; the temporary file
  is never read. A nonce is its capability. A generation draws a fresh boot id or is given
  an old one (`--boot-id`). The lock file makes the operations of all processes one sequence,
  taken here by the running dispatcher. A *missing* Store file is not modelled: `_read`
  (`store.py:44-45`) then returns an empty snapshot without asking the anchor. Publishing
  to Rekor is left out. `closure` only decides which error a governance change raises
  (`policy.py:27-29`): all of them are rejected. An issue is rejected in the code and absent
  from the model for the same reasons; a rejected request changes nothing.
* `EffectJournal`: a record is its key and status. The other fields of a record come from one
  durable intent and match by construction; a line that is not one whole record fails to
  parse or fails its MAC, which is the same exception.
* `RecoverableEffects`: the adapter is external. The code asks for a stable idempotency key
  and an authoritative status; the model takes an adapter that makes the effect of a key
  once and may work or serve later than it answers ("idempotent"), or one that makes the
  effect of every request but has no request outlive its caller ("attached"). What the
  code guarantees for both is the same. An adapter with neither property can double an
  effect whatever the code does.
* `Dispatcher`: a frame of a wrong shape, of another uid or of nobody is a call without a
  capability; each `recv` has a timeout and a frame a maximal length, so receiving ends. The
  wire format carries no bound effect id (`process_dispatcher.py:41`): only capabilities issued
  without one verify. A failed `connect` changes nothing and is absent. Refusals only move the
  epoch here, as an issue does. Two servers with *different* Stores on one socket path are not
  modelled, nor is the time between `bind` and `listen`.
* History variables: `dropped` in `RecoverableEffects`, `runs` in `Dispatcher`; `sealed`, the
  refusals `commit_protected` has returned; in `KernelStore`, `archive` and `newest` (what was
  on disk, what was written last), `published` (effects whose refusal was on record) and `runs`
  (executor calls).

## 3. What TLC checks

| Run | Instance | States | Shows |
|---|---|---|---|
| `PostgresRace` | 3 sessions, 1 outcome, 2 keys, epochs 0-1 | 164 k | no interleaving of three transactions on one outcome breaks refusal, fence, or the truth of an answer |
| `PostgresKeys` | 2 sessions, 2 outcomes, 2 keys, epoch 1 | 150 k | keys shared between outcomes; refinement of the contract; every request is answered |
| `MemoryRestart` | 2 outcomes, 2 keys, epochs 0-2, 2 boots | 20 k | dictionaries agree, refusals settle, each boot implements the weaker contract |
| `BoundaryCrash` | 2 capabilities, 2 effects, 1 outcome, 1 refusal, 1 foreign key, epochs 0-2, any torn line, no symmetry | 857 k | nothing is sent unknown to the Store, nothing dropped unsettled, and the journal says so while its lines are whole; COMMITTED is true, a returned refusal is terminal, the contract; reconcile converges unless blocked |
| `StoreRestore` | 2 principals, 1 domain, 2 actions, 2 governance tables, 2 capabilities, 2 effects, 2 boot ids, epochs 0-2, sequence 0-3, 1 crash, durable anchor | 1.6 M | what `_read` accepts is the newest state; no second execution; refused stays refused; permissions shrink, each principal its own; what verifies is permitted |
| `RecoverableCrash` | 2 keys on 1 effect, both kinds of adapter, epochs 0-3, any torn line, no symmetry | 59 k | intents are durable before anything is asked for; COMMITTED is true; the ledger (at most one effect per key, done only if it happened); nothing is asked for too late; recovery converges unless blocked |
| `DispatcherCalls` | 2 daemons, 1 `serve_once`, 2 boot ids, 2 capabilities, 2 calls, backlog 1, no symmetry | 828 k | one execution and one positive answer per capability; a superseded request and an older generation never run; the name leads to the daemon; no connection waits for ever |
| `MemoryKeyReuse`, `JournalPoison`, `RefusedButProduced`, `RekorFloor`, `TornPrepared` | as the above; `RekorFloor` with an anchor in memory | - | the five disagreements of section 5 |

Why the bounds are enough. The lock is per outcome, so what can happen on one outcome needs a
holder, a waiter and one more session that has already decided (three sessions); only the
idempotency key crosses outcomes, and two sessions on two outcomes already collide on it. Two
epochs give a stale and a current fence. At the boundary, two capabilities give a pending intent
and one behind it, and a line that the record of the other is glued onto; epochs 0-2 give a
capability from before a refusal or another issue, and one from after it; two effects tell a
refusal by effect id from one by outcome; one foreign key is enough for another client to fence,
refuse or produce first. With epochs 0-3 and one effect (1.3 M states) TLC found nothing more. In `StoreRestore`,
three writes are an issue, its execution or a refusal, and one more that starts from what was
restored in between; two capabilities let the second be issued after a refusal or a restore; two
effects let a refusal id on record be used again for the other one; two principals let one act
on the other's permissions; the two governance tables are one without and one with a cycle; the
deployed boot id and the generations before and after one crash give a stale and a reused boot
id (the proofs lift the bound). In `RecoverableCrash`, a crash tears the line of one key and the
other key's record is glued onto it; epochs 0-3 let both intents be outdated by a refusal or an
issue. In `DispatcherCalls`, one daemon stops or is killed and the next takes its name, with a
`serve_once` beside it; of two calls one is served and one waits, is abandoned or is a retry; of
two capabilities one supersedes the other. With 3 calls and a backlog of 2 (under symmetry,
safety only: 2.6 M states) TLC found nothing more. `MaxEpoch`, `MaxSeq`, `MaxCrashes`,
`MaxBoots`, `MaxCalls` and `Backlog` are the only bounds in guards; everything else that grows
is finite by itself (a capability is journalled a bounded number of times because reconcile
stops on an unreadable journal).

Deadlock is checked except in the runs of `RecoverableEffects` and `Dispatcher`: once every
capability is used and every server process has ended there is nothing left to do.

Symmetry is used only in runs without liveness, over sets whose members the modules never
distinguish.

### Fairness

* `PostgresAuthority!FairSpec`: threads keep running (weak fairness of every statement of a
  session), and the advisory lock and the wait on an uncommitted duplicate are queues, so a
  waiting session is not passed over for ever (strong fairness of `Lock` and `InsertEffect`).
  Aborts and new requests carry no fairness.
* `ProtectedBoundary!FairSpec`: an operation under way goes on (every adapter call has a
  timeout), and `reconcile_pending` is called again and again. `RecoveryConverges` also
  assumes, as a hypothesis of the property (`FinallyUndisturbed`), that from some time on
  recovery is neither interrupted nor left without an answer. Without it nothing can be
  promised. What may block recovery for ever is named by `Blocked`.
* `RecoverableEffects!FairSpec`: the same, and the adapter finishes what it reported as
  PREPARED. Late requests carry no fairness.
* `Dispatcher!FairSpec`: a living server takes its next step in the serving loop (weak
  fairness): `accept` and `recv` have timeouts, an exception ends only its request, and an
  executor (a file operation) ends, so the Store lock is given back. Starting, stopping,
  killing and the clients carry no fairness.

## 4. What is proved

Assumptions: epochs, sequence numbers, boots and the backlog are natural numbers; `None` is
different from every key, row, session, snapshot and capability (the contract needs none of
these); in `ProtectedBoundary` no refusal and no other client of the authority has the id of a
capability (`IdsAssumption`: the key holds a fresh uuid), without which somebody else could
produce an outcome in a capability's name; a torn line is no record (`TornAssumption`); in
`Dispatcher` a server is a daemon or a `serve_once`, not both. No set needs to be finite. Each
proof has an inductive invariant `IInv`, one lemma per action, and the theorems as consequences;
TLC finds each `IInv` to hold on the instance of the module's run (the contract has no run of
its own; the conjunct `JournalOK` of `ProtectedBoundary` was evaluated with its quantifiers
bounded by `Keys` and `Statuses`).

`PostgresAuthorityProofs`. The safety properties are not inductive: at the moment a
transaction writes, what matters is what its earlier statements read. The invariant `IInv`
therefore says, besides types: a session past `Lock` holds the lock of its outcome, alone
(`Locking`); what a session knows at each label, in terms of the *current* tables (`Knows`:
at `insert` of a commit there is no refusal, the fence is its epoch, the outcome has no
effect); two sessions that wait to COMMIT never hold the same new key (`KeysFree`); and how
the tables agree (a refused outcome has no effect and its fence is the refusal's epoch; an
outcome has one effect row). The lemmas show that a COMMIT on another outcome takes nothing
away from what a session knows, since it holds no lock of that outcome, and that a COMMIT
on the own outcome writes what `Knows` permits. Then: `Invariant`,
`RefusalExcludesEffectAlways`, `RefusalPinsFenceAlways`, `StepsSafe` (three action
properties), `RepliesTruthful` (with `Decided`, what an answer asserts, preserved because
rows are permanent and fences monotone) and `Refinement`: every step is a step of the
contract or a stutter.

`OutcomeFenceProofs`. With `FencePinned` the contract's properties are inductive:
`ContractSafe`, `RefusalTerminalAlways`. They carry over to whatever implements the contract:
`TablesKeepPromises` (the database) and `AuthorityKeepsPromises` (the authority amid crashes,
late requests and other clients) instantiate them and cite `Refinement`.

`MemoryAuthorityProofs`. One lock makes a handler one step, so `IInv` relates the dictionaries
only: `effects` and `committed` are each other's inverse (`IndexesAgree`), and a refused outcome
has its fence where the refusal put it; a restart begins with empty dictionaries. From it
`IndexesAgreeAlways`, the action property `RefusalSettlesAlways`, and `Refinement`: within a boot
every handler is a step of the contract with late refusals, and a restart is its initial state.

`KernelStoreProofs`. Types hold for any anchor (`TypeCorrect`); the rest assumes `Durable`.
"What is accepted is newest" is not inductive: it does not say why a restored snapshot is
harmless. `IInv` adds that no snapshot in the archive is above the newest sequence number and
that those *at* it agree with it but for the boot id (a restore of one of these is harmless, all
others are below the floor); that the floor is never below the newest; what a write under way
adds to the newest at each `pc` (`Builds`: sequence one higher, permissions within, refusals and
consumed capabilities kept, a loss covered by a new capability); that called or
about-to-be-called capabilities are consumed in the newest, and refusals that were once on
record still are (a refusal under a used id adds none); and that every archived snapshot and the
job are `Sound` (capabilities of the snapshot's epoch are permitted in it). `Fresh` is the
pivot: an accepted disk is the newest, so an operation builds on it. From `Invariant`:
`AcceptedIsNewestAlways`, `AtMostOnceAlways`, `VerifiedIsPermittedAlways`, `FloorFollowsAlways`,
`StepsSafe`.

`IntentProofs`. What appending to the pending list, taking its head and taking one entry away
do to what is in it, for lists without duplicates; and what an append to the journal, cut off
anywhere, leaves of what the file said (`Continues`): a line is added behind the others, or the
open one becomes unreadable, and a torn line never becomes whole again. So "on record" is not
stable, but `SafeIn` is: on record, unless some line of the file is torn; likewise `EndedIn`.
`AppendContinues` covers whole and failed appends; the two modules that follow cite it.

`ProtectedBoundaryProofs`. `NoneForgotten` is not inductive: clearing the pending list is safe
only because the entry was concluded before, as far as the file can be read, and that is known
only because nobody else touches the journal or the list in between. `IInv` adds that the intent
an operation is about is on the list once (`OpOK`, `StoreOK`), is `SafeIn` the journal past
`prepare` and `EndedIn` it at `clear`, and that what a caller was told by the authority is still
so when it acts on it: at `journal` its key holds the outcome, at `confirm_fence` and `publish`
the outcome is refused, with the fence at the target (`OpFacts`, `Pinned`). Nothing is assumed
of the file: an earlier append may have failed anywhere. The authority moves at any time, under
late requests and other clients, but `ServeMoves` shows that what is produced or refused is
final (`Final`). `StepKeeps` reduces a step to its parts: what it writes to the journal
(`JournalStep`), sends (`SentKnown`), returns (`SealedKnown`) and where the operation is after
it; `AppendedStep` is the first of these for a record that is written whole. From `Invariant`:
`WriteAheadAlways`, `NoneForgottenAlways`, `JournalTrueAlways`, `SealedNeverProducedAlways`;
`Refinement` shows that every step is a step of the contract or leaves the authority alone.

`RecoverableEffectsProofs`. The same of the journal (`Safe` is `SafeIn` its file). `IInv` says that
the intent under way is on the list and safe, that what `verify_locked` found still holds when
the adapter is called (`CurrentOK`: only the lock's holder moves the epoch), that every key has
had its effect exactly when its status is COMMITTED, and that an attached adapter holds no request
of its own (`AdapterOK`). From it `IntentAheadAlways`, `CommittedTrueAlways`, the action property
`NothingAskedTooLateAlways`, and `Refinement`: with `Phase` as the mapping every step is one of
`EffectLedger` or a stutter.

`DispatcherProofs`. `OneEffectOneAnswer` needs to know why two servers cannot run one capability:
the gate uses it up under the Store lock and the lock stays with the executor until it has run
(`Locked`, `Running`), so at most one server is ever about to answer for it (`OneConfirms`), to a
call whose capability has been fixed since it connected (`Handling`). From `Invariant`:
`OneEffectOneAnswerAlways`, `PathLeadsToDaemonAlways`, and the action properties
`SupersededNeverRunsAlways` and `OneGenerationAlways`.

Only model-checked: the liveness properties (`EveryRequestAnswered`, both `RecoveryConverges`,
`NobodyStarves`), since liveness under fairness is out of the prover's reach, and the five
disagreements of section 5, which are counterexamples. `OutcomeFence` is only proved about, and
is a property of the runs of the modules that implement it. `KernelStore` is proved under a
durable anchor only, as `RekorFloor` shows that it fails otherwise.

## 5. Where code and documents disagree

* `JournalPoison`: COMMITTED is journalled, the process dies before the pending list is
  rewritten, the epoch moves, `reconcile_pending` appends REFUSED (`effect_gate.py:99-100`)
  without a look at the record. `_validated_state` raises from then on
  (`effect_journal.py:54`); `README.md:26` of `dar_v36_14` promises reconciliation for crashes.
* `RefusedButProduced`: the commit was served, its answer lost, the epoch moves: the intent is
  journalled as REFUSED without asking the authority. `FORMAL_PROPERTY_v3_OUTCOME_FENCE.md:50`
  forbids to take such a crash for non-occurrence.
* `MemoryKeyReuse`: the in-memory `/commit` acknowledges a key that produced another outcome
  (`external_authority_server.py:157-158`); the durable one answers 409.
* `TornPrepared`: a crash leaves a journal line without its newline; the next PREPARED is
  appended to that line (`effect_journal.py:20-27` never looks at the end of the file), nothing
  raises, and the adapter executes (`effect_gate.py:79-80`) although the record cannot be read
  back; `README.md:21` of `dar_v36_14` promises that execution fails in this case. The Store still
  holds the intent (`IntentAhead`), but every later recovery stops at the torn line. The protected
  path has the same gap before its commit (`effect_gate.py:59-61`), so `WriteAhead` promises a
  record only while every line of the file is whole. `NoneForgotten` has the same condition: when
  a crash leaves PREPARED without its newline and the epoch moves, `reconcile_pending` writes
  REFUSED onto that line without reading it back (`effect_gate.py:100`) and drops the intent, so
  neither the Store's list nor the journal tells of the used capability any more.
* `RekorFloor`: the Rekor anchor keeps its floor in a field (`rekor_anchor.py:34`), -1 after a
  restart, so a restored older snapshot is accepted; its docstring and `README.md:24` of
  `dar_v36_14` promise a monotonic floor that detects rollback.

Not findings of a run, but worth knowing: a refusal of a produced outcome is answered 409
(`postgres_authority.py:99-100`), where `tools/verify_external_authority.py:57-58` requires 200;
the in-memory authority does what the tool wants. A `serve_once` beside a daemon takes the
daemon's socket name, accepts capabilities of its own boot id without binding the Store to it,
and leaves a dead name behind. A response that does not fit a frame is answered as an error
although the effect ran (`process_dispatcher.py:37`). A crash between the anchor's advance and
the replacement of the file (`store.py:51-54`) leaves every snapshot below the floor: the Store
accepts nothing any more and nothing repairs it (the theorem `FloorFollowsAlways` bounds the gap
at one). `run_privileged_server.py` builds its Store without an anchor, so `StoreRestore` speaks
only of deployments that add one. `RekorMonotonicAnchor.publish` moves the same floor to a log
index, which has nothing to do with Store sequence numbers. After a crash between the external
refusal and its local publication, an issue that moves the epoch makes the retry "not newer" for
ever (`refusal.py:92`); the outcome stays refused at the authority. `reconcile_pending` stops at
the first intent the authority rejects (`effect_gate.py:106`). A refusal under an id that is on
record already is acknowledged and moves the epoch, but its effect is not recorded
(`refusal.py:55`, `62`): `RefusedStaysRefused` speaks of refusals on record. Plain `execute`
takes a capability of a protected outcome and checks refusals by its effect id only
(`effect_gate.py:40`). `_open_read` leaves the last directory of a nested path open
(`boundary.py:36`).

## 6. Not modelled yet, and the plan

In order:

1. Lemmas towards the liveness properties: that each step of recovery shortens what is left
   (`todo`, then the labels of one intent) is a safety statement and can be proved, even if
   `RecoveryConverges` cannot.
2. The part of `Blocked` that is permanent: once an outcome is refused or produced by another
   key, its intent stays blocked.
3. A missing Store file and an operator's `publish` in `KernelStore`; callers that combine
   several fields of one `/state` answer; capabilities of protected outcomes spent through plain
   `execute`, which needs executors that act beside the authority.
4. `FileEffects`: the path walk of `_open_read`.

Left out for good: canonicalisation of strings and JSON (pure text), HMACs, byte framing,
system call filters, the audit log, the web site and the test scripts.
