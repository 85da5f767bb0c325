------------------------ MODULE RecoverableEffectsProofs ------------------------
(***************************************************************************)
(* What holds of RecoverableEffects for any number of keys, effects and        *)
(* epochs and either kind of adapter, proved with TLAPS.                      *)
(*                                                                         *)
(* The argument: the holder of the Store lock is the only one to touch the     *)
(* pending list and the journal, so the intent it is about stays on the list   *)
(* (OpOK) and stays current (CurrentOK) until it lets go.  Its PREPARED record *)
(* is written before the adapter is called; an append may spoil the file, but  *)
(* a record once read is lost only when some line of the file is torn, and     *)
(* then nothing of the file is read any more (Safe).  The adapter's answer     *)
(* COMMITTED is final, so what it justified remains true.                      *)
(***************************************************************************)
EXTENDS RecoverableEffects, IntentProofs

----------------------------------------------------------------------------
(* The invariant *)

\* What has been asked of the adapter, or is about to be, is on record, unless the file
\* has a line that is not whole.
Safe(c) == SafeIn(journal, c)

\* The operation that holds the Store lock.
Busy == pc \notin {"free", "next"}

OpOK ==
  /\ pc = "free" <=> mode = "none"
  /\ mode # "reconcile" => todo = <<>>
  /\ pc = "prepared" => mode = "execute"
  /\ pc \in {"next", "decide", "refuse", "forget", "status"} => mode = "reconcile"
  /\ Busy => InList(pending, cur) /\ ~InList(todo, cur)
  /\ Once(todo)
  /\ \A c \in Keys : InList(todo, c) => InList(pending, c)

\* An intent on the list was used up and not yet given up; used-up capabilities exist.
StoreOK ==
  /\ Once(pending)
  /\ \A c \in Keys : InList(pending, c) => c \in consumed /\ c \notin dropped
  /\ dropped \subseteq consumed
  /\ \A c \in consumed : caps[c] # None

JournalOK ==
  /\ Sound(journal)
  /\ \A c \in known : Safe(c)
  /\ Busy /\ pc # "prepared" => Safe(cur)

\* Nobody but the lock's holder moves the epoch or adds refusals, so what verify_locked
\* or reconcile_pending found still holds when the adapter is called.
CurrentOK == pc \in {"prepared", "status", "execute"} => ~Outdated(cur)

AdapterOK ==
  /\ \A c \in Keys : effects[c] = IF status[c] = "COMMITTED" THEN 1 ELSE 0
  /\ pc \in {"committed", "clear"} => status[cur] = "COMMITTED"
  /\ adapter = "attached" =>
       /\ late = {}
       /\ \A c \in Keys : status[c] # "PREPARED"
       /\ pc \in {"prepared", "execute"} => status[cur] = "UNKNOWN"

IInv ==
  /\ TypeOK
  /\ OpOK
  /\ StoreOK
  /\ JournalOK
  /\ CurrentOK
  /\ AdapterOK
  /\ IntentAhead
  /\ CommittedTrue

----------------------------------------------------------------------------
(* The parts of a step *)

\* The intent an operation is about was used up, and its capability exists.
LEMMA CurKnown ==
  ASSUME IInv, Busy
  PROVE  cur \in Keys /\ cur \in consumed /\ caps[cur] \in Capability
<1>1. cur \in Keys
  BY ListType DEF IInv, OpOK, TypeOK
<1>2. cur \in consumed /\ caps[cur] # None
  BY <1>1 DEF IInv, OpOK, StoreOK
<1> QED BY <1>1, <1>2 DEF IInv, TypeOK

\* What a request does to the adapter's view of key c, when it is served.
Served(c) ==
  /\ status' \in [Keys -> TxnStatus]
  /\ effects' \in [Keys -> Nat]
  /\ \A k \in Keys : k # c => status'[k] = status[k] /\ effects'[k] = effects[k]
  /\ status[c] = "COMMITTED" => status'[c] = "COMMITTED"
  /\ effects'[c] = IF status'[c] = "COMMITTED" THEN 1 ELSE 0
  /\ adapter = "attached" => status'[c] # "PREPARED"
  /\ UNCHANGED effects \/ (effects[c] = 0 /\ effects' = [effects EXCEPT ![c] = 1])

\* The effect of a key happens when it has not happened, or its status changes otherwise.
LEMMA AdapterMoves ==
  ASSUME IInv, NEW c \in Keys,
         \/ Happens(c) /\ status[c] # "COMMITTED"
         \/ Becomes(c, "FAILED") /\ status[c] # "COMMITTED"
         \/ Becomes(c, "PREPARED") /\ status[c] # "COMMITTED" /\ adapter # "attached"
         \/ UNCHANGED <<status, effects>>
  PROVE  Served(c)
<1>1. /\ status \in [Keys -> TxnStatus] /\ effects \in [Keys -> Nat]
      /\ effects[c] = IF status[c] = "COMMITTED" THEN 1 ELSE 0
      /\ adapter = "attached" => status[c] # "PREPARED"
  BY DEF IInv, TypeOK, AdapterOK
<1>2. CASE Happens(c) /\ status[c] # "COMMITTED"
  <2>1. effects[c] = 0 /\ effects[c] + 1 = 1
    BY <1>1, <1>2
  <2> QED BY <1>1, <1>2, <2>1 DEF Happens, Served, TxnStatus
<1>3. CASE Becomes(c, "FAILED") /\ status[c] # "COMMITTED"
  BY <1>1, <1>3 DEF Becomes, Served, TxnStatus
<1>4. CASE Becomes(c, "PREPARED") /\ status[c] # "COMMITTED" /\ adapter # "attached"
  BY <1>1, <1>4 DEF Becomes, Served, TxnStatus
<1>5. CASE UNCHANGED <<status, effects>>
  BY <1>1, <1>5 DEF Served
<1> QED BY <1>2, <1>3, <1>4, <1>5

\* A request is served once per key by an idempotent adapter, and made once per key of
\* an attached one.
LEMMA ServeMoves ==
  ASSUME IInv, NEW c \in Keys, Serve(c), adapter = "attached" => status[c] = "UNKNOWN"
  PROVE  Served(c)
<1>1. adapter \in {"idempotent", "attached"}
  BY AdaptersAssumption DEF IInv, TypeOK
<1> QED BY <1>1, AdapterMoves DEF Serve

\* What a step does to the journal, if anything: all or a part of record r is appended.
Journals(r) == r \in Records /\ journal' \in AppendFailed(journal, r)

\* Whatever a step appends, the file stays well formed and continues what it said.
LEMMA JournalsKeep ==
  ASSUME IInv, NEW r, Journals(r)
  PROVE  Sound(journal)' /\ Continues(journal, journal', r)
<1>1. Sound(journal) /\ r \in Records /\ journal' \in AppendFailed(journal, r)
  BY DEF IInv, JournalOK, Journals
<1> QED BY <1>1, AppendContinues DEF Sound

\* Intent and truth survive every append of a record that is not COMMITTED, or true.
LEMMA JournalsTrue ==
  ASSUME IInv, NEW r, Journals(r), UNCHANGED <<status, late, consumed>>,
         r.status = "COMMITTED" => status[r.key] = "COMMITTED"
  PROVE  IntentAhead' /\ CommittedTrue'
<1>1. Continues(journal, journal', r)
  BY JournalsKeep
<1>2. IntentAhead'
  BY <1>1 DEF IInv, IntentAhead, Asked, SafeIn, Continues
<1>3. CommittedTrue'
  BY <1>1 DEF IInv, CommittedTrue, Continues
<1> QED BY <1>2, <1>3

\* Appended is one of the outcomes of an append, the one that puts the record there.
LEMMA AppendedJournals ==
  ASSUME IInv, NEW r \in Records, journal' = Appended(journal, r)
  PROVE  Journals(r) /\ SafeIn(journal', r.key)
<1>1. Journals(r)
  BY DEF Journals, AppendFailed
<1>2. SafeIn(journal', r.key)
  BY SaidNew DEF IInv, JournalOK, SafeIn
<1> QED BY <1>1, <1>2

\* When an operation ends, what concerned only the operation is over.
LEMMA Finished ==
  ASSUME Finish
  PROVE  /\ OpOK' /\ CurrentOK'
         /\ ~Busy' /\ known' = {} /\ pc' = "free"
         /\ mode' \in {"none", "execute", "reconcile"} /\ cur' = None /\ todo' \in Seq(Keys)
<1>1. /\ pc' = "free" /\ mode' = "none" /\ cur' = None /\ todo' = <<>> /\ known' = {}
      /\ ~Busy'
  BY DEF Finish, Busy
<1>2. todo' \in Seq(Keys) /\ Once(todo') /\ \A c : ~InList(todo', c)
  BY <1>1, EmptyList
<1>3. OpOK'
  BY <1>1, <1>2 DEF OpOK
<1>4. CurrentOK'
  BY <1>1 DEF CurrentOK
<1> QED BY <1>1, <1>2, <1>3, <1>4

----------------------------------------------------------------------------
(* One lemma per action: it keeps the invariant *)

\* Issuing an earlier capability changes nothing for those on record.
LEMMA IssueStep ==
  ASSUME IInv, NEW c \in Keys, NEW e \in Effects, Issue(c, e)
  PROVE  IInv'
<1>1. /\ pc = "free" /\ caps[c] = None /\ epoch < MaxEpoch /\ epoch' = epoch + 1
      /\ caps' = [caps EXCEPT ![c] = [effect |-> e, epoch |-> epoch + 1]]
      /\ UNCHANGED <<consumed, pending, refused, journal, external, op, dropped>>
  BY DEF Issue, NextEpoch
<1>2. epoch + 1 \in Epochs
  BY <1>1, MaxEpochAssumption DEF IInv, TypeOK, Epochs
<1>3. [effect |-> e, epoch |-> epoch + 1] \in Capability
  BY <1>2 DEF Capability
<1>4. TypeOK'
  BY <1>1, <1>2, <1>3 DEF IInv, TypeOK, external, op
<1>5. StoreOK'
  BY <1>1 DEF IInv, TypeOK, StoreOK
<1>6. OpOK' /\ JournalOK' /\ CurrentOK' /\ AdapterOK' /\ IntentAhead' /\ CommittedTrue'
  BY <1>1 DEF IInv, OpOK, JournalOK, Sound, CurrentOK, AdapterOK, IntentAhead, Asked,
              CommittedTrue, Busy, Safe, external, op
<1> QED BY <1>4, <1>5, <1>6 DEF IInv

\* A refusal is published while no operation is under way.
LEMMA RefuseStep ==
  ASSUME IInv, NEW e \in Effects, NEW target \in Epochs, Refuse(e, target)
  PROVE  IInv'
<1>1. /\ pc = "free" /\ epoch' = target
      /\ refused' \in SUBSET Effects
      /\ UNCHANGED <<caps, consumed, pending, journal, external, op, dropped>>
  BY DEF Refuse, RefusedAfter, IInv, TypeOK
<1>2. TypeOK'
  BY <1>1 DEF IInv, TypeOK, external, op
<1>3. /\ StoreOK' /\ OpOK' /\ JournalOK' /\ CurrentOK' /\ AdapterOK'
      /\ IntentAhead' /\ CommittedTrue'
  BY <1>1 DEF IInv, StoreOK, OpOK, JournalOK, Sound, CurrentOK, AdapterOK, IntentAhead,
              Asked, CommittedTrue, Busy, Safe, external, op
<1> QED BY <1>2, <1>3 DEF IInv

\* The adapter finishes in the background, or serves a request whose caller gave up.
LEMMA BackgroundStep ==
  ASSUME IInv, NEW c \in Keys, AdapterFinishes(c) \/ ServeLate(c)
  PROVE  IInv'
<1>1. /\ Served(c) /\ late' \subseteq late /\ Asked(c)
      /\ adapter = "attached" => late' = {} /\ UNCHANGED status
      /\ UNCHANGED <<store, journal, adapter, op, dropped>>
  <2>1. CASE AdapterFinishes(c)
    <3>1. status[c] # "COMMITTED" /\ (Happens(c) \/ Becomes(c, "FAILED"))
      BY <2>1 DEF AdapterFinishes
    <3>2. adapter # "attached"
      BY <2>1 DEF AdapterFinishes, IInv, AdapterOK
    <3> QED BY <2>1, <3>1, <3>2, AdapterMoves DEF AdapterFinishes, Asked
  <2>2. CASE ServeLate(c)
    <3>1. adapter # "attached"
      BY <2>2 DEF ServeLate, IInv, AdapterOK
    <3> QED BY <2>2, <3>1, ServeMoves DEF ServeLate, Asked
  <2> QED BY <2>1, <2>2
<1>2. TypeOK'
  BY <1>1 DEF IInv, TypeOK, Served, store, op
<1>3. StoreOK' /\ OpOK' /\ JournalOK' /\ CurrentOK'
  BY <1>1 DEF IInv, StoreOK, OpOK, JournalOK, Sound, CurrentOK, Outdated, Busy, Safe, store, op
<1>4. AdapterOK'
  <2>1. \A k \in Keys : effects'[k] = IF status'[k] = "COMMITTED" THEN 1 ELSE 0
    BY <1>1 DEF IInv, AdapterOK, Served
  <2>2. pc' \in {"committed", "clear"} => status'[cur'] = "COMMITTED"
    BY <1>1, CurKnown DEF IInv, AdapterOK, Served, op, Busy
  <2>3. adapter' = "attached" =>
          /\ late' = {}
          /\ \A k \in Keys : status'[k] # "PREPARED"
          /\ pc' \in {"prepared", "execute"} => status'[cur'] = "UNKNOWN"
    BY <1>1 DEF IInv, AdapterOK, op
  <2> QED BY <2>1, <2>2, <2>3 DEF AdapterOK
<1>5. IntentAhead'
  BY <1>1 DEF IInv, IntentAhead, Asked, Served, store
<1>6. CommittedTrue'
  BY <1>1 DEF IInv, CommittedTrue, Served
<1> QED BY <1>2, <1>3, <1>4, <1>5, <1>6 DEF IInv

\* What a step of the operation does to the journal: nothing, or an append whose record,
\* if it says COMMITTED, is true.
JournalStep ==
  \/ UNCHANGED journal
  \/ \E r \in Records : Journals(r) /\ (r.status = "COMMITTED" => status[r.key] = "COMMITTED")

\* Such a step loses no record that could be read, keeps intents ahead and records true.
LEMMA JournalStepKeeps ==
  ASSUME IInv, JournalStep
  PROVE  /\ Sound(journal)'
         /\ \A c : Safe(c) => Safe(c)'
         /\ UNCHANGED <<status, late, consumed>> => IntentAhead' /\ CommittedTrue'
<1>1. CASE UNCHANGED journal
  <2>1. Sound(journal)' /\ \A c : Safe(c) => Safe(c)'
    BY <1>1 DEF IInv, JournalOK, Sound, Safe
  <2>2. UNCHANGED <<status, late, consumed>> => IntentAhead' /\ CommittedTrue'
    BY <1>1 DEF IInv, IntentAhead, Asked, CommittedTrue
  <2> QED BY <2>1, <2>2
<1>2. ASSUME NEW r \in Records, Journals(r), r.status = "COMMITTED" => status[r.key] = "COMMITTED"
      PROVE  /\ Sound(journal)'
             /\ \A c : Safe(c) => Safe(c)'
             /\ UNCHANGED <<status, late, consumed>> => IntentAhead' /\ CommittedTrue'
  <2>1. Sound(journal)' /\ Continues(journal, journal', r)
    BY <1>2, JournalsKeep
  <2>2. \A c : Safe(c) => Safe(c)'
    BY <2>1 DEF Continues, Safe
  <2>3. UNCHANGED <<status, late, consumed>> => IntentAhead' /\ CommittedTrue'
    BY <1>2, JournalsTrue
  <2> QED BY <2>1, <2>2, <2>3
<1> QED BY <1>1, <1>2 DEF JournalStep

\* What the operation under way may do while the Store and the adapter stay as they are.
OpTypes ==
  /\ pc \in Labels
  /\ mode \in {"none", "execute", "reconcile"}
  /\ cur \in Keys \cup {None}
  /\ todo \in Seq(Keys)
  /\ known \subseteq Keys

OpAdapter ==
  /\ pc \in {"committed", "clear"} => status[cur] = "COMMITTED"
  /\ adapter = "attached" /\ pc \in {"prepared", "execute"} => status[cur] = "UNKNOWN"

OpJournal ==
  /\ \A c \in known : Safe(c)
  /\ Busy /\ pc # "prepared" => Safe(cur)

\* A step that moves only the operation on, perhaps after an append.
LEMMA LocalStep ==
  ASSUME IInv, UNCHANGED <<store, external, dropped>>, JournalStep,
         OpTypes', OpOK', CurrentOK', OpAdapter', OpJournal'
  PROVE  IInv'
<1>1. Sound(journal)' /\ IntentAhead' /\ CommittedTrue'
  BY JournalStepKeeps DEF store, external
<1>2. TypeOK'
  BY <1>1 DEF IInv, TypeOK, OpTypes, Sound, store, external
<1>3. StoreOK'
  BY DEF IInv, StoreOK, store
<1>4. JournalOK'
  BY <1>1 DEF JournalOK, OpJournal
<1>5. AdapterOK'
  BY DEF IInv, AdapterOK, OpAdapter, external
<1> QED BY <1>1, <1>2, <1>3, <1>4, <1>5 DEF IInv

\* An operation that ends early leaves the Store and the adapter as they are.
LEMMA EndStep ==
  ASSUME IInv, UNCHANGED <<store, external, dropped>>, JournalStep, Finish
  PROVE  IInv'
<1>1. OpTypes'
  BY Finished DEF OpTypes, Labels
<1>2. OpAdapter' /\ OpJournal'
  BY Finished DEF OpAdapter, OpJournal
<1> QED BY <1>1, <1>2, Finished, LocalStep

\* The next step of an operation, about the same intent.
LEMMA GotoStep ==
  ASSUME IInv, NEW label \in Labels \ {"free", "prepared", "next"}, Goto(label), Busy,
         UNCHANGED <<store, external, dropped>>, JournalStep,
         label \in {"refuse", "forget", "status", "decide"} => mode = "reconcile",
         label \in {"status", "execute"} => ~Outdated(cur),
         label \in {"committed", "clear"} => status[cur] = "COMMITTED",
         adapter = "attached" /\ label = "execute" => status[cur] = "UNKNOWN",
         pc = "prepared" => Safe(cur)'
  PROVE  IInv'
<1>1. pc' = label /\ UNCHANGED <<mode, cur, todo, known>>
  BY DEF Goto
<1>2. OpTypes'
  BY <1>1 DEF IInv, TypeOK, OpTypes
<1>3. OpOK'
  BY <1>1 DEF IInv, OpOK, Busy, store
<1>4. CurrentOK'
  BY <1>1 DEF CurrentOK, Outdated, store
<1>5. OpAdapter'
  BY <1>1 DEF OpAdapter, external
<1>6. OpJournal'
  <2>1. \A c : Safe(c) => Safe(c)'
    BY JournalStepKeeps
  <2>2. Safe(cur)'
    <3>1. CASE pc = "prepared"
      BY <3>1
    <3>2. CASE pc # "prepared"
      BY <1>1, <2>1, <3>2 DEF IInv, JournalOK, Safe
    <3> QED BY <3>1, <3>2
  <2> QED BY <1>1, <2>1, <2>2 DEF IInv, JournalOK, OpJournal
<1> QED BY <1>2, <1>3, <1>4, <1>5, <1>6, LocalStep

\* A step that writes one record about the current intent.
LEMMA WriteJournal ==
  ASSUME IInv, Busy, NEW st \in Statuses, journal' = Appended(journal, Record(cur, st)),
         st = "COMMITTED" => status[cur] = "COMMITTED"
  PROVE  JournalStep /\ SafeIn(journal', cur)
<1> DEFINE r == Record(cur, st)
<1>1. r \in Records /\ r.key = cur /\ r.status = st
  BY CurKnown, RecordIs
<1> HIDE DEF r
<1>2. Journals(r) /\ SafeIn(journal', r.key)
  BY <1>1, AppendedJournals DEF r
<1> QED BY <1>1, <1>2 DEF JournalStep

\* verify_locked holds when an intent is opened, and nothing was asked for it before.
LEMMA ExecuteBeginStep ==
  ASSUME IInv, NEW c \in Keys, ExecuteBegin(c)
  PROVE  IInv'
<1>1. /\ pc = "free" /\ caps[c] # None /\ ~Outdated(c) /\ c \notin consumed
      /\ consumed' = consumed \cup {c} /\ pending' = Append(pending, c)
      /\ pc' = "prepared" /\ mode' = "execute" /\ cur' = c /\ UNCHANGED <<todo, known>>
      /\ UNCHANGED <<epoch, caps, refused, journal, external, dropped>>
  BY DEF ExecuteBegin, Valid, Outdated
<1>2. ~InList(pending, c) /\ todo = <<>> /\ c \notin dropped
  BY <1>1 DEF IInv, StoreOK, OpOK
<1>3. /\ pending' \in Seq(Keys) /\ Once(pending')
      /\ \A x : InList(pending', x) <=> x = c \/ InList(pending, x)
  BY <1>1, <1>2, AppendList DEF IInv, TypeOK, StoreOK
<1>4. ~Asked(c)
  BY <1>1 DEF IInv, IntentAhead
<1>5. TypeOK'
  BY <1>1, <1>3 DEF IInv, TypeOK, external, Labels
<1>6. OpOK'
  <2>1. \A x : ~InList(todo, x)
    BY <1>2, EmptyList
  <2>2. Busy' /\ InList(pending', cur')
    BY <1>1, <1>3 DEF Busy
  <2> QED BY <1>1, <1>2, <2>1, <2>2 DEF IInv, OpOK
<1>7. StoreOK'
  BY <1>1, <1>2, <1>3 DEF IInv, StoreOK
<1>8. JournalOK'
  BY <1>1 DEF IInv, JournalOK, Sound, Safe, Busy
<1>9. CurrentOK' /\ AdapterOK'
  BY <1>1, <1>4 DEF IInv, CurrentOK, AdapterOK, Outdated, Asked, external
<1>10. IntentAhead' /\ CommittedTrue'
  BY <1>1 DEF IInv, IntentAhead, Asked, CommittedTrue, external
<1> QED BY <1>5, <1>6, <1>7, <1>8, <1>9, <1>10 DEF IInv

\* The PREPARED record is on file before the adapter is called.
LEMMA JournalPreparedStep ==
  ASSUME IInv, JournalPrepared
  PROVE  IInv'
<1>1. /\ pc = "prepared" /\ Goto("execute") /\ UNCHANGED <<store, external, dropped>>
      /\ journal' = Appended(journal, Record(cur, "PREPARED"))
  BY DEF JournalPrepared, Write
<1>2. Busy
  BY <1>1 DEF Busy
<1>3. JournalStep /\ SafeIn(journal', cur)
  BY <1>1, <1>2, WriteJournal DEF Statuses
<1>4. Safe(cur)'
  BY <1>1, <1>3 DEF Safe, Goto
<1>5. ~Outdated(cur) /\ (adapter = "attached" => status[cur] = "UNKNOWN")
  BY <1>1 DEF IInv, CurrentOK, AdapterOK
<1> QED BY <1>1, <1>2, <1>3, <1>4, <1>5, GotoStep DEF Labels

\* A request to the adapter is made for a recorded, current intent; it is answered, or the
\* caller gives up and an idempotent adapter may serve it later.
LEMMA CallExecuteStep ==
  ASSUME IInv, CallExecute
  PROVE  IInv'
<1>1. pc = "execute" /\ UNCHANGED <<store, journal, adapter, dropped>> /\ Busy
  BY DEF CallExecute, Busy
<1>2. /\ cur \in Keys /\ cur \in consumed /\ Safe(cur)
      /\ adapter = "attached" => status[cur] = "UNKNOWN"
  BY <1>1, CurKnown DEF IInv, JournalOK, AdapterOK
<1>3. Served(cur) /\ late' \subseteq late \cup {cur}
      /\ (adapter = "attached" => late' = {})
  <2>1. CASE Serve(cur) /\ UNCHANGED late
    BY <1>2, <2>1, ServeMoves DEF IInv, AdapterOK
  <2>2. CASE late' = (IF adapter = "idempotent" THEN late \cup {cur} ELSE late)
             /\ UNCHANGED <<status, effects>>
    BY <1>2, <2>2, AdapterMoves DEF IInv, AdapterOK
  <2> QED BY <2>1, <2>2 DEF CallExecute, Answered, Unanswered
<1>4. OpTypes' /\ OpOK' /\ CurrentOK' /\ known' \subseteq known
      /\ pc' \in {"confirm", "free"} /\ (Busy' => cur' = cur)
  <2>1. CASE Finish
    BY <2>1, Finished DEF OpTypes, Labels
  <2>2. CASE Goto("confirm")
    <3>1. pc' = "confirm" /\ UNCHANGED <<mode, cur, todo, known>>
      BY <2>2 DEF Goto
    <3> QED BY <1>1, <3>1 DEF IInv, TypeOK, OpTypes, OpOK, CurrentOK, Busy, Labels, store
  <2> QED BY <2>1, <2>2 DEF CallExecute, Answered, Unanswered
<1>5. TypeOK'
  BY <1>1, <1>2, <1>3, <1>4 DEF IInv, TypeOK, OpTypes, Served, store
<1>6. StoreOK' /\ CommittedTrue'
  BY <1>1, <1>3 DEF IInv, StoreOK, CommittedTrue, Served, store
<1>7. JournalOK'
  BY <1>1, <1>2, <1>4 DEF IInv, JournalOK, Sound, Safe
<1>8. AdapterOK'
  BY <1>1, <1>2, <1>3, <1>4 DEF IInv, AdapterOK, Served
<1>9. IntentAhead'
  BY <1>1, <1>2, <1>3 DEF IInv, IntentAhead, Asked, Served, Safe, SafeIn, store
<1> QED BY <1>4, <1>5, <1>6, <1>7, <1>8, <1>9 DEF IInv

\* execute_recoverable goes on to the COMMITTED record only when the adapter confirms.
LEMMA AskConfirmedStep ==
  ASSUME IInv, AskConfirmed
  PROVE  IInv'
<1>1. pc = "confirm" /\ UNCHANGED <<store, journal, external, dropped>> /\ Busy /\ JournalStep
  BY DEF AskConfirmed, Busy, JournalStep
<1>2. CASE status[cur] = "COMMITTED" /\ Goto("committed")
  BY <1>1, <1>2, GotoStep DEF Labels
<1>3. CASE Finish
  BY <1>1, <1>3, EndStep
<1> QED BY <1>2, <1>3 DEF AskConfirmed

\* recover goes on to execute, or straight to the COMMITTED record, or raises.
LEMMA AskStatusStep ==
  ASSUME IInv, AskStatus
  PROVE  IInv'
<1>1. pc = "status" /\ UNCHANGED <<store, journal, external, dropped>> /\ Busy /\ JournalStep
  BY DEF AskStatus, Busy, JournalStep
<1>2. CASE status[cur] = "COMMITTED" /\ Goto("committed")
  BY <1>1, <1>2, GotoStep DEF Labels
<1>3. CASE status[cur] \in {"UNKNOWN", "PREPARED"} /\ Goto("execute")
  <2>1. ~Outdated(cur) /\ (adapter = "attached" => status[cur] = "UNKNOWN")
    BY <1>1, <1>3, CurKnown DEF IInv, CurrentOK, AdapterOK
  <2> QED BY <1>1, <1>3, <2>1, GotoStep DEF Labels
<1>4. CASE Finish
  BY <1>1, <1>4, EndStep
<1> QED BY <1>2, <1>3, <1>4 DEF AskStatus

\* reconcile_pending refuses what has become outdated, and recovers the rest.
LEMMA ReconcileDecideStep ==
  ASSUME IInv, ReconcileDecide
  PROVE  IInv'
<1>1. pc = "decide" /\ UNCHANGED <<store, journal, external, dropped>> /\ Busy /\ JournalStep
      /\ mode = "reconcile"
  BY DEF ReconcileDecide, Busy, JournalStep, IInv, OpOK
<1>2. CASE Outdated(cur) /\ Goto("refuse")
  BY <1>1, <1>2, GotoStep DEF Labels
<1>3. CASE ~Outdated(cur) /\ Goto("status")
  BY <1>1, <1>3, GotoStep DEF Labels
<1> QED BY <1>2, <1>3 DEF ReconcileDecide

\* A REFUSED record says nothing of the adapter.
LEMMA JournalRefusedStep ==
  ASSUME IInv, JournalRefused
  PROVE  IInv'
<1>1. /\ pc = "refuse" /\ Goto("forget") /\ UNCHANGED <<store, external, dropped>>
      /\ journal' = Appended(journal, Record(cur, "REFUSED")) /\ Busy
      /\ mode = "reconcile"
  BY DEF JournalRefused, Write, Busy, IInv, OpOK
<1>2. JournalStep
  BY <1>1, WriteJournal DEF Statuses
<1> QED BY <1>1, <1>2, GotoStep DEF Labels

\* A COMMITTED record is written when the adapter has confirmed, and then validated if
\* reconcile_pending writes it.
LEMMA JournalCommittedStep ==
  ASSUME IInv, JournalCommitted
  PROVE  IInv'
<1>1. /\ pc = "committed" /\ UNCHANGED <<store, external, dropped>> /\ Busy
      /\ status[cur] = "COMMITTED"
  BY DEF JournalCommitted, Busy, IInv, AdapterOK
<1>2. CASE Write("COMMITTED", "clear")
  <2>1. Goto("clear") /\ journal' = Appended(journal, Record(cur, "COMMITTED"))
    BY <1>2 DEF Write
  <2>2. JournalStep
    BY <1>1, <2>1, WriteJournal DEF Statuses
  <2> QED BY <1>1, <2>1, <2>2, GotoStep DEF Labels
<1>3. CASE /\ mode = "reconcile"
           /\ journal' = IF MissingCommitted
                           THEN Appended(journal, Record(cur, "COMMITTED")) ELSE journal
           /\ IF Readable(journal) /\ Readable(journal')
                THEN pc' = "clear" /\ known' = KnownKeys(journal') /\ UNCHANGED <<mode, cur, todo>>
                ELSE Finish
  <2>1. JournalStep
    <3>1. CASE journal' = Appended(journal, Record(cur, "COMMITTED"))
      BY <1>1, <3>1, WriteJournal DEF Statuses
    <3>2. CASE journal' = journal
      BY <3>2 DEF JournalStep
    <3> QED BY <1>3, <3>1, <3>2
  <2>2. CASE Finish
    BY <1>1, <2>1, <2>2, EndStep
  <2>3. CASE pc' = "clear" /\ known' = KnownKeys(journal') /\ UNCHANGED <<mode, cur, todo>>
    <3>1. OpTypes'
      BY <2>3 DEF IInv, TypeOK, OpTypes, Labels, KnownKeys
    <3>2. OpOK' /\ CurrentOK'
      BY <1>1, <2>3 DEF IInv, OpOK, CurrentOK, Busy, store
    <3>3. OpAdapter'
      BY <1>1, <2>3 DEF OpAdapter, external
    <3>4. OpJournal'
      <4>1. \A c \in known' : Safe(c)'
        BY <2>3 DEF KnownKeys, Safe, SafeIn
      <4>2. Safe(cur)'
        BY <1>1, <2>1, <2>3, JournalStepKeeps DEF IInv, JournalOK, Safe
      <4> QED BY <4>1, <4>2 DEF OpJournal
    <3> QED BY <1>1, <2>1, <3>1, <3>2, <3>3, <3>4, LocalStep
  <2> QED BY <1>3, <2>2, <2>3
<1> QED BY <1>2, <1>3 DEF JournalCommitted

\* The whole list is looked at, with the records as they were validated.
LEMMA ReconcileBeginStep ==
  ASSUME IInv, ReconcileBegin
  PROVE  IInv'
<1>1. /\ pc' = "next" /\ mode' = "reconcile" /\ todo' = pending /\ known' = KnownKeys(journal)
      /\ UNCHANGED <<cur, store, journal, external, dropped>>
  BY DEF ReconcileBegin
<1>2. JournalStep
  BY <1>1 DEF JournalStep
<1>3. OpTypes'
  BY <1>1 DEF IInv, TypeOK, OpTypes, Labels, KnownKeys
<1>4. OpOK' /\ CurrentOK' /\ OpAdapter'
  BY <1>1 DEF IInv, StoreOK, OpOK, CurrentOK, OpAdapter, Busy, store
<1>5. OpJournal'
  BY <1>1 DEF OpJournal, KnownKeys, Safe, SafeIn, Busy
<1> QED BY <1>1, <1>2, <1>3, <1>4, <1>5, LocalStep

\* The next intent is taken when its PREPARED record is known to be on file.
LEMMA ReconcileNextStep ==
  ASSUME IInv, ReconcileNext
  PROVE  IInv'
<1>1. pc = "next" /\ UNCHANGED <<store, external, dropped>>
  BY DEF ReconcileNext
<1>2. CASE todo = <<>> /\ Finish /\ UNCHANGED journal
  BY <1>1, <1>2, EndStep DEF JournalStep
<1>3. CASE todo # <<>>
  <2> DEFINE c == Head(todo)
             r == Record(c, "PREPARED")
  <2>1. /\ c \in Keys /\ Tail(todo) \in Seq(Keys) /\ InList(todo, c)
        /\ Once(Tail(todo)) /\ ~InList(Tail(todo), c)
        /\ \A x : InList(Tail(todo), x) => InList(todo, x)
    BY <1>3, TailList DEF IInv, TypeOK, OpOK
  <2>2. r \in Records /\ r.key = c /\ r.status = "PREPARED"
    BY <2>1, RecordIs DEF Statuses
  <2> HIDE DEF c, r
  <2>3. ASSUME pc' = "decide", cur' = c, todo' = Tail(todo), UNCHANGED mode,
               known' \subseteq Keys,
               \A k \in known' : SafeIn(journal', k), SafeIn(journal', c), JournalStep
        PROVE  IInv'
    <3>1. OpTypes'
      BY <2>1, <2>3 DEF IInv, TypeOK, OpTypes, Labels
    <3>2. OpOK' /\ CurrentOK' /\ OpAdapter'
      BY <1>1, <2>1, <2>3 DEF IInv, OpOK, CurrentOK, OpAdapter, Busy, store
    <3>3. OpJournal'
      BY <2>3 DEF OpJournal, Safe
    <3> QED BY <1>1, <2>3, <3>1, <3>2, <3>3, LocalStep
  <2>4. CASE c \in known /\ pc' = "decide" /\ cur' = c /\ todo' = Tail(todo)
             /\ UNCHANGED <<mode, known, journal>>
    <3>1. known' \subseteq Keys /\ \A k \in known' : SafeIn(journal', k)
      BY <2>4 DEF IInv, TypeOK, JournalOK, Safe
    <3>2. SafeIn(journal', c) /\ JournalStep
      BY <2>4, <3>1 DEF JournalStep
    <3> QED BY <2>3, <2>4, <3>1, <3>2
  <2>5. CASE journal' = Appended(journal, r)
    <3>1. Journals(r) /\ SafeIn(journal', c)
      BY <2>2, <2>5, AppendedJournals
    <3>2. JournalStep
      BY <2>2, <3>1 DEF JournalStep
    <3>3. CASE pc' = "decide" /\ cur' = c /\ todo' = Tail(todo)
               /\ known' = KnownKeys(journal') /\ UNCHANGED mode
      <4>1. known' \subseteq Keys /\ \A k \in known' : SafeIn(journal', k)
        BY <3>3 DEF KnownKeys, SafeIn
      <4> QED BY <2>3, <3>1, <3>2, <3>3, <4>1
    <3>4. CASE Finish
      BY <1>1, <3>2, <3>4, EndStep
    <3>5. \/ pc' = "decide" /\ cur' = c /\ todo' = Tail(todo)
             /\ known' = KnownKeys(journal') /\ UNCHANGED mode
          \/ Finish
          \/ c \in known /\ pc' = "decide" /\ cur' = c /\ todo' = Tail(todo)
             /\ UNCHANGED <<mode, known, journal>>
      BY <1>3 DEF ReconcileNext, c
    <3> QED BY <2>4, <3>3, <3>4, <3>5
  <2>6. \/ c \in known /\ pc' = "decide" /\ cur' = c /\ todo' = Tail(todo)
           /\ UNCHANGED <<mode, known, journal>>
        \/ journal' = Appended(journal, r)
    BY <1>3 DEF ReconcileNext, c, r
  <2> QED BY <2>4, <2>5, <2>6
<1> QED BY <1>2, <1>3 DEF ReconcileNext, MissingPrepared

\* Letting go of the current intent leaves every other one on the list.
LEMMA DropIntentMoves ==
  ASSUME IInv, Busy, DropIntent
  PROVE  /\ pending' \in Seq(Keys) /\ Once(pending')
         /\ \A x : InList(pending', x) <=> x # cur /\ InList(pending, x)
         /\ OpTypes' /\ OpOK' /\ CurrentOK' /\ ~Busy' /\ known' \subseteq known
         /\ pc' \in {"free", "next"}
         /\ UNCHANGED <<epoch, caps, consumed, refused>>
<1>1. /\ pending' \in Seq(Keys) /\ Once(pending')
      /\ \A x : InList(pending', x) <=> x # cur /\ InList(pending, x)
  BY WithoutList DEF DropIntent, IInv, TypeOK, StoreOK
<1>2. CASE Finish
  BY <1>1, <1>2, Finished DEF OpTypes, Labels, DropIntent
<1>3. CASE mode # "execute" /\ pc' = "next" /\ cur' = None /\ UNCHANGED <<mode, todo, known>>
  <2>1. mode = "reconcile"
    BY <1>3 DEF IInv, OpOK, TypeOK, Busy
  <2>2. OpTypes'
    BY <1>3 DEF IInv, TypeOK, OpTypes, Labels
  <2>3. OpOK'
    BY <1>1, <1>3, <2>1 DEF IInv, OpOK, Busy
  <2> QED BY <1>1, <1>3, <2>2, <2>3 DEF CurrentOK, Busy, DropIntent
<1> QED BY <1>2, <1>3 DEF DropIntent

\* What both actions that take the intent off the list keep.
LEMMA DropStep ==
  ASSUME IInv, Busy, DropIntent, UNCHANGED <<journal, external>>,
         dropped' \in {dropped, dropped \cup {cur}}
  PROVE  IInv'
<1>1. /\ pending' \in Seq(Keys) /\ Once(pending')
      /\ \A x : InList(pending', x) <=> x # cur /\ InList(pending, x)
      /\ OpTypes' /\ OpOK' /\ CurrentOK' /\ ~Busy' /\ known' \subseteq known
      /\ pc' \in {"free", "next"}
      /\ UNCHANGED <<epoch, caps, consumed, refused>>
  BY DropIntentMoves
<1>2. cur \in Keys /\ cur \in consumed
  BY CurKnown
<1>3. TypeOK'
  BY <1>1, <1>2 DEF IInv, TypeOK, OpTypes, external
<1>4. StoreOK'
  BY <1>1, <1>2 DEF IInv, StoreOK
<1>5. JournalOK'
  BY <1>1 DEF IInv, JournalOK, Sound, Safe
<1>6. AdapterOK'
  BY <1>1 DEF IInv, AdapterOK, external
<1>7. IntentAhead' /\ CommittedTrue'
  BY <1>1 DEF IInv, IntentAhead, Asked, CommittedTrue, external
<1> QED BY <1>1, <1>3, <1>4, <1>5, <1>6, <1>7 DEF IInv

\* A concluded intent leaves the list.
LEMMA ClearPendingStep ==
  ASSUME IInv, ClearPending
  PROVE  IInv'
<1>1. Busy /\ DropIntent /\ UNCHANGED <<journal, external>> /\ dropped' = dropped
  BY DEF ClearPending, Busy
<1> QED BY <1>1, DropStep

\* An intent that reconcile_pending gives up leaves the list as well, and is remembered
\* as dropped.
LEMMA ForgetPendingStep ==
  ASSUME IInv, ForgetPending
  PROVE  IInv'
<1>1. Busy /\ DropIntent /\ UNCHANGED <<journal, external>> /\ dropped' = dropped \cup {cur}
  BY DEF ForgetPending, Busy
<1> QED BY <1>1, DropStep

\* A crash leaves the Store as it is and the file with a part of what was to be appended.
LEMMA InterruptStep ==
  ASSUME IInv, Interrupt
  PROVE  IInv'
<1>1. /\ pc # "free" /\ Finish /\ UNCHANGED <<store, external, dropped>>
      /\ journal' \in {journal} \cup UNION {AppendFailed(journal, r) : r \in NextRecord}
  BY DEF Interrupt
<1>2. ASSUME NEW r \in NextRecord
      PROVE  r \in Records /\ (r.status = "COMMITTED" => status[r.key] = "COMMITTED")
  <2>1. CASE pc = "prepared"
    <3>1. r = Record(cur, "PREPARED") /\ cur \in Keys
      BY <1>2, <2>1, CurKnown DEF NextRecord, Busy
    <3> QED BY <3>1, RecordIs DEF Statuses
  <2>2. CASE pc = "committed" /\ MissingCommitted
    <3>1. r = Record(cur, "COMMITTED") /\ cur \in Keys /\ status[cur] = "COMMITTED"
      BY <1>2, <2>2, CurKnown DEF NextRecord, Busy, IInv, AdapterOK
    <3> QED BY <3>1, RecordIs DEF Statuses
  <2>3. CASE pc = "refuse"
    <3>1. r = Record(cur, "REFUSED") /\ cur \in Keys
      BY <1>2, <2>3, CurKnown DEF NextRecord, Busy
    <3> QED BY <3>1, RecordIs DEF Statuses
  <2>4. CASE pc = "next" /\ MissingPrepared
    <3>1. r = Record(Head(todo), "PREPARED") /\ Head(todo) \in Keys
      BY <1>2, <2>4, TailList DEF NextRecord, MissingPrepared, IInv, TypeOK
    <3> QED BY <3>1, RecordIs DEF Statuses
  <2>5. CASE /\ pc \notin {"prepared", "refuse"}
             /\ ~(pc = "committed" /\ MissingCommitted)
             /\ ~(pc = "next" /\ MissingPrepared)
    BY <1>2, <2>5 DEF NextRecord
  <2> QED BY <2>1, <2>2, <2>3, <2>4, <2>5
<1>3. JournalStep
  <2>1. CASE journal' = journal
    BY <2>1 DEF JournalStep
  <2>2. CASE journal' # journal
    <3>1. PICK r \in NextRecord : journal' \in AppendFailed(journal, r)
      BY <1>1, <2>2
    <3> QED BY <1>2, <3>1 DEF JournalStep, Journals
  <2> QED BY <2>1, <2>2
<1> QED BY <1>1, <1>3, EndStep

----------------------------------------------------------------------------
(* The invariant is inductive *)

\* A new boundary beside an idle adapter satisfies the invariant.
LEMMA InvInit == Init => IInv
<1> SUFFICES ASSUME Init PROVE IInv
  OBVIOUS
<1>1. /\ \A x : ~InList(<<>>, x)
      /\ Once(<<>>) /\ <<>> \in Seq(Keys) /\ <<>> \in Seq(Records \cup {Torn})
  BY EmptyList
<1>2. Sound(EmptyFile) /\ \A c, st : ~Concluded(EmptyFile, c, st)
  BY <1>1 DEF Sound, EmptyFile, Files, Concluded, LinesOf
<1>3. TypeOK
  BY <1>1, <1>2, MaxEpochAssumption DEF Init, TypeOK, Sound, Epochs, TxnStatus, Labels
<1>4. OpOK /\ StoreOK
  BY <1>1 DEF Init, OpOK, StoreOK, Busy
<1>5. JournalOK /\ CurrentOK /\ AdapterOK
  BY <1>2 DEF Init, JournalOK, CurrentOK, AdapterOK, Busy
<1>6. IntentAhead /\ CommittedTrue
  BY <1>2 DEF Init, IntentAhead, Asked, CommittedTrue
<1> QED BY <1>3, <1>4, <1>5, <1>6 DEF IInv

\* Every step keeps it.
LEMMA InvStep == IInv /\ [Next]_vars => IInv'
<1> SUFFICES ASSUME IInv, [Next]_vars PROVE IInv'
  OBVIOUS
<1>1. ASSUME NEW c \in Keys, NEW e \in Effects, Issue(c, e) PROVE IInv'
  BY <1>1, IssueStep
<1>2. ASSUME NEW e \in Effects, NEW target \in Epochs, Refuse(e, target) PROVE IInv'
  BY <1>2, RefuseStep
<1>3. CASE Execute
  BY <1>3, ExecuteBeginStep, JournalPreparedStep, CallExecuteStep, AskConfirmedStep,
     JournalCommittedStep, ClearPendingStep DEF Execute
<1>4. CASE Reconcile
  BY <1>4, ReconcileBeginStep, ReconcileNextStep, ReconcileDecideStep, JournalRefusedStep,
     ForgetPendingStep, AskStatusStep DEF Reconcile
<1>5. CASE Interrupt
  BY <1>5, InterruptStep
<1>6. ASSUME NEW c \in Keys, AdapterFinishes(c) \/ ServeLate(c) PROVE IInv'
  BY <1>6, BackgroundStep
<1>7. CASE UNCHANGED vars
  <2>1. UNCHANGED <<store, external, dropped>> /\ JournalStep
    BY <1>7 DEF vars, JournalStep
  <2>2. OpTypes' /\ OpOK' /\ CurrentOK' /\ OpAdapter' /\ OpJournal'
    BY <1>7 DEF IInv, TypeOK, OpOK, CurrentOK, AdapterOK, JournalOK, OpTypes, OpAdapter,
                OpJournal, Busy, Outdated, Safe, vars, store, external, op
  <2> QED BY <2>1, <2>2, LocalStep
<1> QED BY <1>1, <1>2, <1>3, <1>4, <1>5, <1>6, <1>7 DEF Next

\* The invariant holds in every reachable state.
THEOREM Invariant == Spec => []IInv
BY InvInit, InvStep, PTL DEF Spec

\* Every variable of the module keeps its type.
THEOREM TypeCorrect == Spec => []TypeOK
<1>1. IInv => TypeOK
  BY DEF IInv
<1> QED BY <1>1, Invariant, PTL

\* Nothing is asked of the adapter for an intent the Store does not know durably, and
\* nothing that the journal does not have on record, unless a line of it is torn.
THEOREM IntentAheadAlways == Spec => []IntentAhead
<1>1. IInv => IntentAhead
  BY DEF IInv
<1> QED BY <1>1, Invariant, PTL

\* A COMMITTED record is never false, whatever a crash leaves of the file.
THEOREM CommittedTrueAlways == Spec => []CommittedTrue
<1>1. IInv => CommittedTrue
  BY DEF IInv
<1> QED BY <1>1, Invariant, PTL

----------------------------------------------------------------------------
(* What is asked of the adapter is current *)

\* Only execute makes the adapter know of something new, and the intent it is about is not
\* outdated.
LEMMA AskStep ==
  ASSUME IInv, Next, NEW c \in Keys, ~Asked(c), Asked(c)'
  PROVE  ~Outdated(c)
<1>1. CASE CallExecute
  <2>1. pc = "execute" /\ cur \in Keys
    BY <1>1, CurKnown DEF CallExecute, Busy
  <2>2. /\ \A k \in Keys : k # cur => status'[k] = status[k]
        /\ late' \subseteq late \cup {cur}
    <3>1. CASE Serve(cur) /\ UNCHANGED late
      <4>1. adapter = "attached" => status[cur] = "UNKNOWN"
        BY <2>1 DEF IInv, AdapterOK
      <4> QED BY <2>1, <3>1, <4>1, ServeMoves DEF Served
    <3>2. CASE late' \subseteq late \cup {cur} /\ UNCHANGED status
      BY <3>2
    <3> QED BY <1>1, <3>1, <3>2 DEF CallExecute, Answered, Unanswered
  <2>3. c = cur
    BY <2>2 DEF Asked
  <2> QED BY <2>1, <2>3 DEF IInv, CurrentOK
<1>2. ASSUME NEW k \in Keys, AdapterFinishes(k) \/ ServeLate(k) PROVE FALSE
  <2>1. late' \subseteq late /\ Asked(k)
    BY <1>2 DEF AdapterFinishes, ServeLate, Asked
  <2>2. \A m \in Keys : m # k => status'[m] = status[m]
    <3>1. CASE AdapterFinishes(k)
      BY <3>1 DEF AdapterFinishes, Happens, Becomes, IInv, TypeOK
    <3>2. CASE ServeLate(k)
      <4>1. adapter # "attached" /\ Serve(k)
        BY <3>2 DEF ServeLate, IInv, AdapterOK
      <4> QED BY <4>1, ServeMoves DEF Served
    <3> QED BY <1>2, <3>1, <3>2
  <2> QED BY <2>1, <2>2 DEF Asked
<1>3. CASE UNCHANGED <<status, late>>
  BY <1>3 DEF Asked
<1>4. \/ UNCHANGED <<status, late>>
      \/ CallExecute
      \/ \E k \in Keys : AdapterFinishes(k) \/ ServeLate(k)
  BY DEF Next, Execute, Reconcile, Issue, Refuse, Interrupt, ExecuteBegin, JournalPrepared,
         AskConfirmed, JournalCommitted, ClearPending, ReconcileBegin, ReconcileNext,
         ReconcileDecide, JournalRefused, ForgetPending, AskStatus, external
<1> QED BY <1>1, <1>2, <1>3, <1>4

\* A call, the first or a repeated one, is made for an intent that is not outdated.
LEMMA AsksStep ==
  ASSUME IInv, Next, NEW c \in Keys, Asks(c)
  PROVE  caps[c].effect \notin refused /\ caps[c].epoch = epoch
<1>1. CASE CallExecute /\ cur = c
  <2>1. pc = "execute"
    BY <1>1 DEF CallExecute
  <2> QED BY <1>1, <2>1 DEF IInv, CurrentOK, Outdated
<1>2. CASE ~Asked(c) /\ Asked(c)'
  BY <1>2, AskStep DEF Outdated
<1> QED BY <1>1, <1>2 DEF Asks

\* No call is made of the adapter for a refused effect or an intent of an earlier epoch.
THEOREM NothingAskedTooLateAlways == Spec => NothingAskedTooLate
<1> DEFINE A == \A c \in Keys : Asks(c) =>
                  caps[c].effect \notin refused /\ caps[c].epoch = epoch
<1>1. IInv /\ [Next]_vars => [A]_vars
  <2> SUFFICES ASSUME IInv, Next PROVE A
    OBVIOUS
  <2> QED BY AsksStep
<1> QED BY <1>1, Invariant, PTL DEF Spec, NothingAskedTooLate

----------------------------------------------------------------------------
(* The detailed specification implements the ledger *)

\* An adapter that serves a request for a key of the Store makes a step of the ledger.
LEMMA HappenStep ==
  ASSUME IInv, NEW c \in Keys, c \in consumed, Served(c),
         UNCHANGED <<consumed, pending, dropped>>
  PROVE  Ledger!Next \/ UNCHANGED Ledger!vars
<1> DEFINE phase == [k \in Keys |-> Phase(k)]
<1>1. UNCHANGED phase
  BY DEF Phase
<1>2. phase[c] # "new"
  BY DEF Phase
<1>3. CASE UNCHANGED effects
  BY <1>1, <1>3 DEF Ledger!vars
<1>4. CASE effects[c] = 0 /\ effects' = [effects EXCEPT ![c] = 1]
  BY <1>1, <1>2, <1>4 DEF Ledger!Next, Ledger!Happen
<1> QED BY <1>3, <1>4 DEF Served

\* Opening, concluding and dropping an intent change the phase of its key alone.
LEMMA PhaseStep ==
  ASSUME IInv, NEW c \in Keys, NEW to, Phase(c)' = to, UNCHANGED effects,
         \A k \in Keys : k # c => Phase(k)' = Phase(k)
  PROVE  Ledger!Move(c, Phase(c), to)
<1> DEFINE phase == [k \in Keys |-> Phase(k)]
<1>1. phase' = [phase EXCEPT ![c] = to]
  <2>1. \A k \in Keys : phase'[k] = [phase EXCEPT ![c] = to][k]
    OBVIOUS
  <2>2. phase' = [k \in Keys |-> phase'[k]]
    OBVIOUS
  <2> QED BY <2>1, <2>2
<1>2. phase[c] = Phase(c)
  OBVIOUS
<1> QED BY <1>1, <1>2 DEF Ledger!Move

\* At the start every key is new in the ledger.
LEMMA LedgerInit == Init => Ledger!Init
<1> SUFFICES ASSUME Init PROVE Ledger!Init
  OBVIOUS
<1>1. \A k \in Keys : Phase(k) = "new"
  BY DEF Init, Phase
<1> QED BY <1>1 DEF Init, Ledger!Init

\* Every step of the recoverable path is a step of the ledger, or changes nothing there.
LEMMA LedgerStep == IInv /\ [Next]_vars => [Ledger!Next]_(Ledger!vars)
<1> SUFFICES ASSUME IInv, [Next]_vars PROVE Ledger!Next \/ UNCHANGED Ledger!vars
  OBVIOUS
<1>1. CASE UNCHANGED <<consumed, pending, dropped, effects>>
  <2>1. \A k \in Keys : Phase(k)' = Phase(k)
    BY <1>1 DEF Phase
  <2> QED BY <1>1, <2>1 DEF Ledger!vars
<1>2. ASSUME NEW c \in Keys, ExecuteBegin(c) PROVE Ledger!Next
  <2>1. /\ c \notin consumed /\ consumed' = consumed \cup {c}
        /\ pending' = Append(pending, c) /\ UNCHANGED <<dropped, effects>>
    BY <1>2 DEF ExecuteBegin, external
  <2>2. \A x : InList(pending', x) <=> x = c \/ InList(pending, x)
    BY <2>1, AppendList DEF IInv, TypeOK
  <2>3. Phase(c) = "new" /\ Phase(c)' = "open"
    BY <2>1, <2>2 DEF Phase
  <2>4. \A k \in Keys : k # c => Phase(k)' = Phase(k)
    BY <2>1, <2>2 DEF Phase
  <2>5. Ledger!Move(c, "new", "open")
    BY <2>1, <2>3, <2>4, PhaseStep
  <2> QED BY <2>5 DEF Ledger!Next, Ledger!Open
<1>3. CASE CallExecute
  <2>1. /\ pc = "execute" /\ Busy /\ UNCHANGED <<consumed, pending, dropped>>
        /\ (adapter = "attached" => status[cur] = "UNKNOWN")
    BY <1>3 DEF CallExecute, Busy, store, IInv, AdapterOK
  <2>2. cur \in Keys /\ cur \in consumed
    BY <2>1, CurKnown
  <2>3. Served(cur)
    BY <1>3, <2>1, <2>2, ServeMoves, AdapterMoves DEF CallExecute, Answered, Unanswered
  <2> QED BY <2>1, <2>2, <2>3, HappenStep
<1>4. ASSUME NEW c \in Keys, AdapterFinishes(c) \/ ServeLate(c)
      PROVE  Ledger!Next \/ UNCHANGED Ledger!vars
  <2>1. c \in consumed /\ UNCHANGED <<consumed, pending, dropped>>
    BY <1>4 DEF AdapterFinishes, ServeLate, IInv, IntentAhead, Asked, store
  <2>2. CASE AdapterFinishes(c)
    <3>1. status[c] # "COMMITTED" /\ (Happens(c) \/ Becomes(c, "FAILED"))
      BY <2>2 DEF AdapterFinishes
    <3> QED BY <2>1, <3>1, AdapterMoves, HappenStep
  <2>3. CASE ServeLate(c)
    <3>1. adapter # "attached" /\ Serve(c)
      BY <2>3 DEF ServeLate, IInv, AdapterOK
    <3> QED BY <2>1, <3>1, ServeMoves, HappenStep
  <2> QED BY <1>4, <2>2, <2>3
<1>5. CASE ClearPending \/ ForgetPending
  <2>1. /\ Busy /\ DropIntent /\ UNCHANGED <<journal, external>>
        /\ pc = "clear" => status[cur] = "COMMITTED"
    BY <1>5 DEF ClearPending, ForgetPending, Busy, IInv, AdapterOK
  <2>2. PICK c \in Keys : c = cur
    BY <2>1, CurKnown
  <2>3. /\ \A x : InList(pending', x) <=> x # c /\ InList(pending, x)
        /\ UNCHANGED consumed
    BY <2>1, <2>2, DropIntentMoves
  <2>4. c \in consumed /\ InList(pending, c) /\ c \notin dropped
    BY <2>1, <2>2, CurKnown DEF IInv, OpOK, StoreOK
  <2>5. Phase(c) = "open" /\ UNCHANGED effects
    BY <2>1, <2>4 DEF Phase, external
  <2>6. \A k \in Keys : k # c => Phase(k)' = Phase(k)
    <3>1. dropped' \ {c} = dropped \ {c}
      BY <1>5, <2>2 DEF ClearPending, ForgetPending
    <3> QED BY <2>3, <3>1 DEF Phase
  <2>7. CASE ClearPending
    <3>1. Phase(c)' = "done"
      BY <2>3, <2>4, <2>7 DEF ClearPending, Phase
    <3>2. effects[c] = 1
      BY <2>1, <2>2, <2>7 DEF ClearPending, IInv, AdapterOK
    <3>3. Ledger!Move(c, "open", "done")
      BY <2>5, <2>6, <3>1, PhaseStep
    <3> QED BY <3>2, <3>3 DEF Ledger!Next, Ledger!Conclude
  <2>8. CASE ForgetPending
    <3>1. Phase(c)' = "dropped"
      BY <2>2, <2>3, <2>4, <2>8 DEF ForgetPending, Phase
    <3>2. Ledger!Move(c, "open", "dropped")
      BY <2>5, <2>6, <3>1, PhaseStep
    <3> QED BY <3>2 DEF Ledger!Next, Ledger!Drop
  <2> QED BY <1>5, <2>7, <2>8
<1>6. \/ UNCHANGED <<consumed, pending, dropped, effects>>
      \/ \E c \in Keys : ExecuteBegin(c)
      \/ CallExecute
      \/ \E c \in Keys : AdapterFinishes(c) \/ ServeLate(c)
      \/ ClearPending \/ ForgetPending
  BY DEF Next, Execute, Reconcile, Issue, Refuse, Interrupt, JournalPrepared, AskConfirmed,
         JournalCommitted, ReconcileBegin, ReconcileNext, ReconcileDecide, JournalRefused,
         AskStatus, vars, store, external
<1> QED BY <1>1, <1>2, <1>3, <1>4, <1>5, <1>6

\* The whole path, with its crashes and for either kind of adapter, implements the ledger.
THEOREM Refinement == Spec => ImplementsLedger
BY LedgerInit, LedgerStep, Invariant, PTL DEF Spec, ImplementsLedger, Ledger!Spec
=============================================================================
