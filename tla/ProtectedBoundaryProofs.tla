------------------------- MODULE ProtectedBoundaryProofs -------------------------
(***************************************************************************)
(* What holds of ProtectedBoundary for any number of capabilities, effects,    *)
(* outcomes, refusal ids, other clients and epochs, proved with TLAPS.        *)
(*                                                                         *)
(* The argument: the Store lock keeps every other operation away, so the       *)
(* intent an operation is about stays on the pending list until the operation  *)
(* takes it off (OpOK).  An append may tear lines of the journal anywhere; a   *)
(* record that was written is lost only if some line of the file is torn, and  *)
(* a torn line never becomes whole again (SafeIn, EndedIn).  So what the       *)
(* operation took for recorded is on record while the lines are whole          *)
(* (OpFacts).  The authority moves meanwhile, but what a caller has learnt     *)
(* from it is final: an outcome that is produced stays produced by the same    *)
(* key, and a refused one stays refused with its fence where it is (Pinned,    *)
(* Final).                                                                  *)
(***************************************************************************)
EXTENDS ProtectedBoundary, IntentProofs

----------------------------------------------------------------------------
(* The invariant *)

\* The labels of an operation about an effect intent, and about a refusal intent.
Executing ==
  pc \in {"prepare", "is_refused", "current_fence", "commit", "journal", "clear",
          "decide", "journal_refused"}
Refusing ==
  pc \in {"refusal_fence", "refusal_query", "refuse", "confirm", "confirm_fence", "publish"}

\* The operation that holds the Store lock.
OpOK ==
  /\ pc = "free" <=> mode = "none"
  /\ mode # "reconcile" => todo = <<>>
  /\ pc = "prepare" => mode = "execute"
  /\ pc \in {"next", "decide", "journal_refused"} => mode = "reconcile"
  /\ Executing => mode # "refuse" /\ InList(pending, cur) /\ ~InList(todo, cur)
  /\ Refusing => mode = "refuse" /\ cur \in Refusal /\ cur.outcome \in Outcomes
  /\ Once(todo)
  /\ \A c \in Keys : InList(todo, c) => InList(pending, c)

\* An intent on the list was used up; what was used up was issued here, in an epoch that is
\* not ahead of the Store's.
StoreOK ==
  /\ Once(pending)
  /\ \A c \in Keys : InList(pending, c) => c \in consumed
  /\ \A c \in consumed : caps[c] # None
  /\ \A c \in Keys : caps[c] # None => caps[c].epoch <= epoch

\* Why an intent may leave the list: the authority holds its outcome under its key, or it
\* was given up as refused or outdated.
Settled(c) == produced[caps[c].outcome] = c \/ Outdated(c)

\* The journal concludes nothing but what was used up.
JournalOK ==
  /\ Sound(journal)
  /\ \A c, st : Concluded(journal, c, st) => c \in consumed

\* A refusal pins its outcome.
Pinned ==
  \A o \in Outcomes : refused[o] # None =>
    produced[o] = None /\ fence[o] = refused[o].epoch

\* What the operation under way has seen or was told is still so: what it took for recorded
\* is on record while the lines are whole, and the refusal it is about is not yet published
\* or was published before.
OpFacts ==
  /\ \A c \in known : SafeIn(journal, c)
  /\ Executing /\ pc # "prepare" => SafeIn(journal, cur)
  /\ pc = "journal" => produced[caps[cur].outcome] = cur
  /\ pc = "journal_refused" => Outdated(cur)
  /\ pc = "clear" => EndedIn(journal, cur) /\ Settled(cur)
  /\ Refusing => cur.target > epoch \/ HasRefusal(cur)
  /\ pc \in {"confirm_fence", "publish"} => refused[cur.outcome] # None
  /\ pc = "publish" => fence[cur.outcome] = cur.target /\ ~HasRefusal(cur)

IInv ==
  /\ TypeOK
  /\ OpOK
  /\ StoreOK
  /\ JournalOK
  /\ Pinned
  /\ OpFacts
  /\ \A r \in sealed : r.outcome \in Outcomes
  /\ WriteAhead
  /\ NoneForgotten
  /\ JournalTrue
  /\ SealedNeverProduced

----------------------------------------------------------------------------
(* The authority *)

AuthorityTypes ==
  /\ fence \in [Outcomes -> Epochs]
  /\ refused \in [Outcomes -> [epoch : Epochs, id : Ids] \cup {None}]
  /\ produced \in [Outcomes -> Ids \cup {None}]

\* Whatever is asked of it and by whom: what is produced or refused stays so.
Final ==
  /\ \A o \in Outcomes : produced[o] # None => produced'[o] = produced[o]
  /\ \A o \in Outcomes : refused[o] # None =>
       refused'[o] = refused[o] /\ fence'[o] = fence[o]

Moves == AuthorityTypes' /\ Pinned' /\ Final

\* The authority is not asked, or not asked to change anything.
LEMMA SameAuthority ==
  ASSUME IInv, UNCHANGED authority
  PROVE  Moves
BY DEF IInv, TypeOK, Moves, AuthorityTypes, Pinned, Final, authority

\* What serving a request does: nothing; or its outcome is produced by its key; or
\* refused by its id.
LEMMA ServeMoves ==
  ASSUME IInv, NEW m \in Request, Serve(m)
  PROVE  /\ Moves
         /\ \A o \in Outcomes : produced'[o] = produced[o]
                                \/ (m.op = "commit" /\ produced'[o] = m.id)
         /\ m.op = "commit" /\ Accepted(m) => produced'[m.outcome] = m.id
<1> DEFINE o == m.outcome
<1>1. o \in Outcomes /\ m.epoch \in Epochs /\ m.id \in Ids /\ m.op \in {"commit", "refuse"}
  BY DEF Request
<1>2. AuthorityTypes /\ Pinned
  BY DEF IInv, TypeOK, AuthorityTypes
<1>3. CASE ~Accepted(m) /\ UNCHANGED authority
  BY <1>3, SameAuthority DEF authority
<1>4. CASE /\ m.op = "commit" /\ Accepted(m)
           /\ produced' = [produced EXCEPT ![o] = m.id] /\ UNCHANGED <<fence, refused>>
  <2>1. /\ refused[o] = None /\ (produced[o] = m.id \/ produced[o] = None)
    BY <1>4 DEF Accepted, CommitAccepted
  <2>2. AuthorityTypes'
    BY <1>1, <1>2, <1>4 DEF AuthorityTypes
  <2>3. Pinned' /\ Final
    BY <1>1, <1>2, <1>4, <2>1 DEF AuthorityTypes, Pinned, Final
  <2> QED BY <1>1, <1>2, <1>4, <2>2, <2>3 DEF Moves, AuthorityTypes
<1>5. CASE /\ m.op = "refuse" /\ Accepted(m)
           /\ fence' = [fence EXCEPT ![o] = m.epoch]
           /\ refused' = [refused EXCEPT ![o] = [epoch |-> m.epoch, id |-> m.id]]
           /\ UNCHANGED produced
  <2> DEFINE r == [epoch |-> m.epoch, id |-> m.id]
  <2>1. refused[o] = r \/ (refused[o] = None /\ produced[o] = None)
    BY <1>5 DEF Accepted, RefuseAccepted
  <2>2. r \in [epoch : Epochs, id : Ids] /\ r.epoch = m.epoch
    BY <1>1
  <2> HIDE DEF r
  <2>3. refused' = [refused EXCEPT ![o] = r]
    BY <1>5 DEF r
  <2>4. AuthorityTypes'
    BY <1>1, <1>2, <1>5, <2>2, <2>3 DEF AuthorityTypes
  <2>5. refused'[o] = r /\ fence'[o] = m.epoch
        /\ \A p \in Outcomes : p # o => refused'[p] = refused[p] /\ fence'[p] = fence[p]
    BY <1>1, <1>2, <1>5, <2>3 DEF AuthorityTypes
  <2>6. Pinned'
    BY <1>2, <1>5, <2>1, <2>2, <2>5 DEF Pinned
  <2>7. Final
    BY <1>2, <1>5, <2>1, <2>2, <2>5 DEF Pinned, Final
  <2> QED BY <1>5, <2>4, <2>6, <2>7 DEF Moves
<1> QED BY <1>3, <1>4, <1>5 DEF Serve

\* The fence of an outcome that is not refused moves for whoever deploys.
LEMMA FenceMoves ==
  ASSUME IInv, NEW o \in Outcomes, NEW e \in Epochs, OtherFence(o, e)
  PROVE  Moves
<1>1. AuthorityTypes /\ Pinned
  BY DEF IInv, TypeOK, AuthorityTypes
<1> QED BY <1>1 DEF OtherFence, Moves, AuthorityTypes, Pinned, Final

\* A request of this boundary is answered, and the caller goes on when it was accepted;
\* or the caller gives up, and it may still be served later.
LEMMA CallMoves ==
  ASSUME IInv, NEW m \in Request, NEW label, Call(m, label)
  PROVE  /\ Moves
         /\ \A o \in Outcomes : produced'[o] = produced[o]
                                \/ (m.op = "commit" /\ produced'[o] = m.id)
         /\ late' \subseteq late \cup {m}
         /\ \/ Finish
            \/ Step(label) /\ (m.op = "commit" => produced'[m.outcome] = m.id)
<1>1. CASE Serve(m) /\ UNCHANGED late /\ (IF Accepted(m) THEN Step(label) ELSE Finish)
  BY <1>1, ServeMoves
<1>2. CASE Serve(m) /\ UNCHANGED late /\ Finish
  BY <1>2, ServeMoves
<1>3. CASE UNCHANGED authority /\ late' = late \cup {m} /\ Finish
  BY <1>3, SameAuthority DEF authority
<1> QED BY <1>1, <1>2, <1>3 DEF Call, Answered, Unanswered, GiveUp

----------------------------------------------------------------------------
(* The parts of a step *)

\* The intent an operation is about was used up, and its capability exists.
LEMMA CurKnown ==
  ASSUME IInv, Executing
  PROVE  cur \in Keys /\ cur \in consumed /\ caps[cur] \in Capability
<1>1. InList(pending, cur) /\ pending \in Seq(Keys)
  BY DEF IInv, OpOK, TypeOK
<1>2. cur \in Keys
  BY <1>1, ListType
<1>3. cur \in consumed /\ caps[cur] # None
  BY <1>1, <1>2 DEF IInv, StoreOK
<1> QED BY <1>2, <1>3 DEF IInv, TypeOK

\* Epochs rise and refusals stay.
Grows ==
  /\ epoch' \in Epochs /\ epoch' >= epoch
  /\ refusals' \subseteq Refusal /\ refusals \subseteq refusals'

\* So what is refused or outdated remains so.
LEMMA OutdatedStays ==
  ASSUME IInv, Grows, NEW c \in consumed, caps'[c] = caps[c], Outdated(c)
  PROVE  Outdated(c)'
<1>1. caps[c] \in Capability /\ caps[c].epoch <= epoch /\ epoch \in Epochs
  BY DEF IInv, TypeOK, StoreOK
<1>2. caps[c].epoch \in Nat /\ epoch \in Nat /\ epoch' \in Nat
  BY <1>1, MaxEpochAssumption DEF Capability, Epochs, Grows
<1>3. CASE LocallyRefused(c)
  BY <1>3 DEF LocallyRefused, Outdated, Grows
<1>4. CASE caps[c].epoch # epoch
  BY <1>1, <1>2, <1>4 DEF Outdated, Grows
<1> QED BY <1>3, <1>4 DEF Outdated

\* What a step writes to the journal: nothing; or all or a part of a record about an intent
\* on the list, which says COMMITTED only if the authority has said so.
JournalStep ==
  \/ UNCHANGED journal
  \/ \E r \in Records :
       /\ journal' \in AppendFailed(journal, r)
       /\ InList(pending, r.key)
       /\ r.status = "COMMITTED" => produced[caps[r.key].outcome] = r.key

\* What the journal said remains said, as long as its lines are whole.
LEMMA JournalSays ==
  ASSUME IInv, JournalStep
  PROVE  /\ Sound(journal)'
         /\ \A c : SafeIn(journal, c) => SafeIn(journal', c)
         /\ \A c : EndedIn(journal, c) => EndedIn(journal', c)
<1>1. CASE UNCHANGED journal
  BY <1>1 DEF IInv, JournalOK, Sound
<1>2. ASSUME NEW r \in Records, journal' \in AppendFailed(journal, r)
      PROVE  /\ Sound(journal)'
             /\ \A c : SafeIn(journal, c) => SafeIn(journal', c)
             /\ \A c : EndedIn(journal, c) => EndedIn(journal', c)
  <2>1. Sound(journal') /\ Continues(journal, journal', r)
    BY <1>2, AppendContinues DEF IInv, JournalOK
  <2> QED BY <2>1 DEF Continues, Sound
<1> QED BY <1>1, <1>2 DEF JournalStep

\* What it concludes is used up, and true when it says COMMITTED.
LEMMA JournalConcludes ==
  ASSUME IInv, JournalStep, NEW c, NEW st, Concluded(journal', c, st)
  PROVE  c \in consumed /\ (st = "COMMITTED" => produced[caps[c].outcome] = c)
<1>1. CASE Concluded(journal, c, st)
  <2>1. c \in consumed /\ c \in Keys
    BY <1>1 DEF IInv, JournalOK, TypeOK
  <2> QED BY <1>1, <2>1 DEF IInv, JournalTrue
<1>2. CASE ~Concluded(journal, c, st)
  <2>1. PICK r \in Records :
          /\ journal' \in AppendFailed(journal, r)
          /\ InList(pending, r.key)
          /\ r.status = "COMMITTED" => produced[caps[r.key].outcome] = r.key
    BY <1>2 DEF JournalStep
  <2>2. r.key = c /\ r.status = st
    <3>1. Continues(journal, journal', r)
      BY <2>1, AppendContinues DEF IInv, JournalOK
    <3> QED BY <1>2, <3>1 DEF Continues
  <2>3. c \in Keys
    BY <2>2 DEF Records
  <2> QED BY <2>1, <2>2, <2>3 DEF IInv, StoreOK
<1> QED BY <1>1, <1>2

\* What is produced or given up stays so, and the last words about whatever has left the
\* list stay said and true.
LEMMA JournalKept ==
  ASSUME IInv, JournalStep, Final, Grows, UNCHANGED <<caps, consumed, pending>>
  PROVE  JournalOK' /\ NoneForgotten' /\ JournalTrue'
<1>1. ASSUME NEW c \in consumed, produced[caps[c].outcome] = c
      PROVE  produced'[caps'[c].outcome] = c
  <2>1. caps[c].outcome \in Outcomes /\ c # None
    BY NoneAssumption DEF IInv, TypeOK, StoreOK, Capability
  <2> QED BY <1>1, <2>1 DEF Final
<1>2. JournalOK'
  BY JournalSays, JournalConcludes DEF JournalOK
<1>3. JournalTrue'
  BY <1>1, JournalConcludes DEF JournalTrue
<1>4. NoneForgotten'
  <2> SUFFICES ASSUME NEW c \in consumed, ~InList(pending, c)
               PROVE  /\ produced'[caps'[c].outcome] = c \/ Outdated(c)'
                      /\ EndedIn(journal', c)
    BY DEF NoneForgotten, EndedIn
  <2>1. /\ produced[caps[c].outcome] = c \/ Outdated(c)
        /\ EndedIn(journal, c)
    BY DEF IInv, NoneForgotten, EndedIn
  <2>2. EndedIn(journal', c)
    BY <2>1, JournalSays
  <2>3. Outdated(c) => Outdated(c)'
    BY OutdatedStays
  <2> QED BY <1>1, <2>1, <2>2, <2>3
<1> QED BY <1>2, <1>3, <1>4

\* Appended is one of the outcomes of an append, the one that leaves the record there.
LEMMA AppendedStep ==
  ASSUME IInv, NEW c \in Keys, NEW st \in Statuses, InList(pending, c),
         journal' = Appended(journal, Record(c, st)),
         st = "COMMITTED" => produced[caps[c].outcome] = c
  PROVE  /\ JournalStep /\ SafeIn(journal', c)
         /\ st \in {"COMMITTED", "REFUSED"} => EndedIn(journal', c)
<1> DEFINE r == Record(c, st)
<1>1. r \in Records /\ r.key = c /\ r.status = st
  BY RecordIs
<1> HIDE DEF r
<1>2. JournalStep
  BY <1>1 DEF JournalStep, AppendFailed, r
<1>3. Whole(journal') => Recorded(journal', c) /\ Concluded(journal', c, st)
  BY <1>1, SaidNew DEF IInv, JournalOK, r
<1> QED BY <1>2, <1>3 DEF SafeIn, EndedIn

\* The types of what the operation under way keeps.
OpTypes ==
  /\ pc \in Labels
  /\ mode \in {"none", "execute", "reconcile", "refuse"}
  /\ cur \in Keys \cup Refusal \cup {None}
  /\ todo \in Seq(Keys)
  /\ known \subseteq Keys

\* What is sent is on record, or is the request of a recorded intent.
SentKnown == \A c \in Keys : Sent(c)' => Sent(c) \/ (c \in consumed /\ SafeIn(journal, c))

\* What commit_protected returns is refused at its target.
SealedKnown ==
  \A r \in sealed' \ sealed :
    r \in Refusal /\ r.outcome \in Outcomes
    /\ refused[r.outcome] # None /\ fence[r.outcome] = r.target

\* Every step but those that add a capability or an intent, or take an intent away.
LEMMA StepKeeps ==
  ASSUME IInv, UNCHANGED <<caps, consumed, pending>>, Grows,
         intents' \subseteq Refusal, late' \subseteq Request,
         Moves, JournalStep, SentKnown, SealedKnown,
         OpTypes', OpOK', OpFacts'
  PROVE  IInv'
<1>1. JournalOK' /\ NoneForgotten' /\ JournalTrue'
  BY JournalKept DEF Moves
<1>2. TypeOK'
  BY <1>1 DEF IInv, TypeOK, Moves, AuthorityTypes, OpTypes, SealedKnown, Grows, JournalOK,
              Sound
<1>3. StoreOK'
  <2>1. \A c \in Keys : caps[c] # None => caps[c].epoch <= epoch'
    <3> SUFFICES ASSUME NEW c \in Keys, caps[c] # None PROVE caps[c].epoch <= epoch'
      OBVIOUS
    <3>1. caps[c].epoch <= epoch /\ caps[c].epoch \in Nat /\ epoch \in Nat /\ epoch' \in Nat
      BY MaxEpochAssumption DEF IInv, TypeOK, StoreOK, Capability, Epochs, Grows
    <3> QED BY <3>1 DEF Grows
  <2> QED BY <2>1 DEF IInv, StoreOK
<1>4. WriteAhead'
  <2> SUFFICES ASSUME NEW c \in Keys, Sent(c)' PROVE c \in consumed /\ SafeIn(journal', c)
    BY DEF WriteAhead, SafeIn
  <2>1. c \in consumed /\ SafeIn(journal, c)
    BY DEF SentKnown, IInv, WriteAhead, SafeIn
  <2> QED BY <2>1, JournalSays
<1>5. ASSUME NEW r \in sealed'
      PROVE  /\ r.outcome \in Outcomes /\ refused[r.outcome] # None
             /\ fence[r.outcome] = r.target
  BY <1>5 DEF SealedKnown, IInv, SealedNeverProduced
<1>6. SealedNeverProduced'
  BY <1>5 DEF SealedNeverProduced, Moves, Final, Pinned
<1> QED BY <1>1, <1>2, <1>3, <1>4, <1>5, <1>6 DEF IInv, Moves

\* A step of others leaves the operation where it is, and what it knows remains true.
LEMMA OpUntouched ==
  ASSUME IInv, UNCHANGED <<op, store, journal>>, Moves
  PROVE  OpTypes' /\ OpOK' /\ OpFacts'
<1>1. OpTypes' /\ OpOK'
  BY DEF IInv, TypeOK, OpTypes, OpOK, Executing, Refusing, op, store
<1>2. Executing => cur \in Keys /\ caps[cur].outcome \in Outcomes
  BY CurKnown DEF Capability
<1>3. Refusing => cur.outcome \in Outcomes
  BY DEF IInv, OpOK
<1>4. (Executing' <=> Executing) /\ (Refusing' <=> Refusing)
  BY DEF Executing, Refusing, op
<1>5. Executing /\ produced[caps[cur].outcome] = cur => produced'[caps[cur].outcome] = cur
  BY <1>2, NoneAssumption DEF Moves, Final
<1>6. /\ pc \in {"confirm_fence", "publish"} => refused'[cur.outcome] # None
      /\ pc = "publish" => fence'[cur.outcome] = cur.target
  BY <1>3 DEF IInv, OpFacts, Moves, Final, Refusing
<1>7. /\ Outdated(cur)' = Outdated(cur) /\ HasRefusal(cur)' = HasRefusal(cur)
  BY DEF Outdated, LocallyRefused, HasRefusal, op, store
<1>8. pc = "clear" => Settled(cur)'
  <2>1. pc = "clear" => produced'[caps[cur].outcome] = cur \/ Outdated(cur)
    BY <1>5 DEF IInv, OpFacts, Settled, Executing
  <2> QED BY <1>7, <2>1 DEF Settled, op, store
<1> QED BY <1>1, <1>4, <1>5, <1>6, <1>7, <1>8 DEF IInv, OpFacts, Executing, op, store

\* When an operation ends, what concerned only the operation is over.
LEMMA Finished ==
  ASSUME Finish
  PROVE  OpTypes' /\ OpOK' /\ OpFacts'
<1>1. /\ pc' = "free" /\ mode' = "none" /\ cur' = None /\ todo' = <<>> /\ known' = {}
      /\ ~Executing' /\ ~Refusing'
  BY DEF Finish, Executing, Refusing
<1>2. todo' \in Seq(Keys) /\ Once(todo') /\ \A c : ~InList(todo', c)
  BY <1>1, EmptyList
<1> QED BY <1>1, <1>2 DEF OpTypes, OpOK, OpFacts, Labels

\* The next step of an operation about the same effect intent, which perhaps validated the
\* journal.
LEMMA ExecuteGoesOn ==
  ASSUME IInv, Executing, UNCHANGED <<store, mode, cur, todo>>, JournalStep,
         NEW label \in {"is_refused", "current_fence", "commit", "journal", "clear",
                        "journal_refused"}, pc' = label,
         known' \in {known, KnownKeys(journal')},
         pc = "prepare" => SafeIn(journal', cur),
         label = "journal_refused" => mode = "reconcile" /\ Outdated(cur),
         label = "clear" => /\ EndedIn(journal', cur)
                            /\ produced'[caps[cur].outcome] = cur \/ Outdated(cur),
         label = "journal" => produced'[caps[cur].outcome] = cur
  PROVE  OpTypes' /\ OpOK' /\ OpFacts'
<1>1. Executing' /\ ~Refusing'
  BY DEF Executing, Refusing
<1>2. known' \subseteq Keys /\ \A c \in known' : SafeIn(journal', c)
  <2>1. CASE known' = known
    BY <2>1, JournalSays DEF IInv, TypeOK, OpFacts
  <2>2. CASE known' = KnownKeys(journal')
    BY <2>2 DEF KnownKeys, SafeIn
  <2> QED BY <2>1, <2>2
<1>3. SafeIn(journal', cur)
  BY JournalSays DEF IInv, OpFacts
<1>4. OpTypes'
  BY <1>2 DEF IInv, TypeOK, OpTypes, Labels
<1>5. OpOK'
  BY <1>1 DEF IInv, OpOK, Executing, store
<1>6. label = "journal_refused" => Outdated(cur)'
  BY DEF Outdated, LocallyRefused, store
<1>7. label = "clear" => Settled(cur)'
  <2>1. Outdated(cur)' = Outdated(cur)
    BY DEF Outdated, LocallyRefused, store
  <2> QED BY <2>1 DEF Settled, store
<1>8. OpFacts'
  BY <1>1, <1>2, <1>3, <1>6, <1>7 DEF OpFacts, store
<1> QED BY <1>4, <1>5, <1>8

\* The next step of an operation about the same refusal intent.
LEMMA RefusalGoesOn ==
  ASSUME IInv, Refusing, UNCHANGED <<store, journal>>,
         NEW label \in {"refusal_query", "refuse", "confirm", "confirm_fence", "publish"},
         Step(label),
         label \in {"confirm_fence", "publish"} => refused'[cur.outcome] # None,
         label = "publish" => fence'[cur.outcome] = cur.target /\ ~HasRefusal(cur)
  PROVE  OpTypes' /\ OpOK' /\ OpFacts'
<1>1. pc' = label /\ UNCHANGED <<mode, cur, todo, known>> /\ Refusing' /\ ~Executing'
  BY DEF Step, Executing, Refusing
<1>2. OpTypes'
  BY <1>1 DEF IInv, TypeOK, OpTypes, Labels
<1>3. OpOK'
  BY <1>1 DEF IInv, OpOK, Refusing, store
<1>4. HasRefusal(cur)' = HasRefusal(cur)
  BY <1>1 DEF HasRefusal, store
<1>5. OpFacts'
  BY <1>1, <1>4 DEF IInv, OpFacts, store
<1> QED BY <1>2, <1>3, <1>5

\* A step that only moves the operation on, perhaps after an append.
LEMMA QuietStep ==
  ASSUME IInv, UNCHANGED <<store, intents, authority, late, sealed>>, JournalStep,
         OpTypes', OpOK', OpFacts'
  PROVE  IInv'
<1>1. Moves
  BY SameAuthority
<1>2. /\ UNCHANGED <<caps, consumed, pending>> /\ Grows
      /\ intents' \subseteq Refusal /\ late' \subseteq Request
  <2>1. epoch \in Epochs /\ epoch' = epoch /\ epoch >= epoch
    BY MaxEpochAssumption DEF IInv, TypeOK, Epochs, store
  <2> QED BY <2>1 DEF IInv, TypeOK, Grows, store
<1>3. SentKnown
  BY DEF SentKnown, Sent, authority
<1>4. SealedKnown
  BY DEF SealedKnown
<1> QED BY <1>1, <1>2, <1>3, <1>4, StepKeeps

\* A step between operations: nothing is sent, sealed or journaled.
LEMMA FreeStep ==
  ASSUME IInv, pc = "free",
         UNCHANGED <<caps, consumed, pending, journal, authority, late, op, sealed>>,
         Grows, intents' \subseteq Refusal
  PROVE  IInv'
<1>1. Moves
  BY SameAuthority
<1>2. ~Executing' /\ ~Refusing' /\ pc' = "free" /\ UNCHANGED <<mode, cur, todo, known>>
  BY DEF Executing, Refusing, op
<1>3. OpTypes' /\ OpOK' /\ OpFacts'
  BY <1>2 DEF IInv, TypeOK, OpTypes, OpOK, OpFacts
<1>4. SentKnown /\ SealedKnown /\ late' \subseteq Request
  BY DEF SentKnown, Sent, authority, SealedKnown, IInv, TypeOK
<1>5. JournalStep
  BY DEF JournalStep
<1> QED BY <1>1, <1>3, <1>4, <1>5, StepKeeps

----------------------------------------------------------------------------
(* Issuing: one lemma per action *)

\* An issue outside the protected path moves the epoch.
LEMMA IssueOtherStep ==
  ASSUME IInv, IssueOther
  PROVE  IInv'
<1>1. /\ pc = "free" /\ epoch < MaxEpoch /\ epoch' = epoch + 1 /\ refusals' = refusals
      /\ UNCHANGED <<caps, consumed, pending, journal, intents, authority, late, op, sealed>>
  BY DEF IssueOther, NextEpoch, KeptRefusals
<1>2. Grows
  BY <1>1, MaxEpochAssumption DEF IInv, TypeOK, Epochs, Grows
<1> QED BY <1>1, <1>2, FreeStep DEF IInv, TypeOK

\* A refusal intent is handed out.
LEMMA IssueRefusalStep ==
  ASSUME IInv, NEW r \in Refusal, IssueRefusal(r)
  PROVE  IInv'
<1>1. /\ pc = "free" /\ intents' = intents \cup {r}
      /\ UNCHANGED <<store, journal, authority, late, op, sealed>>
  BY DEF IssueRefusal
<1>2. Grows
  BY <1>1, MaxEpochAssumption DEF IInv, TypeOK, Epochs, Grows, store
<1> QED BY <1>1, <1>2, FreeStep DEF IInv, TypeOK, store

\* A published refusal moves the epoch to its target.
LEMMA PublishGrows ==
  ASSUME IInv, NEW r \in Refusal, r.target > epoch, epoch' = r.target,
         refusals' = WithRefusal(r)
  PROVE  Grows
<1>1. r.target \in Epochs /\ epoch \in Epochs /\ refusals \subseteq Refusal
  BY DEF Refusal, IInv, TypeOK
<1>2. epoch' >= epoch
  BY <1>1, MaxEpochAssumption DEF Epochs
<1>3. refusals' \subseteq Refusal /\ refusals \subseteq refusals'
  BY <1>1 DEF WithRefusal
<1> QED BY <1>1, <1>2, <1>3 DEF Grows

\* A refusal that is published locally moves the epoch to its target.
LEMMA PublishLocalStep ==
  ASSUME IInv, NEW r \in Refusal, PublishLocal(r)
  PROVE  IInv'
<1>1. /\ pc = "free" /\ r.target > epoch /\ epoch' = r.target /\ refusals' = WithRefusal(r)
      /\ UNCHANGED <<caps, consumed, pending, journal, intents, authority, late, op, sealed>>
  BY DEF PublishLocal
<1>2. Grows
  BY <1>1, PublishGrows
<1> QED BY <1>1, <1>2, FreeStep DEF IInv, TypeOK

\* A new capability changes nothing for those that were issued before.
LEMMA IssueProtectedStep ==
  ASSUME IInv, NEW c \in Keys, NEW eff \in Effects, NEW o \in Outcomes,
         IssueProtected(c, eff, o)
  PROVE  IInv'
<1> DEFINE k == [effect |-> eff, outcome |-> o, epoch |-> epoch + 1]
<1>1. /\ pc = "free" /\ caps[c] = None /\ epoch < MaxEpoch /\ epoch' = epoch + 1
      /\ caps' = [caps EXCEPT ![c] = k] /\ refusals' = refusals
      /\ UNCHANGED <<consumed, pending, journal, intents, authority, late, op, sealed>>
  BY DEF IssueProtected, NextEpoch, KeptRefusals
<1>2. Grows /\ epoch + 1 \in Epochs /\ epoch \in Nat
  BY <1>1, MaxEpochAssumption DEF IInv, TypeOK, Epochs, Grows
<1>3. k \in Capability /\ k.epoch = epoch + 1
  BY <1>2 DEF Capability
<1>4. c \notin consumed
  BY <1>1 DEF IInv, StoreOK
<1> HIDE DEF k
<1>5. caps' \in [Keys -> Capability \cup {None}]
  BY <1>1, <1>3 DEF IInv, TypeOK
<1>6. /\ \A x \in consumed : caps'[x] = caps[x]
      /\ \A x \in Keys : caps'[x] = IF x = c THEN k ELSE caps[x]
  BY <1>1, <1>4 DEF IInv, TypeOK
<1>7. TypeOK'
  BY <1>1, <1>2, <1>5 DEF IInv, TypeOK, authority, op
<1>8. StoreOK'
  <2>1. ASSUME NEW x \in Keys, caps'[x] # None PROVE caps'[x].epoch <= epoch + 1
    <3>1. CASE x = c
      BY <1>2, <1>3, <1>6, <3>1
    <3>2. CASE x # c
      <4>1. caps[x] \in Capability /\ caps[x].epoch <= epoch /\ caps'[x] = caps[x]
        BY <1>6, <2>1, <3>2 DEF IInv, StoreOK, TypeOK
      <4>2. caps[x].epoch \in Nat
        BY <4>1, MaxEpochAssumption DEF Capability, Epochs
      <4> QED BY <1>2, <4>1, <4>2
    <3> QED BY <3>1, <3>2
  <2> QED BY <1>1, <1>6, <2>1 DEF IInv, StoreOK
<1>9. OpOK' /\ OpFacts'
  BY <1>1 DEF IInv, OpOK, OpFacts, Executing, Refusing, op
<1>10. JournalOK'
  BY <1>1 DEF IInv, JournalOK, Sound
<1>11. Pinned' /\ SealedNeverProduced' /\ \A r \in sealed' : r.outcome \in Outcomes
  BY <1>1 DEF IInv, Pinned, SealedNeverProduced, authority
<1>12. WriteAhead'
  BY <1>1 DEF IInv, WriteAhead, Sent, authority
<1>13. NoneForgotten'
  <2>1. \A x \in consumed : Outdated(x) => Outdated(x)'
    BY <1>2, <1>6, OutdatedStays
  <2> QED BY <1>1, <1>6, <2>1 DEF IInv, NoneForgotten, authority
<1>14. JournalTrue'
  BY <1>1, <1>6 DEF IInv, JournalOK, JournalTrue, authority
<1> QED BY <1>7, <1>8, <1>9, <1>10, <1>11, <1>12, <1>13, <1>14 DEF IInv

----------------------------------------------------------------------------
(* Executing: one lemma per action *)

\* The capability is used up and its intent joins the list in one write.
LEMMA ExecuteBeginStep ==
  ASSUME IInv, NEW c \in Keys, ExecuteBegin(c)
  PROVE  IInv'
<1>1. /\ pc = "free" /\ caps[c] # None /\ c \notin consumed
      /\ consumed' = consumed \cup {c} /\ pending' = Append(pending, c)
      /\ pc' = "prepare" /\ mode' = "execute" /\ cur' = c
      /\ UNCHANGED <<epoch, caps, refusals, journal, intents, authority, late, sealed, todo,
                     known>>
  BY DEF ExecuteBegin, Valid
<1>2. pending \in Seq(Keys) /\ Once(pending) /\ ~InList(pending, c)
  BY <1>1 DEF IInv, TypeOK, StoreOK
<1>3. /\ pending' \in Seq(Keys) /\ Once(pending')
      /\ \A x : InList(pending', x) <=> x = c \/ InList(pending, x)
  BY <1>1, <1>2, AppendList
<1>4. todo' = <<>> /\ todo' \in Seq(Keys) /\ Once(todo') /\ \A x : ~InList(todo', x)
  BY <1>1, EmptyList DEF IInv, OpOK
<1>5. TypeOK'
  BY <1>1, <1>3, <1>4 DEF IInv, TypeOK, Labels, authority
<1>6. StoreOK'
  BY <1>1, <1>3 DEF IInv, StoreOK
<1>7. OpOK'
  BY <1>1, <1>3, <1>4 DEF OpOK, Executing, Refusing
<1>8. JournalOK' /\ OpFacts'
  BY <1>1 DEF IInv, JournalOK, Sound, OpFacts, Executing, Refusing
<1>9. Pinned' /\ SealedNeverProduced' /\ \A r \in sealed' : r.outcome \in Outcomes
  BY <1>1 DEF IInv, Pinned, SealedNeverProduced, authority
<1>10. WriteAhead' /\ JournalTrue'
  BY <1>1 DEF IInv, WriteAhead, Sent, JournalTrue, authority
<1>11. NoneForgotten'
  <2>1. \A x : Outdated(x)' = Outdated(x)
    BY <1>1 DEF Outdated, LocallyRefused
  <2> QED BY <1>1, <1>3, <2>1 DEF IInv, NoneForgotten, authority
<1> QED BY <1>5, <1>6, <1>7, <1>8, <1>9, <1>10, <1>11 DEF IInv

\* PREPARED is written before anything is asked.
LEMMA JournalPreparedStep ==
  ASSUME IInv, JournalPrepared
  PROVE  IInv'
<1>1. /\ pc = "prepare" /\ Executing /\ journal' = Appended(journal, Record(cur, "PREPARED"))
      /\ Step("is_refused") /\ UNCHANGED <<store, intents, authority, late, sealed>>
  BY DEF JournalPrepared, Write, Executing
<1>2. cur \in Keys /\ InList(pending, cur)
  BY <1>1, CurKnown DEF IInv, OpOK
<1>3. JournalStep /\ SafeIn(journal', cur)
  BY <1>1, <1>2, AppendedStep DEF Statuses
<1>4. OpTypes' /\ OpOK' /\ OpFacts'
  BY <1>1, <1>3, ExecuteGoesOn DEF Step
<1> QED BY <1>1, <1>3, <1>4, QuietStep

\* The advisory reads.
LEMMA AskStep ==
  ASSUME IInv, AskRefused \/ AskFence
  PROVE  IInv'
<1>1. PICK label \in {"current_fence", "commit"} : Finish \/ Step(label)
  BY DEF AskRefused, AskFence
<1>2. /\ Executing /\ pc # "prepare"
      /\ UNCHANGED <<store, journal, intents, authority, late, sealed>>
  BY DEF AskRefused, AskFence, Executing
<1>3. JournalStep
  BY <1>2 DEF JournalStep
<1>4. ASSUME Step(label) PROVE OpTypes' /\ OpOK' /\ OpFacts'
  BY <1>2, <1>3, <1>4, ExecuteGoesOn DEF Step
<1> QED BY <1>1, <1>2, <1>3, <1>4, Finished, QuietStep

\* The commit is asked for a recorded intent; answered, its outcome is produced by it.
LEMMA CallCommitStep ==
  ASSUME IInv, CallCommit
  PROVE  IInv'
<1> DEFINE m == CommitRequest(cur)
<1>1. /\ Executing /\ pc # "prepare" /\ Call(m, "journal")
      /\ UNCHANGED <<store, journal, intents, sealed>>
  BY DEF CallCommit, Executing
<1>2. /\ cur \in Keys /\ cur \in consumed /\ caps[cur] \in Capability
      /\ SafeIn(journal, cur)
  BY <1>1, CurKnown DEF IInv, OpFacts
<1>3. /\ m \in Request /\ m.op = "commit" /\ m.id = cur
      /\ m.outcome = caps[cur].outcome
  BY <1>2 DEF CommitRequest, Request, Capability, Ids
<1> HIDE DEF m
<1>4. /\ Moves /\ late' \subseteq late \cup {m}
      /\ \A o \in Outcomes : produced'[o] = produced[o] \/ produced'[o] = cur
      /\ Finish \/ (Step("journal") /\ produced'[caps[cur].outcome] = cur)
  BY <1>1, <1>3, CallMoves
<1>5. SentKnown
  BY <1>2, <1>3, <1>4 DEF SentKnown, Sent
<1>6. JournalStep /\ SealedKnown
  BY <1>1 DEF JournalStep, SealedKnown
<1>7. ASSUME Step("journal"), produced'[caps[cur].outcome] = cur
      PROVE  OpTypes' /\ OpOK' /\ OpFacts'
  BY <1>1, <1>6, <1>7, ExecuteGoesOn DEF Step
<1>8. /\ UNCHANGED <<caps, consumed, pending>> /\ Grows
      /\ intents' \subseteq Refusal /\ late' \subseteq Request
  BY <1>1, <1>3, <1>4, MaxEpochAssumption DEF IInv, TypeOK, Epochs, Grows, store
<1> QED BY <1>4, <1>5, <1>6, <1>7, <1>8, Finished, StepKeeps

\* The commit is journaled, at once or by reconcile_pending if it is not there yet.
LEMMA JournalCommittedStep ==
  ASSUME IInv, JournalCommitted
  PROVE  IInv'
<1>1. /\ pc = "journal" /\ Executing
      /\ UNCHANGED <<store, intents, authority, late, sealed>>
  BY DEF JournalCommitted, Executing
<1>2. /\ cur \in Keys /\ InList(pending, cur) /\ produced[caps[cur].outcome] = cur
      /\ produced'[caps[cur].outcome] = cur
  BY <1>1, CurKnown DEF IInv, OpOK, OpFacts, authority
<1>3. \/ /\ journal' = Appended(journal, Record(cur, "COMMITTED"))
         /\ Finish \/ Step("clear")
               \/ (pc' = "clear" /\ known' = KnownKeys(journal') /\ UNCHANGED <<mode, cur, todo>>)
      \/ /\ UNCHANGED journal
         /\ \/ Finish
            \/ /\ Concluded(journal, cur, "COMMITTED")
               /\ pc' = "clear" /\ known' = KnownKeys(journal') /\ UNCHANGED <<mode, cur, todo>>
  BY DEF JournalCommitted, Write, MissingCommitted
<1>4. JournalStep /\ (Finish \/ EndedIn(journal', cur))
  <2>1. CASE journal' = Appended(journal, Record(cur, "COMMITTED"))
    BY <1>2, <2>1, AppendedStep DEF Statuses
  <2>2. CASE UNCHANGED journal /\ (Finish \/ Concluded(journal, cur, "COMMITTED"))
    BY <2>2 DEF JournalStep, EndedIn
  <2> QED BY <1>3, <2>1, <2>2
<1>5. CASE Finish
  BY <1>1, <1>4, <1>5, Finished, QuietStep
<1>6. CASE /\ ~Finish /\ pc' = "clear" /\ UNCHANGED <<mode, cur, todo>>
           /\ known' \in {known, KnownKeys(journal')}
  <2>1. OpTypes' /\ OpOK' /\ OpFacts'
    BY <1>1, <1>2, <1>4, <1>6, ExecuteGoesOn
  <2> QED BY <1>1, <1>4, <2>1, QuietStep
<1> QED BY <1>3, <1>5, <1>6 DEF Step

\* The intent leaves the list once its entry is concluded.
LEMMA ClearPendingStep ==
  ASSUME IInv, ClearPending
  PROVE  IInv'
<1>1. /\ pc = "clear" /\ Executing /\ pending' = Without(pending, cur)
      /\ UNCHANGED <<epoch, caps, consumed, refusals, journal, intents, authority, late,
                     sealed>>
  BY DEF ClearPending, Executing
<1>2. /\ cur \in Keys /\ EndedIn(journal, cur) /\ Settled(cur)
      /\ pending \in Seq(Keys) /\ Once(pending)
      /\ ~InList(todo, cur) /\ mode \in {"execute", "reconcile"}
      /\ todo \in Seq(Keys) /\ Once(todo) /\ \A c \in Keys : InList(todo, c) => InList(pending, c)
      /\ known \subseteq Keys /\ \A c \in known : SafeIn(journal, c)
  BY <1>1, CurKnown DEF IInv, OpOK, OpFacts, StoreOK, TypeOK
<1>3. /\ pending' \in Seq(Keys) /\ Once(pending')
      /\ \A x : InList(pending', x) <=> x # cur /\ InList(pending, x)
  BY <1>1, <1>2, WithoutList
<1>4. \/ mode = "execute" /\ Finish
      \/ /\ mode = "reconcile" /\ pc' = "next" /\ cur' = None
         /\ UNCHANGED <<mode, todo, known>>
  BY <1>2 DEF ClearPending
<1>5. OpTypes' /\ OpOK' /\ OpFacts'
  <2>1. CASE /\ pc' = "next" /\ cur' = None /\ mode = "reconcile"
             /\ UNCHANGED <<mode, todo, known>>
    <3>1. ~Executing' /\ ~Refusing'
      BY <2>1 DEF Executing, Refusing
    <3>2. \A c \in Keys : InList(todo', c) => InList(pending', c)
      BY <1>2, <1>3, <2>1
    <3>3. OpOK'
      BY <1>2, <2>1, <3>1, <3>2 DEF OpOK
    <3>4. OpFacts'
      BY <1>1, <1>2, <2>1, <3>1 DEF OpFacts
    <3> QED BY <1>2, <2>1, <3>3, <3>4 DEF OpTypes, Labels
  <2> QED BY <1>4, <2>1, Finished
<1>6. TypeOK'
  BY <1>1, <1>3, <1>5 DEF IInv, TypeOK, OpTypes, authority
<1>7. StoreOK'
  BY <1>1, <1>3 DEF IInv, StoreOK
<1>8. JournalOK'
  BY <1>1 DEF IInv, JournalOK, Sound
<1>9. Pinned' /\ SealedNeverProduced' /\ \A r \in sealed' : r.outcome \in Outcomes
  BY <1>1 DEF IInv, Pinned, SealedNeverProduced, authority
<1>10. WriteAhead' /\ JournalTrue'
  BY <1>1 DEF IInv, WriteAhead, Sent, JournalTrue, authority
<1>11. NoneForgotten'
  <2>1. \A c \in consumed : c \in Keys /\ Outdated(c)' = Outdated(c)
    BY <1>1 DEF IInv, TypeOK, Outdated, LocallyRefused
  <2> QED BY <1>1, <1>2, <1>3, <2>1 DEF IInv, NoneForgotten, EndedIn, Settled, authority
<1> QED BY <1>5, <1>6, <1>7, <1>8, <1>9, <1>10, <1>11 DEF IInv

----------------------------------------------------------------------------
(* Reconciling: one lemma per action *)

\* The intents on the list are to be looked at, in their order.
LEMMA ReconcileBeginStep ==
  ASSUME IInv, ReconcileBegin
  PROVE  IInv'
<1>1. /\ pc' = "next" /\ mode' = "reconcile" /\ todo' = pending /\ known' = KnownKeys(journal)
      /\ UNCHANGED <<cur, store, journal, intents, authority, late, sealed>>
  BY DEF ReconcileBegin
<1>2. ~Executing' /\ ~Refusing'
  BY <1>1 DEF Executing, Refusing
<1>3. OpTypes'
  BY <1>1 DEF IInv, TypeOK, OpTypes, Labels, KnownKeys
<1>4. OpOK'
  BY <1>1, <1>2 DEF IInv, StoreOK, OpOK, store
<1>5. OpFacts'
  BY <1>1, <1>2 DEF OpFacts, KnownKeys, SafeIn
<1> QED BY <1>1, <1>3, <1>4, <1>5, QuietStep DEF JournalStep

\* The next intent is on record before anything is decided about it.
LEMMA ReconcileNextStep ==
  ASSUME IInv, ReconcileNext
  PROVE  IInv'
<1>1. /\ pc = "next" /\ mode = "reconcile"
      /\ UNCHANGED <<store, intents, authority, late, sealed>>
  BY DEF ReconcileNext, IInv, OpOK
<1>2. CASE todo = <<>> /\ UNCHANGED journal /\ Finish
  BY <1>1, <1>2, Finished, QuietStep DEF JournalStep
<1>3. CASE todo # <<>>
  <2>1. PICK c \in Keys : c = Head(todo)
    BY <1>3, TailList DEF IInv, TypeOK
  <2>2. /\ InList(pending, c) /\ InList(todo, c)
        /\ Tail(todo) \in Seq(Keys) /\ Once(Tail(todo)) /\ ~InList(Tail(todo), c)
        /\ \A x \in Keys : InList(Tail(todo), x) => InList(pending, x)
    BY <1>3, <2>1, TailList DEF IInv, TypeOK, OpOK
  <2>3. ASSUME pc' = "decide", cur' = c, todo' = Tail(todo), UNCHANGED mode, JournalStep,
               SafeIn(journal', c), known' \subseteq Keys, \A k \in known' : SafeIn(journal', k)
        PROVE  IInv'
    <3>1. Executing' /\ ~Refusing' /\ mode' = "reconcile"
      BY <1>1, <2>3 DEF Executing, Refusing
    <3>2. OpTypes'
      BY <2>2, <2>3, <3>1 DEF OpTypes, Labels
    <3>3. OpOK'
      BY <1>1, <2>2, <2>3, <3>1 DEF OpOK, store
    <3>4. OpFacts'
      BY <2>3, <3>1 DEF OpFacts
    <3> QED BY <1>1, <2>3, <3>2, <3>3, <3>4, QuietStep
  <2>4. CASE /\ c \in known /\ pc' = "decide" /\ cur' = c /\ todo' = Tail(todo)
             /\ UNCHANGED <<mode, known, journal>>
    <3>1. known' \subseteq Keys /\ \A k \in known' : SafeIn(journal', k)
      BY <2>4 DEF IInv, TypeOK, OpFacts
    <3> QED BY <2>3, <2>4, <3>1 DEF JournalStep
  <2>5. CASE /\ journal' = Appended(journal, Record(c, "PREPARED"))
             /\ \/ /\ pc' = "decide" /\ cur' = c /\ todo' = Tail(todo)
                   /\ known' = KnownKeys(journal') /\ UNCHANGED mode
                \/ Finish
    <3>1. JournalStep /\ SafeIn(journal', c)
      BY <2>2, <2>5, AppendedStep DEF Statuses
    <3>2. CASE Finish
      BY <1>1, <3>1, <3>2, Finished, QuietStep
    <3>3. CASE pc' = "decide" /\ cur' = c /\ todo' = Tail(todo)
               /\ known' = KnownKeys(journal') /\ UNCHANGED mode
      <4>1. known' \subseteq Keys /\ \A k \in known' : SafeIn(journal', k)
        BY <3>3 DEF KnownKeys, SafeIn
      <4> QED BY <2>3, <3>1, <3>3, <4>1
    <3> QED BY <2>5, <3>2, <3>3
  <2> QED BY <1>3, <2>1, <2>4, <2>5 DEF ReconcileNext, MissingPrepared
<1> QED BY <1>2, <1>3 DEF ReconcileNext, MissingPrepared

\* What is refused or outdated is given up, the rest is asked.
LEMMA ReconcileDecideStep ==
  ASSUME IInv, ReconcileDecide
  PROVE  IInv'
<1>1. PICK label \in {"journal_refused", "is_refused"} :
        Step(label) /\ (label = "journal_refused" => Outdated(cur))
  BY DEF ReconcileDecide
<1>2. /\ pc = "decide" /\ Executing /\ pc # "prepare" /\ mode = "reconcile"
      /\ UNCHANGED <<store, journal, intents, authority, late, sealed>>
  BY DEF ReconcileDecide, Executing, IInv, OpOK
<1>3. JournalStep
  BY <1>2 DEF JournalStep
<1>4. OpTypes' /\ OpOK' /\ OpFacts'
  BY <1>1, <1>2, <1>3, ExecuteGoesOn DEF Step
<1> QED BY <1>2, <1>3, <1>4, QuietStep

\* What is given up is concluded as REFUSED.
LEMMA JournalRefusedStep ==
  ASSUME IInv, JournalRefused
  PROVE  IInv'
<1>1. /\ pc = "journal_refused" /\ Executing /\ pc # "prepare" /\ Step("clear")
      /\ journal' = Appended(journal, Record(cur, "REFUSED"))
      /\ UNCHANGED <<store, intents, authority, late, sealed>>
  BY DEF JournalRefused, Write, Executing
<1>2. cur \in Keys /\ InList(pending, cur) /\ Outdated(cur)
  BY <1>1, CurKnown DEF IInv, OpOK, OpFacts
<1>3. JournalStep /\ EndedIn(journal', cur)
  BY <1>1, <1>2, AppendedStep DEF Statuses
<1>4. OpTypes' /\ OpOK' /\ OpFacts'
  BY <1>1, <1>2, <1>3, ExecuteGoesOn DEF Step
<1> QED BY <1>1, <1>3, <1>4, QuietStep

----------------------------------------------------------------------------
(* Refusing: one lemma per action *)

\* The operation takes the lock; nothing is known of the outcome yet.
LEMMA RefusalBeginStep ==
  ASSUME IInv, NEW r \in Refusal, RefusalBegin(r)
  PROVE  IInv'
<1>1. /\ pc = "free" /\ pc' = "refusal_fence" /\ mode' = "refuse" /\ cur' = r
      /\ r.outcome # None /\ (r.target > epoch \/ HasRefusal(r))
      /\ UNCHANGED <<store, journal, intents, authority, late, sealed, todo, known>>
  BY DEF RefusalBegin
<1>2. r.outcome \in Outcomes
  BY <1>1 DEF Refusal
<1>3. todo' = <<>> /\ todo' \in Seq(Keys) /\ Once(todo') /\ \A x : ~InList(todo', x)
  BY <1>1, EmptyList DEF IInv, OpOK
<1>4. ~Executing' /\ Refusing'
  BY <1>1 DEF Executing, Refusing
<1>5. OpTypes' /\ OpOK' /\ OpFacts'
  <2>1. OpTypes'
    BY <1>1, <1>3 DEF IInv, TypeOK, OpTypes, Labels
  <2>2. OpOK'
    BY <1>1, <1>2, <1>3, <1>4 DEF OpOK
  <2>3. cur'.target > epoch' \/ HasRefusal(cur)'
    BY <1>1 DEF HasRefusal, store
  <2>4. OpFacts'
    BY <1>1, <1>4, <2>3 DEF IInv, OpFacts
  <2> QED BY <2>1, <2>2, <2>4
<1> QED BY <1>1, <1>5, QuietStep DEF JournalStep

\* The two advisory reads before the refusal is asked for.
LEMMA RefusalAskStep ==
  ASSUME IInv, RefusalFence \/ RefusalQuery
  PROVE  IInv'
<1>1. PICK label \in {"refusal_query", "refuse", "confirm"} : Finish \/ Step(label)
  BY DEF RefusalFence, RefusalQuery
<1>2. /\ Refusing /\ UNCHANGED <<store, journal, intents, authority, late, sealed>>
  BY DEF RefusalFence, RefusalQuery, Refusing
<1>3. ASSUME Step(label) PROVE OpTypes' /\ OpOK' /\ OpFacts'
  BY <1>2, <1>3, RefusalGoesOn DEF store
<1> QED BY <1>1, <1>2, <1>3, Finished, QuietStep DEF JournalStep

\* A refusal produces nothing.
LEMMA CallRefuseStep ==
  ASSUME IInv, CallRefuse
  PROVE  IInv'
<1> DEFINE m == RefuseRequest(cur)
<1>1. /\ Refusing /\ Call(m, "confirm") /\ UNCHANGED <<store, journal, intents, sealed>>
  BY DEF CallRefuse, Refusing
<1>2. cur \in Refusal /\ cur.outcome \in Outcomes
  BY <1>1 DEF IInv, OpOK
<1>3. m \in Request /\ m.op = "refuse" /\ m.id \in RefusalIds
  BY <1>2 DEF RefuseRequest, Request, Refusal, Ids
<1> HIDE DEF m
<1>4. /\ Moves /\ late' \subseteq late \cup {m}
      /\ \A o \in Outcomes : produced'[o] = produced[o]
      /\ Finish \/ Step("confirm")
  BY <1>1, <1>3, CallMoves
<1>5. SentKnown
  BY <1>3, <1>4, IdsAssumption DEF SentKnown, Sent
<1>6. JournalStep /\ SealedKnown
  BY <1>1 DEF JournalStep, SealedKnown
<1>7. ASSUME Step("confirm") PROVE OpTypes' /\ OpOK' /\ OpFacts'
  BY <1>1, <1>7, RefusalGoesOn DEF store
<1>8. /\ UNCHANGED <<caps, consumed, pending>> /\ Grows
      /\ intents' \subseteq Refusal /\ late' \subseteq Request
  BY <1>1, <1>3, <1>4, MaxEpochAssumption DEF IInv, TypeOK, Epochs, Grows, store
<1> QED BY <1>4, <1>5, <1>6, <1>7, <1>8, Finished, StepKeeps

\* The refusal is confirmed; from here on the outcome stays refused.
LEMMA ConfirmRefusedStep ==
  ASSUME IInv, ConfirmRefused
  PROVE  IInv'
<1>1. /\ Refusing /\ UNCHANGED <<store, journal, intents, authority, late, sealed>>
      /\ Finish \/ (Step("confirm_fence") /\ refused[cur.outcome] # None)
  BY DEF ConfirmRefused, Refusing
<1>2. UNCHANGED refused
  BY <1>1 DEF authority
<1>3. ASSUME Step("confirm_fence"), refused[cur.outcome] # None
      PROVE  OpTypes' /\ OpOK' /\ OpFacts'
  BY <1>1, <1>2, <1>3, RefusalGoesOn
<1> QED BY <1>1, <1>3, Finished, QuietStep DEF JournalStep

\* A refusal that is returned is refused at its target.
LEMMA ConfirmFenceStep ==
  ASSUME IInv, ConfirmFence
  PROVE  IInv'
<1>1. /\ pc = "confirm_fence" /\ Refusing
      /\ UNCHANGED <<store, journal, intents, authority, late>>
      /\ sealed' = sealed \/ (sealed' = sealed \cup {cur} /\ fence[cur.outcome] = cur.target)
      /\ Finish \/ (Step("publish") /\ fence[cur.outcome] = cur.target /\ ~HasRefusal(cur))
  BY DEF ConfirmFence, Refusing
<1>2. cur \in Refusal /\ cur.outcome \in Outcomes /\ refused[cur.outcome] # None
  BY <1>1 DEF IInv, OpOK, OpFacts
<1>3. SealedKnown
  BY <1>1, <1>2 DEF SealedKnown
<1>4. UNCHANGED <<refused, fence>>
  BY <1>1 DEF authority
<1>5. ASSUME Step("publish"), fence[cur.outcome] = cur.target, ~HasRefusal(cur)
      PROVE  OpTypes' /\ OpOK' /\ OpFacts'
  BY <1>1, <1>2, <1>4, <1>5, RefusalGoesOn
<1>6. Moves
  BY <1>1, SameAuthority
<1>7. SentKnown /\ JournalStep
  BY <1>1 DEF SentKnown, Sent, JournalStep, authority
<1>8. /\ UNCHANGED <<caps, consumed, pending>> /\ Grows
      /\ intents' \subseteq Refusal /\ late' \subseteq Request
  BY <1>1, MaxEpochAssumption DEF IInv, TypeOK, Epochs, Grows, store
<1> QED BY <1>1, <1>3, <1>5, <1>6, <1>7, <1>8, Finished, StepKeeps

\* The refusal is published in the Store and returned.
LEMMA PublishStep ==
  ASSUME IInv, Publish
  PROVE  IInv'
<1>1. /\ pc = "publish" /\ Refusing /\ epoch' = cur.target /\ refusals' = WithRefusal(cur)
      /\ sealed' = sealed \cup {cur} /\ Finish
      /\ UNCHANGED <<caps, consumed, pending, journal, intents, authority, late>>
  BY DEF Publish, Refusing
<1>2. /\ cur \in Refusal /\ cur.outcome \in Outcomes /\ cur.target > epoch
      /\ refused[cur.outcome] # None /\ fence[cur.outcome] = cur.target
  BY <1>1 DEF IInv, OpOK, OpFacts
<1>3. SealedKnown
  BY <1>1, <1>2 DEF SealedKnown
<1>4. Moves
  BY <1>1, SameAuthority
<1>5. SentKnown /\ JournalStep
  BY <1>1 DEF SentKnown, Sent, JournalStep, authority
<1>6. Grows
  BY <1>1, <1>2, PublishGrows
<1>7. intents' \subseteq Refusal /\ late' \subseteq Request
  BY <1>1 DEF IInv, TypeOK
<1>8. OpTypes' /\ OpOK' /\ OpFacts'
  BY <1>1, Finished
<1> QED BY <1>1, <1>3, <1>4, <1>5, <1>6, <1>7, <1>8, StepKeeps

----------------------------------------------------------------------------
(* The environment: one lemma per action *)

\* A crash ends the operation and leaves what was written, a part of an append included.
LEMMA InterruptStep ==
  ASSUME IInv, Interrupt
  PROVE  IInv'
<1>1. /\ pc # "free" /\ Finish /\ UNCHANGED <<store, intents, authority, late, sealed>>
      /\ journal' \in {journal} \cup UNION {AppendFailed(journal, r) : r \in NextRecord}
  BY DEF Interrupt
<1>2. ASSUME NEW r \in NextRecord
      PROVE  /\ r \in Records /\ InList(pending, r.key)
             /\ r.status = "COMMITTED" => produced[caps[r.key].outcome] = r.key
  <2>1. CASE pc \in {"prepare", "journal_refused"}
    <3>1. PICK st \in {"PREPARED", "REFUSED"} : r = Record(cur, st)
      BY <1>2, <2>1 DEF NextRecord
    <3>2. cur \in Keys /\ InList(pending, cur)
      BY <2>1, CurKnown DEF Executing, IInv, OpOK
    <3> QED BY <3>1, <3>2, RecordIs DEF Statuses
  <2>2. CASE pc = "journal" /\ MissingCommitted
    <3>1. r = Record(cur, "COMMITTED")
      BY <1>2, <2>2 DEF NextRecord
    <3>2. cur \in Keys /\ InList(pending, cur) /\ produced[caps[cur].outcome] = cur
      BY <2>2, CurKnown DEF Executing, IInv, OpOK, OpFacts
    <3> QED BY <3>1, <3>2, RecordIs DEF Statuses
  <2>3. CASE pc = "next" /\ MissingPrepared
    <3>1. r = Record(Head(todo), "PREPARED")
      BY <1>2, <2>3 DEF NextRecord
    <3>2. Head(todo) \in Keys /\ InList(pending, Head(todo))
      BY <2>3, TailList DEF MissingPrepared, IInv, TypeOK, OpOK
    <3> QED BY <3>1, <3>2, RecordIs DEF Statuses
  <2>4. CASE /\ pc \notin {"prepare", "journal_refused"}
             /\ ~(pc = "journal" /\ MissingCommitted)
             /\ ~(pc = "next" /\ MissingPrepared)
    BY <1>2, <2>4 DEF NextRecord
  <2> QED BY <2>1, <2>2, <2>3, <2>4
<1>3. JournalStep
  <2>1. CASE journal' # journal
    <3>1. PICK r \in NextRecord : journal' \in AppendFailed(journal, r)
      BY <1>1, <2>1
    <3> QED BY <1>2, <3>1 DEF JournalStep
  <2> QED BY <2>1 DEF JournalStep
<1> QED BY <1>1, <1>3, Finished, QuietStep

\* A step of the authority that produces nothing for an intent nobody knows of.
LEMMA AuthorityStep ==
  ASSUME IInv, UNCHANGED <<store, journal, intents, op, sealed>>, Moves,
         late' \subseteq late,
         \A o \in Outcomes : produced'[o] = produced[o] \/ produced'[o] \notin Keys
                             \/ Sent(produced'[o])
  PROVE  IInv'
<1>1. OpTypes' /\ OpOK' /\ OpFacts'
  BY OpUntouched
<1>2. SentKnown
  BY DEF SentKnown, Sent
<1>3. JournalStep /\ SealedKnown
  BY DEF JournalStep, SealedKnown
<1>4. /\ UNCHANGED <<caps, consumed, pending>> /\ Grows
      /\ intents' \subseteq Refusal /\ late' \subseteq Request
  BY MaxEpochAssumption DEF IInv, TypeOK, Epochs, Grows, store
<1> QED BY <1>1, <1>2, <1>3, <1>4, StepKeeps

\* An abandoned request is served after all: it was sent, so it is on record.
LEMMA ServeLateStep ==
  ASSUME IInv, ServeLate
  PROVE  IInv'
<1>1. PICK m \in late : /\ Serve(m) /\ late' \in {late, late \ {m}}
                        /\ UNCHANGED <<store, journal, intents, op, sealed>>
  BY DEF ServeLate
<1>2. m \in Request
  BY DEF IInv, TypeOK
<1>3. Moves /\ \A o \in Outcomes : produced'[o] = produced[o] \/ produced'[o] = m.id
  BY <1>1, <1>2, ServeMoves
<1>4. Sent(m.id)
  BY DEF Sent
<1> QED BY <1>1, <1>3, <1>4, AuthorityStep

\* The deployment moves a fence.
LEMMA OtherFenceStep ==
  ASSUME IInv, NEW o \in Outcomes, NEW e \in Epochs, OtherFence(o, e)
  PROVE  IInv'
<1>1. Moves
  BY FenceMoves
<1>2. UNCHANGED <<store, journal, intents, produced, late, op, sealed>>
  BY DEF OtherFence
<1> QED BY <1>1, <1>2, AuthorityStep

\* Another client commits or refuses under an id that is none of ours.
LEMMA OtherRequestStep ==
  ASSUME IInv, NEW m \in Request, OtherRequest(m)
  PROVE  IInv'
<1>1. /\ m.id \in Others /\ Serve(m)
      /\ UNCHANGED <<store, journal, intents, late, op, sealed>>
  BY DEF OtherRequest
<1>2. Moves /\ \A o \in Outcomes : produced'[o] = produced[o] \/ produced'[o] = m.id
  BY <1>1, ServeMoves
<1>3. m.id \notin Keys
  BY <1>1, IdsAssumption
<1> QED BY <1>1, <1>2, <1>3, AuthorityStep

----------------------------------------------------------------------------
(* The theorems *)

\* A new boundary beside a new authority satisfies the invariant.
LEMMA InvInit ==
  ASSUME Init
  PROVE  IInv
<1>1. ~Executing /\ ~Refusing
  BY DEF Init, Executing, Refusing
<1>2. /\ <<>> \in Seq(Keys) /\ Once(<<>>) /\ \A x : ~InList(<<>>, x)
      /\ <<>> \in Seq(Records \cup {Torn})
  BY EmptyList
<1>3. Sound(EmptyFile) /\ \A c, st : ~Concluded(EmptyFile, c, st)
  BY <1>2 DEF Sound, EmptyFile, Files, Concluded, LinesOf
<1>4. TypeOK
  BY <1>2, <1>3, MaxEpochAssumption DEF Init, TypeOK, Sound, Epochs, Labels
<1>5. OpOK /\ StoreOK
  BY <1>1, <1>2 DEF Init, OpOK, StoreOK
<1>6. JournalOK /\ Pinned /\ OpFacts /\ \A r \in sealed : r.outcome \in Outcomes
  BY <1>1, <1>3 DEF Init, JournalOK, Pinned, OpFacts
<1>7. WriteAhead /\ NoneForgotten /\ JournalTrue /\ SealedNeverProduced
  BY <1>3, NoneAssumption DEF Init, WriteAhead, Sent, NoneForgotten, JournalTrue,
                              SealedNeverProduced
<1> QED BY <1>4, <1>5, <1>6, <1>7 DEF IInv

\* Every step keeps it.
LEMMA InvStep ==
  ASSUME IInv, [Next]_vars
  PROVE  IInv'
<1>1. CASE Issue
  BY <1>1, IssueOtherStep, IssueProtectedStep, IssueRefusalStep DEF Issue
<1>2. CASE Execute
  BY <1>2, ExecuteBeginStep, JournalPreparedStep, AskStep, CallCommitStep,
     JournalCommittedStep, ClearPendingStep DEF Execute
<1>3. CASE Reconcile
  BY <1>3, ReconcileBeginStep, ReconcileNextStep, ReconcileDecideStep, JournalRefusedStep
     DEF Reconcile
<1>4. CASE Refuse
  BY <1>4, PublishLocalStep, RefusalBeginStep, RefusalAskStep, CallRefuseStep,
     ConfirmRefusedStep, ConfirmFenceStep, PublishStep DEF Refuse
<1>5. CASE Interrupt
  BY <1>5, InterruptStep
<1>6. CASE Environment
  BY <1>6, ServeLateStep, OtherFenceStep, OtherRequestStep DEF Environment
<1>7. CASE UNCHANGED vars
  <2>1. UNCHANGED <<store, intents, authority, late, sealed, op, journal>>
    BY <1>7 DEF vars
  <2>2. OpTypes' /\ OpOK' /\ OpFacts'
    BY <2>1, SameAuthority, OpUntouched
  <2> QED BY <2>1, <2>2, QuietStep DEF JournalStep
<1> QED BY <1>1, <1>2, <1>3, <1>4, <1>5, <1>6, <1>7 DEF Next

\* In every reachable state, wherever a crash cut an append off: the intent under way is
\* pending, what its operation took for recorded is in the file or a line of the file is
\* torn, and what the authority has decided stands.
THEOREM Invariant == Spec => []IInv
<1>1. Init => IInv
  BY InvInit
<1>2. IInv /\ [Next]_vars => IInv'
  BY InvStep
<1> QED BY <1>1, <1>2, PTL DEF Spec

\* Every variable keeps its type, whatever is interrupted, late or sent by others.
THEOREM TypeCorrect == Spec => []TypeOK
<1>1. IInv => TypeOK
  BY DEF IInv
<1> QED BY <1>1, Invariant, PTL

\* Nothing leaves for the authority that the Store does not know of, nor the journal
\* unless a line of it is torn (effect_gate.py:58-61, effect_journal.py:18-28).
THEOREM WriteAheadAlways == Spec => []WriteAhead
<1>1. IInv => WriteAhead
  BY DEF IInv
<1> QED BY <1>1, Invariant, PTL

\* A used capability that is no longer pending is settled, and has its last word in the
\* journal unless a line of it is torn (effect_gate.py:63-65, 99-100, 109-114).
THEOREM NoneForgottenAlways == Spec => []NoneForgotten
<1>1. IInv => NoneForgotten
  BY DEF IInv
<1> QED BY <1>1, Invariant, PTL

\* What the journal calls COMMITTED the authority holds under this very key.
THEOREM JournalTrueAlways == Spec => []JournalTrue
<1>1. IInv => JournalTrue
  BY DEF IInv
<1> QED BY <1>1, Invariant, PTL

\* What commit_protected has returned is refused for good and never produced
\* (refusal.py:76-104).
THEOREM SealedNeverProducedAlways == Spec => []SealedNeverProduced
<1>1. IInv => SealedNeverProduced
  BY DEF IInv
<1> QED BY <1>1, Invariant, PTL

----------------------------------------------------------------------------
(* The authority seen from the boundary implements OutcomeFence *)

\* What a step does to the authority is a step of the contract, or nothing.
Obeys == Contract!Next \/ UNCHANGED Contract!vars

\* Serving a request: a retry of what was accepted before changes nothing.
LEMMA ServeObeys ==
  ASSUME IInv, NEW m \in Request, Serve(m)
  PROVE  Obeys
<1> DEFINE o == m.outcome
<1>1. o \in Outcomes /\ m.epoch \in Epochs /\ m.id \in Ids
  BY DEF Request
<1>2. AuthorityTypes /\ Pinned
  BY DEF IInv, TypeOK, AuthorityTypes
<1>3. CASE UNCHANGED authority
  BY <1>3 DEF Obeys, Contract!vars, authority
<1>4. CASE /\ m.op = "commit" /\ Accepted(m)
           /\ produced' = [produced EXCEPT ![o] = m.id] /\ UNCHANGED <<fence, refused>>
  <2>1. /\ refused[o] = None /\ fence[o] = m.epoch
        /\ produced[o] = m.id \/ (produced[o] = None /\ \A p \in Outcomes : produced[p] # m.id)
    BY <1>4 DEF Accepted, CommitAccepted
  <2>2. CASE produced[o] = m.id
    BY <1>1, <1>2, <1>4, <2>2 DEF AuthorityTypes, Obeys, Contract!vars
  <2>3. CASE produced[o] = None /\ \A p \in Outcomes : produced[p] # m.id
    <3>1. Contract!Commit(o, m.epoch, m.id)
      BY <1>4, <2>1, <2>3 DEF Contract!Commit, Contract!Open, Contract!FreshKey
    <3> QED BY <1>1, <3>1 DEF Obeys, Contract!Next
  <2> QED BY <2>1, <2>2, <2>3
<1>5. CASE /\ m.op = "refuse" /\ Accepted(m)
           /\ fence' = [fence EXCEPT ![o] = m.epoch]
           /\ refused' = [refused EXCEPT ![o] = [epoch |-> m.epoch, id |-> m.id]]
           /\ UNCHANGED produced
  <2> DEFINE r == [epoch |-> m.epoch, id |-> m.id]
  <2>1. \/ refused[o] = r
        \/ refused[o] = None /\ produced[o] = None /\ m.epoch >= fence[o]
    BY <1>5 DEF Accepted, RefuseAccepted
  <2>2. r.epoch = m.epoch /\ r # None
    BY <1>1, NoneAssumption DEF Epochs, Ids
  <2>3. CASE refused[o] = r
    <3>1. fence[o] = m.epoch
      BY <1>1, <1>2, <2>2, <2>3 DEF Pinned
    <3> QED BY <1>1, <1>2, <1>5, <2>3, <3>1 DEF AuthorityTypes, Obeys, Contract!vars
  <2>4. CASE refused[o] = None /\ produced[o] = None /\ m.epoch >= fence[o]
    <3>1. Contract!Refuse(o, m.epoch, m.id)
      BY <1>5, <2>4 DEF Contract!Refuse, Contract!Open, Contract!Refusable, Contract!Mark
    <3> QED BY <1>1, <3>1 DEF Obeys, Contract!Next
  <2> QED BY <2>1, <2>3, <2>4
<1> QED BY <1>3, <1>4, <1>5 DEF Serve

\* A request of this boundary is served now, or not yet.
LEMMA CallObeys ==
  ASSUME IInv, NEW m \in Request, NEW label, Call(m, label)
  PROVE  Obeys
<1>1. Serve(m) \/ UNCHANGED authority
  BY DEF Call, Answered, Unanswered
<1> QED BY <1>1, ServeObeys DEF Obeys, Contract!vars, authority

\* The boundary's own requests are requests.
LEMMA RequestsTyped ==
  ASSUME IInv
  PROVE  /\ pc = "commit" => CommitRequest(cur) \in Request
         /\ pc = "refuse" => RefuseRequest(cur) \in Request
<1>1. ASSUME pc = "commit" PROVE CommitRequest(cur) \in Request
  <2>1. cur \in Keys /\ caps[cur] \in Capability
    BY <1>1, CurKnown DEF Executing
  <2> QED BY <2>1 DEF CommitRequest, Request, Capability, Ids
<1>2. ASSUME pc = "refuse" PROVE RefuseRequest(cur) \in Request
  <2>1. cur \in Refusal /\ cur.outcome \in Outcomes
    BY <1>2 DEF Refusing, IInv, OpOK
  <2> QED BY <2>1 DEF RefuseRequest, Request, Refusal, Ids
<1> QED BY <1>1, <1>2

\* Every step of the boundary and of its environment.
LEMMA StepObeys ==
  ASSUME IInv, [Next]_vars
  PROVE  Obeys
<1>1. CASE UNCHANGED authority
  BY <1>1 DEF Obeys, Contract!vars, authority
<1>2. CASE CallCommit
  BY <1>2, CallObeys, RequestsTyped DEF CallCommit
<1>3. CASE CallRefuse
  BY <1>3, CallObeys, RequestsTyped DEF CallRefuse
<1>4. CASE ServeLate
  BY <1>4, ServeObeys DEF ServeLate, IInv, TypeOK
<1>5. ASSUME NEW o \in Outcomes, NEW e \in Epochs, OtherFence(o, e) PROVE Obeys
  <2>1. Contract!AdvanceFence(o, e)
    BY <1>5 DEF OtherFence, Contract!AdvanceFence, Contract!Open
  <2> QED BY <2>1 DEF Obeys, Contract!Next
<1>6. ASSUME NEW m \in Request, OtherRequest(m) PROVE Obeys
  BY <1>6, ServeObeys DEF OtherRequest
<1>7. CASE Issue
  <2>1. UNCHANGED authority
    BY <1>7 DEF Issue, IssueOther, IssueProtected, IssueRefusal
  <2> QED BY <1>1, <2>1
<1>8. CASE Execute \/ Reconcile
  <2>1. CallCommit \/ UNCHANGED authority
    BY <1>8 DEF Execute, ExecuteBegin, JournalPrepared, AskRefused, AskFence,
                JournalCommitted, ClearPending, Reconcile, ReconcileBegin, ReconcileNext,
                ReconcileDecide, JournalRefused
  <2> QED BY <1>1, <1>2, <2>1
<1>9. CASE Refuse
  <2>1. CallRefuse \/ UNCHANGED authority
    BY <1>9 DEF Refuse, PublishLocal, RefusalBegin, RefusalFence, RefusalQuery,
                ConfirmRefused, ConfirmFence, Publish
  <2> QED BY <1>1, <1>3, <2>1
<1>10. CASE Interrupt \/ UNCHANGED vars
  BY <1>1, <1>10 DEF Interrupt, vars
<1> QED BY <1>4, <1>5, <1>6, <1>7, <1>8, <1>9, <1>10 DEF Next, Environment

\* The authority, between this boundary's requests, late ones and those of other clients,
\* obeys the contract that PostgresAuthority implements.
THEOREM Refinement == Spec => AuthorityObeysContract
<1>1. Init => Contract!Init
  BY DEF Init, Contract!Init
<1>2. IInv /\ [Next]_vars => [Contract!Next]_(Contract!vars)
  BY StepObeys DEF Obeys
<1>3. Spec => Contract!Spec
  BY <1>1, <1>2, Invariant, PTL DEF Spec, Contract!Spec
<1> QED BY <1>3 DEF AuthorityObeysContract

----------------------------------------------------------------------------
(* What the contract promises, promised here *)

Promised == INSTANCE OutcomeFenceProofs WITH LateRefusal <- FALSE

\* The contract is the one OutcomeFenceProofs proves about.
LEMMA SameContract == Contract!Spec <=> Promised!Spec
BY DEF Contract!Spec, Contract!Init, Contract!Next, Contract!vars, Contract!AdvanceFence,
       Contract!Refuse, Contract!Commit, Contract!Open, Contract!Refusable,
       Contract!FreshKey, Contract!Mark,
       Promised!Spec, Promised!Init, Promised!Next, Promised!vars, Promised!AdvanceFence,
       Promised!Refuse, Promised!Commit, Promised!Open, Promised!Refusable,
       Promised!FreshKey, Promised!Mark

\* With crashes, late requests and other clients around it, a refused outcome is never
\* produced, a key stands for one outcome and a refusal is terminal
\* (effect_transaction.py:34-51).
THEOREM AuthorityKeepsPromises ==
  Spec => [](Contract!RefusalExcludesProduction /\ Contract!KeyProducesOnce)
          /\ Contract!RefusalTerminal
<1>1. Spec => Promised!Spec
  BY Refinement, SameContract DEF AuthorityObeysContract
<1>2. Promised!Spec => []Promised!RefusalExcludesProduction /\ []Promised!KeyProducesOnce
  BY Promised!ContractSafe, PTL
<1>3. Promised!Spec => Promised!RefusalTerminal
  BY Promised!RefusalTerminalAlways
<1>4. /\ Promised!RefusalExcludesProduction <=> Contract!RefusalExcludesProduction
      /\ Promised!KeyProducesOnce <=> Contract!KeyProducesOnce
  BY DEF Promised!RefusalExcludesProduction, Contract!RefusalExcludesProduction,
         Promised!KeyProducesOnce, Contract!KeyProducesOnce
<1>5. Promised!RefusalTerminal <=> Contract!RefusalTerminal
  BY DEF Promised!RefusalTerminal, Contract!RefusalTerminal, Promised!vars, Contract!vars
<1> QED BY <1>1, <1>2, <1>3, <1>4, <1>5, PTL
=============================================================================
