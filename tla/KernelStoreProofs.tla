--------------------------- MODULE KernelStoreProofs ---------------------------
(***************************************************************************)
(* What holds of KernelStore under a durable anchor for any number of         *)
(* capabilities, principals, domains, effects and generations, proved with    *)
(* TLAPS.                                                                  *)
(*                                                                         *)
(* The argument: the floor is never below the newest snapshot, and of all     *)
(* snapshots that may come back only those of the newest sequence number      *)
(* reach it; they differ from it in the boot id at most.  So an operation     *)
(* starts from the newest authority or does not start, and what it writes     *)
(* builds on it (Builds).  The other properties follow along the writes.      *)
(***************************************************************************)
EXTENDS KernelStore, TLAPS

Writing == pc \in {"advance", "replace"}

JobOK ==
  pc # "free" =>
    /\ job \in Job
    /\ job.op = "execute" => job.cap \in Caps
    /\ pc = "run" => job.op = "execute"

TypeInv == TypeOK /\ JobOK

\* The fields that may differ between two snapshots of the same authority are the boot
\* ids only.
Alike(s, t) ==
  /\ s.seq = t.seq /\ s.epoch = t.epoch /\ s.perms = t.perms /\ s.gov = t.gov
  /\ s.commits = t.commits /\ s.consumed = t.consumed /\ s.refused = t.refused

Descends(s, t) ==
  /\ \A x \in Pairs : t.perms[x] \subseteq s.perms[x]
  /\ t.gov = s.gov
  /\ t.epoch >= s.epoch

OwnLoss(s, t) ==
  \A x \in ChangedPairs(s, t) :
    \E c \in t.commits \ s.commits : minted[c] # None /\ minted[c].principal = x[1]

\* What an operation may write on top of s.
Builds(s, t) ==
  /\ t.seq = s.seq + 1 \/ Alike(s, t)
  /\ Descends(s, t)
  /\ OwnLoss(s, t)
  /\ s.consumed \subseteq t.consumed
  /\ s.refused \subseteq t.refused

Histories ==
  /\ disk \in archive \cup {None}
  /\ newest \in archive \cup {None}
  /\ newest = None => archive = {}
  /\ newest # None => disk # None
  /\ \A s \in archive : s.seq < newest.seq \/ Alike(s, newest)

FloorOK ==
  IF newest = None THEN floor = 0 ELSE floor \in {newest.seq, newest.seq + 1}

WriteOK ==
  Writing =>
    /\ newest = None => job.new.seq = 0
    /\ newest # None => Builds(newest, job.new)
    /\ pc = "replace" => floor = job.new.seq
    /\ job.op = "execute" => /\ job.cap \in job.new.consumed
                             /\ job.effect \notin job.new.refused

\* An executor that was called, or may be called now, has its capability used up.
ExecuteOK ==
  /\ \A c \in Caps : runs[c] # 0 => newest # None /\ c \in newest.consumed
  /\ \A c \in Caps : runs[c] <= 1
  /\ published # {} => newest # None /\ published \subseteq newest.refused
  /\ pc # "free" /\ job.op = "execute" =>
       runs[job.cap] = 0 /\ job.effect \notin published
  /\ pc = "run" => newest # None /\ job.cap \in newest.consumed

\* A snapshot's capabilities are of its epoch or earlier, and those of its epoch are
\* permitted in it.
Sound(s) ==
  \A c \in s.commits :
    /\ minted[c] # None
    /\ minted[c].epoch <= s.epoch
    /\ minted[c].epoch = s.epoch =>
         minted[c].action \in s.perms[<<minted[c].principal, minted[c].domain>>]

SoundOK == (\A s \in archive : Sound(s)) /\ (Writing => Sound(job.new))

IInv == TypeInv /\ Histories /\ FloorOK /\ WriteOK /\ ExecuteOK /\ SoundOK

----------------------------------------------------------------------------
(* Types *)

\* The initial states are well typed.
LEMMA TypeInit == Init => TypeInv
<1> SUFFICES ASSUME Init PROVE TypeInv
  OBVIOUS
<1>1. ASSUME NEW perms \in Permissions, NEW gov \in Governances, NEW b \in Boots
      PROVE  Deployed(perms, gov, b) \in Snapshot
  BY BoundsAssumption DEF Deployed, Snapshot, Seqs, Epochs
<1>2. disk \in Snapshot \cup {None}
  BY <1>1 DEF Init
<1> QED
  BY <1>2, BoundsAssumption
  DEF Init, TypeInv, TypeOK, JobOK, InitialFloor, NoFloor, Seqs, Snapshot

\* A write that begins leaves the types right if what it writes is right.
LEMMA BeginTypes ==
  ASSUME TypeInv, NEW op \in {"rebind", "issue", "execute", "refuse"}, NEW s,
         NEW c \in Caps \cup {None}, NEW e \in Effects \cup {None},
         s.seq <= MaxSeq /\ s.epoch <= MaxEpoch => s \in Snapshot,
         op = "execute" => c \in Caps,
         BeginWrite(op, s, c, e)
  PROVE  /\ job' \in Job /\ job'.new = s /\ job'.op = op /\ job'.cap = c /\ job'.effect = e
         /\ s \in Snapshot
         /\ pc' \in {"advance", "replace"}
         /\ s.seq >= floor
         /\ pc' = "replace" => s.seq = floor
         /\ JobOK'
<1>1. s \in Snapshot
  BY DEF BeginWrite
<1>2. /\ job' = [op |-> op, new |-> s, cap |-> c, effect |-> e]
      /\ pc' = FirstStep(s)
      /\ s.seq >= floor
  BY DEF BeginWrite
<1>3. job' \in Job
  BY <1>1, <1>2 DEF Job
<1>4. s.seq \in Int /\ floor \in Int
  BY <1>1 DEF TypeInv, TypeOK, Snapshot, Seqs, NoFloor
<1> QED
  BY <1>1, <1>2, <1>3, <1>4 DEF FirstStep, JobOK

\* Every action keeps the types.
LEMMA TypeStep ==
  ASSUME TypeInv, [Next]_vars
  PROVE  TypeInv'
<1>0. TypeOK /\ JobOK
  BY DEF TypeInv
<1>1. CASE UNCHANGED vars
  BY <1>0, <1>1 DEF TypeInv, TypeOK, JobOK, vars, history
<1>2. ASSUME NEW b \in Boots, Start(b) PROVE TypeInv'
  <2> DEFINE base == IF disk = None THEN EmptyStore(b) ELSE disk
             s == [base EXCEPT !.boot = b]
  <2>1. EmptyStore(b) \in Snapshot
    BY BoundsAssumption DEF EmptyStore, Deployed, Snapshot, Seqs, Epochs, Permissions
  <2>2. base \in Snapshot
    BY <1>0, <2>1 DEF TypeOK
  <2>3. s \in Snapshot
    <3> HIDE DEF base
    <3> QED BY <2>2 DEF Snapshot
  <2>4. BeginWrite("rebind", s, None, None)
    BY <1>2 DEF Start
  <2> HIDE DEF s
  <2>5. job' \in Job /\ pc' \in {"advance", "replace"} /\ JobOK'
    BY <2>3, <2>4, BeginTypes
  <2> QED BY <1>0, <1>2, <2>5 DEF Start, TypeInv, TypeOK, history
<1>3. ASSUME NEW c \in Caps, NEW p \in Principals, NEW d \in Domains, NEW a \in Actions,
             NEW e \in Effects \cup {None}, NEW proposed \in Proposals,
             Issue(c, p, d, a, e, proposed)
      PROVE  TypeInv'
  <2> DEFINE s == [disk EXCEPT !.seq = disk.seq + 1, !.epoch = proposed.epoch,
                     !.perms = proposed.perms, !.gov = proposed.gov, !.boot = gen,
                     !.commits = disk.commits \cup {c}, !.refused = KeptRefusals]
  <2>1. disk \in Snapshot /\ gen \in Boots
    BY <1>0, <1>3 DEF TypeOK, Issue, Ready, Accepts
  <2>2. s.seq <= MaxSeq => s \in Snapshot
    <3>1. disk.seq \in Nat
      BY <2>1 DEF Snapshot, Seqs
    <3>2. s.seq = disk.seq + 1
      BY <2>1 DEF Snapshot
    <3>3. disk.seq + 1 <= MaxSeq => disk.seq + 1 \in Seqs
      BY <3>1, BoundsAssumption DEF Seqs
    <3> QED
      BY <2>1, <3>2, <3>3 DEF Snapshot, Proposals, KeptRefusals
  <2>3. BeginWrite("issue", s, c, e)
    BY <1>3 DEF Issue
  <2> HIDE DEF s
  <2>4. job' \in Job /\ pc' \in {"advance", "replace"} /\ JobOK'
    BY <2>2, <2>3, BeginTypes
  <2>5. minted' \in [Caps -> Capability \cup {None}]
    BY <1>0, <1>3, <2>1 DEF TypeOK, Issue, Capability, Proposals
  <2> QED BY <1>0, <1>3, <2>4, <2>5 DEF Issue, TypeInv, TypeOK, history
<1>4. ASSUME NEW c \in Caps, NEW e \in Effects, Execute(c, e) PROVE TypeInv'
  <2>1. disk \in Snapshot
    BY <1>0, <1>4 DEF TypeOK, Execute, Ready, Accepts
  <2>2. Consume(disk, c).seq <= MaxSeq => Consume(disk, c) \in Snapshot
    <3>1. disk.seq \in Nat
      BY <2>1 DEF Snapshot, Seqs
    <3>2. Consume(disk, c).seq = disk.seq + 1
      BY <2>1 DEF Consume, Snapshot
    <3>3. disk.seq + 1 <= MaxSeq => disk.seq + 1 \in Seqs
      BY <3>1, BoundsAssumption DEF Seqs
    <3> QED
      BY <2>1, <3>2, <3>3 DEF Consume, Snapshot
  <2>3. job' \in Job /\ pc' \in {"advance", "replace"} /\ JobOK'
    BY <1>4, <2>2, BeginTypes DEF Execute
  <2> QED BY <1>0, <1>4, <2>3 DEF Execute, TypeInv, TypeOK, history
<1>5. ASSUME NEW e \in Effects, NEW target \in Epochs, NEW refused \in SUBSET Effects,
             Refuse(e, target, refused)
      PROVE  TypeInv'
  <2> DEFINE s == [disk EXCEPT !.seq = disk.seq + 1, !.epoch = target,
                     !.refused = refused]
  <2>1. disk \in Snapshot
    BY <1>0, <1>5 DEF TypeOK, Refuse, Ready, Accepts
  <2>2. s.seq <= MaxSeq => s \in Snapshot
    <3>1. disk.seq \in Nat
      BY <2>1 DEF Snapshot, Seqs
    <3>2. s.seq = disk.seq + 1
      BY <2>1 DEF Snapshot
    <3>3. disk.seq + 1 <= MaxSeq => disk.seq + 1 \in Seqs
      BY <3>1, BoundsAssumption DEF Seqs
    <3> QED
      BY <2>1, <3>2, <3>3 DEF Snapshot
  <2>3. BeginWrite("refuse", s, None, None)
    BY <1>5 DEF Refuse
  <2> HIDE DEF s
  <2>4. job' \in Job /\ pc' \in {"advance", "replace"} /\ JobOK'
    BY <2>2, <2>3, BeginTypes
  <2> QED BY <1>0, <1>5, <2>4 DEF Refuse, TypeInv, TypeOK, history
<1>6. CASE AdvanceAnchor
  BY <1>0, <1>6 DEF AdvanceAnchor, NewFloor, TypeInv, TypeOK, JobOK, Job, Snapshot, history
<1>7. CASE ReplaceFile
  BY <1>0, <1>7 DEF ReplaceFile, Finish, TypeInv, TypeOK, JobOK, Job, Snapshot
<1>8. CASE Run
  BY <1>0, <1>8 DEF Run, Finish, TypeInv, TypeOK, JobOK
<1>9. CASE Crash
  BY <1>0, <1>9, BoundsAssumption
  DEF Crash, Finish, InitialFloor, NoFloor, Seqs, TypeInv, TypeOK, JobOK, history
<1>10. CASE Fail
  BY <1>0, <1>10 DEF Fail, Finish, TypeInv, TypeOK, JobOK, history
<1>11. ASSUME NEW s \in archive, Restore(s) PROVE TypeInv'
  BY <1>0, <1>11 DEF Restore, TypeInv, TypeOK, JobOK, history
<1> QED
  BY <1>1, <1>2, <1>3, <1>4, <1>5, <1>6, <1>7, <1>8, <1>9, <1>10, <1>11 DEF Next

\* KernelStore is well typed in every reachable state, under either kind of anchor.
THEOREM TypeCorrect == Spec => []TypeOK
<1>1. Init => TypeInv
  BY TypeInit
<1>2. TypeInv /\ [Next]_vars => TypeInv'
  BY TypeStep
<1>3. TypeInv => TypeOK
  BY DEF TypeInv
<1> QED BY <1>1, <1>2, <1>3, PTL DEF Spec

----------------------------------------------------------------------------
(* The invariant *)

\* With a durable anchor the initial states satisfy the invariant.
LEMMA InvInit == Durable /\ Init => IInv
<1> SUFFICES ASSUME Durable, Init PROVE IInv
  OBVIOUS
<1>1. TypeInv
  BY TypeInit
<1>2. disk # None => /\ disk \in Snapshot /\ disk.seq = 0 /\ disk.commits = {}
  BY <1>1 DEF Init, Deployed, TypeInv, TypeOK
<1>3. Histories
  BY <1>1, <1>2 DEF Init, Histories, Alike, TypeInv, TypeOK
<1>4. FloorOK
  BY <1>2 DEF Init, FloorOK, InitialFloor
<1>5. WriteOK /\ ExecuteOK /\ SoundOK
  BY <1>2 DEF Init, WriteOK, ExecuteOK, SoundOK, Sound, Writing
<1> QED
  BY <1>1, <1>3, <1>4, <1>5 DEF IInv

\* What _read accepts is the newest snapshot up to its boot id: the floor is at the
\* newest sequence number and nothing older reaches it.
LEMMA Fresh ==
  ASSUME IInv, Accepts(disk)
  PROVE  /\ disk \in Snapshot /\ newest \in Snapshot /\ newest # None
         /\ disk \in archive /\ newest \in archive
         /\ Alike(disk, newest)
         /\ floor = newest.seq
<1>1. disk # None /\ disk.seq >= floor
  BY DEF Accepts
<1>2. disk \in archive /\ newest # None /\ newest \in archive
  BY <1>1 DEF IInv, Histories
<1>3. disk \in Snapshot /\ newest \in Snapshot
  BY <1>2 DEF IInv, TypeInv, TypeOK
<1>4. disk.seq \in Int /\ newest.seq \in Int
  BY <1>3 DEF Snapshot, Seqs
<1>5. floor \in {newest.seq, newest.seq + 1}
  BY <1>2 DEF IInv, FloorOK
<1>6. disk.seq < newest.seq \/ Alike(disk, newest)
  BY <1>2 DEF IInv, Histories
<1>7. Alike(disk, newest)
  BY <1>1, <1>4, <1>5, <1>6
<1> QED
  BY <1>1, <1>2, <1>3, <1>4, <1>5, <1>7 DEF Alike

\* Capabilities keep what they are bound to.
MintedGrows == \A c \in Caps : minted[c] # None => minted'[c] = minted[c]

\* A write that begins keeps the invariant if it builds on the newest snapshot.
LEMMA BeginStep ==
  ASSUME IInv, TypeInv', pc = "free",
         NEW op \in {"rebind", "issue", "execute", "refuse"}, NEW s \in Snapshot,
         NEW c \in Caps \cup {None}, NEW e \in Effects \cup {None},
         BeginWrite(op, s, c, e),
         UNCHANGED <<disk, floor, history>>,
         MintedGrows,
         newest = None => s.seq = 0 /\ op = "rebind",
         newest # None => Builds(newest, s)',
         op = "execute" => /\ c \in Caps /\ c \in s.consumed /\ runs[c] = 0
                           /\ e \notin published /\ e \notin s.refused,
         Sound(s)'
  PROVE  IInv'
<1>1. /\ job' = [op |-> op, new |-> s, cap |-> c, effect |-> e]
      /\ pc' = FirstStep(s)
      /\ s.seq >= floor
  BY DEF BeginWrite
<1>2. /\ job'.new = s /\ job'.op = op /\ job'.cap = c /\ job'.effect = e
      /\ pc' \in {"advance", "replace"}
  BY <1>1 DEF FirstStep
<1>3. s.seq \in Int /\ floor \in Int
  BY DEF IInv, TypeInv, TypeOK, Snapshot, Seqs, NoFloor
<1>4. pc' = "replace" => floor = s.seq
  BY <1>1, <1>3 DEF FirstStep
<1>5. Histories' /\ FloorOK'
  BY DEF IInv, Histories, FloorOK, Alike, history
<1>6. WriteOK'
  <2>1. newest' = newest /\ floor' = floor
    BY DEF history
  <2>2. newest' # None => Builds(newest, s)'
    BY <2>1
  <2> QED
    BY <1>2, <1>4, <2>1, <2>2 DEF WriteOK, Writing
<1>7. ExecuteOK'
  BY <1>2 DEF IInv, ExecuteOK, history
<1>8. SoundOK'
  <2>1. ASSUME NEW t \in archive PROVE Sound(t)'
    <3>1. Sound(t) /\ t \in Snapshot
      BY DEF IInv, SoundOK, TypeInv, TypeOK
    <3>2. t.commits \subseteq Caps
      BY <3>1 DEF Snapshot
    <3> QED
      BY <3>1, <3>2 DEF Sound, MintedGrows
  <2>2. archive' = archive
    BY DEF history
  <2> QED
    BY <1>2, <2>1, <2>2 DEF SoundOK, Sound
<1> QED
  BY <1>5, <1>6, <1>7, <1>8 DEF IInv

\* Binding a generation writes the same authority again.
LEMMA StartStep ==
  ASSUME IInv, TypeInv', NEW b \in Boots, Start(b)
  PROVE  IInv'
<1> DEFINE base == IF disk = None THEN EmptyStore(b) ELSE disk
<1>0. PICK s : s = [base EXCEPT !.boot = b]
  OBVIOUS
<1>1. /\ pc = "free" /\ BeginWrite("rebind", s, None, None)
      /\ UNCHANGED <<disk, floor, minted, history>>
      /\ disk = None \/ Accepts(disk)
  BY <1>0 DEF Start
<1>2. base \in Snapshot
  <2>1. EmptyStore(b) \in Snapshot
    BY BoundsAssumption DEF EmptyStore, Deployed, Snapshot, Seqs, Epochs, Permissions
  <2> QED
    BY <2>1 DEF IInv, TypeInv, TypeOK
<1>3. s \in Snapshot /\ Alike(base, s)
  <2> HIDE DEF base
  <2> QED BY <1>0, <1>2 DEF Snapshot, Alike
<1>4. newest = None => disk = None /\ base.seq = 0 /\ base.commits = {}
  BY <1>1, Fresh DEF EmptyStore, Deployed
<1>5. newest # None => Alike(newest, base) /\ newest \in Snapshot /\ newest \in archive
  BY <1>1, Fresh DEF IInv, Histories, Alike
<1> HIDE DEF base
<1>6. newest = None => s.seq = 0 /\ s.commits = {}
  BY <1>3, <1>4 DEF Alike
<1>7. newest # None => Alike(newest, s)
  BY <1>3, <1>5 DEF Alike
<1>8. newest # None => Builds(newest, s)'
  <2> SUFFICES ASSUME newest # None PROVE Builds(newest, s)'
    OBVIOUS
  <2>1. newest' = newest
    BY <1>1 DEF history
  <2>2. newest.epoch \in Int
    BY <1>5 DEF Snapshot, Epochs
  <2> QED
    BY <1>7, <2>1, <2>2 DEF Builds, Alike, Descends, OwnLoss, ChangedPairs
<1>9. Sound(s)'
  <2>1. CASE newest = None
    BY <1>6, <2>1 DEF Sound
  <2>2. CASE newest # None
    <3>1. Sound(newest)
      BY <1>5, <2>2 DEF IInv, SoundOK
    <3> QED
      BY <1>1, <1>7, <2>2, <3>1 DEF Sound, Alike
  <2> QED BY <2>1, <2>2
<1>10. MintedGrows
  BY <1>1 DEF MintedGrows
<1> QED
  BY <1>1, <1>3, <1>6, <1>8, <1>9, <1>10, BeginStep

\* A capability goes on record together with the transition it carries; all earlier
\* capabilities are of earlier epochs then.
LEMMA IssueStep ==
  ASSUME IInv, TypeInv', NEW c \in Caps, NEW p \in Principals, NEW d \in Domains,
         NEW a \in Actions, NEW e \in Effects \cup {None}, NEW proposed \in Proposals,
         Issue(c, p, d, a, e, proposed)
  PROVE  IInv'
<1>0. PICK s : s = [disk EXCEPT !.seq = disk.seq + 1, !.epoch = proposed.epoch,
                      !.perms = proposed.perms, !.gov = proposed.gov, !.boot = gen,
                      !.commits = disk.commits \cup {c}, !.refused = KeptRefusals]
  OBVIOUS
<1>1. /\ pc = "free" /\ Accepts(disk) /\ BeginWrite("issue", s, c, e)
      /\ UNCHANGED <<disk, floor, history>>
      /\ minted[c] = None
      /\ Allowed(proposed.perms, p, d, a)
      /\ ValidTransition(disk, proposed, p)
      /\ minted' = [minted EXCEPT ![c] =
           [epoch |-> proposed.epoch, boot |-> gen, principal |-> p, domain |-> d,
            action |-> a, effect |-> e]]
  BY <1>0 DEF Issue, Ready
<1>2. /\ disk \in Snapshot /\ newest \in Snapshot /\ newest # None
      /\ disk \in archive /\ newest \in archive /\ Alike(disk, newest)
  BY <1>1, Fresh
<1>3. /\ s.seq = disk.seq + 1 /\ s.epoch = proposed.epoch /\ s.perms = proposed.perms
      /\ s.gov = proposed.gov /\ s.commits = disk.commits \cup {c}
      /\ s.consumed = disk.consumed /\ s.refused = disk.refused
  BY <1>0, <1>2 DEF Snapshot, KeptRefusals
<1>4. job'.new = s
  BY <1>1 DEF BeginWrite
<1>5. s \in Snapshot
  BY <1>1, <1>4 DEF TypeInv, JobOK, BeginWrite, FirstStep, Job
<1>6. /\ minted'[c] # None
      /\ minted'[c].epoch = proposed.epoch /\ minted'[c].principal = p
      /\ minted'[c].domain = d /\ minted'[c].action = a
      /\ \A x \in Caps : x # c => minted'[x] = minted[x]
  <2>1. minted \in [Caps -> Capability \cup {None}] /\ gen \in Boots
    BY DEF IInv, TypeInv, TypeOK, Issue, Ready
  <2>2. [epoch |-> proposed.epoch, boot |-> gen, principal |-> p, domain |-> d,
         action |-> a, effect |-> e] \in Capability
    BY <2>1 DEF Capability, Proposals
  <2> QED BY <1>1, <2>1, <2>2, NoneAssumption
<1>7. MintedGrows
  BY <1>1, <1>6 DEF MintedGrows
<1>8. Sound(disk) /\ Sound(newest)
  BY <1>2 DEF IInv, SoundOK
<1>9. c \notin newest.commits /\ disk.commits = newest.commits
  BY <1>1, <1>2, <1>8 DEF Sound, Alike
<1>10. disk.epoch \in Int /\ proposed.epoch = disk.epoch + 1
  BY <1>1, <1>2 DEF ValidTransition, Snapshot, Epochs
<1>11. Builds(newest, s)'
  <2>1. newest' = newest
    BY <1>1 DEF history
  <2>2. Descends(newest, s)
    BY <1>1, <1>2, <1>3, <1>10 DEF Descends, ValidTransition, Attenuates, Alike
  <2>3. ASSUME NEW x \in ChangedPairs(newest, s) PROVE x[1] = p
    BY <1>1, <1>2, <1>3, <2>3 DEF ValidTransition, OwnOnly, ChangedPairs, Alike
  <2>4. OwnLoss(newest, s)'
    BY <1>3, <1>6, <1>9, <2>1, <2>3 DEF OwnLoss, ChangedPairs
  <2> QED
    BY <1>2, <1>3, <2>1, <2>2, <2>4 DEF Builds, Alike, Descends
<1>12. Sound(s)'
  <2> SUFFICES ASSUME NEW x \in s.commits
               PROVE  /\ minted'[x] # None
                      /\ minted'[x].epoch <= s.epoch
                      /\ minted'[x].epoch = s.epoch =>
                           minted'[x].action
                             \in s.perms[<<minted'[x].principal, minted'[x].domain>>]
    BY DEF Sound
  <2>1. CASE x = c
    BY <1>1, <1>3, <1>6, <1>10, <2>1 DEF Allowed
  <2>2. CASE x # c
    <3>1. x \in disk.commits /\ x \in Caps
      BY <1>2, <1>3, <2>2 DEF Snapshot
    <3>2. minted[x] # None /\ minted[x].epoch <= disk.epoch /\ minted'[x] = minted[x]
      BY <1>6, <1>8, <2>2, <3>1 DEF Sound
    <3>3. minted[x].epoch \in Int
      BY <3>1, <3>2 DEF IInv, TypeInv, TypeOK, Capability, Epochs
    <3> QED BY <1>3, <1>10, <3>2, <3>3
  <2> QED BY <2>1, <2>2
<1> QED
  BY <1>1, <1>2, <1>5, <1>7, <1>11, <1>12, BeginStep

\* A snapshot that differs from an accepted one in its sequence number, a later epoch,
\* and more of consumed and refused builds on the newest, and is as sound.
LEMMA ExtendStep ==
  ASSUME IInv, Accepts(disk), NEW s \in Snapshot,
         UNCHANGED <<minted, history>>,
         s.seq = disk.seq + 1, s.perms = disk.perms, s.gov = disk.gov,
         s.commits = disk.commits, s.epoch >= disk.epoch,
         disk.consumed \subseteq s.consumed, disk.refused \subseteq s.refused
  PROVE  Builds(newest, s)' /\ Sound(s)' /\ newest # None
<1>1. /\ disk \in Snapshot /\ newest \in Snapshot /\ newest # None
      /\ disk \in archive /\ Alike(disk, newest)
  BY Fresh
<1>2. newest' = newest
  BY DEF history
<1>3. Builds(newest, s)'
  BY <1>1, <1>2 DEF Builds, Descends, OwnLoss, ChangedPairs, Alike
<1>4. Sound(s)'
  <2> SUFFICES ASSUME NEW x \in s.commits
               PROVE  /\ minted[x] # None
                      /\ minted[x].epoch <= s.epoch
                      /\ minted[x].epoch = s.epoch =>
                           minted[x].action
                             \in s.perms[<<minted[x].principal, minted[x].domain>>]
    BY DEF Sound
  <2>1. Sound(disk) /\ x \in disk.commits /\ x \in Caps
    BY <1>1 DEF IInv, SoundOK, Snapshot
  <2>2. minted[x] # None /\ minted[x].epoch <= disk.epoch
    BY <2>1 DEF Sound
  <2>3. minted[x].epoch \in Int /\ disk.epoch \in Int /\ s.epoch \in Int
    BY <1>1, <2>1, <2>2 DEF IInv, TypeInv, TypeOK, Capability, Snapshot, Epochs
  <2> QED BY <2>1, <2>2, <2>3 DEF Sound
<1> QED BY <1>1, <1>3, <1>4

\* An execution starts with a capability no executor was called for.
LEMMA ExecuteStep ==
  ASSUME IInv, TypeInv', NEW c \in Caps, NEW e \in Effects, Execute(c, e)
  PROVE  IInv'
<1>1. PICK s : s = Consume(disk, c)
  OBVIOUS
<1>2. /\ pc = "free" /\ Accepts(disk) /\ BeginWrite("execute", s, c, e)
      /\ UNCHANGED <<disk, floor, minted, history>>
      /\ c \notin disk.consumed /\ e \notin disk.refused
  BY <1>1 DEF Execute, Ready
<1>3. /\ disk \in Snapshot /\ newest # None /\ Alike(disk, newest)
  BY <1>2, Fresh
<1>4. /\ s.seq = disk.seq + 1 /\ s.perms = disk.perms /\ s.gov = disk.gov
      /\ s.commits = disk.commits /\ s.epoch = disk.epoch
      /\ s.consumed = disk.consumed \cup {c} /\ s.refused = disk.refused
  BY <1>1, <1>3 DEF Consume, Snapshot
<1>5. s \in Snapshot
  BY <1>2 DEF TypeInv, JobOK, BeginWrite, FirstStep, Job
<1>6. disk.epoch \in Int
  BY <1>3 DEF Snapshot, Epochs
<1>7. Builds(newest, s)' /\ Sound(s)'
  BY <1>2, <1>4, <1>5, <1>6, ExtendStep
<1>8. runs[c] = 0 /\ e \notin published
  BY <1>2, <1>3 DEF IInv, ExecuteOK, Alike
<1>9. MintedGrows
  BY <1>2 DEF MintedGrows
<1> QED
  BY <1>2, <1>3, <1>4, <1>5, <1>7, <1>8, <1>9, BeginStep

\* A refusal moves the epoch, and with it out of reach of every capability on record.
LEMMA RefuseStep ==
  ASSUME IInv, TypeInv', NEW e \in Effects, NEW target \in Epochs,
         NEW refused \in SUBSET Effects, Refuse(e, target, refused)
  PROVE  IInv'
<1>1. PICK s : s = [disk EXCEPT !.seq = disk.seq + 1, !.epoch = target,
                      !.refused = refused]
  OBVIOUS
<1>2. /\ pc = "free" /\ Accepts(disk) /\ BeginWrite("refuse", s, None, None)
      /\ disk.refused \subseteq refused
      /\ UNCHANGED <<disk, floor, minted, history>>
      /\ target > disk.epoch
  BY <1>1 DEF Refuse, RefusedAfter, Ready
<1>3. /\ disk \in Snapshot /\ newest # None
  BY <1>2, Fresh
<1>4. /\ s.seq = disk.seq + 1 /\ s.perms = disk.perms /\ s.gov = disk.gov
      /\ s.commits = disk.commits /\ s.epoch = target
      /\ s.consumed = disk.consumed /\ s.refused = refused
  BY <1>1, <1>3 DEF Snapshot
<1>5. s \in Snapshot
  BY <1>2 DEF TypeInv, JobOK, BeginWrite, FirstStep, Job
<1>6. target >= disk.epoch
  BY <1>2, <1>3 DEF Snapshot, Epochs
<1>7. Builds(newest, s)' /\ Sound(s)'
  BY <1>2, <1>4, <1>5, <1>6, ExtendStep
<1>8. MintedGrows
  BY <1>2 DEF MintedGrows
<1> QED
  BY <1>2, <1>3, <1>4, <1>5, <1>7, <1>8, BeginStep

\* The anchor moves to the snapshot being written, one ahead of the newest at most.
LEMMA AdvanceStep ==
  ASSUME IInv, TypeInv', AdvanceAnchor
  PROVE  IInv'
<1>1. /\ pc = "advance" /\ pc' = "replace" /\ floor' = job.new.seq
      /\ UNCHANGED <<disk, minted, job, history>>
  BY DEF AdvanceAnchor, NewFloor
<1>2. Histories' /\ ExecuteOK' /\ SoundOK'
  BY <1>1 DEF IInv, Histories, ExecuteOK, SoundOK, Sound, Alike, Writing, history
<1>3. FloorOK'
  BY <1>1 DEF IInv, FloorOK, WriteOK, Writing, Builds, Alike, history
<1>4. WriteOK'
  BY <1>1 DEF IInv, WriteOK, Writing, Builds, Alike, Descends, OwnLoss, ChangedPairs, history
<1> QED
  BY <1>2, <1>3, <1>4 DEF IInv

\* The snapshot that is written becomes the newest.
LEMMA ReplaceStep ==
  ASSUME IInv, TypeInv', ReplaceFile
  PROVE  IInv'
<1>1. /\ pc = "replace" /\ disk' = job.new /\ newest' = job.new
      /\ archive' = archive \cup {job.new}
      /\ published' = published \cup job.new.refused
      /\ UNCHANGED <<floor, minted, runs>>
      /\ \/ job.op = "execute" /\ pc' = "run" /\ job' = job
         \/ job.op # "execute" /\ pc' = "free"
  BY DEF ReplaceFile, Finish
<1>2. /\ job.new \in Snapshot /\ job.new # None
      /\ job.op = "execute" => job.cap \in Caps
  BY <1>1, NoneAssumption DEF IInv, TypeInv, JobOK, Job
<1>3. newest # None => Builds(newest, job.new) /\ newest \in Snapshot /\ newest \in archive
  BY <1>1 DEF IInv, WriteOK, Writing, TypeInv, TypeOK, Histories
<1>4. /\ newest = None => job.new.seq = 0
      /\ floor = job.new.seq
      /\ job.op = "execute" => job.cap \in job.new.consumed /\ job.effect \notin job.new.refused
  BY <1>1 DEF IInv, WriteOK, Writing
<1>5. Histories'
  <2>1. ASSUME NEW t \in archive PROVE t.seq < job.new.seq \/ Alike(t, job.new)
    <3>1. newest # None /\ (t.seq < newest.seq \/ Alike(t, newest))
      BY DEF IInv, Histories
    <3>2. t.seq \in Int /\ newest.seq \in Int /\ job.new.seq \in Int
      BY <1>2, <1>3, <3>1 DEF IInv, TypeInv, TypeOK, Snapshot, Seqs
    <3>3. job.new.seq = newest.seq + 1 \/ Alike(newest, job.new)
      BY <1>3, <3>1 DEF Builds
    <3> QED BY <3>1, <3>2, <3>3 DEF Alike
  <2>2. Alike(job.new, job.new)
    BY DEF Alike
  <2> QED
    BY <1>1, <1>2, <2>1, <2>2 DEF Histories, Alike
<1>6. FloorOK'
  BY <1>1, <1>2, <1>4 DEF FloorOK
<1>7. WriteOK'
  BY <1>1 DEF WriteOK, Writing
<1>8. ExecuteOK'
  <2>1. ASSUME NEW c \in Caps PROVE runs'[c] <= 1 /\ (runs'[c] # 0 => c \in newest'.consumed)
    BY <1>1, <1>3 DEF IInv, ExecuteOK, Builds
  <2>2. published' \subseteq newest'.refused
    BY <1>1, <1>3, <1>4 DEF IInv, ExecuteOK, Builds
  <2>3. pc' # "free" /\ job'.op = "execute" =>
          runs'[job'.cap] = 0 /\ job'.effect \notin published'
    BY <1>1, <1>4 DEF IInv, ExecuteOK
  <2>4. pc' = "run" => job'.cap \in newest'.consumed
    BY <1>1, <1>4
  <2> QED
    BY <1>1, <1>2, <2>1, <2>2, <2>3, <2>4 DEF ExecuteOK
<1>9. SoundOK'
  BY <1>1 DEF IInv, SoundOK, Sound, Writing
<1> QED
  BY <1>5, <1>6, <1>7, <1>8, <1>9 DEF IInv

\* The executor is called once for a capability that is used up.
LEMMA RunStep ==
  ASSUME IInv, TypeInv', Run
  PROVE  IInv'
<1>1. /\ pc = "run" /\ pc' = "free"
      /\ runs' = [runs EXCEPT ![job.cap] = @ + 1]
      /\ UNCHANGED <<disk, floor, minted, archive, newest, published>>
  BY DEF Run, Finish
<1>2. /\ job.op = "execute" /\ job.cap \in Caps
      /\ runs[job.cap] = 0 /\ newest # None /\ job.cap \in newest.consumed
  BY <1>1 DEF IInv, TypeInv, JobOK, ExecuteOK
<1>3. ExecuteOK'
  BY <1>1, <1>2 DEF IInv, TypeInv, TypeOK, ExecuteOK
<1>4. Histories' /\ FloorOK' /\ WriteOK' /\ SoundOK'
  BY <1>1 DEF IInv, Histories, FloorOK, WriteOK, SoundOK, Sound, Alike, Writing
<1> QED
  BY <1>3, <1>4 DEF IInv

\* Whatever ends an operation, and whatever comes back, leaves the invariant.
LEMMA MishapStep ==
  ASSUME IInv, TypeInv', Durable, Crash \/ Fail \/ \E s \in archive : Restore(s)
  PROVE  IInv'
<1>1. CASE Crash \/ Fail
  <2>1. pc' = "free" /\ UNCHANGED <<disk, floor, minted, archive, newest, published, runs>>
    BY <1>1 DEF Crash, Fail, Finish, history
  <2> QED
    BY <2>1
    DEF IInv, Histories, FloorOK, WriteOK, ExecuteOK, SoundOK, Sound, Alike, Writing, history
<1>2. ASSUME NEW s \in archive, Restore(s) PROVE IInv'
  <2>1. disk' = s /\ UNCHANGED <<floor, minted, pc, job, history>> /\ s # None
    BY <1>2, NoneAssumption DEF Restore, IInv, TypeInv, TypeOK
  <2>2. Histories' /\ FloorOK' /\ ExecuteOK' /\ SoundOK'
    BY <2>1 DEF IInv, Histories, FloorOK, ExecuteOK, SoundOK, Sound, Alike, Writing, history
  <2>3. WriteOK'
    BY <2>1 DEF IInv, WriteOK, Builds, Alike, Descends, OwnLoss, ChangedPairs, Writing, history
  <2> QED BY <2>2, <2>3 DEF IInv
<1> QED BY <1>1, <1>2

\* Every step keeps the invariant.
LEMMA InvStep ==
  ASSUME Durable, IInv, [Next]_vars
  PROVE  IInv'
<1>1. TypeInv'
  BY TypeStep DEF IInv
<1>2. CASE UNCHANGED vars
  BY <1>1, <1>2
  DEF vars, IInv, Histories, FloorOK, WriteOK, ExecuteOK, SoundOK, Sound, Alike, Builds,
      Descends, OwnLoss, ChangedPairs, Writing, history
<1> QED
  BY <1>1, <1>2, StartStep, IssueStep, ExecuteStep, RefuseStep, AdvanceStep, ReplaceStep,
     RunStep, MishapStep
  DEF Next

\* The invariant holds in every state a durable anchor lets the Store reach.
THEOREM Invariant == ASSUME Durable PROVE Spec => []IInv
<1>1. Init => IInv
  BY InvInit
<1>2. IInv /\ [Next]_vars => IInv'
  BY InvStep
<1> QED BY <1>1, <1>2, PTL DEF Spec

----------------------------------------------------------------------------
(* The properties *)

\* Under a durable anchor _read never accepts anything but the newest authority,
\* whatever was restored and wherever a write was cut short.
THEOREM AcceptedIsNewestAlways == ASSUME Durable PROVE Spec => []AcceptedIsNewest
<1>1. IInv => AcceptedIsNewest
  <2> SUFFICES ASSUME IInv, Accepts(disk) PROVE SameAuthority(disk, newest)
    BY DEF AcceptedIsNewest
  <2>1. disk \in Snapshot /\ newest \in Snapshot /\ Alike(disk, newest)
    BY Fresh
  <2> QED BY <2>1 DEF Alike, Snapshot, SameAuthority
<1> QED BY <1>1, Invariant, PTL

\* Under a durable anchor no capability's executor is called twice.
THEOREM AtMostOnceAlways == ASSUME Durable PROVE Spec => []AtMostOnce
<1>1. IInv => AtMostOnce
  BY DEF IInv, ExecuteOK, AtMostOnce
<1> QED BY <1>1, Invariant, PTL

\* Under a durable anchor every capability on record is permitted in the snapshots of
\* its epoch.
THEOREM VerifiedIsPermittedAlways == ASSUME Durable PROVE Spec => []VerifiedIsPermitted
<1>1. IInv => VerifiedIsPermitted
  BY DEF IInv, SoundOK, Sound, VerifiedIsPermitted
<1> QED BY <1>1, Invariant, PTL

\* Under a durable anchor the floor is at the newest snapshot or one write ahead of it.
THEOREM FloorFollowsAlways == ASSUME Durable PROVE Spec => []FloorFollows
<1>1. IInv => FloorFollows
  BY DEF IInv, FloorOK, FloorFollows
<1> QED BY <1>1, Invariant, PTL

\* Only the rename changes the newest snapshot, and only the executor's call is counted.
LEMMA OnlyTheRename ==
  ASSUME [Next]_vars
  PROVE  /\ ~ReplaceFile => UNCHANGED newest
         /\ ~Run => UNCHANGED runs
<1>1. CASE \E b \in Boots : Start(b)
  BY <1>1 DEF Start, history
<1>2. ASSUME NEW c \in Caps, NEW p \in Principals, NEW d \in Domains, NEW a \in Actions,
             NEW e \in Effects \cup {None}, NEW proposed \in Proposals,
             Issue(c, p, d, a, e, proposed)
      PROVE  UNCHANGED <<newest, runs>>
  BY <1>2 DEF Issue, history
<1>3. CASE \E c \in Caps, e \in Effects : Execute(c, e)
  BY <1>3 DEF Execute, history
<1>4. CASE \E e \in Effects, target \in Epochs, refused \in SUBSET Effects :
             Refuse(e, target, refused)
  BY <1>4 DEF Refuse, history
<1>5. CASE AdvanceAnchor
  BY <1>5 DEF AdvanceAnchor, history
<1>6. CASE ReplaceFile
  BY <1>6 DEF ReplaceFile
<1>7. CASE Run
  BY <1>7 DEF Run
<1>8. CASE Crash \/ Fail
  BY <1>8 DEF Crash, Fail, history
<1>9. CASE \E s \in archive : Restore(s)
  BY <1>9 DEF Restore, history
<1>10. CASE UNCHANGED vars
  BY <1>10 DEF vars
<1> QED BY <1>1, <1>2, <1>3, <1>4, <1>5, <1>6, <1>7, <1>8, <1>9, <1>10 DEF Next

\* A write either leaves the newest snapshot alone or puts in its place the one that
\* was built on it.
LEMMA NewestStep ==
  ASSUME IInv, [Next]_vars, newest # None
  PROVE  \/ newest' = newest
         \/ Builds(newest, job.new) /\ newest' = job.new /\ minted' = minted
<1>1. CASE ReplaceFile
  BY <1>1 DEF ReplaceFile, IInv, WriteOK, Writing
<1>2. ASSUME ~ReplaceFile PROVE UNCHANGED newest
  BY <1>2, OnlyTheRename
<1> QED BY <1>1, <1>2

\* Under a durable anchor authority only ever shrinks, a principal loses a permission
\* by a capability of its own only, and no executor is called for a refused effect.
THEOREM StepsSafe ==
  ASSUME Durable
  PROVE  Spec => AuthorityShrinks /\ LossIsOwn /\ RefusedStaysRefused
<1> DEFINE Shrinks ==
             newest # None =>
               /\ \A x \in Pairs : newest'.perms[x] \subseteq newest.perms[x]
               /\ newest'.gov = newest.gov
               /\ newest'.epoch >= newest.epoch
           Own ==
             newest # None =>
               \A x \in ChangedPairs(newest, newest') :
                 \E c \in newest'.commits \ newest.commits : minted[c].principal = x[1]
           Refused == runs' # runs => job.effect \notin published
<1>1. IInv /\ [Next]_vars => Shrinks
  <2> SUFFICES ASSUME IInv, [Next]_vars, newest # None PROVE Shrinks
    OBVIOUS
  <2>1. newest.epoch \in Int
    BY DEF IInv, TypeInv, TypeOK, Snapshot, Epochs
  <2> QED BY <2>1, NewestStep DEF Builds, Descends
<1>2. IInv /\ [Next]_vars => Own
  <2> SUFFICES ASSUME IInv, [Next]_vars, newest # None PROVE Own
    OBVIOUS
  <2> QED BY NewestStep DEF Builds, OwnLoss, ChangedPairs
<1>3. IInv /\ [Next]_vars => Refused
  <2> SUFFICES ASSUME IInv, [Next]_vars, runs' # runs PROVE job.effect \notin published
    OBVIOUS
  <2>1. pc = "run"
    BY OnlyTheRename DEF Run
  <2> QED BY <2>1 DEF IInv, TypeInv, JobOK, ExecuteOK
<1>4. IInv /\ [Next]_vars => [Shrinks]_vars /\ [Own]_vars /\ [Refused]_vars
  BY <1>1, <1>2, <1>3
<1> HIDE DEF Shrinks, Own, Refused
<1>5. Spec => [][Shrinks]_vars /\ [][Own]_vars /\ [][Refused]_vars
  BY <1>4, Invariant, PTL DEF Spec
<1> QED BY <1>5 DEF AuthorityShrinks, LossIsOwn, RefusedStaysRefused, Shrinks, Own, Refused
=============================================================================
