------------------------------ MODULE KernelStore ------------------------------
(***************************************************************************)
(* One Store file under a monotonic anchor, through generations of the       *)
(* privileged dispatcher: Store._read, _write_atomic and rebind_boot,         *)
(* Kernel.issue with its policy, EffectGate.execute, RefusalAuthority.commit  *)
(* and UnixDispatcherServer's start and loop.                                *)
(*                                                                         *)
(* Every operation reads the Store under its exclusive lock, computes the     *)
(* next snapshot and writes it in two durable steps: the anchor advances,     *)
(* then the file is replaced.  A crash or an exception may come before, in    *)
(* between and after, and any snapshot that was ever on disk may come back.   *)
(*                                                                         *)
(* Abstracted: a snapshot with a good MAC is one that was written; temporary  *)
(* files are never read.  The lock file and the daemon lock make the          *)
(* operations of all processes one sequence, taken here by the dispatcher     *)
(* (gen).  A generation draws a boot id or is given one again (--boot-id).     *)
(* A nonce is its capability.                                                *)
(* Bound effect ids or the request's own (legacy capabilities): cap.effect.   *)
(* A Store file that is missing is not modelled.                              *)
(***************************************************************************)
EXTENDS Policy, Integers

CONSTANTS
  Caps,              \* capability txids
  Effects,           \* effect ids
  Boots,             \* boot ids of generations
  Durable,           \* the anchor keeps its floor when the process dies
  MaxSeq,            \* bound on Store sequence numbers
  MaxEpoch,          \* bound on epochs
  MaxCrashes         \* bound on the deaths of the dispatcher

ASSUME BoundsAssumption == {MaxSeq, MaxEpoch, MaxCrashes} \subseteq Nat
ASSUME DurableAssumption == Durable \in BOOLEAN

VARIABLES
  disk,              \* the snapshot in the Store file, or None: the file is empty
  floor,             \* the anchor's floor
  gen,               \* boot id of the running dispatcher or None
  minted,            \* capabilities that carry a MAC: txid -> what they are bound to
  pc,                \* next step of the operation that holds the Store lock
  job,               \* that operation: what it writes, and about what
  archive,           \* history: every snapshot that was on disk
  crashes,           \* history: deaths so far
  newest,            \* history: the snapshot written last
  published,         \* history: effects whose refusal was on record
  runs               \* history: how often each capability's executor was called

vars == <<disk, floor, gen, minted, pc, job, archive, newest, published, runs, crashes>>
history == <<archive, newest, published, runs, crashes>>

----------------------------------------------------------------------------
(* Types *)

Seqs == 0..MaxSeq
Epochs == 0..MaxEpoch
NoFloor == -1
NoGovernance == [d \in Domains |-> None]

Snapshot ==
  [seq : Seqs, epoch : Epochs, perms : Permissions, gov : Governances \cup {NoGovernance},
   boot : Boots, commits : SUBSET Caps, consumed : SUBSET Caps, refused : SUBSET Effects]

Capability ==
  [epoch : Epochs, boot : Boots, principal : Principals, domain : Domains,
   action : Actions, effect : Effects \cup {None}]

ASSUME NoneAssumption == None \notin Snapshot \cup Capability \cup Boots \cup Effects

Job ==
  [op : {"rebind", "issue", "execute", "refuse"}, new : Snapshot,
   cap : Caps \cup {None}, effect : Effects \cup {None}]

TypeOK ==
  /\ disk \in Snapshot \cup {None}
  /\ floor \in Seqs \cup {NoFloor}
  /\ gen \in Boots \cup {None}
  /\ minted \in [Caps -> Capability \cup {None}]
  /\ pc \in {"free", "advance", "replace", "run"}
  /\ job \in Job \cup {None}
  /\ archive \subseteq Snapshot
  /\ newest \in Snapshot \cup {None}
  /\ published \subseteq Effects
  /\ runs \in [Caps -> Nat]
  /\ crashes \in 0..MaxCrashes

\* Whoever deploys the Store writes permissions and governance under sequence number
\* 0; otherwise the first generation binds an empty file.
Deployed(perms, gov, b) ==
  [seq |-> 0, epoch |-> 0, perms |-> perms, gov |-> gov, boot |-> b,
   commits |-> {}, consumed |-> {}, refused |-> {}]

EmptyStore(b) == Deployed([x \in Pairs |-> {}], NoGovernance, b)

InitialFloor == IF Durable THEN 0 ELSE NoFloor

Init ==
  /\ \/ disk = None
     \/ \E perms \in Permissions, gov \in Governances, b \in Boots :
          disk = Deployed(perms, gov, b)
  /\ floor = InitialFloor
  /\ gen = None
  /\ minted = [c \in Caps |-> None]
  /\ pc = "free" /\ job = None
  /\ archive = {disk} \ {None}
  /\ newest = disk
  /\ published = {}
  /\ runs = [c \in Caps |-> 0]
  /\ crashes = 0

----------------------------------------------------------------------------
(* Reading and writing the Store *)

\* Helpers that a plausible mistake would get wrong stand after the mistaken form
\* (the mutants).

\* _read raises below the floor, and on an empty file.
Accepts(s) == s # None /\ s.seq >= floor

\* _write_atomic, as far as the anchor: it refuses a sequence below the floor and
\* advances the anchor first when the sequence is new.
ReplaceFirst(s) == "replace"
FirstStep(s) == IF s.seq > floor THEN "advance" ELSE "replace"

BeginWrite(op, s, c, e) ==
  /\ s.seq >= floor
  /\ s.seq <= MaxSeq /\ s.epoch <= MaxEpoch
  /\ job' = [op |-> op, new |-> s, cap |-> c, effect |-> e]
  /\ pc' = FirstStep(s)

Finish == pc' = "free" /\ job' = None

NewFloor == job.new.seq

AdvanceAnchor ==
  /\ pc = "advance"
  /\ floor' = NewFloor
  /\ pc' = "replace"
  /\ UNCHANGED <<disk, gen, minted, job, history>>

\* os.replace: the write is there.  An execution goes on to its executor; every
\* other operation returns.
ReplaceFile ==
  /\ pc = "replace"
  /\ disk' = job.new
  /\ newest' = job.new
  /\ archive' = archive \cup {job.new}
  /\ published' = published \cup job.new.refused
  /\ IF job.op = "execute" THEN pc' = "run" /\ UNCHANGED job ELSE Finish
  /\ UNCHANGED <<floor, gen, minted, runs, crashes>>

----------------------------------------------------------------------------
(* The dispatcher and the kernel *)

\* serve_forever: the daemon lock, then rebind_boot under the same sequence number.
Start(b) ==
  /\ gen = None /\ pc = "free"
  /\ gen' = b
  /\ disk = None \/ Accepts(disk)
  /\ LET s == IF disk = None THEN EmptyStore(b) ELSE disk
     IN BeginWrite("rebind", [s EXCEPT !.boot = b], None, None)
  /\ UNCHANGED <<disk, floor, minted, history>>

Ready == gen # None /\ pc = "free" /\ Accepts(disk)

\* The permission must be there before and after the transition.
AllowedNow(perms, p, d, a) == a \in disk.perms[<<p, d>>]
Allowed(perms, p, d, a) == a \in disk.perms[<<p, d>>] /\ a \in perms[<<p, d>>]

\* The proposed payload replaces the Store's, which keeps its refusals.
LostRefusals == {}
KeptRefusals == disk.refused

Issue(c, p, d, a, e, proposed) ==
  /\ Ready
  /\ minted[c] = None
  /\ disk.boot = gen
  /\ Allowed(proposed.perms, p, d, a)
  /\ ValidTransition(disk, proposed, p)
  /\ minted' = [minted EXCEPT ![c] =
       [epoch |-> proposed.epoch, boot |-> gen, principal |-> p, domain |-> d,
        action |-> a, effect |-> e]]
  /\ BeginWrite("issue",
       [disk EXCEPT !.seq = disk.seq + 1, !.epoch = proposed.epoch,
                    !.perms = proposed.perms, !.gov = proposed.gov, !.boot = gen,
                    !.commits = disk.commits \cup {c}, !.refused = KeptRefusals],
       c, e)
  /\ UNCHANGED <<disk, floor, gen, history>>

\* verify_locked: issued by this generation, in the epoch that still is, on record.
Verified(c) ==
  /\ minted[c] # None
  /\ minted[c].boot = gen
  /\ minted[c].epoch = disk.epoch
  /\ c \in disk.commits

\* EffectGate.execute: the capability is used up before the executor is called, under
\* a sequence number of its own.
UnderEffect(s, c) ==
  [s EXCEPT !.seq = s.seq + 1, !.consumed = s.consumed \cup {minted[c].effect}]
SameSeq(s, c) == [s EXCEPT !.consumed = s.consumed \cup {c}]
Consume(s, c) == [s EXCEPT !.seq = s.seq + 1, !.consumed = s.consumed \cup {c}]

Execute(c, e) ==
  /\ Ready
  /\ Verified(c)
  /\ minted[c].effect \in {None, e}
  /\ e \notin disk.refused
  /\ c \notin disk.consumed
  /\ BeginWrite("execute", Consume(disk, c), c, e)
  /\ UNCHANGED <<disk, floor, gen, minted, history>>

\* The executor, still under the Store lock: PrivilegedDispatcher._apply.
Run ==
  /\ pc = "run"
  /\ runs' = [runs EXCEPT ![job.cap] = @ + 1]
  /\ Finish
  /\ UNCHANGED <<disk, floor, gen, minted, archive, newest, published, crashes>>

\* A refusal whose id is on record already adds nothing to the record, whatever its
\* effect.
RefusedAfter(e) ==
  {disk.refused \cup {e}} \cup (IF disk.refused = {} THEN {} ELSE {disk.refused})

\* RefusalAuthority.commit: the epoch jumps to the refusal's target in either case.
Refuse(e, target, refused) ==
  /\ Ready
  /\ target > disk.epoch
  /\ refused \in RefusedAfter(e)
  /\ BeginWrite("refuse",
       [disk EXCEPT !.seq = disk.seq + 1, !.epoch = target, !.refused = refused],
       None, None)
  /\ UNCHANGED <<disk, floor, gen, minted, history>>

----------------------------------------------------------------------------
(* What may go wrong *)

\* The process dies; the locks are released.  An anchor in memory starts again.
Crash ==
  /\ gen # None /\ crashes < MaxCrashes
  /\ gen' = None
  /\ crashes' = crashes + 1
  /\ floor' = IF Durable THEN floor ELSE InitialFloor
  /\ Finish
  /\ UNCHANGED <<disk, minted, archive, newest, published, runs>>

\* An exception ends the operation, not the server: the loop answers with an error.
\* (During a rebind it ends the server: Crash.)
Fail ==
  /\ pc # "free" /\ job.op # "rebind"
  /\ Finish
  /\ UNCHANGED <<disk, floor, gen, minted, history>>

\* An old snapshot is put back, by a restore or a lost directory entry.
Restore(s) ==
  /\ s \in archive
  /\ disk' = s
  /\ UNCHANGED <<floor, gen, minted, pc, job, history>>

Proposals == [epoch : Epochs, perms : Permissions, gov : Governances \cup {NoGovernance}]

Next ==
  \/ \E b \in Boots : Start(b)
  \/ /\ Ready
     /\ \E p \in Principals, proposed \in Proposals :
          /\ ValidTransition(disk, proposed, p)
          /\ \E c \in Caps, d \in Domains, a \in Actions, e \in Effects \cup {None} :
               Issue(c, p, d, a, e, proposed)
  \/ \E c \in Caps, e \in Effects : Execute(c, e)
  \/ /\ Ready
     /\ \E e \in Effects, target \in Epochs, refused \in SUBSET Effects :
          Refuse(e, target, refused)
  \/ AdvanceAnchor
  \/ ReplaceFile
  \/ Run
  \/ Crash
  \/ Fail
  \/ \E s \in archive : Restore(s)

Spec == Init /\ [][Next]_vars

----------------------------------------------------------------------------
(* Properties, of a durable anchor *)

\* Two snapshots that say the same of authority and effects.
SameAuthority(s, t) == [s EXCEPT !.boot = t.boot] = t

\* What _read accepts is the snapshot written last, whatever was restored; only the
\* boot id may be older, because rebind_boot keeps the sequence number (README.md:24
\* of dar_v36_14, "an external monotonic anchor detects rollback of effect-consumption
\* state as well as authority state").
AcceptedIsNewest == Accepts(disk) => SameAuthority(disk, newest)

\* A capability's executor is called at most once, over crashes, restores and
\* generations (effect_gate.py:43-46).
AtMostOnce == \A c \in Caps : runs[c] <= 1

\* No executor is called for an effect whose refusal was put on record, not even under
\* a capability issued later or a Store restored to a time before the refusal.  (The
\* effect of a refusal under a used id is not on record, and not promised.)
RefusedStaysRefused == [][runs' # runs => job.effect \notin published]_vars

\* Along the writes the Store has seen, permissions only shrink, governance stays and
\* epochs do not fall: every transition starts from the newest state, not from a
\* restored one (policy.py:32, "attenuation-only kernel").
AuthorityShrinks ==
  [][newest # None =>
       /\ \A x \in Pairs : newest'.perms[x] \subseteq newest.perms[x]
       /\ newest'.gov = newest.gov
       /\ newest'.epoch >= newest.epoch]_vars

\* A principal loses a permission only with a capability issued to itself in the very
\* same write (policy.py:34-35, "cross-principal permission mutation").
LossIsOwn ==
  [][newest # None =>
       \A x \in ChangedPairs(newest, newest') :
         \E c \in newest'.commits \ newest.commits : minted[c].principal = x[1]]_vars

\* In any snapshot a capability on record for that snapshot's epoch names an action
\* its principal holds there: what verify_locked lets pass is permitted although it
\* never looks at the permissions (kernel.py:57-68).
VerifiedIsPermitted ==
  \A s \in archive : \A c \in s.commits :
    minted[c].epoch = s.epoch =>
      minted[c].action \in s.perms[<<minted[c].principal, minted[c].domain>>]

\* The anchor runs ahead of the newest snapshot by the one write under way, or by one
\* that was lost: then the Store accepts nothing any more, but nothing is undone
\* (store.py:51 comes before os.replace).
FloorFollows ==
  newest # None => floor \in {newest.seq, newest.seq + 1}
=============================================================================
