------------------------------ MODULE Dispatcher ------------------------------
(***************************************************************************)
(* UnixDispatcherServer and UnixDispatcherClient of dar/process_dispatcher.py: *)
(* several server processes that share one Store and one socket path, and     *)
(* clients that connect, wait, give up and try again.                        *)
(*                                                                         *)
(* A server runs serve_forever or serve_once, one step after the other (pc);  *)
(* it may be killed at any of them.  A client's frame stays in the socket     *)
(* buffer when the client gives up: the server reads and executes it later.   *)
(*                                                                         *)
(* Abstracted: the Store is the boot id it is bound to, the capabilities       *)
(* issued and used up, and its lock (KernelStore has the rest); a capability   *)
(* and the epoch it is for are the same number, as every one is issued for the *)
(* next epoch; a reply is ok or not; a connection that sends nothing, a frame  *)
(* that is malformed and a peer with another uid are a call without a          *)
(* capability.  Calls are numbered in the order they connect.  A server        *)
(* process is started once; the next one is another member of Servers.       *)
(***************************************************************************)
EXTENDS Naturals, Sequences

CONSTANTS
  Daemons,           \* processes that run serve_forever
  Onces,             \* processes that run serve_once
  Boots,             \* boot ids
  MaxEpoch,          \* bound: capabilities issued
  MaxCalls,          \* bound: calls of clients; a retry is another call
  Backlog,           \* listen(): connections that wait to be accepted
  None

Servers == Daemons \cup Onces
Caps == 1..MaxEpoch
Calls == 1..MaxCalls

ASSUME BoundsAssumption == MaxEpoch \in Nat /\ MaxCalls \in Nat /\ Backlog \in Nat \ {0}
ASSUME ServersAssumption == Daemons \cap Onces = {}
ASSUME NoneAssumption == None \notin Servers \cup Boots \cup Caps \cup Calls

VARIABLES
  boundTo,           \* Store: boot id
  issued,            \* Store: the boot ids of the capabilities issued
  consumed,          \* Store: capabilities used up
  storeLock,         \* server that holds the Store lock across its executor, or None
  daemonLock,        \* server that holds the daemon lock or None
  path,              \* server whose socket the socket path names, or None
  pc,                \* next step of a server
  boot,              \* boot id of a server
  queue,             \* connections a server has not accepted yet
  serving,           \* the connection a server handles, or None
  call,              \* call -> [cap, state], as its client sees it
  runs               \* history: how often the executor was called for a capability

store == <<boundTo, issued, consumed, storeLock>>
sockets == <<path, queue, serving>>
vars == <<store, daemonLock, pc, boot, sockets, call, runs>>

----------------------------------------------------------------------------
(* Types *)

Labels == {"off", "locked", "rebound", "unlinked", "accept", "handle", "gate", "run", "confirm",
           "deny", "served", "closed", "tidied", "dead"}

Call == [cap : Caps \cup {None}, state : {"new", "waiting", "ok", "failed"}]

\* The locks end with the process that holds them, as flocks do.
TypeOK ==
  /\ boundTo \in Boots \cup {None}
  /\ issued \in Seq(Boots) /\ Len(issued) <= MaxEpoch
  /\ consumed \subseteq Caps
  /\ storeLock \in {s \in Servers : pc[s] = "run"} \cup {None}
  /\ daemonLock \in {s \in Daemons : pc[s] \notin {"off", "dead"}} \cup {None}
  /\ path \in Servers \cup {None}
  /\ pc \in [Servers -> Labels]
  /\ boot \in [Servers -> Boots \cup {None}]
  /\ queue \in [Servers -> Seq(Calls)]
  /\ \A s \in Servers : Len(queue[s]) <= Backlog
  /\ serving \in [Servers -> Calls \cup {None}]
  /\ call \in [Calls -> Call]
  /\ runs \in [Caps -> Nat]

Init ==
  /\ boundTo = None /\ issued = <<>> /\ consumed = {} /\ storeLock = None
  /\ daemonLock = None
  /\ path = None
  /\ pc = [s \in Servers |-> "off"]
  /\ boot = [s \in Servers |-> None]
  /\ queue = [s \in Servers |-> <<>>]
  /\ serving = [s \in Servers |-> None]
  /\ call = [k \in Calls |-> [cap |-> None, state |-> "new"]]
  /\ runs = [c \in Caps |-> 0]

At(s, label) == pc[s] = label
Goto(s, label) == pc' = [pc EXCEPT ![s] = label]

\* What a process knows ends with it.
End(s) == Goto(s, "dead") /\ boot' = [boot EXCEPT ![s] = None]

----------------------------------------------------------------------------
(* Starting and stopping.  A definition that a plausible mistake would get wrong    *)
(* stands after the mistaken form (the mutants).                                  *)

AlwaysFree == TRUE
DaemonLockFree == daemonLock = None

\* _acquire_daemon_lock; a server that does not get it ends with an error.
Launch(s, b) ==
  /\ s \in Daemons /\ At(s, "off")
  /\ IF DaemonLockFree
       THEN daemonLock' = s /\ Goto(s, "locked") /\ boot' = [boot EXCEPT ![s] = b]
       ELSE UNCHANGED daemonLock /\ End(s)
  /\ UNCHANGED <<store, sockets, call, runs>>

\* _bind_generation, under the Store lock.
BindGeneration(s) ==
  /\ At(s, "locked") /\ storeLock = None
  /\ boundTo' = boot[s]
  /\ Goto(s, "rebound")
  /\ UNCHANGED <<issued, consumed, storeLock, daemonLock, boot, sockets, call, runs>>

\* serve_once takes no daemon lock and binds no generation.
LaunchOnce(s, b) ==
  /\ s \in Onces /\ At(s, "off")
  /\ boot' = [boot EXCEPT ![s] = b]
  /\ Goto(s, "rebound")
  /\ UNCHANGED <<store, daemonLock, sockets, call, runs>>

\* os.unlink removes whatever socket has the name.
Unlink(s) ==
  /\ At(s, "rebound")
  /\ path' = None
  /\ Goto(s, "unlinked")
  /\ UNCHANGED <<store, daemonLock, boot, queue, serving, call, runs>>

LockFiles(s) == UNCHANGED <<daemonLock, storeLock>>
Locks(s) ==
  /\ daemonLock' = IF daemonLock = s THEN None ELSE daemonLock
  /\ storeLock' = IF storeLock = s THEN None ELSE storeLock

\* Connections that are closed under a waiting client end its call.
Waiting(k) == call[k].state = "waiting"

Ended(ks, state) ==
  call' = [k \in Calls |-> IF k \in ks /\ Waiting(k) THEN [call[k] EXCEPT !.state = state]
                                                     ELSE call[k]]

Connections(s) == {queue[s][i] : i \in DOMAIN queue[s]} \cup ({serving[s]} \ {None})

CloseSockets(s) ==
  /\ queue' = [queue EXCEPT ![s] = <<>>]
  /\ serving' = [serving EXCEPT ![s] = None]
  /\ Ended(Connections(s), "failed")

Listening(s) == pc[s] \in {"accept", "handle", "gate", "run", "confirm", "deny"}

\* bind and listen; a name that is taken again by now is an error, which ends the
\* process.
Listen(s) ==
  /\ At(s, "unlinked")
  /\ IF path = None
       THEN path' = s /\ Goto(s, "accept") /\ UNCHANGED <<daemonLock, storeLock, boot>>
       ELSE UNCHANGED path /\ End(s) /\ Locks(s)
  /\ UNCHANGED <<boundTo, issued, consumed, queue, serving, call, runs>>

\* serve_forever is interrupted.  Its finally clauses close the sockets, unlink the name
\* and release the daemon lock, in this order.
HastyStop(s) ==
  /\ s \in Daemons /\ Listening(s)
  /\ Locks(s)
  /\ CloseSockets(s)
  /\ Goto(s, "closed")
  /\ UNCHANGED <<boundTo, issued, consumed, boot, path, runs>>
Stop(s) ==
  /\ s \in Daemons /\ Listening(s)
  /\ storeLock' = IF storeLock = s THEN None ELSE storeLock
  /\ CloseSockets(s)
  /\ Goto(s, "closed")
  /\ UNCHANGED <<boundTo, issued, consumed, daemonLock, boot, path, runs>>

Tidy(s) ==
  /\ At(s, "closed")
  /\ path' = None
  /\ Goto(s, "tidied")
  /\ UNCHANGED <<store, daemonLock, boot, queue, serving, call, runs>>

Release(s) ==
  /\ At(s, "tidied")
  /\ Locks(s)
  /\ End(s)
  /\ UNCHANGED <<boundTo, issued, consumed, sockets, call, runs>>

\* serve_once ends after one connection, or when none came in time; the name of its
\* socket stays.
EndOnce(s) ==
  /\ s \in Onces
  /\ At(s, "served") \/ (At(s, "accept") /\ queue[s] = <<>>)
  /\ CloseSockets(s)
  /\ End(s)
  /\ UNCHANGED <<store, daemonLock, path, runs>>

\* The process is killed: the system closes its sockets and drops its locks.
Kill(s) ==
  /\ pc[s] \notin {"off", "dead"}
  /\ End(s)
  /\ Locks(s)
  /\ CloseSockets(s)
  /\ UNCHANGED <<boundTo, issued, consumed, path, runs>>

----------------------------------------------------------------------------
(* Clients *)

\* Kernel.issue under boot id b, by whoever holds the secret: the epoch moves on.
Epoch == Len(issued)

Issue(b) ==
  /\ boundTo \in {None, b} /\ storeLock = None /\ Epoch < MaxEpoch
  /\ boundTo' = b
  /\ issued' = Append(issued, b)
  /\ UNCHANGED <<consumed, storeLock, daemonLock, pc, boot, sockets, call, runs>>

\* connect and sendall.
Connect(k, c) ==
  /\ call[k].state = "new" /\ \A j \in 1..(k - 1) : call[j].state # "new"
  /\ c # None => c <= Epoch
  /\ path # None /\ Listening(path) /\ Len(queue[path]) < Backlog
  /\ queue' = [queue EXCEPT ![path] = Append(@, k)]
  /\ call' = [call EXCEPT ![k] = [cap |-> c, state |-> "waiting"]]
  /\ UNCHANGED <<store, daemonLock, pc, boot, path, serving, runs>>

\* The client's timeout; its connection and its frame are left to the server.
GiveUp(k) ==
  /\ Waiting(k)
  /\ Ended({k}, "failed")
  /\ UNCHANGED <<store, daemonLock, pc, boot, sockets, runs>>

----------------------------------------------------------------------------
(* Serving *)

Accept(s) ==
  /\ At(s, "accept") /\ queue[s] # <<>>
  /\ serving' = [serving EXCEPT ![s] = Head(queue[s])]
  /\ queue' = [queue EXCEPT ![s] = Tail(queue[s])]
  /\ Goto(s, "handle")
  /\ UNCHANGED <<store, daemonLock, boot, path, call, runs>>

CapOf(s) == call[serving[s]].cap

\* handle: the frame of the request, or after five seconds an exception.
ReceiveOnly(s) ==
  /\ At(s, "handle") /\ CapOf(s) # None
  /\ Goto(s, "gate")
  /\ UNCHANGED <<store, daemonLock, boot, path, queue, serving, call, runs>>
Receive(s) ==
  /\ At(s, "handle")
  /\ \/ CapOf(s) # None /\ Goto(s, "gate")
     \/ CapOf(s) = None /\ Goto(s, "deny")
  /\ UNCHANGED <<store, daemonLock, boot, path, queue, serving, call, runs>>

\* Kernel.verify_locked by a server of boot id b.
Verified(c, b) == issued[c] = b /\ c = Epoch

AnyUse(c) == TRUE
Unused(c) == c \notin consumed

LockGivenUp(s) == None
LockKept(s) == s

\* EffectGate.execute: checked and used up under the Store lock, which is kept for the
\* executor.
Gate(s) ==
  /\ At(s, "gate") /\ storeLock = None
  /\ LET c == CapOf(s) IN
     \/ /\ Verified(c, boot[s]) /\ Unused(c)
        /\ consumed' = consumed \cup {c}
        /\ storeLock' = LockKept(s)
        /\ Goto(s, "run")
     \/ /\ ~(Verified(c, boot[s]) /\ Unused(c))
        /\ Goto(s, "deny")
        /\ UNCHANGED <<consumed, storeLock>>
  /\ UNCHANGED <<boundTo, issued, daemonLock, boot, path, queue, serving, call, runs>>

\* The executor returns or raises; a result that does not fit a frame is answered with
\* an error too.
Run(s) ==
  /\ At(s, "run")
  /\ runs' = [runs EXCEPT ![CapOf(s)] = @ + 1]
  /\ storeLock' = None
  /\ Goto(s, "confirm") \/ Goto(s, "deny")
  /\ UNCHANGED <<boundTo, issued, consumed, daemonLock, boot, path, queue, serving, call>>

\* The answer reaches a client that still waits, and the connection is closed.
Respond(s) ==
  /\ At(s, "confirm") \/ At(s, "deny")
  /\ Ended({serving[s]}, IF At(s, "confirm") THEN "ok" ELSE "failed")
  /\ serving' = [serving EXCEPT ![s] = None]
  /\ Goto(s, IF s \in Daemons THEN "accept" ELSE "served")
  /\ UNCHANGED <<store, daemonLock, boot, path, queue, runs>>

Serve(s) == Accept(s) \/ Receive(s) \/ Gate(s) \/ Run(s) \/ Respond(s) \/ EndOnce(s)

StartOrStop(s) ==
  \/ \E b \in Boots : Launch(s, b) \/ LaunchOnce(s, b)
  \/ BindGeneration(s)
  \/ Unlink(s)
  \/ Listen(s)
  \/ Stop(s)
  \/ Tidy(s)
  \/ Release(s)
  \/ Kill(s)

Next ==
  \/ \E s \in Servers : StartOrStop(s) \/ Serve(s)
  \/ \E b \in Boots : Issue(b)
  \/ \E k \in Calls, c \in Caps \cup {None} : Connect(k, c)
  \/ \E k \in Calls : GiveUp(k)

Spec == Init /\ [][Next]_vars

\* A server that lives goes on; an executor that has begun ends, and with it the Store
\* lock.
FairSpec == Spec /\ \A s \in Servers : WF_vars(Serve(s))

----------------------------------------------------------------------------
(* Properties *)

\* Whatever is retried, abandoned, restarted or served by two processes at once: a
\* capability's executor is called at most once, and an ok tells one client of exactly
\* that call (effect_gate.py:43-46, process_dispatcher.py:49-50).
Confirmed(c) == {k \in Calls : call[k].cap = c /\ call[k].state = "ok"}

OneEffectOneAnswer ==
  \A c \in Caps :
    /\ runs[c] <= 1
    /\ \A k \in Confirmed(c) : runs[c] = 1 /\ Confirmed(c) = {k}

Executes(s) == At(s, "run") /\ runs' # runs /\ serving[s] # None

\* A request left behind by a client that gave up is not executed any more once a
\* newer capability was issued, not even when it was already accepted
\* (kernel.py:58, effect_gate.py:38-46).
SupersededNeverRuns ==
  [][\A s \in Servers : Executes(s) => CapOf(s) = Epoch]_vars

\* A daemon executes only for the generation the Store is bound to: no older daemon is
\* still at work when a newer one has bound it (README.md:41 of dar_v36_14, "a capability
\* issued by the killed generation is rejected by the fresh dispatcher generation").
OneGeneration ==
  [][\A s \in Daemons : Executes(s) => issued[CapOf(s)] = boundTo]_vars

\* As long as no serve_once has touched the socket's name, it leads to the daemon that is
\* serving: a stopping daemon never takes its successor's socket away
\* (process_dispatcher.py:66-69, 87-91; README.md:29, "Dispatcher instance locking").
PathLeadsToDaemon ==
  (\A s \in Onces : At(s, "off")) => \A s \in Daemons : Listening(s) => path = s

\* Every connection that waits is accepted, or closed with its server: no client that
\* sends nothing or gives up holds up the others (process_dispatcher.py:81).
Queued(k) == \E s \in Servers : \E i \in DOMAIN queue[s] : queue[s][i] = k

NobodyStarves == \A k \in Calls : Queued(k) ~> ~Queued(k)
=============================================================================
