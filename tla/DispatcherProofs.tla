---------------------------- MODULE DispatcherProofs ----------------------------
(***************************************************************************)
(* What holds of Dispatcher for any number of server processes, boot ids,      *)
(* capabilities, calls and any backlog, proved with TLAPS.                    *)
(*                                                                         *)
(* The argument: a capability passes the gate once, as the gate uses it up     *)
(* under the Store lock, and the lock stays with the executor until it has     *)
(* run, so neither a newer capability nor a newer generation comes in between  *)
(* (Running, Locked).  Each server handles one connection, whose call has its  *)
(* capability since it connected (Handling), so the answer of the one executor  *)
(* reaches one client at most.                                              *)
(***************************************************************************)
EXTENDS Dispatcher, TLAPS

----------------------------------------------------------------------------
(* The invariant *)

\* The locks of a server: the Store lock while its executor runs; the daemon lock, and
\* with it the generation it has bound, as long as it lives.
Locked(s) ==
  /\ At(s, "run") => storeLock = s
  /\ s \in Daemons /\ pc[s] \notin {"off", "dead"} =>
       /\ daemonLock = s
       /\ boot[s] # None
       /\ pc[s] # "locked" => boundTo = boot[s]
  /\ s \in Onces => pc[s] \notin {"locked", "closed", "tidied"}

\* The connections of a server: their calls have connected, and so keep their capability.
Connected(k) == call[k].state # "new"

Handling(s) ==
  /\ pc[s] \in {"handle", "gate", "run", "confirm", "deny"} => serving[s] # None
  /\ serving[s] # None => Connected(serving[s])
  /\ \A i \in DOMAIN queue[s] : Connected(queue[s][i])
  /\ pc[s] \in {"gate", "run", "confirm"} => CapOf(s) \in Caps

\* The executor that runs is the first of its capability, and the capability is current;
\* an executor that has returned has answered nobody yet.
Running(s) ==
  /\ At(s, "run") =>
       /\ CapOf(s) \in consumed /\ runs[CapOf(s)] = 0
       /\ Verified(CapOf(s), boot[s])
  /\ At(s, "confirm") => runs[CapOf(s)] = 1 /\ Confirmed(CapOf(s)) = {}

\* No two servers are about to answer for one capability.
OneConfirms ==
  \A s, t \in Servers :
    At(s, "confirm") /\ At(t, "confirm") /\ CapOf(s) = CapOf(t) => s = t

\* What was not used up has not run.
Fresh == \A c \in Caps : c \notin consumed => runs[c] = 0

IInv ==
  /\ TypeOK
  /\ \A s \in Servers : Locked(s) /\ Handling(s) /\ Running(s)
  /\ OneConfirms
  /\ Fresh
  /\ OneEffectOneAnswer
  /\ PathLeadsToDaemon

----------------------------------------------------------------------------
(* The parts of a step *)

\* A call keeps its capability once it has connected, and nobody is told ok.
CallsKept ==
  /\ call' \in [Calls -> Call]
  /\ \A k \in Calls :
       IF Connected(k)
         THEN /\ call'[k].cap = call[k].cap
              /\ call'[k].state # "new"
              /\ call'[k].state = "ok" <=> call[k].state = "ok"
         ELSE call'[k].state # "ok"

\* What a step of server s leaves alone.
OwnStep(s) ==
  /\ \A t \in Servers : t # s =>
       /\ pc'[t] = pc[t] /\ boot'[t] = boot[t]
       /\ queue'[t] = queue[t] /\ serving'[t] = serving[t]
  /\ storeLock' = storeLock \/ storeLock \in {None, s}
  /\ daemonLock' = daemonLock \/ daemonLock \in {None, s}
  /\ boundTo' = boundTo \/ daemonLock = s

\* Calls that end without an ok are kept.
LEMMA EndedMoves ==
  ASSUME IInv, NEW ks, Ended(ks, "failed")
  PROVE  CallsKept
<1>1. call \in [Calls -> Call]
  BY DEF IInv, TypeOK
<1>2. call' = [k \in Calls |-> IF k \in ks /\ call[k].state = "waiting"
                                 THEN [call[k] EXCEPT !.state = "failed"] ELSE call[k]]
  BY DEF Ended, Waiting
<1>3. ASSUME NEW k \in Calls
      PROVE  /\ call'[k] \in Call
             /\ IF Connected(k)
                  THEN /\ call'[k].cap = call[k].cap
                       /\ call'[k].state # "new"
                       /\ call'[k].state = "ok" <=> call[k].state = "ok"
                  ELSE call'[k].state # "ok"
  <2>1. CASE k \in ks /\ call[k].state = "waiting"
    <3>1. call'[k] = [call[k] EXCEPT !.state = "failed"]
      BY <1>2, <2>1
    <3>2. call'[k].cap = call[k].cap /\ call'[k].state = "failed" /\ call'[k] \in Call
      BY <1>1, <3>1 DEF Call
    <3> QED BY <2>1, <3>2 DEF Connected
  <2>2. CASE ~(k \in ks /\ call[k].state = "waiting")
    <3>1. call'[k] = call[k] /\ call[k] \in Call
      BY <1>1, <1>2, <2>2
    <3> QED BY <3>1 DEF Connected
  <2> QED BY <2>1, <2>2
<1>4. call' \in [Calls -> Call]
  BY <1>2, <1>3
<1> QED BY <1>3, <1>4 DEF CallsKept

\* So are calls that stay as they are.
LEMMA SameCalls ==
  ASSUME IInv, UNCHANGED call
  PROVE  CallsKept
BY DEF IInv, TypeOK, CallsKept, Connected

\* The connections of a server that ends are closed.
LEMMA CloseMoves ==
  ASSUME IInv, NEW s \in Servers, CloseSockets(s)
  PROVE  /\ queue' \in [Servers -> Seq(Calls)]
         /\ \A t \in Servers : Len(queue'[t]) <= Backlog
         /\ serving' \in [Servers -> Calls \cup {None}]
         /\ \A t \in Servers : t # s => queue'[t] = queue[t] /\ serving'[t] = serving[t]
         /\ queue'[s] = <<>> /\ serving'[s] = None
         /\ CallsKept
<1>1. /\ queue' = [queue EXCEPT ![s] = <<>>] /\ serving' = [serving EXCEPT ![s] = None]
      /\ CallsKept
  BY EndedMoves DEF CloseSockets
<1>2. Len(<<>>) <= Backlog
  BY BoundsAssumption
<1> QED BY <1>1, <1>2 DEF IInv, TypeOK

\* What has been confirmed stays so.
LEMMA ConfirmedKept ==
  ASSUME IInv, CallsKept, NEW c \in Caps
  PROVE  Confirmed(c)' = Confirmed(c)
<1>1. \A k \in Calls : call[k].state = "ok" => Connected(k)
  BY DEF Connected
<1>2. \A k \in Calls :
        (call'[k].cap = c /\ call'[k].state = "ok") <=> (call[k].cap = c /\ call[k].state = "ok")
  BY <1>1 DEF CallsKept
<1> QED BY <1>2 DEF Confirmed

\* A server that is alive holds what Locked says, whatever another one does.
LEMMA OthersLocked ==
  ASSUME IInv, NEW s \in Servers, OwnStep(s), NEW t \in Servers, t # s
  PROVE  Locked(t)'
<1>1. Locked(t) /\ pc'[t] = pc[t] /\ boot'[t] = boot[t]
  BY DEF IInv, OwnStep
<1>2. At(t, "run") => storeLock' = t
  BY <1>1, NoneAssumption DEF Locked, OwnStep
<1>3. t \in Daemons /\ pc[t] \notin {"off", "dead"} =>
        daemonLock' = t /\ boundTo' = boundTo
  BY <1>1, NoneAssumption DEF Locked, OwnStep
<1> QED BY <1>1, <1>2, <1>3 DEF Locked, At

\* A server's connections are its own.
LEMMA OthersHandling ==
  ASSUME IInv, NEW s \in Servers, OwnStep(s), NEW t \in Servers, t # s,
         call' \in [Calls -> Call],
         \A k \in Calls : Connected(k) => Connected(k)' /\ call'[k].cap = call[k].cap
  PROVE  /\ Handling(t)'
         /\ serving[t] # None => CapOf(t)' = CapOf(t)
<1>1. Handling(t) /\ pc'[t] = pc[t] /\ queue'[t] = queue[t] /\ serving'[t] = serving[t]
  BY DEF IInv, OwnStep
<1>2. serving[t] \in Calls \cup {None} /\ queue[t] \in Seq(Calls)
  BY DEF IInv, TypeOK
<1>3. serving[t] # None => Connected(serving[t])' /\ CapOf(t)' = CapOf(t)
  BY <1>1, <1>2 DEF Handling, CapOf, Connected
<1>4. \A i \in DOMAIN queue[t] : Connected(queue[t][i])'
  BY <1>1, <1>2 DEF Handling, Connected
<1> QED BY <1>1, <1>3, <1>4 DEF Handling, Connected

\* The types of what one server's step writes.
LEMMA TypeStep ==
  ASSUME IInv, NEW s \in Servers, NEW label \in Labels, Goto(s, label),
         boundTo' \in Boots \cup {None}, consumed' \subseteq Caps, UNCHANGED issued,
         storeLock' = None \/ (storeLock' = s /\ label = "run")
           \/ (storeLock' = storeLock /\ storeLock # s),
         daemonLock' = None \/ (daemonLock' = s /\ s \in Daemons /\ label \notin {"off", "dead"})
           \/ (daemonLock' = daemonLock /\ daemonLock # s),
         path' \in Servers \cup {None},
         boot' \in [Servers -> Boots \cup {None}],
         queue' \in [Servers -> Seq(Calls)],
         \A t \in Servers : Len(queue'[t]) <= Backlog,
         serving' \in [Servers -> Calls \cup {None}],
         call' \in [Calls -> Call],
         runs' \in [Caps -> Nat]
  PROVE  TypeOK'
<1>1. pc \in [Servers -> Labels] /\ pc' = [pc EXCEPT ![s] = label]
  BY DEF IInv, TypeOK, Goto
<1>2. pc' \in [Servers -> Labels]
  BY <1>1
<1>3. storeLock' \in {t \in Servers : pc'[t] = "run"} \cup {None}
  <2>1. storeLock \in {t \in Servers : pc[t] = "run"} \cup {None}
    BY DEF IInv, TypeOK
  <2> QED BY <1>1, <2>1
<1>4. daemonLock' \in {t \in Daemons : pc'[t] \notin {"off", "dead"}} \cup {None}
  <2>1. daemonLock \in {t \in Daemons : pc[t] \notin {"off", "dead"}} \cup {None}
    BY DEF IInv, TypeOK
  <2> QED BY <1>1, <2>1 DEF Servers
<1>5. issued' \in Seq(Boots) /\ Len(issued') <= MaxEpoch
  BY DEF IInv, TypeOK
<1> QED BY <1>2, <1>3, <1>4, <1>5 DEF TypeOK

\* The name of the socket: whoever takes it away is no serve_once, if none was started,
\* and then it is the one daemon that lives.
LEMMA PathStep ==
  ASSUME IInv, NEW s \in Servers, OwnStep(s), ~At(s, "off")',
         \/ UNCHANGED path /\ (Listening(s)' => Listening(s))
         \/ pc[s] \notin {"off", "dead"} /\ (Listening(s)' => path' = s)
  PROVE  PathLeadsToDaemon'
<1> SUFFICES ASSUME \A t \in Onces : At(t, "off")', NEW d \in Daemons, Listening(d)'
             PROVE  path' = d
  BY DEF PathLeadsToDaemon
<1>1. s \notin Onces /\ s \in Daemons
  BY DEF Servers
<1>2. \A t \in Onces : At(t, "off")
  BY <1>1 DEF OwnStep, At, Servers
<1>3. \A t \in Daemons : Listening(t) => path = t /\ daemonLock = t
  BY <1>2 DEF IInv, PathLeadsToDaemon, Locked, Listening, Servers
<1>4. d # s => Listening(d)
  BY DEF OwnStep, Listening, Servers
<1>5. CASE UNCHANGED path /\ (Listening(s)' => Listening(s))
  BY <1>3, <1>4, <1>5
<1>6. CASE pc[s] \notin {"off", "dead"} /\ (Listening(s)' => path' = s)
  <2>1. daemonLock = s
    BY <1>1, <1>6 DEF IInv, Locked
  <2> QED BY <1>3, <1>4, <1>6, <2>1
<1> QED BY <1>5, <1>6

\* A server with an executor, or with its answer, is left alone while the Store's
\* capabilities only grow older and nothing else runs.
LEMMA RunningKept ==
  ASSUME IInv, CallsKept, UNCHANGED <<issued, runs>>, consumed \subseteq consumed',
         NEW t \in Servers, UNCHANGED <<pc[t], boot[t], serving[t]>>
  PROVE  /\ Running(t)'
         /\ pc[t] \in {"run", "confirm"} => CapOf(t)' = CapOf(t)
<1>1. Handling(t) /\ Running(t) /\ serving[t] \in Calls \cup {None}
  BY DEF IInv, TypeOK
<1>2. ASSUME pc[t] \in {"run", "confirm"}
      PROVE  CapOf(t)' = CapOf(t) /\ CapOf(t) \in Caps
  BY <1>1, <1>2 DEF Handling, CapOf, CallsKept
<1>3. CASE At(t, "run")
  BY <1>1, <1>2, <1>3 DEF Running, At, Verified, Epoch
<1>4. CASE At(t, "confirm")
  <2>1. PICK c \in Caps : c = CapOf(t)
    BY <1>2, <1>4 DEF At
  <2>2. Confirmed(c)' = {} /\ runs'[c] = 1
    BY <1>1, <1>4, <2>1, ConfirmedKept DEF Running
  <2>3. c = CapOf(t)'
    BY <1>2, <1>4, <2>1 DEF At
  <2>4. Confirmed(CapOf(t))' = {} /\ (runs[CapOf(t)])' = 1
    BY <2>2, <2>3 DEF Confirmed
  <2> QED BY <1>2, <1>4, <2>4 DEF Running, At
<1>5. CASE ~At(t, "run") /\ ~At(t, "confirm")
  BY <1>5 DEF Running, At
<1> QED BY <1>2, <1>3, <1>4, <1>5

\* A step of a server after which no executor has returned.
LEMMA ServerStep ==
  ASSUME IInv, NEW s \in Servers, OwnStep(s), CallsKept,
         UNCHANGED <<issued, runs>>, consumed \subseteq consumed',
         TypeOK', PathLeadsToDaemon',
         Locked(s)', Handling(s)', Running(s)', pc'[s] # "confirm"
  PROVE  IInv'
<1>1. \A c \in Caps : Confirmed(c)' = Confirmed(c)
  BY ConfirmedKept
<1>2. /\ call' \in [Calls -> Call]
      /\ \A k \in Calls : Connected(k) => Connected(k)' /\ call'[k].cap = call[k].cap
  BY DEF CallsKept, Connected
<1>3. ASSUME NEW t \in Servers, t # s
      PROVE  /\ Locked(t)' /\ Handling(t)' /\ Running(t)'
             /\ pc'[t] = pc[t]
             /\ pc[t] = "confirm" => CapOf(t)' = CapOf(t)
  BY <1>2, <1>3, OthersLocked, OthersHandling, RunningKept DEF OwnStep
<1>4. OneConfirms'
  BY <1>3 DEF IInv, OneConfirms, At
<1>5. Fresh' /\ OneEffectOneAnswer'
  BY <1>1 DEF IInv, Fresh, OneEffectOneAnswer
<1> QED BY <1>3, <1>4, <1>5 DEF IInv

\* One that neither uses up a capability nor runs an executor.
LEMMA QuietStep ==
  ASSUME IInv, NEW s \in Servers, OwnStep(s), CallsKept,
         UNCHANGED <<issued, consumed, runs>>,
         TypeOK', PathLeadsToDaemon',
         Locked(s)', Handling(s)', pc'[s] \notin {"run", "confirm"}
  PROVE  IInv'
<1>1. Running(s)'
  BY DEF Running, At
<1> QED BY <1>1, ServerStep

----------------------------------------------------------------------------
(* One lemma per action: it keeps the invariant *)

\* A server about which nothing but its label, its boot id and the locks change.
Restful(s, label) ==
  /\ Goto(s, label)
  /\ UNCHANGED <<issued, consumed, runs, queue, serving, call>>

\* A step of one server after which it neither runs nor confirms nor holds the Store
\* lock.
LEMMA RestfulStep ==
  ASSUME IInv, NEW s \in Servers, NEW label \in Labels \ {"run", "confirm", "gate"},
         Restful(s, label), OwnStep(s),
         boundTo' \in Boots \cup {None}, boot' \in [Servers -> Boots \cup {None}],
         storeLock' = None \/ (storeLock' = storeLock /\ storeLock # s),
         daemonLock' = None \/ (daemonLock' = s /\ s \in Daemons /\ label \notin {"off", "dead"})
           \/ (daemonLock' = daemonLock /\ daemonLock # s),
         path' \in Servers \cup {None}, PathLeadsToDaemon',
         Locked(s)', label \in {"handle", "deny"} => serving[s] # None
  PROVE  IInv'
<1>1. CallsKept
  BY SameCalls DEF Restful
<1>2. TypeOK'
  BY TypeStep DEF Restful, IInv, TypeOK
<1>3. pc'[s] = label
  BY DEF Restful, Goto, IInv, TypeOK
<1>4. Handling(s)'
  BY <1>3 DEF Restful, IInv, Handling, Connected
<1> QED BY <1>1, <1>2, <1>3, <1>4, QuietStep DEF Restful

\* The label of a server after Goto, and that of the others.
LEMMA GotoMoves ==
  ASSUME IInv, NEW s \in Servers, NEW label, Goto(s, label)
  PROVE  pc'[s] = label /\ \A t \in Servers : t # s => pc'[t] = pc[t]
BY DEF IInv, TypeOK, Goto

\* What ends with a process.
LEMMA EndMoves ==
  ASSUME IInv, NEW s \in Servers, End(s)
  PROVE  /\ Goto(s, "dead") /\ pc'[s] = "dead"
         /\ \A t \in Servers : t # s => pc'[t] = pc[t] /\ boot'[t] = boot[t]
         /\ boot' \in [Servers -> Boots \cup {None}]
BY GotoMoves DEF End, IInv, TypeOK

\* A daemon starts with the daemon lock, or not at all.
LEMMA LaunchStep ==
  ASSUME IInv, NEW s \in Servers, NEW b \in Boots, Launch(s, b)
  PROVE  IInv'
<1>1. s \in Daemons /\ At(s, "off") /\ UNCHANGED <<store, sockets, call, runs>>
  BY DEF Launch
<1>2. daemonLock # s /\ storeLock # s /\ s \notin Onces
  BY <1>1, NoneAssumption, ServersAssumption DEF IInv, TypeOK, At
<1>3. CASE daemonLock = None /\ daemonLock' = s /\ Goto(s, "locked") /\ boot' = [boot EXCEPT ![s] = b]
  <2>1. pc'[s] = "locked" /\ boot'[s] = b /\ OwnStep(s)
        /\ boot' \in [Servers -> Boots \cup {None}]
    BY <1>1, <1>3, GotoMoves DEF OwnStep, store, sockets, IInv, TypeOK
  <2>2. Locked(s)'
    BY <1>2, <1>3, <2>1, NoneAssumption DEF Locked, At
  <2>3. PathLeadsToDaemon'
    BY <1>1, <2>1, PathStep DEF At, Listening, sockets
  <2>4. Restful(s, "locked")
    BY <1>1, <1>3 DEF Restful, store, sockets
  <2> QED BY <1>1, <1>2, <1>3, <2>1, <2>2, <2>3, <2>4, RestfulStep
          DEF Labels, store, sockets, IInv, TypeOK
<1>4. CASE UNCHANGED daemonLock /\ End(s)
  <2>1. OwnStep(s) /\ pc'[s] = "dead"
    BY <1>1, <1>4, EndMoves DEF OwnStep, store, sockets
  <2>2. Locked(s)'
    BY <1>2, <2>1 DEF Locked, At
  <2>3. PathLeadsToDaemon'
    BY <1>1, <2>1, PathStep DEF At, Listening, sockets
  <2>4. Restful(s, "dead")
    BY <1>1, <1>4, EndMoves DEF Restful, store, sockets
  <2> QED BY <1>1, <1>2, <1>4, <2>1, <2>2, <2>3, <2>4, EndMoves, RestfulStep
          DEF Labels, store, sockets, IInv, TypeOK
<1> QED BY <1>3, <1>4 DEF Launch, DaemonLockFree

\* Only the holder of the daemon lock binds a generation.
LEMMA BindGenerationStep ==
  ASSUME IInv, NEW s \in Servers, BindGeneration(s)
  PROVE  IInv'
<1>1. /\ pc[s] = "locked" /\ storeLock = None /\ boundTo' = boot[s] /\ Goto(s, "rebound")
      /\ UNCHANGED <<issued, consumed, storeLock, daemonLock, boot, sockets, call, runs>>
  BY DEF BindGeneration, At
<1>2. s \in Daemons /\ daemonLock = s /\ boot[s] # None
  BY <1>1 DEF IInv, Locked, Servers
<1>3. pc'[s] = "rebound" /\ OwnStep(s)
  BY <1>1, <1>2, GotoMoves DEF OwnStep, sockets
<1>4. Locked(s)'
  BY <1>1, <1>2, <1>3, ServersAssumption DEF Locked, At
<1>5. PathLeadsToDaemon'
  BY <1>1, <1>3, PathStep DEF At, Listening, sockets
<1>6. Restful(s, "rebound")
  BY <1>1 DEF Restful, sockets
<1>7. boundTo' \in Boots \cup {None} /\ boot' \in [Servers -> Boots \cup {None}]
      /\ path' \in Servers \cup {None}
  BY <1>1 DEF sockets, IInv, TypeOK
<1> QED BY <1>1, <1>2, <1>3, <1>4, <1>5, <1>6, <1>7, RestfulStep, NoneAssumption
        DEF Labels

\* serve_once starts without a lock.
LEMMA LaunchOnceStep ==
  ASSUME IInv, NEW s \in Servers, NEW b \in Boots, LaunchOnce(s, b)
  PROVE  IInv'
<1>1. /\ s \in Onces /\ pc[s] = "off" /\ boot' = [boot EXCEPT ![s] = b] /\ Goto(s, "rebound")
      /\ UNCHANGED <<store, daemonLock, sockets, call, runs>>
  BY DEF LaunchOnce, At
<1>2. daemonLock # s /\ storeLock # s /\ s \notin Daemons
  BY <1>1, NoneAssumption, ServersAssumption DEF IInv, TypeOK, At
<1>3. pc'[s] = "rebound" /\ OwnStep(s) /\ boot' \in [Servers -> Boots \cup {None}]
  BY <1>1, GotoMoves DEF OwnStep, store, sockets, IInv, TypeOK
<1>4. Locked(s)'
  BY <1>2, <1>3 DEF Locked, At
<1>5. PathLeadsToDaemon'
  BY <1>1, <1>3, PathStep DEF At, Listening, sockets
<1>6. Restful(s, "rebound")
  BY <1>1 DEF Restful, store, sockets
<1> QED BY <1>1, <1>2, <1>3, <1>4, <1>5, <1>6, RestfulStep
        DEF Labels, store, sockets, IInv, TypeOK

\* A server that has its locks takes the name away: on its way to its own socket, or
\* after the socket was closed.
LEMMA UnlinkTidyStep ==
  ASSUME IInv, NEW s \in Servers, Unlink(s) \/ Tidy(s)
  PROVE  IInv'
<1>1. /\ pc[s] \in {"rebound", "closed"} /\ path' = None
      /\ UNCHANGED <<store, daemonLock, boot, queue, serving, call, runs>>
      /\ \/ pc[s] = "rebound" /\ Goto(s, "unlinked")
         \/ pc[s] = "closed" /\ Goto(s, "tidied")
  BY DEF Unlink, Tidy, At
<1>2. /\ pc'[s] \in {"unlinked", "tidied"} /\ OwnStep(s)
      /\ pc[s] = "rebound" => pc'[s] = "unlinked"
      /\ Restful(s, "unlinked") \/ Restful(s, "tidied")
  BY <1>1, GotoMoves DEF OwnStep, store, Restful
<1>3. Locked(s)'
  BY <1>1, <1>2, ServersAssumption DEF IInv, Locked, At, Servers, store
<1>4. PathLeadsToDaemon'
  BY <1>1, <1>2, PathStep DEF At, Listening
<1>5. storeLock # s /\ (daemonLock = s => s \in Daemons)
  BY <1>1, NoneAssumption DEF IInv, TypeOK, At
<1>6. daemonLock' = daemonLock /\ storeLock' = storeLock
  BY <1>1 DEF store
<1>7. /\ boundTo' \in Boots \cup {None} /\ boot' \in [Servers -> Boots \cup {None}]
      /\ path' \in Servers \cup {None}
  BY <1>1 DEF store, IInv, TypeOK
<1> QED BY <1>2, <1>3, <1>4, <1>5, <1>6, <1>7, RestfulStep DEF Labels

\* The locks of a process end with it.
LEMMA LocksMoves ==
  ASSUME IInv, NEW s \in Servers, Locks(s)
  PROVE  /\ storeLock' # s /\ daemonLock' # s
         /\ storeLock' = None \/ (storeLock' = storeLock /\ storeLock # s)
         /\ daemonLock' = None \/ (daemonLock' = daemonLock /\ daemonLock # s)
         /\ storeLock' = storeLock \/ storeLock \in {None, s}
         /\ daemonLock' = daemonLock \/ daemonLock \in {None, s}
BY NoneAssumption DEF Locks

\* A dead server claims nothing.
LEMMA DeadLocked ==
  ASSUME NEW s, pc'[s] = "dead"
  PROVE  Locked(s)'
BY DEF Locked, At

\* The name is bound by a server that has its locks, or the server ends.
LEMMA ListenStep ==
  ASSUME IInv, NEW s \in Servers, Listen(s)
  PROVE  IInv'
<1>1. pc[s] = "unlinked" /\ UNCHANGED <<boundTo, issued, consumed, queue, serving, call, runs>>
  BY DEF Listen, At
<1>2. /\ boundTo' \in Boots \cup {None} /\ storeLock # s
      /\ daemonLock = s => s \in Daemons
  BY <1>1, NoneAssumption DEF IInv, TypeOK
<1>3. CASE path = None /\ path' = s /\ Goto(s, "accept") /\ UNCHANGED <<daemonLock, storeLock, boot>>
  <2>1. pc'[s] = "accept" /\ OwnStep(s)
    BY <1>1, <1>3, GotoMoves DEF OwnStep
  <2>2. Locked(s)'
    BY <1>1, <1>3, <2>1 DEF IInv, Locked, At
  <2>3. PathLeadsToDaemon'
    BY <1>1, <1>3, <2>1, PathStep DEF At
  <2>4. Restful(s, "accept")
    BY <1>1, <1>3 DEF Restful
  <2>5. boot' \in [Servers -> Boots \cup {None}]
    BY <1>3 DEF IInv, TypeOK
  <2> QED BY <1>2, <1>3, <2>1, <2>2, <2>3, <2>4, <2>5, RestfulStep DEF Labels
<1>4. CASE UNCHANGED path /\ End(s) /\ Locks(s)
  <2>1. pc'[s] = "dead" /\ OwnStep(s)
    BY <1>1, <1>4, EndMoves, LocksMoves DEF OwnStep
  <2>2. Locked(s)'
    BY <2>1, DeadLocked
  <2>3. PathLeadsToDaemon'
    BY <1>1, <1>4, <2>1, PathStep DEF At, Listening
  <2>4. Restful(s, "dead")
    BY <1>1, <1>4, EndMoves DEF Restful
  <2>5. path' \in Servers \cup {None}
    BY <1>4 DEF IInv, TypeOK
  <2> QED BY <1>2, <1>4, <2>1, <2>2, <2>3, <2>4, <2>5, EndMoves, LocksMoves, RestfulStep
          DEF Labels
<1> QED BY <1>3, <1>4 DEF Listen

\* The daemon lock is released last.
LEMMA ReleaseStep ==
  ASSUME IInv, NEW s \in Servers, Release(s)
  PROVE  IInv'
<1>1. /\ pc[s] = "tidied" /\ Locks(s) /\ End(s)
      /\ UNCHANGED <<boundTo, issued, consumed, sockets, call, runs>>
  BY DEF Release, At
<1>2. pc'[s] = "dead" /\ OwnStep(s)
  BY <1>1, EndMoves, LocksMoves DEF OwnStep, sockets
<1>3. Locked(s)'
  BY <1>2, DeadLocked
<1>4. PathLeadsToDaemon'
  BY <1>1, <1>2, PathStep DEF At, Listening, sockets
<1>5. Restful(s, "dead")
  BY <1>1, EndMoves DEF Restful, sockets
<1>6. path' \in Servers \cup {None} /\ boundTo' \in Boots \cup {None}
  BY <1>1 DEF sockets, IInv, TypeOK
<1> QED BY <1>1, <1>2, <1>3, <1>4, <1>5, <1>6, EndMoves, LocksMoves, RestfulStep DEF Labels

\* A server that closes its sockets: its clients' calls fail, and it handles nothing.
LEMMA CloseStep ==
  ASSUME IInv, NEW s \in Servers, NEW label \in {"closed", "dead"}, Goto(s, label),
         CloseSockets(s), OwnStep(s), pc[s] # "off",
         UNCHANGED <<boundTo, issued, consumed, path, runs>>,
         boot' \in [Servers -> Boots \cup {None}],
         storeLock' = None \/ (storeLock' = storeLock /\ storeLock # s),
         daemonLock' = None \/ (daemonLock' = s /\ s \in Daemons /\ label = "closed")
           \/ (daemonLock' = daemonLock /\ daemonLock # s),
         Locked(s)'
  PROVE  IInv'
<1>1. pc'[s] = label
  BY GotoMoves
<1>2. /\ queue' \in [Servers -> Seq(Calls)]
      /\ \A t \in Servers : Len(queue'[t]) <= Backlog
      /\ serving' \in [Servers -> Calls \cup {None}]
      /\ queue'[s] = <<>> /\ serving'[s] = None /\ CallsKept
  BY CloseMoves
<1>3. TypeOK'
  BY <1>2, TypeStep DEF IInv, TypeOK, Labels, CallsKept
<1>4. Handling(s)'
  BY <1>1, <1>2 DEF Handling
<1>5. PathLeadsToDaemon'
  BY <1>1, PathStep DEF At, Listening
<1> QED BY <1>1, <1>2, <1>3, <1>4, <1>5, QuietStep

\* A daemon that is interrupted keeps the daemon lock for now.
LEMMA StopStep ==
  ASSUME IInv, NEW s \in Servers, Stop(s)
  PROVE  IInv'
<1>1. /\ s \in Daemons /\ Listening(s)
      /\ storeLock' = IF storeLock = s THEN None ELSE storeLock
      /\ CloseSockets(s) /\ Goto(s, "closed")
      /\ UNCHANGED <<boundTo, issued, consumed, daemonLock, boot, path, runs>>
  BY DEF Stop
<1>2. pc'[s] = "closed" /\ OwnStep(s)
  BY <1>1, GotoMoves, CloseMoves DEF OwnStep
<1>3. Locked(s)'
  BY <1>1, <1>2, ServersAssumption DEF IInv, Locked, At, Listening
<1>4. boot' \in [Servers -> Boots \cup {None}]
  BY <1>1 DEF IInv, TypeOK
<1>5. pc[s] # "off"
  BY <1>1 DEF Listening
<1> QED BY <1>1, <1>2, <1>3, <1>4, <1>5, CloseStep

\* A process that is killed, or serve_once when it returns, is gone.
LEMMA KillStep ==
  ASSUME IInv, NEW s \in Servers, Kill(s)
  PROVE  IInv'
<1>1. /\ pc[s] \notin {"off", "dead"} /\ End(s) /\ Locks(s) /\ CloseSockets(s)
      /\ UNCHANGED <<boundTo, issued, consumed, path, runs>>
  BY DEF Kill
<1>2. pc'[s] = "dead" /\ OwnStep(s)
  BY <1>1, EndMoves, LocksMoves, CloseMoves DEF OwnStep
<1>3. Locked(s)'
  BY <1>2, DeadLocked
<1> QED BY <1>1, <1>2, <1>3, EndMoves, LocksMoves, CloseStep

\* A serve_once ends: its sockets close, the path is left for others.
LEMMA EndOnceStep ==
  ASSUME IInv, NEW s \in Servers, EndOnce(s)
  PROVE  IInv'
<1>1. /\ s \in Onces /\ pc[s] \in {"served", "accept"} /\ CloseSockets(s) /\ End(s)
      /\ UNCHANGED <<store, daemonLock, path, runs>>
  BY DEF EndOnce, At
<1>2. pc'[s] = "dead" /\ OwnStep(s)
  BY <1>1, EndMoves, CloseMoves DEF OwnStep, store
<1>3. Locked(s)'
  BY <1>2, DeadLocked
<1>4. storeLock # s /\ daemonLock # s
  BY <1>1, NoneAssumption, ServersAssumption DEF IInv, TypeOK
<1> QED BY <1>1, <1>2, <1>3, <1>4, EndMoves, CloseStep DEF store

\* The oldest connection is taken from the queue.
LEMMA AcceptStep ==
  ASSUME IInv, NEW s \in Servers, Accept(s)
  PROVE  IInv'
<1>1. /\ pc[s] = "accept" /\ queue[s] # <<>>
      /\ serving' = [serving EXCEPT ![s] = Head(queue[s])]
      /\ queue' = [queue EXCEPT ![s] = Tail(queue[s])]
      /\ Goto(s, "handle")
      /\ UNCHANGED <<store, daemonLock, boot, path, call, runs>>
  BY DEF Accept, At
<1> DEFINE q == queue[s]
<1>2. /\ q \in Seq(Calls) /\ Len(q) <= Backlog /\ Len(q) \in Nat
      /\ \A i \in DOMAIN q : Connected(q[i])
  BY DEF IInv, TypeOK, Handling
<1>3. /\ Head(q) \in Calls /\ Tail(q) \in Seq(Calls) /\ Len(Tail(q)) = Len(q) - 1
      /\ 1 \in DOMAIN q /\ Head(q) = q[1]
      /\ \A i \in DOMAIN Tail(q) : i + 1 \in DOMAIN q /\ Tail(q)[i] = q[i + 1]
  BY <1>1, <1>2
<1>4. Connected(Head(q)) /\ \A i \in DOMAIN Tail(q) : Connected(Tail(q)[i])
  BY <1>2, <1>3
<1>5. Head(q) # None
  BY <1>3, NoneAssumption
<1> HIDE DEF q
<1>6. /\ serving' = [serving EXCEPT ![s] = Head(q)] /\ queue' = [queue EXCEPT ![s] = Tail(q)]
  BY <1>1 DEF q
<1>7. pc'[s] = "handle" /\ OwnStep(s) /\ serving'[s] = Head(q) /\ queue'[s] = Tail(q)
  BY <1>1, <1>6, GotoMoves DEF OwnStep, IInv, TypeOK, store
<1>8. /\ queue' \in [Servers -> Seq(Calls)]
      /\ \A t \in Servers : Len(queue'[t]) <= Backlog
      /\ serving' \in [Servers -> Calls \cup {None}]
  <2>1. Len(Tail(q)) <= Backlog
    BY <1>2, <1>3, BoundsAssumption
  <2> QED BY <1>3, <1>6, <2>1 DEF IInv, TypeOK
<1>9. storeLock # s /\ (daemonLock = s => s \in Daemons)
  BY <1>1, NoneAssumption DEF IInv, TypeOK
<1>10. TypeOK'
  BY <1>1, <1>8, <1>9, TypeStep DEF IInv, TypeOK, Labels, store
<1>11. Handling(s)'
  BY <1>1, <1>4, <1>5, <1>7 DEF Handling, Connected
<1>12. Locked(s)'
  BY <1>1, <1>7, ServersAssumption DEF IInv, Locked, At, store
<1>13. PathLeadsToDaemon'
  BY <1>1, <1>7, PathStep DEF At, Listening
<1>14. CallsKept
  BY <1>1, SameCalls
<1> QED BY <1>1, <1>7, <1>10, <1>11, <1>12, <1>13, <1>14, QuietStep DEF store

\* The frame of a request is read, or there is none.
LEMMA ReceiveStep ==
  ASSUME IInv, NEW s \in Servers, Receive(s)
  PROVE  IInv'
<1>1. /\ pc[s] = "handle" /\ UNCHANGED <<store, daemonLock, boot, path, queue, serving, call, runs>>
      /\ \/ CapOf(s) # None /\ Goto(s, "gate")
         \/ Goto(s, "deny")
  BY DEF Receive, At
<1>2. /\ pc'[s] \in {"gate", "deny"} /\ OwnStep(s)
      /\ pc'[s] = "gate" => CapOf(s) # None
  BY <1>1, GotoMoves DEF OwnStep, store
<1>3. storeLock # s /\ (daemonLock = s => s \in Daemons)
  BY <1>1, NoneAssumption DEF IInv, TypeOK
<1>4. TypeOK'
  <2>1. ASSUME NEW label \in {"gate", "deny"}, Goto(s, label) PROVE TypeOK'
    BY <1>1, <1>3, <2>1, TypeStep DEF IInv, TypeOK, Labels, store
  <2> QED BY <1>1, <2>1
<1>5. Handling(s)'
  <2>1. serving[s] \in Calls /\ call \in [Calls -> Call] /\ Handling(s)
    BY <1>1 DEF IInv, TypeOK, Handling
  <2>2. pc'[s] = "gate" => CapOf(s) \in Caps
    BY <1>2, <2>1 DEF CapOf, Call
  <2> QED BY <1>1, <1>2, <2>1, <2>2 DEF Handling, Connected, CapOf
<1>6. Locked(s)'
  BY <1>1, <1>2 DEF IInv, Locked, At, store
<1>7. PathLeadsToDaemon'
  BY <1>1, <1>2, PathStep DEF At, Listening
<1> QED BY <1>1, <1>2, <1>4, <1>5, <1>6, <1>7, SameCalls, QuietStep DEF store

\* The gate lets a capability through that is current and unused, and uses it up.
LEMMA GateStep ==
  ASSUME IInv, NEW s \in Servers, Gate(s)
  PROVE  IInv'
<1>1. /\ pc[s] = "gate" /\ storeLock = None
      /\ UNCHANGED <<boundTo, issued, daemonLock, boot, path, queue, serving, call, runs>>
  BY DEF Gate, At
<1>2. CapOf(s) \in Caps /\ serving[s] # None /\ CallsKept /\ CapOf(s)' = CapOf(s)
  BY <1>1, SameCalls DEF IInv, Handling, CapOf
<1>3. daemonLock = s => s \in Daemons
  BY <1>1, NoneAssumption DEF IInv, TypeOK
<1>4. ASSUME NEW label \in {"run", "deny"}, Goto(s, label), consumed \subseteq consumed',
             consumed' \subseteq Caps, storeLock' = None \/ (storeLock' = s /\ label = "run"),
             label = "run" => storeLock' = s /\ Running(s)'
      PROVE  IInv'
  <2>1. pc'[s] = label /\ OwnStep(s)
    BY <1>1, <1>4, GotoMoves DEF OwnStep
  <2>2. TypeOK'
    BY <1>1, <1>3, <1>4, TypeStep DEF IInv, TypeOK, Labels
  <2>3. Handling(s)'
    BY <1>1, <1>2, <2>1 DEF IInv, Handling, Connected
  <2>4. Locked(s)'
    BY <1>1, <1>4, <2>1 DEF IInv, Locked, At
  <2>5. PathLeadsToDaemon'
    BY <1>1, <1>4, <2>1, PathStep DEF At, Listening
  <2>6. Running(s)'
    BY <1>4, <2>1 DEF Running, At
  <2> QED BY <1>1, <1>2, <1>4, <2>1, <2>2, <2>3, <2>4, <2>5, <2>6, ServerStep
<1>5. CASE /\ Verified(CapOf(s), boot[s]) /\ Unused(CapOf(s))
           /\ consumed' = consumed \cup {CapOf(s)} /\ storeLock' = s /\ Goto(s, "run")
  <2>1. /\ CapOf(s) \in consumed' /\ runs[CapOf(s)] = 0 /\ pc'[s] = "run"
        /\ consumed' \subseteq Caps
    BY <1>2, <1>5, GotoMoves DEF IInv, Fresh, Unused, TypeOK
  <2>2. Running(s)'
    BY <1>1, <1>2, <1>5, <2>1 DEF Running, At, Verified, Epoch
  <2> QED BY <1>4, <1>5, <2>1, <2>2
<1>6. CASE Goto(s, "deny") /\ UNCHANGED <<consumed, storeLock>>
  BY <1>1, <1>4, <1>6 DEF IInv, TypeOK
<1> QED BY <1>5, <1>6 DEF Gate, LockKept

\* The executor of a capability runs once: it had not run, and no other server is about to
\* answer for it.
LEMMA RunStep ==
  ASSUME IInv, NEW s \in Servers, Run(s)
  PROVE  IInv'
<1> DEFINE c == CapOf(s)
<1>1. /\ pc[s] = "run" /\ runs' = [runs EXCEPT ![c] = @ + 1] /\ storeLock' = None
      /\ UNCHANGED <<boundTo, issued, consumed, daemonLock, boot, path, queue, serving, call>>
      /\ Goto(s, "confirm") \/ Goto(s, "deny")
  BY DEF Run, At
<1>2. /\ c \in Caps /\ c \in consumed /\ runs[c] = 0 /\ serving[s] # None /\ storeLock = s
  BY <1>1 DEF IInv, Handling, Running, Locked, At
<1>3. runs' \in [Caps -> Nat] /\ runs'[c] = 1 /\ \A d \in Caps : d # c => runs'[d] = runs[d]
  BY <1>1, <1>2 DEF IInv, TypeOK
<1>4. Confirmed(c) = {} /\ \A d \in Caps : Confirmed(d)' = Confirmed(d)
  BY <1>1, <1>2 DEF IInv, OneEffectOneAnswer, Confirmed
<1>5. \A t \in Servers : CapOf(t)' = CapOf(t)
  BY <1>1 DEF CapOf
<1>6. pc'[s] \in {"confirm", "deny"} /\ OwnStep(s)
  BY <1>1, <1>2, GotoMoves DEF OwnStep
<1>7. \A t \in Servers : t # s => pc'[t] = pc[t] /\ pc[t] # "run"
  BY <1>2, <1>6 DEF OwnStep, IInv, Locked, At
<1>8. \A t \in Servers : t # s /\ At(t, "confirm") => CapOf(t) # c /\ CapOf(t) \in Caps
  BY <1>2 DEF IInv, Running, Handling, At
<1> HIDE DEF c
<1>9. TypeOK'
  <2>1. daemonLock = s => s \in Daemons
    BY NoneAssumption DEF IInv, TypeOK
  <2>2. ASSUME NEW label \in {"confirm", "deny"}, Goto(s, label) PROVE TypeOK'
    BY <1>1, <1>3, <2>1, <2>2, TypeStep DEF IInv, TypeOK, Labels
  <2> QED BY <1>1, <2>2
<1>10. PathLeadsToDaemon'
  BY <1>1, <1>6, PathStep DEF At, Listening
<1>11. ASSUME NEW t \in Servers PROVE Locked(t)' /\ Handling(t)'
  <2>1. CASE t # s
    BY <1>1, <1>6, <2>1, OthersLocked, OthersHandling DEF IInv, TypeOK, Connected
  <2>2. CASE t = s
    BY <1>1, <1>2, <1>5, <1>6, <2>2 DEF IInv, Locked, Handling, At, Connected, c
  <2> QED BY <2>1, <2>2
<1>12. ASSUME NEW t \in Servers PROVE Running(t)'
  <2>1. ~At(t, "run")'
    BY <1>6, <1>7 DEF At
  <2>2. CASE At(t, "confirm")'
    <3>1. PICK d \in Caps : d = CapOf(t)
      BY <1>2, <1>6, <1>7, <1>8, <2>2 DEF At, c
    <3>2. runs'[d] = 1 /\ Confirmed(d) = {}
      <4>1. CASE t = s
        BY <1>3, <1>4, <3>1, <4>1 DEF c
      <4>2. CASE t # s
        BY <1>3, <1>7, <1>8, <2>2, <3>1, <4>2 DEF IInv, Running, At
      <4> QED BY <4>1, <4>2
    <3>3. d = CapOf(t)' /\ Confirmed(d)' = {}
      BY <1>4, <1>5, <3>1, <3>2
    <3>4. Confirmed(CapOf(t))' = {} /\ (runs[CapOf(t)])' = 1
      BY <3>2, <3>3 DEF Confirmed
    <3> QED BY <2>1, <3>4 DEF Running
  <2> QED BY <2>1, <2>2 DEF Running
<1>13. OneConfirms'
  BY <1>5, <1>6, <1>7, <1>8 DEF IInv, OneConfirms, At, c
<1>14. Fresh' /\ OneEffectOneAnswer'
  <2>1. Fresh'
    BY <1>1, <1>2, <1>3 DEF IInv, Fresh
  <2>2. OneEffectOneAnswer'
    BY <1>2, <1>3, <1>4 DEF IInv, OneEffectOneAnswer
  <2> QED BY <2>1, <2>2
<1> QED BY <1>9, <1>10, <1>11, <1>12, <1>13, <1>14 DEF IInv

\* The answer of an executor reaches at most the one client of its connection.
LEMMA RespondStep ==
  ASSUME IInv, NEW s \in Servers, Respond(s)
  PROVE  IInv'
<1>1. /\ pc[s] \in {"confirm", "deny"} /\ serving' = [serving EXCEPT ![s] = None]
      /\ UNCHANGED <<store, daemonLock, boot, path, queue, runs>>
      /\ Ended({serving[s]}, IF pc[s] = "confirm" THEN "ok" ELSE "failed")
      /\ Goto(s, IF s \in Daemons THEN "accept" ELSE "served")
  BY DEF Respond, At
<1>2. /\ pc'[s] \in {"accept", "served"} /\ serving'[s] = None /\ OwnStep(s)
      /\ pc'[s] = "accept" \/ s \notin Daemons
  BY <1>1, GotoMoves DEF OwnStep, store, IInv, TypeOK
<1>3. storeLock # s /\ (daemonLock = s => s \in Daemons)
  BY <1>1, NoneAssumption DEF IInv, TypeOK
<1>4. Locked(s)'
  BY <1>1, <1>2 DEF IInv, Locked, At, store
<1>5. PathLeadsToDaemon'
  BY <1>1, <1>2, PathStep DEF At, Listening
<1>6. ASSUME call' \in [Calls -> Call] PROVE TypeOK'
  <2>1. ASSUME NEW label \in {"accept", "served"}, Goto(s, label), s \in Daemons => label = "accept"
        PROVE  TypeOK'
    BY <1>1, <1>3, <1>6, <2>1, TypeStep DEF IInv, TypeOK, Labels, store
  <2> QED BY <1>1, <2>1
<1>7. CASE pc[s] = "deny"
  <2>1. CallsKept
    BY <1>1, <1>7, EndedMoves
  <2>2. Handling(s)'
    BY <1>1, <1>2, <2>1 DEF IInv, TypeOK, Handling, CallsKept, Connected
  <2> QED BY <1>1, <1>2, <1>4, <1>5, <1>6, <2>1, <2>2, QuietStep DEF store, CallsKept
<1>8. CASE pc[s] = "confirm"
  <2> DEFINE c == CapOf(s)
             k == serving[s]
  <2>1. /\ c \in Caps /\ k \in Calls /\ runs[c] = 1 /\ Confirmed(c) = {} /\ call[k].cap = c
        /\ Connected(k)
    BY <1>8 DEF IInv, TypeOK, Handling, Running, At, CapOf
  <2>2. \A j \in Calls : j # k => call'[j] = call[j]
    BY <1>1 DEF Ended
  <2>3. /\ call'[k] \in Call /\ call'[k].cap = c
        /\ call'[k].state # "new"
    <3>1. CASE Waiting(k)
      <4>1. call'[k] = [call[k] EXCEPT !.state = "ok"] /\ call[k] \in Call
        BY <1>1, <1>8, <2>1, <3>1 DEF Ended, IInv, TypeOK
      <4>2. call'[k].cap = call[k].cap /\ call'[k].state = "ok" /\ call'[k] \in Call
        BY <4>1 DEF Call
      <4> QED BY <2>1, <4>2
    <3>2. CASE ~Waiting(k)
      BY <1>1, <2>1, <3>2 DEF Ended, IInv, TypeOK, Connected
    <3> QED BY <3>1, <3>2
  <2> HIDE DEF k, c
  <2>4. call' \in [Calls -> Call]
    <3>1. call' = [j \in Calls |-> call'[j]]
      BY <1>1 DEF Ended
    <3>2. \A j \in Calls : call'[j] \in Call
      BY <2>2, <2>3 DEF IInv, TypeOK
    <3> QED BY <3>1, <3>2
  <2>5. \A j \in Calls : Connected(j) => Connected(j)' /\ call'[j].cap = call[j].cap
    BY <2>1, <2>2, <2>3 DEF Connected
  <2>6. PICK m \in Calls : m = k
    BY <2>1
  <2>7. /\ \A d \in Caps : d # c => Confirmed(d)' = Confirmed(d)
        /\ \A d \in Caps : d = c => Confirmed(d)' \subseteq {m}
    BY <2>1, <2>2, <2>3, <2>6 DEF Confirmed
  <2>8. TypeOK'
    BY <1>6, <2>4
  <2>9. ASSUME NEW t \in Servers PROVE Locked(t)' /\ Handling(t)'
    <3>1. CASE t # s
      BY <1>2, <2>4, <2>5, <3>1, OthersLocked, OthersHandling
    <3>2. CASE t = s
      <4>1. ASSUME NEW i \in DOMAIN queue[s] PROVE Connected(queue[s][i])'
        <5>1. Handling(s) /\ queue[s] \in Seq(Calls) /\ queue' = queue
          BY <1>1 DEF IInv, TypeOK
        <5>2. queue[s][i] \in Calls /\ Connected(queue[s][i])
          BY <5>1 DEF Handling
        <5> QED BY <2>5, <5>1, <5>2 DEF Connected
      <4> QED BY <1>1, <1>2, <1>4, <3>2, <4>1 DEF Handling, Connected
    <3> QED BY <3>1, <3>2
  <2>10. ASSUME NEW t \in Servers, pc'[t] \in {"run", "confirm"}
         PROVE  /\ t # s /\ pc'[t] = pc[t] /\ boot'[t] = boot[t]
                /\ CapOf(t)' = CapOf(t) /\ CapOf(t) \in Caps
    <3>1. t # s /\ pc'[t] = pc[t] /\ boot'[t] = boot[t]
      BY <1>1, <1>2, <2>10 DEF OwnStep
    <3>2. serving[t] # None /\ CapOf(t) \in Caps
      BY <2>10, <3>1 DEF IInv, Handling
    <3> QED BY <1>2, <2>4, <2>5, <3>1, <3>2, OthersHandling
  <2>11. ASSUME NEW t \in Servers PROVE Running(t)'
    <3>1. CASE At(t, "run")'
      BY <1>1, <2>10, <3>1 DEF IInv, Running, At, Verified, Epoch, store
    <3>2. CASE At(t, "confirm")'
      <4>1. t # s /\ At(t, "confirm") /\ CapOf(t)' = CapOf(t) /\ CapOf(t) \in Caps
        BY <2>10, <3>2 DEF At
      <4>2. PICK d \in Caps : d = CapOf(t)
        BY <4>1
      <4>3. d # c
        BY <1>8, <4>1, <4>2 DEF IInv, OneConfirms, At, c
      <4>4. Confirmed(d)' = {} /\ runs'[d] = 1
        BY <1>1, <2>7, <4>1, <4>2, <4>3 DEF IInv, Running
      <4>5. d = CapOf(t)'
        BY <4>1, <4>2
      <4>6. Confirmed(CapOf(t))' = {} /\ (runs[CapOf(t)])' = 1
        BY <4>4, <4>5 DEF Confirmed
      <4> QED BY <3>2, <4>6 DEF Running, At
    <3> QED BY <3>1, <3>2 DEF Running
  <2>12. OneConfirms'
    BY <2>10 DEF IInv, OneConfirms, At
  <2>13. Fresh'
    BY <1>1 DEF IInv, Fresh, store
  <2>14. OneEffectOneAnswer'
    <3> SUFFICES ASSUME NEW d \in Caps
                 PROVE  /\ runs'[d] <= 1
                        /\ \A j \in Confirmed(d)' : runs'[d] = 1 /\ Confirmed(d)' = {j}
      BY DEF OneEffectOneAnswer
    <3>1. CASE d = c
      BY <1>1, <2>1, <2>7, <3>1
    <3>2. CASE d # c
      BY <1>1, <2>7, <3>2 DEF IInv, OneEffectOneAnswer
    <3> QED BY <3>1, <3>2
  <2> QED BY <1>5, <2>8, <2>9, <2>11, <2>12, <2>13, <2>14 DEF IInv
<1> QED BY <1>1, <1>7, <1>8

----------------------------------------------------------------------------
(* Clients, and Kernel.issue *)

\* No client's step changes what a server is doing.
LEMMA ClientStep ==
  ASSUME IInv, CallsKept, UNCHANGED <<store, daemonLock, pc, boot, path, serving, runs>>,
         queue' \in [Servers -> Seq(Calls)],
         \A t \in Servers : Len(queue'[t]) <= Backlog,
         \A t \in Servers : \A i \in DOMAIN queue'[t] : call'[queue'[t][i]].state # "new"
  PROVE  IInv'
<1>1. TypeOK'
  BY DEF IInv, TypeOK, CallsKept, store
<1>2. ASSUME NEW t \in Servers PROVE Locked(t)' /\ Running(t)'
  BY RunningKept DEF IInv, Locked, At, store
<1>3. ASSUME NEW t \in Servers PROVE Handling(t)'
  <2>1. Handling(t) /\ serving[t] \in Calls \cup {None}
    BY DEF IInv, TypeOK
  <2>2. serving[t] # None => Connected(serving[t])' /\ CapOf(t)' = CapOf(t)
    BY <2>1 DEF Handling, CallsKept, Connected, CapOf
  <2>3. \A i \in DOMAIN queue'[t] : Connected(queue[t][i])'
    BY DEF Connected
  <2> QED BY <2>1, <2>2, <2>3 DEF Handling
<1>4. \A t \in Servers : At(t, "confirm") => CapOf(t)' = CapOf(t)
  BY RunningKept DEF At, store
<1>5. OneConfirms'
  BY <1>4 DEF IInv, OneConfirms, At
<1>6. Fresh' /\ OneEffectOneAnswer'
  BY ConfirmedKept DEF IInv, Fresh, OneEffectOneAnswer, store
<1>7. PathLeadsToDaemon'
  BY DEF IInv, PathLeadsToDaemon, At, Listening
<1> QED BY <1>1, <1>2, <1>3, <1>5, <1>6, <1>7 DEF IInv

\* A call gets its capability when it connects.
LEMMA ConnectStep ==
  ASSUME IInv, NEW k \in Calls, NEW c \in Caps \cup {None}, Connect(k, c)
  PROVE  IInv'
<1>1. /\ call[k].state = "new" /\ path # None /\ Len(queue[path]) < Backlog
      /\ queue' = [queue EXCEPT ![path] = Append(queue[path], k)]
      /\ call' = [call EXCEPT ![k] = [cap |-> c, state |-> "waiting"]]
      /\ UNCHANGED <<store, daemonLock, pc, boot, path, serving, runs>>
  BY DEF Connect
<1>2. PICK p \in Servers : p = path
  BY <1>1 DEF IInv, TypeOK
<1>3. CallsKept
  <2>1. [cap |-> c, state |-> "waiting"] \in Call
    BY DEF Call
  <2> QED BY <1>1, <2>1 DEF IInv, TypeOK, CallsKept, Connected
<1> DEFINE q == Append(queue[p], k)
<1>4. /\ q \in Seq(Calls) /\ Len(q) <= Backlog
      /\ \A i \in DOMAIN q : q[i] = k \/ \E j \in DOMAIN queue[p] : q[i] = queue[p][j]
  <2>1. queue[p] \in Seq(Calls) /\ Len(queue[p]) \in Nat /\ Len(queue[p]) < Backlog
    BY <1>1, <1>2 DEF IInv, TypeOK
  <2> QED BY <2>1, BoundsAssumption
<1> HIDE DEF q
<1>5. queue' = [queue EXCEPT ![p] = q]
  BY <1>1, <1>2 DEF q
<1>6. \A j \in Calls : Connected(j) \/ j = k => Connected(j)'
  BY <1>1, <1>3 DEF CallsKept, Connected, IInv, TypeOK
<1>7. queue' \in [Servers -> Seq(Calls)] /\ \A t \in Servers : Len(queue'[t]) <= Backlog
  BY <1>4, <1>5 DEF IInv, TypeOK
<1>8. ASSUME NEW t \in Servers, NEW i \in DOMAIN queue'[t] PROVE call'[queue'[t][i]].state # "new"
  <2>1. Handling(t) /\ Handling(p) /\ queue[t] \in Seq(Calls) /\ queue[p] \in Seq(Calls)
    BY DEF IInv, TypeOK
  <2>2. CASE t = p
    <3>1. queue'[t] = q
      BY <1>5, <2>2 DEF IInv, TypeOK
    <3>2. q[i] = k \/ \E j \in DOMAIN queue[p] : q[i] = queue[p][j]
      BY <1>4, <1>8, <3>1
    <3>3. q[i] \in Calls /\ (q[i] = k \/ Connected(q[i]))
      BY <2>1, <3>2 DEF Handling
    <3> QED BY <1>6, <3>1, <3>3 DEF Connected
  <2>3. CASE t # p
    <3>1. queue'[t] = queue[t]
      BY <1>5, <2>3 DEF IInv, TypeOK
    <3>2. queue[t][i] \in Calls /\ Connected(queue[t][i])
      BY <1>8, <2>1, <3>1 DEF Handling
    <3> QED BY <1>6, <3>1, <3>2 DEF Connected
  <2> QED BY <2>2, <2>3
<1> QED BY <1>1, <1>3, <1>7, <1>8, ClientStep

\* A client that gives up, and steps that are nobody's.
LEMMA GiveUpStep ==
  ASSUME IInv, \/ \E k \in Calls : GiveUp(k)
               \/ UNCHANGED vars
  PROVE  IInv'
<1>1. CallsKept /\ UNCHANGED <<store, daemonLock, pc, boot, sockets, runs>>
  BY EndedMoves, SameCalls DEF GiveUp, vars
<1>2. ASSUME NEW t \in Servers, NEW i \in DOMAIN queue[t]
      PROVE  call'[queue[t][i]].state # "new"
  <2>1. queue[t] \in Seq(Calls) /\ Handling(t)
    BY DEF IInv, TypeOK
  <2>2. queue[t][i] \in Calls /\ Connected(queue[t][i])
    BY <2>1 DEF Handling
  <2> QED BY <1>1, <2>2 DEF CallsKept
<1>3. UNCHANGED <<queue, path, serving>>
  BY <1>1 DEF sockets
<1> QED BY <1>1, <1>2, <1>3, ClientStep DEF IInv, TypeOK

\* No capability is issued while an executor runs, nor for another generation than the one
\* a daemon has bound.
LEMMA IssueStep ==
  ASSUME IInv, NEW b \in Boots, Issue(b)
  PROVE  IInv'
<1>1. /\ boundTo \in {None, b} /\ storeLock = None /\ Len(issued) < MaxEpoch /\ boundTo' = b
      /\ issued' = Append(issued, b)
      /\ UNCHANGED <<consumed, storeLock, daemonLock, pc, boot, sockets, call, runs>>
  BY DEF Issue, Epoch
<1>2. issued' \in Seq(Boots) /\ Len(issued') <= MaxEpoch
  BY <1>1, BoundsAssumption DEF IInv, TypeOK
<1>3. TypeOK'
  BY <1>1, <1>2 DEF IInv, TypeOK, sockets
<1>4. ASSUME NEW t \in Servers PROVE Locked(t)' /\ Handling(t)' /\ Running(t)'
  <2>1. ~At(t, "run")
    BY <1>1, NoneAssumption DEF IInv, Locked
  <2>2. Locked(t)'
    BY <1>1 DEF IInv, Locked, At
  <2>3. Handling(t)'
    BY <1>1 DEF IInv, Handling, Connected, CapOf, sockets
  <2>4. Running(t)'
    BY <1>1, <2>1 DEF IInv, Running, At, CapOf, Confirmed, sockets
  <2> QED BY <2>2, <2>3, <2>4
<1>5. OneConfirms' /\ Fresh' /\ OneEffectOneAnswer' /\ PathLeadsToDaemon'
  BY <1>1 DEF IInv, OneConfirms, Fresh, OneEffectOneAnswer, PathLeadsToDaemon, At, CapOf,
              Confirmed, Listening, sockets
<1> QED BY <1>3, <1>4, <1>5 DEF IInv

----------------------------------------------------------------------------
(* The invariant is inductive *)

\* Before anything has started.
LEMMA InvInit == Init => IInv
<1> SUFFICES ASSUME Init PROVE IInv
  OBVIOUS
<1>1. <<>> \in Seq(Boots) /\ <<>> \in Seq(Calls) /\ Len(<<>>) = 0 /\ 0 <= MaxEpoch /\ 0 <= Backlog
  BY BoundsAssumption
<1>2. [cap |-> None, state |-> "new"] \in Call
  BY DEF Call
<1>3. TypeOK
  BY <1>1, <1>2 DEF Init, TypeOK, Labels
<1>4. \A s \in Servers : Locked(s) /\ Handling(s) /\ Running(s)
  BY DEF Init, Locked, Handling, Running, At, Servers
<1>5. OneConfirms /\ Fresh
  BY DEF Init, OneConfirms, Fresh, At
<1>6. OneEffectOneAnswer
  BY DEF Init, OneEffectOneAnswer, Confirmed
<1>7. PathLeadsToDaemon
  BY DEF Init, PathLeadsToDaemon, Listening, Servers
<1> QED BY <1>3, <1>4, <1>5, <1>6, <1>7 DEF IInv

\* One case for each action of each actor.
LEMMA InvStep == IInv /\ [Next]_vars => IInv'
<1> SUFFICES ASSUME IInv, [Next]_vars PROVE IInv'
  OBVIOUS
<1>1. ASSUME NEW s \in Servers, StartOrStop(s) PROVE IInv'
  BY <1>1, LaunchStep, LaunchOnceStep, BindGenerationStep, UnlinkTidyStep, ListenStep,
     StopStep, ReleaseStep, KillStep DEF StartOrStop
<1>2. ASSUME NEW s \in Servers, Serve(s) PROVE IInv'
  BY <1>2, AcceptStep, ReceiveStep, GateStep, RunStep, RespondStep, EndOnceStep DEF Serve
<1>3. ASSUME NEW b \in Boots, Issue(b) PROVE IInv'
  BY <1>3, IssueStep
<1>4. ASSUME NEW k \in Calls, NEW c \in Caps \cup {None}, Connect(k, c) PROVE IInv'
  BY <1>4, ConnectStep
<1>5. CASE (\E k \in Calls : GiveUp(k)) \/ UNCHANGED vars
  BY <1>5, GiveUpStep
<1> QED BY <1>1, <1>2, <1>3, <1>4, <1>5 DEF Next

\* The invariant holds in every reachable state.
THEOREM Invariant == Spec => []IInv
BY InvInit, InvStep, PTL DEF Spec

\* Every variable keeps its type; the locks are held by processes that live.
THEOREM TypeCorrect == Spec => []TypeOK
<1>1. IInv => TypeOK
  BY DEF IInv
<1> QED BY <1>1, Invariant, PTL

\* However often a capability is sent, and whoever serves it: one executor, one ok.
THEOREM OneEffectOneAnswerAlways == Spec => []OneEffectOneAnswer
<1>1. IInv => OneEffectOneAnswer
  BY DEF IInv
<1> QED BY <1>1, Invariant, PTL

\* The name of the socket leads to the daemon that serves, among daemons.
THEOREM PathLeadsToDaemonAlways == Spec => []PathLeadsToDaemon
<1>1. IInv => PathLeadsToDaemon
  BY DEF IInv
<1> QED BY <1>1, Invariant, PTL

\* An executor runs only for the capability issued last.
THEOREM SupersededNeverRunsAlways == Spec => SupersededNeverRuns
<1> DEFINE A == \A s \in Servers : Executes(s) => CapOf(s) = Epoch
<1>1. IInv /\ [Next]_vars => [A]_vars
  BY DEF IInv, Running, Executes, Verified
<1> QED BY <1>1, Invariant, PTL DEF Spec, SupersededNeverRuns

\* A daemon's executor runs only for the generation the Store is bound to.
THEOREM OneGenerationAlways == Spec => OneGeneration
<1> DEFINE A == \A s \in Daemons : Executes(s) => issued[CapOf(s)] = boundTo
<1>1. IInv /\ [Next]_vars => [A]_vars
  BY DEF IInv, Running, Locked, Executes, Verified, At, Servers
<1> QED BY <1>1, Invariant, PTL DEF Spec, OneGeneration
=============================================================================
