----------------------------- MODULE PeerRuntime -----------------------------
(***************************************************************************)
(* The daemon around the peer handlers: the threads that dispatch events   *)
(* under the state mutex and execute the resulting effects without it.     *)
(*                                                                         *)
(* A lane is a thread with the effects it has still to execute (todo).     *)
(* One handler call, under the mutex, is one step; so is one effect.  A    *)
(* completion dispatched while a batch is drained appends its effects      *)
(* behind the rest of that batch (DrainEffectBatches).  An external call   *)
(* in progress is an entry of todo too: "Opened" and "OpenFailed" hold the *)
(* result of udp_open, "Snapshot", "Sending" and "Rejected" the stages of  *)
(* a transmit, "Resolving" a resolution, "Observe" a path observation      *)
(* between its snapshot and its callback.                                  *)
(*                                                                         *)
(* Lanes: ipc (the one IPC thread), nifm (path observations), resolve,     *)
(* submit, tx, rx and timer (one workqueue thread each).                   *)
(***************************************************************************)
EXTENDS PeerHandlers, FiniteSets

CONSTANTS Peers, NoPeer,
          Sources,           \* addresses authenticated datagrams arrive from
          MaxActivations, MaxObservations, MaxFaults, MaxBumps, MaxPackets,
          MaxExpiries, MaxReceives, MaxAgings   \* bounds on the environment

ASSUME RuntimeConstants ==
  /\ NoPeer \notin Peers
  /\ InvalidPeers \subseteq Peers /\ KeepalivePeers \subseteq Peers
  /\ MaxSendAttempts \in Nat \ {0} /\ StagingCapacity \in Nat \ {0}
  /\ Sources \subseteq Endpoints \ {"none"}

VARIABLES active,     \* m_peers.ActivePeerIndex
          peer,       \* the PeerRuntime of each configured peer
          todo,       \* effects each lane has still to execute
          request,    \* the open NIFM request: whose, and its generation
          resolver,   \* EndpointResolver: pending request, worker scheduled
          transmit,   \* m_pending_datagram_transmit and the tx work item
          inner,      \* the inner-packet submission work item is queued
          receive,    \* the receive work item, its loop and its snapshot
          rebind,     \* UdpRebindQueue
          sockets,    \* descriptors open in the operating system
          aborted,    \* why the process terminated itself, if it did
          used        \* how often each environment step has happened

vars == <<active, peer, todo, request, resolver, transmit, inner, receive,
          rebind, sockets, aborted, used>>

Lanes == {"ipc", "nifm", "resolve", "submit", "tx", "rx", "timer"}

NoIdentity == [peer |-> NoPeer, act |-> 0]
Identity(e) == [peer |-> e.peer, act |-> e.act]
NoTransmit == [peer |-> NoPeer, act |-> 0, n |-> 0]
NoSnapshot == [peer |-> NoPeer, act |-> 0, sock |-> 0]

Init ==
  /\ active = NoPeer
  /\ peer = [i \in Peers |-> InitialPeer(i)]
  /\ todo = [l \in Lanes |-> <<>>]
  /\ request = NoIdentity
  /\ resolver = [slot |-> NoIdentity, busy |-> FALSE]
  /\ transmit = [slot |-> NoTransmit, queued |-> FALSE]
  /\ inner = FALSE
  /\ receive = [queued |-> FALSE, at |-> "idle", snap |-> NoSnapshot]
  /\ rebind = NoIdentity
  /\ sockets = {}
  /\ aborted = "no"
  /\ used = [act |-> 0, obs |-> 0, fault |-> 0, bump |-> 0, pkt |-> 0,
             exp |-> 0, recv |-> 0, age |-> 0]

-----------------------------------------------------------------------------
(* Dispatch.                                                               *)

IsActiveIdentity(e) ==
  /\ e.peer = active
  /\ active # NoPeer
  /\ e.act # 0
  /\ peer[active].gen = e.act

IsActiveTransportIdentity(e) ==
  IsActiveIdentity(e) /\ IsInTransportState(peer[e.peer])

IsActiveEstablishedIdentity(e) ==
  IsActiveIdentity(e) /\ peer[e.peer].st = "Active"

\* The effects this module executes.  Timer effects are TimerPlane's; the
\* others left out reach components that keep no state of this module.
Modelled == {"StartPath", "StopPath", "Resolve", "Open", "Close", "Send",
             "QueueReceive", "QueueInner"}

Executable(out) == SelectSeq(out, LAMBDA e : e.k \in Modelled)

\* PeerRuntime::Handle, which terminates the process on an over-long batch,
\* and the drain of the batch on lane l behind its remaining effects.
Dispatch(l, i, event, s, rest) ==
  LET r == FinalizeTimers(s) IN
  IF Len(r.out) > MaxEffectsForEvent(event)
  THEN aborted' = "budget" /\ UNCHANGED <<peer, todo>>
  ELSE /\ peer' = [peer EXCEPT ![i] = r.p]
       /\ todo' = [todo EXCEPT ![l] = rest \o Executable(r.out)]
       /\ UNCHANGED aborted

Count(what) == used' = [used EXCEPT ![what] = @ + 1]

Running == aborted = "no"
Idle(l) == todo[l] = <<>>

-----------------------------------------------------------------------------
(* The IPC thread (daemon_runtime.cpp).                                    *)

\* SetPeerInactive adds the probe-timer cancel to the deactivation's batch,
\* SetActivePeer appends the activation's.
SwitchBatch(i) ==
  LET off == IF active = NoPeer THEN <<>>
             ELSE Append(Deactivation(peer[active]).out,
                         [k |-> "CancelProbe", peer |-> active, act |-> 0,
                          n |-> 0, tag |-> ""])
      on == IF i = NoPeer THEN <<>> ELSE Activation(peer[i]).out
  IN off \o on

SetActivePeer(i) ==
  /\ Running /\ Idle("ipc")
  /\ used.act < MaxActivations
  /\ i # active
  /\ IF Len(SwitchBatch(i)) > EffectBatchSlots
     THEN aborted' = "switch" /\ UNCHANGED <<active, peer, todo>>
     ELSE /\ UNCHANGED aborted
          /\ active' = i
          /\ peer' = [j \in Peers |->
               IF j = active THEN FinalizeTimers(Deactivation(peer[j])).p
               ELSE IF j = i THEN FinalizeTimers(Activation(peer[j])).p
               ELSE peer[j]]
          /\ todo' = [todo EXCEPT !["ipc"] = Executable(SwitchBatch(i))]
  /\ Count("act")
  /\ UNCHANGED <<request, resolver, transmit, inner, receive, rebind, sockets>>

BumpUdpBinding ==
  /\ Running /\ Idle("ipc")
  /\ used.bump < MaxBumps
  /\ active # NoPeer
  /\ IsInTransportState(peer[active]) /\ HasEndpoint(peer[active])
  /\ rebind' = [peer |-> active, act |-> peer[active].gen]
  /\ todo' = [todo EXCEPT !["ipc"] = <<Eff(peer[active], "QueueWorker", 0, "")>>]
  /\ Count("bump")
  /\ UNCHANGED <<active, peer, request, resolver, transmit, inner, receive,
                 sockets, aborted>>

\* SubmitInnerIpv4Packet; a consumer that takes the channel over discards
\* what the previous one had staged.
SubmitInnerPacket(transfer) ==
  /\ Running /\ Idle("ipc")
  /\ used.pkt < MaxPackets
  /\ active # NoPeer
  /\ LET p == peer[active]
         q == IF transfer THEN ClearStagedInnerPackets(p) ELSE p
         s == InnerPacketStaged(q, p.gen, used.pkt + 1)
     IN /\ p.proto /\ AcceptsInnerPacketSubmission(p)
        /\ CanStageInnerPackets(q, 1)
        /\ Dispatch("ipc", active, "Staged", s, <<>>)
  /\ Count("pkt")
  /\ UNCHANGED <<active, request, resolver, transmit, inner, receive, rebind,
                 sockets>>

-----------------------------------------------------------------------------
(* Effects, on any lane (runtime_effect_executor.cpp).                     *)

At(l, k) == Running /\ todo[l] # <<>> /\ Head(todo[l]).k = k

Done(l) == todo' = [todo EXCEPT ![l] = Tail(@)]

Become(l, e) == todo' = [todo EXCEPT ![l] = <<e>> \o Tail(@)]

\* NetworkPathService::Start first stops and joins the previous request.
StartNetworkPath(e) ==
  /\ request # NoIdentity => Idle("nifm")
  /\ \/ request' = Identity(e) /\ UNCHANGED used
     \/ request' = NoIdentity /\ used.fault < MaxFaults /\ Count("fault")

\* The completion event of a start, failed or not, changes nothing.
ExecuteStartPath(l) ==
  /\ At(l, "StartPath")
  /\ IF IsActiveIdentity(Head(todo[l])) THEN StartNetworkPath(Head(todo[l]))
     ELSE UNCHANGED <<request, used>>
  /\ Done(l)
  /\ UNCHANGED <<active, peer, resolver, transmit, inner, receive, rebind,
                 sockets, aborted>>

\* Stop joins the observation thread before it closes the request.
ExecuteStopPath(l) ==
  /\ At(l, "StopPath")
  /\ IF request # NoIdentity /\ request.act = Head(todo[l]).act
     THEN Idle("nifm") /\ request' = NoIdentity
     ELSE UNCHANGED request
  /\ Done(l)
  /\ UNCHANGED <<active, peer, resolver, transmit, inner, receive, rebind,
                 sockets, aborted, used>>

ExecuteResolve(l) ==
  /\ At(l, "Resolve")
  /\ LET e == Head(todo[l]) IN
     IF IsActiveIdentity(e)
     THEN resolver' = [slot |-> Identity(e), busy |-> TRUE]
     ELSE UNCHANGED resolver
  /\ Done(l)
  /\ UNCHANGED <<active, peer, request, transmit, inner, receive, rebind,
                 sockets, aborted, used>>

ExecuteOpen(l) ==
  /\ At(l, "Open")
  /\ LET e == Head(todo[l]) IN
     \/ /\ Become(l, [e EXCEPT !.k = "Opened"])
        /\ sockets' = sockets \union {<<e.peer, e.n>>}
        /\ UNCHANGED used
     \/ /\ used.fault < MaxFaults
        /\ Become(l, [e EXCEPT !.k = "OpenFailed"])
        /\ Count("fault")
        /\ UNCHANGED sockets
  /\ UNCHANGED <<active, peer, request, resolver, transmit, inner, receive,
                 rebind, aborted>>

CompleteOpen(l) ==
  /\ Running /\ todo[l] # <<>> /\ Head(todo[l]).k \in {"Opened", "OpenFailed"}
  /\ LET e == Head(todo[l])
         s == UdpBindOpened(peer[e.peer], e.act, e.n, e.tag, e.k = "Opened")
     IN Dispatch(l, e.peer, "BindOpened", s, Tail(todo[l]))
  /\ UNCHANGED <<active, request, resolver, transmit, inner, receive, rebind,
                 sockets, used>>

ExecuteClose(l) ==
  /\ At(l, "Close")
  /\ sockets' = sockets \ {<<Head(todo[l]).peer, Head(todo[l]).n>>}
  /\ Done(l)
  /\ UNCHANGED <<active, peer, request, resolver, transmit, inner, receive,
                 rebind, aborted, used>>

HasPendingDatagram(e) ==
  IsActiveIdentity(e) /\ e.n # 0 /\ peer[e.peer].dg.gen = e.n

\* The slot is written under the mutex; queueing the worker follows outside
\* it, and only adds to what a queued worker finds.
QueuePendingDatagramTransmit(l) ==
  /\ At(l, "Send")
  /\ LET e == Head(todo[l])
         new == [peer |-> e.peer, act |-> e.act, n |-> e.n]
     IN IF ~HasPendingDatagram(e) \/ transmit.slot = new
        THEN Done(l) /\ UNCHANGED <<transmit, aborted>>
        ELSE IF HasPendingDatagram(transmit.slot)
        THEN aborted' = "slot" /\ UNCHANGED <<todo, transmit>>
        ELSE /\ transmit' = [transmit EXCEPT !.slot = new]
             /\ Become(l, [e EXCEPT !.k = "QueueTransmit"])
             /\ UNCHANGED aborted
  /\ UNCHANGED <<active, peer, request, resolver, inner, receive, rebind,
                 sockets, used>>

ExecuteQueueTransmit(l) ==
  /\ At(l, "QueueTransmit")
  /\ transmit' = [transmit EXCEPT !.queued = TRUE]
  /\ Done(l)
  /\ UNCHANGED <<active, peer, request, resolver, inner, receive, rebind,
                 sockets, aborted, used>>

\* Mutant: a running worker is not asked to run again.
QueueReceiveWorkIfIdle ==
  IF receive.at = "idle" THEN [receive EXCEPT !.queued = TRUE] ELSE receive

\* queue_work of the receive item: queued, or to be rerun if it is running.
QueueReceiveWork == [receive EXCEPT !.queued = TRUE]

\* QueueReceive is conditional on the peer; a bump queues the worker as is.
ExecuteQueueReceive(l) ==
  /\ Running /\ todo[l] # <<>> /\ Head(todo[l]).k \in {"QueueReceive", "QueueWorker"}
  /\ LET e == Head(todo[l]) IN
     receive' = IF e.k = "QueueWorker" \/ IsActiveTransportIdentity(e)
                THEN QueueReceiveWork ELSE receive
  /\ Done(l)
  /\ UNCHANGED <<active, peer, request, resolver, transmit, inner, rebind,
                 sockets, aborted, used>>

ExecuteQueueInner(l) ==
  /\ At(l, "QueueInner")
  /\ inner' = (inner \/ IsActiveEstablishedIdentity(Head(todo[l])))
  /\ Done(l)
  /\ UNCHANGED <<active, peer, request, resolver, transmit, receive, rebind,
                 sockets, aborted, used>>

-----------------------------------------------------------------------------
(* The observation thread (network_path_service.cpp).                      *)

\* The peer of the entry is the one the request was opened for; the code's
\* observation carries the request generation only.
TakeObservation(v) ==
  /\ Running /\ Idle("nifm")
  /\ request # NoIdentity
  /\ used.obs < MaxObservations
  /\ todo' = [todo EXCEPT !["nifm"] =
       <<[k |-> "Observe", peer |-> request.peer, act |-> request.act,
          n |-> 0, tag |-> v]>>]
  /\ Count("obs")
  /\ UNCHANGED <<active, peer, request, resolver, transmit, inner, receive,
                 rebind, sockets, aborted>>

\* HandleNetworkPathObservation: the active peer with its own activation and
\* the observation's request generation.
HandleObservation ==
  /\ At("nifm", "Observe")
  /\ LET e == Head(todo["nifm"]) IN
     IF active = NoPeer
     THEN Done("nifm") /\ UNCHANGED <<peer, aborted>>
     ELSE Dispatch("nifm", active, "PathAvailability",
                   PathAvailabilityChanged(peer[active], e.act, e.tag), <<>>)
  /\ UNCHANGED <<active, request, resolver, transmit, inner, receive, rebind,
                 sockets, used>>

-----------------------------------------------------------------------------
(* Workers.                                                                *)

\* RunEndpointResolver: take a request, or mark the worker idle, atomically.
TakeResolution ==
  /\ Running /\ Idle("resolve") /\ resolver.busy
  /\ IF resolver.slot = NoIdentity
     THEN resolver' = [resolver EXCEPT !.busy = FALSE] /\ UNCHANGED todo
     ELSE /\ resolver' = [resolver EXCEPT !.slot = NoIdentity]
          /\ todo' = [todo EXCEPT !["resolve"] =
               <<[k |-> "Resolving", peer |-> resolver.slot.peer,
                  act |-> resolver.slot.act, n |-> 0, tag |-> ""]>>]
  /\ UNCHANGED <<active, peer, request, transmit, inner, receive, rebind,
                 sockets, aborted, used>>

CompleteResolution ==
  /\ At("resolve", "Resolving")
  /\ \E ok \in BOOLEAN :
       /\ ok \/ used.fault < MaxFaults
       /\ LET e == Head(todo["resolve"])
              s == EndpointResolved(peer[e.peer], e.act, ok)
          IN Dispatch("resolve", e.peer, "EndpointResolved", s, <<>>)
       /\ IF ok THEN UNCHANGED used ELSE Count("fault")
  /\ UNCHANGED <<active, request, resolver, transmit, inner, receive, rebind,
                 sockets>>

RunInnerPacketSubmission ==
  /\ Running /\ Idle("submit") /\ inner
  /\ inner' = FALSE
  /\ IF active = NoPeer THEN UNCHANGED <<peer, todo, aborted>>
     ELSE Dispatch("submit", active, "ProcessOutbound",
                   ProcessOutboundRequested(peer[active], peer[active].gen), <<>>)
  /\ UNCHANGED <<active, request, resolver, transmit, receive, rebind,
                 sockets, used>>

\* RunPendingDatagramTransmit: the exchange of the slot.
TakeTransmit ==
  /\ Running /\ Idle("tx") /\ transmit.queued
  /\ transmit' = [slot |-> NoTransmit, queued |-> FALSE]
  /\ todo' = IF transmit.slot = NoTransmit THEN todo
             ELSE [todo EXCEPT !["tx"] =
                    <<[k |-> "Snapshot", peer |-> transmit.slot.peer,
                       act |-> transmit.slot.act, n |-> transmit.slot.n,
                       tag |-> ""]>>]
  /\ UNCHANGED <<active, peer, request, resolver, inner, receive, rebind,
                 sockets, aborted, used>>

\* Mutant: a refused snapshot is dropped without its completion.
SnapshotForSendDrops ==
  /\ At("tx", "Snapshot")
  /\ LET e == Head(todo["tx"])
         p == peer[e.peer]
         ok == HasPendingDatagram(e) /\ ~p.susp /\ HasEndpoint(p) /\ p.sock # 0
     IN IF ok THEN Become("tx", [e EXCEPT !.k = "Sending"]) ELSE Done("tx")
  /\ UNCHANGED <<active, peer, request, resolver, transmit, inner, receive,
                 rebind, sockets, aborted, used>>

\* The snapshot for the send is refused unless the binding can carry it.
SnapshotForSend ==
  /\ At("tx", "Snapshot")
  /\ LET e == Head(todo["tx"])
         p == peer[e.peer]
         ok == HasPendingDatagram(e) /\ ~p.susp /\ HasEndpoint(p) /\ p.sock # 0
     IN Become("tx", [e EXCEPT !.k = IF ok THEN "Sending" ELSE "Rejected"])
  /\ UNCHANGED <<active, peer, request, resolver, transmit, inner, receive,
                 rebind, sockets, aborted, used>>

\* udp_send and its completion; a descriptor closed meanwhile may fail it.
CompleteSend ==
  /\ Running /\ todo["tx"] # <<>>
  /\ Head(todo["tx"]).k \in {"Sending", "Rejected"}
  /\ LET e == Head(todo["tx"]) IN
     \E ok \in BOOLEAN :
       /\ ok => e.k = "Sending"
       /\ ok \/ e.k = "Rejected" \/ used.fault < MaxFaults
       /\ Dispatch("tx", e.peer, "DatagramSent",
                   PendingDatagramSent(peer[e.peer], e.act, e.n, ok), <<>>)
       /\ IF ok \/ e.k = "Rejected" THEN UNCHANGED used ELSE Count("fault")
  /\ UNCHANGED <<active, request, resolver, transmit, inner, receive, rebind,
                 sockets>>

-----------------------------------------------------------------------------
(* The receive pump (encrypted_receive_pump.cpp).                          *)

StartReceive ==
  /\ Running /\ receive.queued /\ receive.at = "idle"
  /\ receive' = [receive EXCEPT !.queued = FALSE, !.at = "loop"]
  /\ UNCHANGED <<active, peer, todo, request, resolver, transmit, inner,
                 rebind, sockets, aborted, used>>

ProcessPendingRebind ==
  /\ Running /\ Idle("rx") /\ receive.at = "loop"
  /\ rebind # NoIdentity
  /\ rebind' = NoIdentity
  /\ Dispatch("rx", rebind.peer, "RebindRequested",
              UdpRebindRequested(Fresh(peer[rebind.peer]), rebind.act), <<>>)
  /\ UNCHANGED <<active, request, resolver, transmit, inner, receive, sockets,
                 used>>

SnapshotReceiveRuntime ==
  /\ Running /\ Idle("rx") /\ receive.at = "loop"
  /\ rebind = NoIdentity
  /\ receive' =
       IF active # NoPeer /\ IsInTransportState(peer[active])
          /\ peer[active].sock # 0
       THEN [receive EXCEPT !.at = "recv",
               !.snap = [peer |-> active, act |-> peer[active].gen,
                         sock |-> peer[active].sock]]
       ELSE [receive EXCEPT !.at = "exit"]
  /\ UNCHANGED <<active, peer, todo, request, resolver, transmit, inner,
                 rebind, sockets, aborted, used>>

\* Run has returned; the workqueue thread marks the item not running later.
FinishReceive ==
  /\ Running /\ receive.at = "exit"
  /\ receive' = [receive EXCEPT !.at = "idle"]
  /\ UNCHANGED <<active, peer, todo, request, resolver, transmit, inner,
                 rebind, sockets, aborted, used>>

BackToLoop == receive' = [receive EXCEPT !.at = "loop", !.snap = NoSnapshot]

\* A timeout, a retry, or a failure: receive_failed is nonterminal.
ReceiveNothing ==
  /\ Running /\ receive.at = "recv"
  /\ BackToLoop
  /\ UNCHANGED <<active, peer, todo, request, resolver, transmit, inner,
                 rebind, sockets, aborted, used>>

CommitReceivedPacket(kind, src) ==
  /\ Running /\ receive.at = "recv"
  /\ used.recv < MaxReceives
  /\ LET e == receive.snap
         s == EncryptedDatagramReceived(peer[e.peer], e.act, kind, src)
     IN IF IsActiveTransportIdentity(e) /\ peer[e.peer].sock = e.sock
        THEN Dispatch("rx", e.peer, "Received", s, <<>>)
        ELSE UNCHANGED <<peer, todo, aborted>>
  /\ BackToLoop
  /\ Count("recv")
  /\ UNCHANGED <<active, request, resolver, transmit, inner, rebind, sockets>>

-----------------------------------------------------------------------------
(* Timers and time.                                                        *)

\* TimerPlane delivers an expiry only for the hook's current token.
ExpireTimer(hook) ==
  /\ Running /\ Idle("timer")
  /\ used.exp < MaxExpiries
  /\ active # NoPeer
  /\ hook \in peer[active].armed
  /\ hook = "Retransmit" => ~peer[active].stale
  /\ Dispatch("timer", active, "TimerExpired",
              ProtocolTimerExpired(peer[active], hook), <<>>)
  /\ Count("exp")
  /\ UNCHANGED <<active, request, resolver, transmit, inner, receive, rebind,
                 sockets>>

\* What a keypair may have become when it is looked at next.
Older == [fresh |-> {"aged", "expired"}, aged |-> {"expired"},
          respFresh |-> {"respExpired"}]

KeyAges(i) ==
  /\ Running
  /\ used.age < MaxAgings
  /\ peer[i].key \in DOMAIN Older
  /\ \E k \in Older[peer[i].key] : peer' = [peer EXCEPT ![i].key = k]
  /\ Count("age")
  /\ UNCHANGED <<active, todo, request, resolver, transmit, inner, receive,
                 rebind, sockets, aborted>>

\* From now on the protocol code fails for the selected peer: its keys are
\* refused, or a message does not build.
ProtocolFails ==
  /\ Running
  /\ used.fault < MaxFaults
  /\ active # NoPeer
  /\ peer' = [peer EXCEPT ![active].failing = TRUE]
  /\ Count("fault")
  /\ UNCHANGED <<active, todo, request, resolver, transmit, inner, receive,
                 rebind, sockets, aborted>>

Execute(l) ==
  \/ ExecuteStartPath(l) \/ ExecuteStopPath(l) \/ ExecuteResolve(l)
  \/ ExecuteOpen(l) \/ CompleteOpen(l) \/ ExecuteClose(l)
  \/ QueuePendingDatagramTransmit(l) \/ ExecuteQueueTransmit(l)
  \/ ExecuteQueueReceive(l) \/ ExecuteQueueInner(l)

\* What the thread of lane l does when it is scheduled.
Step(l) ==
  \/ Execute(l)
  \/ l = "nifm" /\ HandleObservation
  \/ l = "resolve" /\ (TakeResolution \/ CompleteResolution)
  \/ l = "submit" /\ RunInnerPacketSubmission
  \/ l = "tx" /\ (TakeTransmit \/ SnapshotForSend \/ CompleteSend)
  \/ l = "rx" /\ (StartReceive \/ ProcessPendingRebind
                  \/ SnapshotReceiveRuntime \/ ReceiveNothing
                  \/ FinishReceive)

Environment ==
  \/ \E i \in Peers \union {NoPeer} : SetActivePeer(i)
  \/ BumpUdpBinding
  \/ \E transfer \in BOOLEAN : SubmitInnerPacket(transfer)
  \/ \E v \in Availability : TakeObservation(v)
  \/ \E kind \in Datagrams, src \in Sources : CommitReceivedPacket(kind, src)
  \/ \E hook \in Hooks : ExpireTimer(hook)
  \/ \E i \in Peers : KeyAges(i)
  \/ ProtocolFails

Next == (\E l \in Lanes : Step(l)) \/ Environment

Spec == Init /\ [][Next]_vars

\* The thread of lane l has something to do and is not waiting to join the
\* observation thread: exactly when Step(l) is enabled.
Ready(l) ==
  /\ Running
  /\ IF Idle(l)
     THEN \/ l = "resolve" /\ resolver.busy
          \/ l = "submit" /\ inner
          \/ l = "tx" /\ transmit.queued
          \/ l = "rx" /\ (receive.queued \/ receive.at # "idle")
     ELSE (\/ Head(todo[l]).k = "StartPath" /\ request # NoIdentity
           \/ Head(todo[l]).k = "StopPath" /\ request # NoIdentity
              /\ request.act = Head(todo[l]).act) => Idle("nifm")

\* Every thread keeps running: weak fairness of each Step(l), with Ready(l)
\* for its enabling condition.  Nothing is assumed of users, timers, the
\* network or time.
FairSpec ==
  Spec /\ \A l \in Lanes : []<>~Ready(l) \/ []<><<Step(l)>>_vars

-----------------------------------------------------------------------------
Entries == UNION {{<<l, n>> : n \in DOMAIN todo[l]} : l \in Lanes}

EntryAt(x) == todo[x[1]][x[2]]

Waiting(kinds, i) ==
  {x \in Entries : EntryAt(x).k \in kinds /\ EntryAt(x).peer = i}

(* Types: every daemon variable and PeerRuntime field stays in its range,  *)
(* the staging queue and the attempt counter within their limits.          *)
TypeOK ==
  /\ active \in Peers \union {NoPeer}
  /\ \A i \in Peers : LET p == peer[i] IN
       /\ p.st \in States /\ p.path \in Availability /\ p.key \in Keys
       /\ p.ep \in Endpoints /\ p.armed \subseteq Hooks
       /\ p.gen < p.nextGen /\ p.sock < p.nextSock /\ p.dg.gen < p.nextDg
       /\ Len(p.staged) <= StagingCapacity /\ p.attempts <= MaxSendAttempts
       /\ \A b \in {p.confirm, p.waiting, p.resStarted, p.recvStarted, p.susp,
                     p.proto, p.hs, p.nextKey, p.stale, p.another,
                     p.failing} : b \in BOOLEAN
  /\ aborted \in {"no", "budget", "switch", "slot"}

\* A descriptor returned by udp_open is at every moment owned exactly once:
\* by the binding that adopted it, by the completion that still carries it,
\* or by the Close effect a lane has yet to run.  So no interleaving of
\* rebinds, suspensions, errors and peer switches leaks one, closes one
\* twice, or leaves a binding on a closed one.
SocketsAccounted ==
  \A i \in Peers : \A n \in 1..peer[i].nextSock :
    LET bound == IF peer[i].sock = n THEN 1 ELSE 0
        held == {x \in Waiting({"Opened", "Close"}, i) : EntryAt(x).n = n}
    IN bound + Cardinality(held) = IF <<i, n>> \in sockets THEN 1 ELSE 0

\* A bound socket means a usable local path: the binding is open only in a
\* transport state, with an endpoint, and never across an Unavailable
\* observation, so AdoptOpenSocket never meets a socket it would abort on.
OpenBindingHasPath ==
  \A i \in Peers : LET p == peer[i] IN
    p.sock # 0 => /\ IsInTransportState(p) /\ HasEndpoint(p) /\ ~p.susp
                  /\ PathUsable(p)

\* The one encrypted datagram a peer has pending is carried by exactly one
\* party: a Send effect, the transmit slot with its worker queued (or about
\* to be), or the transmit worker.  A peer whose carrier was lost would
\* refuse every later send and postpone every recovery.
DatagramHasCarrier ==
  \A i \in Peers : IsPending(peer[i]) =>
    LET n == peer[i].dg.gen
        mine == {x \in Waiting({"Send", "Snapshot", "Sending", "Rejected"}, i) :
                   EntryAt(x).n = n}
        inSlot == transmit.slot = [peer |-> i, act |-> peer[i].gen, n |-> n]
    IN /\ Cardinality(mine) + (IF inSlot THEN 1 ELSE 0) = 1
       /\ inSlot => \/ transmit.queued
                    \/ \E j \in Peers : Waiting({"QueueTransmit"}, j) # {}

\* While a peer with a started receive path has a socket, the receive loop
\* runs, is queued, or is about to be queued: no close, suspension or
\* rebind that overlaps the loop's exit leaves the socket unread.
ReceiveCovered ==
  \A i \in Peers :
    (i = active /\ peer[i].sock # 0 /\ peer[i].recvStarted) =>
      \/ receive.at \in {"loop", "recv"} \/ receive.queued
      \/ \E x \in Waiting({"QueueReceive"}, i) : EntryAt(x).act = peer[i].gen

\* A peer that is down holds nothing that could act later: no datagram, no
\* armed timer, no staged plaintext, no key.  Only the selected peer is up.
DownIsQuiet ==
  \A i \in Peers : LET p == peer[i] IN
    /\ p.st \in {"Inactive", "Error"} =>
         /\ ~IsPending(p) /\ p.armed = {} /\ p.staged = <<>>
         /\ p.key = "none" /\ ~p.nextKey /\ p.pendSock = 0
    /\ i # active => p.st = "Inactive" \/ i \in InvalidPeers

\* The open path request is the selected activation's, or the command that
\* replaced that activation has still to stop it.
RequestIsOwned ==
  request # NoIdentity =>
    \/ IsActiveIdentity(request)
    \/ \E x \in Waiting({"StopPath"}, request.peer) : EntryAt(x).act = request.act

\* Once its datagram is retired, sent or failed, a staged packet is never
\* prepared again: a plaintext is not sent under a second nonce.
NoPlaintextRetry ==
  [][\A i \in Peers :
       LET p == peer[i] q == peer'[i] IN
       (p.dg.kind = "TransportData" /\ q.dg # p.dg) =>
         \A n \in DOMAIN q.staged : q.staged[n] # p.dg.pkt]_vars

\* A pending datagram is eventually retired, whatever happens to its binding
\* meanwhile, as long as the threads run and the process lives.  (A peer whose
\* configuration is rejected never has one.)
DatagramRetires ==
  \A i \in Peers \ InvalidPeers : IsPending(peer[i]) ~> (~IsPending(peer[i]) \/ ~Running)

\* A transport suspended by an Unavailable observation is rebound after the
\* next Available one, even when that observation finds an older open still
\* in flight, unless the path is lost again or an external call failed.
SuspensionEnds ==
  \A i \in Peers \ InvalidPeers :
    (peer[i].susp /\ IsInTransportState(peer[i]) /\ peer[i].path = "available")
      ~> \/ ~peer[i].susp \/ peer[i].path # "available"
         \/ ~IsInTransportState(peer[i]) \/ used.fault # 0 \/ ~Running

-----------------------------------------------------------------------------
(* Statements of the documentation and of the code's own assertions that   *)
(* the code does not keep.                                                 *)

\* The packet a completion takes off the staging queue is the one its datagram
\* carried; another one would leave the queue without having been sent.
RetiresOwnPacket ==
  [][\A i \in Peers :
       LET p == peer[i] q == peer'[i] IN
       (p.dg.kind = "TransportData" /\ q.dg # p.dg
        /\ q.gen = p.gen /\ IsInTransportState(q) /\ p.staged # <<>>) =>
         (q.staged = p.staged \/ Head(p.staged) = p.dg.pkt)]_vars

\* Every peer event stays within its declared effect count.
BudgetsHold == aborted # "budget"

\* A peer switch fits the fixed effect batch.
SwitchFitsBatch == aborted # "switch"

\* An observation is applied only to the activation whose request made it.
ObservationIsOwn ==
  \A x \in Entries :
    (EntryAt(x).k = "Observe" /\ active # NoPeer
     /\ peer[active].gen = EntryAt(x).act) => EntryAt(x).peer = active

\* An Available path permits resolution: while a peer is in Resolving on a
\* usable path, its endpoint is requested or being resolved, or its socket is
\* being opened.  A peer without any of them is never moved on.
ResolutionProceeds ==
  \A i \in Peers :
    (Running /\ peer[i].st = "Resolving" /\ PathUsable(peer[i])) =>
      \/ resolver.slot = [peer |-> i, act |-> peer[i].gen]
      \/ \E x \in Waiting({"Resolve", "Resolving", "Open", "Opened",
                           "OpenFailed"}, i) : EntryAt(x).act = peer[i].gen

=============================================================================
