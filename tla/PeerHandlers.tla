---------------------------- MODULE PeerHandlers ----------------------------
(***************************************************************************)
(* The event handlers of one peer (runtime/peer/): pure functions from     *)
(* the peer's state and an event to the new state and the batch of effects *)
(* the dispatching thread executes after it has released the state mutex.  *)
(*                                                                         *)
(* A handler works on a record s with s.p the peer and s.out the batch.    *)
(* Payloads, keys and addresses are abstracted: a keypair is its age       *)
(* class, a packet its id.  Timers are the set of hooks whose `pending`     *)
(* flag is set; how an armed hook comes to deliver its expiry is the       *)
(* subject of module TimerPlane.                                           *)
(***************************************************************************)
EXTENDS Naturals, Sequences

CONSTANTS InvalidPeers,      \* peers whose configuration fails validation
          KeepalivePeers,    \* peers with persistent_keepalive_interval > 0
          MaxSendAttempts,   \* MaxTimerHandshakes + 2
          StagingCapacity    \* PeerOutboundStagingSlots

Hooks == {"Retransmit", "SendKeepalive", "NewHandshake", "Zero", "Persistent"}

States == {"Inactive", "Resolving", "Handshaking", "Active", "Error"}

Availability == {"unknown", "available", "unavailable"}

\* The remote address: what resolution returned, or another one the peer sent from.
Endpoints == {"none", "resolved", "roamed"}

\* The current keypair by role and age; "aged" is past RekeyAfterTime.
Keys == {"none", "fresh", "aged", "expired", "respFresh", "respExpired"}

CanSend(p) == p.key \in {"fresh", "aged", "respFresh"}

CanReceive(p) == CanSend(p)

NeedsRekey(p) == p.key \in {"aged", "expired"}

NoDatagram == [kind |-> "none", gen |-> 0, pkt |-> 0]

IsPending(p) == p.dg.gen # 0

HasEndpoint(p) == p.ep # "none"

IsInTransportState(p) == p.st \in {"Handshaking", "Active"}

AcceptsInnerPacketSubmission(p) == p.st = "Resolving" \/ IsInTransportState(p)

IsCurrentActivation(p, act) == act # 0 /\ act = p.gen

ValidateConfiguration(p) == p.id \notin InvalidPeers

\* Mutant: the keypairs survive the reset.
ResetProtocolKeepsKeys(p) ==
  [p EXCEPT !.proto = FALSE, !.staged = <<>>, !.attempts = 0, !.hs = FALSE,
            !.armed = {}, !.stale = FALSE, !.another = FALSE]

\* The protocol device and its one peer, as wg_device_reset leaves them.
ResetProtocol(p) ==
  [p EXCEPT !.proto = FALSE, !.staged = <<>>, !.attempts = 0, !.hs = FALSE,
            !.key = "none", !.nextKey = FALSE, !.armed = {}, !.stale = FALSE,
            !.another = FALSE]

\* A fresh device with its one peer, no handshake and no keypair, unless the
\* protocol code refuses the peer's keys.
InstantiateProtocol(p) == [ResetProtocol(p) EXCEPT !.proto = ~p.failing]

BeginActivation(p) ==
  [p EXCEPT !.st = "Resolving", !.gen = p.nextGen, !.nextGen = p.nextGen + 1]

EnterHandshaking(p) == [p EXCEPT !.st = "Handshaking"]

EnterError(p) == [p EXCEPT !.st = "Error"]

\* PeerRuntime::Deactivate; the armed flags go with the protocol's.
Deactivate(p) ==
  [ResetProtocol(p) EXCEPT
     !.dg = NoDatagram, !.pendSock = 0, !.pendEp = "none", !.path = "unknown",
     !.confirm = FALSE, !.waiting = FALSE, !.resStarted = FALSE,
     !.recvStarted = FALSE, !.st = "Inactive", !.gen = 0]

\* wg_peer_scrub_transient_state.
ScrubTransientState(p) ==
  [p EXCEPT !.staged = <<>>, !.attempts = 0, !.hs = FALSE, !.key = "none",
            !.nextKey = FALSE]

InitialPeer(i) ==
  [id |-> i, st |-> "Inactive", gen |-> 0, nextGen |-> 1,
   path |-> "unknown", confirm |-> FALSE, waiting |-> FALSE,
   resStarted |-> FALSE, recvStarted |-> FALSE,
   ep |-> "none", sock |-> 0, susp |-> FALSE,
   pendSock |-> 0, pendEp |-> "none", nextSock |-> 1,
   dg |-> NoDatagram, nextDg |-> 1,
   proto |-> FALSE, staged |-> <<>>, attempts |-> 0, hs |-> FALSE,
   key |-> "none", nextKey |-> FALSE,
   armed |-> {}, stale |-> FALSE, another |-> FALSE,
   failing |-> FALSE]   \* the protocol code can build nothing for this peer

-----------------------------------------------------------------------------
(* Effects.  `n` is a socket or datagram generation, `tag` a hook, a bind  *)
(* purpose or an availability.  The activation generation also stands for  *)
(* the path request generation: both counters advance on each activation   *)
(* and on nothing else.                                                    *)

Eff(p, k, n, tag) ==
  [k |-> k, peer |-> p.id, act |-> p.gen, n |-> n, tag |-> tag]

Fresh(p) == [p |-> p, out |-> <<>>]

Emit(s, k, n, tag) == [s EXCEPT !.out = Append(@, Eff(s.p, k, n, tag))]

Arm(s, hook) == Emit(s, "Arm", 0, hook)

Cancel(s, hook) == Emit(s, "Cancel", 0, hook)

CancelAllHooks(s) ==
  Cancel(Cancel(Cancel(Cancel(Cancel(s, "Retransmit"), "SendKeepalive"),
                              "NewHandshake"), "Zero"), "Persistent")

\* Mutant: the socket is forgotten instead of closed.
CloseBoundForgets(s) == [s EXCEPT !.p.sock = 0]

CloseBound(s) ==
  IF s.p.sock = 0 THEN s
  ELSE [Emit(s, "Close", s.p.sock, "") EXCEPT !.p.sock = 0]

\* The hook's flag after the batch's arms and cancels, in their order.
Touches(out, hook) ==
  {n \in DOMAIN out : out[n].k \in {"Arm", "Cancel"} /\ out[n].tag = hook}

FinalizeTimers(s) ==
  LET On(hook) == LET t == Touches(s.out, hook) IN
        IF t = {} THEN hook \in s.p.armed
        ELSE \E n \in t : s.out[n].k = "Arm" /\ \A m \in t : m <= n
  IN [s EXCEPT !.p.armed = {h \in Hooks : On(h)},
               !.p.stale = @ /\ Touches(s.out, "Retransmit") = {}]

-----------------------------------------------------------------------------
(* Terminal errors and the pending datagram.                               *)

EnterActivationError(s) ==
  LET p == s.p
      scrubbed == [ScrubTransientState(p) EXCEPT
                     !.dg = NoDatagram, !.pendSock = 0, !.pendEp = "none"]
      closed == CloseBound([s EXCEPT !.p = EnterError(scrubbed)])
  IN IF p.gen = 0 THEN closed ELSE CancelAllHooks(closed)

SendPrepared(s, kind, pkt) ==
  LET n == s.p.nextDg
      q == [s EXCEPT !.p.dg = [kind |-> kind, gen |-> n, pkt |-> pkt],
                     !.p.nextDg = n + 1]
  IN Emit(q, "Send", n, kind)

\* PrepareTransportDatagram and its Send, or the terminal error of a failed build.
SendKeepaliveOrFail(s) ==
  IF IsPending(s.p) \/ ~CanSend(s.p) \/ s.p.failing THEN EnterActivationError(s)
  ELSE SendPrepared(s, "Keepalive", 0)

\* A fresh initiation replaces the handshake state; a new sequence leaves a
\* still armed Retransmit hook with the owner of the old one.
CreateInitiation(p) == [p EXCEPT !.hs = TRUE]

BeginRetry(p) ==
  [p EXCEPT !.attempts = 1, !.stale = "Retransmit" \in p.armed]

HandshakeOutstanding(p) ==
  p.attempts > 0 /\ "Retransmit" \in p.armed

\* StartHandshake at its call sites: each turns its failure into a peer error.
StartHandshakeOrFail(s) ==
  IF ~s.p.proto \/ IsPending(s.p) THEN EnterActivationError(s)
  ELSE IF HandshakeOutstanding(s.p) THEN s
  ELSE IF s.p.failing THEN EnterActivationError(s)
  ELSE SendPrepared([s EXCEPT !.p = BeginRetry(CreateInitiation(@))],
                    "Initiation", 0)

RefreshKeyFreshness(s) ==
  IF s.p.proto /\ NeedsRekey(s.p) /\ ~IsPending(s.p) /\ s.p.attempts = 0
  THEN StartHandshakeOrFail(s) ELSE s

OnTraversal(s) ==
  IF s.p.proto /\ s.p.id \in KeepalivePeers THEN Arm(s, "Persistent") ELSE s

OnAuthenticatedPacketSent(s) == Cancel(s, "SendKeepalive")

OnAuthenticatedPacketReceived(s) == Cancel(s, "NewHandshake")

OnSessionDerived(s) == Arm(s, "Zero")

OnHandshakeComplete(s) == Cancel(s, "Retransmit")

OnDataSent(s) ==
  IF s.p.proto /\ "NewHandshake" \notin s.p.armed
  THEN Arm(s, "NewHandshake") ELSE s

OnDataReceived(s) ==
  IF "SendKeepalive" \in s.p.armed THEN [s EXCEPT !.p.another = TRUE]
  ELSE Arm(s, "SendKeepalive")

\* Mutant: the packet stays staged for another try.
PopStagedKeeps(p) == p

PopStaged(p) ==
  [p EXCEPT !.staged = IF @ = <<>> THEN @ ELSE Tail(@)]

\* Staged packets carry the activation they were submitted in and every
\* reset clears them, so the loop's stale and unavailable pops never fire:
\* what remains is one decision about the front packet.
ProcessOutboundQueue(s) ==
  LET p == s.p IN
  IF ~p.proto \/ IsPending(p) \/ p.staged = <<>> \/ p.st = "Resolving"
     \/ p.sock = 0 \/ p.susp
  THEN s
  ELSE IF ~IsInTransportState(p) THEN [s EXCEPT !.p.staged = <<>>]
  ELSE IF ~CanSend(p) THEN StartHandshakeOrFail(s)
  ELSE IF p.failing THEN EnterActivationError(s)
  ELSE SendPrepared(s, "TransportData", Head(p.staged))

-----------------------------------------------------------------------------
(* Activation, path and binding events (activation.cpp, lifecycle.cpp).    *)

Activation(p) ==
  IF ~ValidateConfiguration(p) THEN EnterActivationError(Fresh(p))
  ELSE LET q == [BeginActivation(ResetProtocol(p)) EXCEPT
                   !.ep = "none", !.dg = NoDatagram, !.pendSock = 0, !.pendEp = "none",
                   !.path = "unknown",
                   !.confirm = FALSE, !.waiting = TRUE,
                   !.resStarted = FALSE, !.recvStarted = FALSE]
       IN Emit(Fresh(q), "StartPath", 0, "")

Deactivation(p) ==
  IF p.gen = 0 THEN Fresh(p)
  ELSE LET stopped == CloseBound(Emit(Fresh(p), "StopPath", 0, ""))
           s == IF p.proto THEN CancelAllHooks(stopped) ELSE stopped
       IN [s EXCEPT !.p = Deactivate(s.p)]

\* Mutant: the timers stop and the socket stays bound.
SuspendTransportKeepsSocket(s) ==
  IF s.p.susp THEN s
  ELSE [Cancel(Cancel(Cancel(Cancel(s, "Retransmit"),
          "SendKeepalive"), "NewHandshake"), "Persistent")
          EXCEPT !.p.susp = TRUE]

SuspendTransport(s) ==
  IF s.p.susp THEN s
  ELSE CloseBound([Cancel(Cancel(Cancel(Cancel(s, "Retransmit"),
          "SendKeepalive"), "NewHandshake"), "Persistent")
          EXCEPT !.p.susp = TRUE])

\* The effect carries the endpoint of the request to its completion.
OpenBind(s, purpose) ==
  LET n == s.p.nextSock
      q == [s.p EXCEPT !.pendSock = n, !.pendEp = s.p.ep, !.nextSock = n + 1]
  IN Emit([s EXCEPT !.p = q], "Open", n, purpose)

PathUsable(p) == ~p.waiting /\ p.path = "available"

\* Mutant: only a bound socket is replaced.
UdpRebindRequestedIfBound(s, act) ==
  IF IsCurrentActivation(s.p, act) /\ IsInTransportState(s.p) /\ HasEndpoint(s.p)
     /\ PathUsable(s.p) /\ s.p.pendSock = 0 /\ s.p.sock # 0
  THEN OpenBind(s, "Rebind") ELSE s

UdpRebindRequested(s, act) ==
  IF IsCurrentActivation(s.p, act) /\ IsInTransportState(s.p) /\ HasEndpoint(s.p)
     /\ PathUsable(s.p) /\ s.p.pendSock = 0
  THEN OpenBind(s, "Rebind") ELSE s

PathUnknown(p) ==
  [p EXCEPT !.confirm = @ \/ (p.path = "available" /\ IsInTransportState(p)
                              /\ p.sock # 0)]

PathAvailabilityChanged(p, act, next) ==
  IF ~IsCurrentActivation(p, act) THEN Fresh(p)
  ELSE CASE next = "unknown" -> Fresh(PathUnknown(p))
    [] next # "unknown" /\ next = p.path ->
         IF next = "available" /\ p.confirm
         THEN UdpRebindRequested(Fresh([p EXCEPT !.confirm = FALSE]), act)
         ELSE Fresh(p)
    [] next = "unavailable" /\ next # p.path ->
         LET s == Fresh([p EXCEPT !.path = next, !.confirm = FALSE,
                                  !.waiting = TRUE])
         IN IF p.sock # 0 THEN SuspendTransport(s) ELSE s
    [] next = "available" /\ next # p.path ->
         LET q == [p EXCEPT !.path = next, !.waiting = FALSE] IN
         IF ~p.resStarted /\ p.st = "Resolving"
         THEN Emit(Fresh([q EXCEPT !.resStarted = TRUE]), "Resolve", 0, "")
         ELSE IF p.susp /\ IsInTransportState(p) /\ HasEndpoint(p)
         THEN UdpRebindRequested(Fresh(q), act) ELSE Fresh(q)

EndpointResolved(p, act, ok) ==
  IF ~IsCurrentActivation(p, act) \/ p.st # "Resolving" \/ ~PathUsable(p)
  THEN Fresh(p)
  ELSE IF ~ok THEN EnterActivationError(Fresh(p))
  ELSE OpenBind(Fresh([p EXCEPT !.ep = "resolved"]), "Activation")

\* Staged traffic first, then a keepalive, else a handshake.
RecoverTransport(s) ==
  IF IsPending(s.p) \/ ~s.p.proto THEN s
  ELSE IF s.p.st = "Active" /\ CanSend(s.p)
  THEN LET drained == ProcessOutboundQueue(s) IN
       IF IsPending(drained.p) THEN drained ELSE SendKeepaliveOrFail(drained)
  ELSE StartHandshakeOrFail(s)

Adopt(s, n, ep) ==
  [s EXCEPT !.p.sock = n, !.p.susp = FALSE, !.p.ep = ep]

\* ok is udp_open's result; a failed open returns no descriptor.
UdpBindOpened(p, act, n, purpose, ok) ==
  LET drop(q) == IF ok THEN Emit(Fresh(q), "Close", n, "") ELSE Fresh(q)
      q == [p EXCEPT !.pendSock = 0, !.pendEp = "none"]
  IN
  IF ~IsCurrentActivation(p, act) \/ n # p.pendSock THEN drop(p)
  ELSE IF purpose = "Rebind"
  THEN IF ~IsInTransportState(p) \/ ~HasEndpoint(p) \/ ~PathUsable(p) \/ ~ok
       THEN drop(q)
       ELSE Emit(RecoverTransport(Adopt(CloseBound(Fresh(q)), n, p.pendEp)),
                 "QueueReceive", 0, "")
  ELSE IF p.st # "Resolving" \/ ~PathUsable(p) THEN drop(q)
  ELSE IF ~ok THEN EnterActivationError(Fresh(q))
  ELSE LET s == Adopt(Fresh(InstantiateProtocol(q)), n, p.pendEp) IN
       IF ~s.p.proto THEN EnterActivationError(s)
       ELSE StartHandshakeOrFail([s EXCEPT !.p = EnterHandshaking(@)])

-----------------------------------------------------------------------------
(* Outbound traffic (outbound.cpp).                                        *)

\* udp_send through a bound socket fails only with send_failed, which is
\* nonterminal: the binding and the peer's state stay.
PendingDatagramSent(p, act, n, ok) ==
  IF ~IsCurrentActivation(p, act) \/ n = 0 \/ n # p.dg.gen THEN Fresh(p)
  ELSE
  LET kind == p.dg.kind
      q == [p EXCEPT !.dg = NoDatagram]
      r == IF kind = "TransportData" /\ p.proto THEN PopStaged(q) ELSE q
      activity == OnAuthenticatedPacketSent(OnTraversal(Fresh(r)))
      armed == Arm(activity, "Retransmit")
  IN CASE kind = "Initiation" /\ ok ->
            IF p.recvStarted THEN armed
            ELSE Emit([armed EXCEPT !.p.recvStarted = TRUE],
                      "QueueReceive", 0, "")
       [] kind = "Initiation" /\ ~ok -> Arm(Fresh(r), "Retransmit")
       [] kind = "TransportData" /\ ok ->
            RefreshKeyFreshness(
              Emit(OnDataSent(activity), "QueueInner", 0, ""))
       [] kind = "Keepalive" /\ ok -> RefreshKeyFreshness(activity)
       [] kind = "Response" /\ ok -> activity
       [] kind # "Initiation" /\ ~ok -> Fresh(r)

CanStageInnerPackets(p, count) ==
  p.proto /\ count <= StagingCapacity - Len(p.staged)

ClearStagedInnerPackets(p) == [p EXCEPT !.staged = <<>>]

ProcessOutboundRequested(p, act) ==
  IF IsCurrentActivation(p, act) THEN ProcessOutboundQueue(Fresh(p)) ELSE Fresh(p)

InnerPacketStaged(p, act, pkt) ==
  IF ~IsCurrentActivation(p, act) \/ ~CanStageInnerPackets(p, 1)
     \/ ~AcceptsInnerPacketSubmission(p)
  THEN Fresh(p)
  ELSE LET s == Fresh([p EXCEPT !.staged = Append(@, pkt)]) IN
       IF IsInTransportState(p) THEN ProcessOutboundQueue(s) ELSE s

-----------------------------------------------------------------------------
(* Timer expiries (peer_timers.cpp).                                       *)

\* wg_peer_handle_handshake_retry_timeout: one more attempt, or the end of the
\* sequence with the packets staged behind it.
HandshakeRetryTimeout(p) ==
  IF p.attempts < MaxSendAttempts THEN [p EXCEPT !.attempts = @ + 1]
  ELSE [p EXCEPT !.attempts = 0, !.staged = <<>>]

RetransmitExpired(s) ==
  LET next == [s EXCEPT !.p = HandshakeRetryTimeout(@)]
      retried == [next EXCEPT !.p = CreateInitiation(@)]
  IN IF s.p.attempts = 0 THEN s
     ELSE IF next.p.attempts # 0
     THEN IF s.p.failing THEN EnterActivationError(next)
          ELSE IF IsPending(s.p) THEN EnterActivationError(retried)
          ELSE SendPrepared(retried, "Initiation", 0)
     ELSE IF "Zero" \in s.p.armed THEN next ELSE Arm(next, "Zero")

KeepaliveExpired(s) ==
  IF s.p.st # "Active" THEN s
  ELSE IF ~CanSend(s.p) THEN StartHandshakeOrFail(s)
  ELSE IF IsPending(s.p) \/ ~s.p.another THEN SendKeepaliveOrFail(s)
  ELSE SendKeepaliveOrFail(Arm([s EXCEPT !.p.another = FALSE], "SendKeepalive"))

PersistentExpired(s) ==
  IF s.p.st # "Active" \/ s.p.id \notin KeepalivePeers THEN s
  ELSE IF ~CanSend(s.p) THEN StartHandshakeOrFail(s)
  ELSE SendKeepaliveOrFail(s)

ZeroKeyMaterial(s) ==
  [s EXCEPT !.p = [@ EXCEPT !.hs = FALSE, !.attempts = 0, !.key = "none",
                            !.nextKey = FALSE, !.staged = <<>>]]

ProtocolTimerExpired(p, hook) ==
  LET s == Cancel(Fresh(p), hook) IN
  IF ~p.proto THEN Fresh(p)
  ELSE CASE hook = "Zero" -> ZeroKeyMaterial(s)
    [] hook # "Zero" /\ (p.susp \/ ~IsInTransportState(p)) -> s
    [] hook # "Zero" /\ ~p.susp /\ IsInTransportState(p) ->
       CASE hook = "Retransmit" -> RetransmitExpired(s)
         [] hook = "SendKeepalive" -> KeepaliveExpired(s)
         [] hook = "NewHandshake" ->
              IF p.st = "Active" THEN StartHandshakeOrFail(s) ELSE s
         [] hook = "Persistent" -> PersistentExpired(s)

-----------------------------------------------------------------------------
(* Inbound datagrams (inbound.cpp).  The kinds are what the protocol code  *)
(* can make of a datagram; one it rejects changes nothing.                 *)

Datagrams == {"Response", "Initiation", "CookieReplyDue", "Data", "Empty",
              "ConfirmData", "ConfirmEmpty"}

EnterActive(p) == [p EXCEPT !.st = "Active"]

CompleteInitiatorSession(p, src) ==
  LET q == EnterActive([p EXCEPT !.key = "fresh", !.nextKey = FALSE,
                                 !.hs = FALSE, !.attempts = 0, !.ep = src])
      s == OnHandshakeComplete(OnSessionDerived(
             OnAuthenticatedPacketReceived(OnTraversal(Fresh(q)))))
  IN IF q.staged # <<>> THEN Emit(s, "QueueInner", 0, "")
     ELSE SendKeepaliveOrFail(s)

\* The initiation has replaced the handshake and touched the timers when the
\* response or its session fails to build.
InitiationConsumed(p, src) ==
  LET s == OnAuthenticatedPacketReceived(OnTraversal(Fresh([p EXCEPT !.hs = FALSE])))
      derived == OnSessionDerived([s EXCEPT !.p.nextKey = TRUE, !.p.ep = src])
  IN IF p.failing THEN s ELSE SendPrepared(derived, "Response", 0)

TransportData(p, src, confirms, empty) ==
  LET q == IF confirms
           THEN [p EXCEPT !.key = "respFresh", !.nextKey = FALSE, !.hs = FALSE]
           ELSE p
      s == RefreshKeyFreshness(
             OnAuthenticatedPacketReceived(OnTraversal(Fresh([q EXCEPT !.ep = src]))))
      t == IF confirms
           THEN Emit(OnHandshakeComplete(
                       [s EXCEPT !.p = EnterActive([@ EXCEPT !.attempts = 0])]),
                     "QueueInner", 0, "")
           ELSE s
  IN IF empty THEN t ELSE Emit(OnDataReceived(t), "Publish", 0, "")

EncryptedDatagramReceived(p, act, kind, src) ==
  IF ~IsCurrentActivation(p, act) \/ ~IsInTransportState(p) \/ ~p.proto THEN Fresh(p)
  ELSE CASE kind \in {"Data", "Empty"} /\ CanReceive(p) ->
              TransportData(p, src, FALSE, kind = "Empty")
         [] kind \in {"ConfirmData", "ConfirmEmpty"} /\ p.nextKey ->
              TransportData(p, src, TRUE, kind = "ConfirmEmpty")
         [] kind = "CookieReplyDue" -> Emit(Fresh(p), "Cookie", 0, "")
         [] kind = "Response" /\ p.hs /\ ~IsPending(p) ->
              CompleteInitiatorSession(p, src)
         [] kind = "Initiation" /\ ~IsPending(p) -> InitiationConsumed(p, src)
         [] OTHER -> Fresh(p)

-----------------------------------------------------------------------------
(* The effect budgets (runtime_events.hpp).                                *)

EffectBatchSlots == 8

MaxEffectsForEvent(event) ==
  CASE event \in {"Activation", "EndpointResolved", "DatagramSent", "Staged",
                  "ProcessOutbound"} -> 5
    [] event \in {"Received", "TimerExpired"} -> 6
    [] event \in {"Deactivation", "PathAvailability", "BindOpened"} -> 7
    [] event = "RebindRequested" -> 1
=============================================================================
