------------------------------ MODULE MitmFlows ------------------------------
(***************************************************************************)
(* The data of the BSD MITM sysmodule: the flow table of the tunnel worker *)
(* with its outbound pool (tunnel_flow_worker.cpp), the submission state   *)
(* of a flow, the discovery controller's back-off and the route of a BSD   *)
(* socket.  MitmRuntime holds the threads that change them.  A table t has *)
(* a flow entry per socket (owner and descriptor) and the number of        *)
(* occupied outbound buffers.  A datagram is the number of its send.       *)
(***************************************************************************)
EXTENDS Integers, Sequences, FiniteSets, FiniteSetsExt, SequencesExt

CONSTANTS Sockets,           \* (session, descriptor) pairs
          MaximumSockets,    \* entries of g_flows
          OutboundPerSocket, \* MaximumQueuedOutboundDatagramsPerSocket
          OutboundPool,      \* MaximumQueuedOutboundDatagrams
          BatchEntries,      \* MaximumBatchEntriesPerSubmission
          InboundPerSocket   \* MaximumInboundDatagramsPerSocket

ASSUME MitmFlowsAssumption ==
  /\ MaximumSockets \in Nat \ {0} /\ OutboundPerSocket \in Nat \ {0}
  /\ OutboundPool \in Nat /\ OutboundPerSocket <= OutboundPool
  /\ BatchEntries \in Nat \ {0} /\ InboundPerSocket \in Nat \ {0}

NoFlow == [occ |-> FALSE, client |-> "none", event |-> FALSE, writable |-> TRUE,
           closed |-> FALSE, out |-> <<>>, inb |-> [i \in 1..InboundPerSocket |-> FALSE],
           sends |-> 0]
NoFlows == [flows |-> [s \in Sockets |-> NoFlow], pool |-> 0]

Occupied(t) == {s \in Sockets : t.flows[s].occ}

-----------------------------------------------------------------------------
\* TunnelFlowSubmissionState and the outbound queue.

CanAccept(f) == ~f.closed /\ f.writable /\ Len(f.out) < OutboundPerSocket
CanSubmit(f) == ~f.closed /\ f.writable /\ f.out # <<>>

DiscardQueuedOutbound(t, s) ==
  [t EXCEPT !.pool = @ - Len(t.flows[s].out), !.flows[s].out = <<>>]

CloseSubmission(t, s) ==
  DiscardQueuedOutbound([t EXCEPT !.flows[s].closed = TRUE,
                                  !.flows[s].writable = FALSE], s)

\* ResetFlow of every entry in S.
ResetFlows(t, S) ==
  [flows |-> [s \in Sockets |-> IF s \in S THEN NoFlow ELSE t.flows[s]],
   pool |-> t.pool - MapThenSumSet(LAMBDA s : Len(t.flows[s].out), S)]

QueueOutbound(t, s, d) ==
  [t EXCEPT !.pool = @ + 1, !.flows[s].out = Append(@, d)]

\* Mutant: the last accepted datagram is kept.
RetireQueuedOutboundPrefixShort(t, s, n) ==
  [t EXCEPT !.pool = @ - (n - 1), !.flows[s].out = SubSeq(@, n, Len(@))]
RetireQueuedOutboundPrefix(t, s, n) ==
  [t EXCEPT !.pool = @ - n, !.flows[s].out = SubSeq(@, n + 1, Len(@))]

\* The Send branch of Dispatch on an open flow: whether the datagram is queued.
\* fits is the check of its size against the service's maximum and the buffer.
Accepts(t, s, fits) == fits /\ CanAccept(t.flows[s]) /\ t.pool < OutboundPool

\* Every send has a number, so that the order of the datagrams can be told.
DispatchSend(t, s, fits) ==
  LET u == [t EXCEPT !.flows[s].sends = @ + 1] IN
  IF Accepts(t, s, fits) THEN QueueOutbound(u, s, u.flows[s].sends) ELSE u

-----------------------------------------------------------------------------
\* Inbound datagrams: the first free buffer is filled, the first occupied read.

FreeInbound(f) == {i \in 1..InboundPerSocket : ~f.inb[i]}
HeldInbound(f) == (1..InboundPerSocket) \ FreeInbound(f)

AllocateInbound(t, s) ==
  IF FreeInbound(t.flows[s]) = {} THEN t
  ELSE [t EXCEPT !.flows[s].inb[Min(FreeInbound(t.flows[s]))] = TRUE]

TakeInbound(t, s) == [t EXCEPT !.flows[s].inb[Min(HeldInbound(t.flows[s]))] = FALSE]

\* One record of a drain.
\* Mutant: a record is dropped while no inbound buffer is free.
ApplyCompletionLazy(t, s, r) ==
  CASE t.flows[s].closed -> t
    [] ~t.flows[s].closed /\ r = "closed" -> CloseSubmission(t, s)
    [] ~t.flows[s].closed /\ r = "writable" ->
         [t EXCEPT !.flows[s].writable = @ \/ FreeInbound(t.flows[s]) # {}]
    [] OTHER -> AllocateInbound(t, s)
ApplyCompletion(t, s, r) ==
  CASE t.flows[s].closed -> t
    [] ~t.flows[s].closed /\ r = "closed" -> CloseSubmission(t, s)
    [] ~t.flows[s].closed /\ r = "writable" -> [t EXCEPT !.flows[s].writable = TRUE]
    [] OTHER -> AllocateInbound(t, s)

\* TunnelFlowReadiness::Revents for the requested events.
Revents(t, s, events) ==
  LET f == t.flows[s] IN
  IF f.closed THEN {"hup"}
  ELSE {e \in events : \/ e = "in" /\ HeldInbound(f) # {}
                       \/ e = "out" /\ CanAccept(f) /\ t.pool < OutboundPool}

-----------------------------------------------------------------------------
\* TunnelDiscoveryBackoff.  due: the retry time is zero; otherwise the clock may
\* or may not have reached it when it is read.

InitDiscovery == [started |-> FALSE, state |-> "Bypass", due |-> TRUE]

RequestForTraffic(d, now) ==
  IF d.started /\ d.state = "Bypass" /\ now THEN [d EXCEPT !.state = "DiscoveryPending"] ELSE d
CompleteSuccess(d) ==
  IF d.started /\ d.state = "DiscoveryPending" THEN [d EXCEPT !.state = "Ready", !.due = TRUE]
  ELSE d
CompleteFailure(d) ==
  IF d.started /\ d.state = "DiscoveryPending" THEN [d EXCEPT !.state = "Bypass", !.due = FALSE]
  ELSE d
InvalidateReadyClient(d) ==
  IF d.started THEN [d EXCEPT !.state = "Bypass", !.due = FALSE] ELSE d

-----------------------------------------------------------------------------
\* BsdSocketRouteState.

AdvanceBsdSocketRoute(r, e) ==
  CASE e = "BeginTunnelOpen" /\ r = "Created" -> "OpeningTunnel"
    [] e = "TunnelOpened" /\ r = "OpeningTunnel" -> "Tunneled"
    [] e = "TunnelBypassed" /\ r = "OpeningTunnel" -> "Created"
    [] e = "TunnelFailed" /\ r = "OpeningTunnel" -> "Failed"
    [] e = "DirectConnected" /\ r = "Created" -> "Direct"
    [] OTHER -> r

UsesTunnelFlow(r) == r = "Tunneled"
CanForwardToUpstreamBsd(r) == r \in {"untracked", "Created", "Direct"}
IsTerminalSocketRoute(r) == r = "Failed"

\* Who answers a command on a descriptor: the worker, the adapter itself, or the
\* upstream service.  A command on a tunneled socket that connected UDP does not
\* have, or with flags it does not have, is refused.
Answer(r, tunneled) ==
  CASE UsesTunnelFlow(r) -> tunneled
    [] IsTerminalSocketRoute(r) -> "aborted"
    [] OTHER -> "upstream"

SendAnswer(r, flags) == Answer(r, IF flags THEN "worker" ELSE "refused")
SendToAnswer(r) == Answer(r, "refused")
RecvAnswer(r, flags) == Answer(r, IF flags THEN "worker" ELSE "refused")
RecvFromAnswer(r, flags) == Answer(r, IF flags THEN "worker" ELSE "refused")
BindAnswer(r) == Answer(r, "refused")
GetPeerNameAnswer(r) == Answer(r, "local")
GetSockNameAnswer(r) == Answer(r, "local")
FcntlAnswer(r, supported) == Answer(r, IF supported THEN "local" ELSE "refused")
SetSockOptAnswer(r) == Answer(r, "refused")
ShutdownAnswer(r) == Answer(r, "refused")

\* Poll of descriptors with the routes in R, the first of them with route first;
\* only one tunneled descriptor is supported, and never together with one of the
\* upstream service.  A terminal route is looked for in the first place only.
PollAnswer(first, R, single) ==
  CASE \A r \in R : CanForwardToUpstreamBsd(r) -> "upstream"
    [] (\E r \in R : CanForwardToUpstreamBsd(r)) /\ (\E r \in R : ~CanForwardToUpstreamBsd(r)) ->
         "refused"
    [] OTHER -> IF IsTerminalSocketRoute(first) THEN "hup"
                ELSE IF single THEN "worker" ELSE "refused"

\* A command the interface does not declare (Read, Write, Select, Ioctl, ...) goes
\* to the upstream service from the MITM dispatcher, whatever the route.
UndeclaredAnswer(r) == "upstream"

\* The commands on one descriptor; supported is what each asks of its flags.
Answers(r, supported) ==
  [Send |-> SendAnswer(r, supported), SendTo |-> SendToAnswer(r),
   Recv |-> RecvAnswer(r, supported), RecvFrom |-> RecvFromAnswer(r, supported),
   Bind |-> BindAnswer(r), GetPeerName |-> GetPeerNameAnswer(r),
   GetSockName |-> GetSockNameAnswer(r), Fcntl |-> FcntlAnswer(r, supported),
   SetSockOpt |-> SetSockOptAnswer(r), Shutdown |-> ShutdownAnswer(r),
   undeclared |-> UndeclaredAnswer(r)]
=============================================================================
