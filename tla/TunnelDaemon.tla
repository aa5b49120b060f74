----------------------------- MODULE TunnelDaemon -----------------------------
(***************************************************************************)
(* The daemon's tunnel path: the one IPC server thread with its tunnel and *)
(* packet commands (runtime/daemon_runtime.cpp), the submission lane of    *)
(* two slots that it shares with debug and inner-packet work, the worker   *)
(* that runs UserspaceIpAdapterOwner's operations, and the receive and     *)
(* timer lanes that queue operations beside it.  FlowPlane is the state    *)
(* they all change under the state mutex; a step is one locked section or  *)
(* one call made without the mutex.                                        *)
(***************************************************************************)
EXTENDS FlowPlane

CONSTANTS LaneSlots,       \* SubmissionWorkSlots
          StageCapacity,   \* PeerStagedPacketCapacity
          MaxFragments,    \* MaximumInnerPacketBatchSize
          Processes, NoProcess,   \* callers of the packet API
          ReceiveCapacity, \* LegacyPacketChannelReceiveSlots
          Generations,     \* modulus of ticket and epoch generations, 2^32
          MaxFlows, MaxActivations,  \* bounds on reservations and activations
          MaxEvents        \* bound on sends, closes, packets, timeouts, inner work

VARIABLES pl,     \* TunnelFlowPlane
          ow,     \* UserspaceIpAdapterOwner
          lw,     \* the lwIP adapter behind it
          lane,   \* the submission lane
          wk,     \* its worker, inside the adapter callback
          ipc,    \* the IPC server thread
          rx,     \* the receive lane, publishing a decrypted packet
          tm,     \* the timer lane, in UserspaceIpTimeoutCallback
          net,    \* active peer, its protocol state and staged packets
          chan,   \* PacketChannel
          used,   \* events so far
          hist    \* history: what a refused lane leaves behind

vars == <<pl, ow, lw, lane, wk, ipc, rx, tm, net, chan, used, hist>>

Works == {"adapter", "debug", "inner"}
FreeSlot == [st |-> "free", gen |-> 1, kind |-> "none", tok |-> NoHandle,
             src |-> 0, peer |-> NoIdentity, pol |-> 0, epoch |-> 0,
             res |-> "none", n |-> 0]
NoOp == [kind |-> "none", tok |-> NoHandle, ticket |-> 0, src |-> 0,
         peer |-> NoIdentity, pol |-> 0, epoch |-> 0]
IdleIpc == [pc |-> "idle", cmd |-> "none", c |-> NoClient, h |-> NoHandle,
            ticket |-> 0, peer |-> NoIdentity, pol |-> 0, rest |-> <<>>,
            accepted |-> FALSE]

\* The packet channel without an owner (PacketDataPlane::Clear).
UnclaimedChannel == [owner |-> NoProcess, q |-> <<>>]

Init ==
  /\ pl = InitPlane
  /\ ow = [reset |-> FALSE, config |-> FALSE, timeout |-> FALSE, active |-> FALSE,
           addr |-> 0, slot |-> FreeSlot]
  /\ lw = [init |-> FALSE, addr |-> 0, pcbs |-> {}, epoch |-> 0, armed |-> FALSE]
  /\ lane = [q |-> <<>>, run |-> "none", rerun |-> {}]
  /\ wk = [pc |-> "idle", op |-> NoOp, res |-> "none", n |-> 0]
  /\ ipc = IdleIpc
  /\ rx = [pc |-> "idle", ticket |-> 0]
  /\ tm = "idle"
  /\ net = [active |-> NoIdentity, gen |-> 0, proto |-> "none", staged |-> 0]
  /\ chan = UnclaimedChannel
  /\ used = 0
  /\ hist = [aborted |-> FALSE, stray |-> {}, cut |-> {}]

Spend == used < MaxEvents /\ used' = used + 1

-----------------------------------------------------------------------------
\* The lane: queue_work, and what the worker does when a work item is over.

Pending(l) == Len(l.q) + Cardinality(l.rerun)
Queued(l, w) == \E i \in 1..Len(l.q) : l.q[i] = w

QueueWorkResult(l, w) ==
  CASE Queued(l, w) \/ w \in l.rerun -> "already_pending"
    [] OTHER -> IF Pending(l) >= LaneSlots THEN "capacity_exhausted"
                ELSE IF l.run = w THEN "rerun_queued" ELSE "queued"

\* Mutant: a request for the running item is taken to be served by this run.
QueueWorkNoRerun(l, w) ==
  IF QueueWorkResult(l, w) = "queued" THEN [l EXCEPT !.q = Append(@, w)] ELSE l
QueueWork(l, w) ==
  CASE QueueWorkResult(l, w) = "rerun_queued" -> [l EXCEPT !.rerun = @ \union {w}]
    [] QueueWorkResult(l, w) = "queued" -> [l EXCEPT !.q = Append(@, w)]
    [] OTHER -> l

Accepted(l) == QueueWorkResult(l, "adapter") # "capacity_exhausted"

FinishWork(l) ==
  [q |-> IF l.run \in l.rerun THEN Append(l.q, l.run) ELSE l.q,
   run |-> "none", rerun |-> l.rerun \ {l.run}]

Quiescent == lane.q = <<>> /\ lane.run = "none"

-----------------------------------------------------------------------------
\* UserspaceIpAdapterOwner: coalesced lifecycle flags and one data slot.

NextGeneration(g) == (g % Generations) + 1

QueueConfigure(o, addr) ==
  IF o.active /\ ~o.reset /\ ~o.config /\ o.addr = addr THEN o
  ELSE [o EXCEPT !.addr = addr, !.config = TRUE]

QueueReset(o) == [o EXCEPT !.reset = TRUE, !.timeout = FALSE, !.active = FALSE]

QueueRunTimeouts(o) == IF o.active /\ ~o.reset THEN [o EXCEPT !.timeout = TRUE] ELSE o

SlotFree(o) == o.slot.st = "free"

QueueFlowOperation(o, kind, tok, src) ==
  [o EXCEPT !.slot = [FreeSlot EXCEPT !.st = "pending", !.gen = o.slot.gen,
                                      !.kind = kind, !.tok = tok, !.src = src]]

QueueInputPacket(o, id, pol, epoch) ==
  [o EXCEPT !.slot = [FreeSlot EXCEPT !.st = "pending", !.gen = o.slot.gen,
                                      !.kind = "input", !.peer = id, !.pol = pol,
                                      !.epoch = epoch]]

HasPendingWork(o) ==
  o.reset \/ o.config \/ o.timeout \/ o.slot.st \in {"pending", "running"}

\* TakeNextLocked: reset, then configure, then timeouts, then data.
NextKind(o) ==
  CASE o.reset -> "reset"
    [] ~o.reset /\ o.config -> "configure"
    [] ~o.reset /\ ~o.config /\ o.timeout -> "timeouts"
    [] OTHER -> IF o.slot.st = "pending" THEN o.slot.kind ELSE "none"

\* Mutant: the timeout flag stays.
TakeNextKeepTimeout(o) ==
  CASE NextKind(o) = "reset" -> [o EXCEPT !.reset = FALSE]
    [] NextKind(o) = "configure" -> [o EXCEPT !.config = FALSE]
    [] OTHER -> IF NextKind(o) \in {"none", "timeouts"} THEN o
                ELSE [o EXCEPT !.slot.st = "running"]
TakeNext(o) ==
  CASE NextKind(o) = "reset" -> [o EXCEPT !.reset = FALSE]
    [] NextKind(o) = "configure" -> [o EXCEPT !.config = FALSE]
    [] NextKind(o) = "timeouts" -> [o EXCEPT !.timeout = FALSE]
    [] OTHER -> IF NextKind(o) = "none" THEN o ELSE [o EXCEPT !.slot.st = "running"]

TakenOperation(o) ==
  IF NextKind(o) \in {"reset", "configure", "timeouts"}
  THEN [NoOp EXCEPT !.kind = NextKind(o), !.src = o.addr]
  ELSE [kind |-> o.slot.kind, tok |-> o.slot.tok, ticket |-> o.slot.gen,
        src |-> o.slot.src, peer |-> o.slot.peer, pol |-> o.slot.pol,
        epoch |-> o.slot.epoch]

Complete(o, op, res, n) ==
  CASE op.kind = "configure" -> [o EXCEPT !.active = (res = "Success")]
    [] op.kind = "reset" -> [o EXCEPT !.active = FALSE]
    [] op.kind = "timeouts" -> o
    [] OTHER -> IF op.ticket # o.slot.gen \/ o.slot.st # "running" THEN o
                ELSE [o EXCEPT !.slot.st = "complete", !.slot.res = res, !.slot.n = n]

HasResult(o, ticket) == ticket = o.slot.gen /\ o.slot.st = "complete"

Release(o) == [o EXCEPT !.slot = [FreeSlot EXCEPT !.gen = NextGeneration(o.slot.gen)]]

TakeResult(o, ticket) == IF HasResult(o, ticket) THEN Release(o) ELSE o
Cancel(o, ticket) == IF ticket = o.slot.gen THEN Release(o) ELSE o

-----------------------------------------------------------------------------
\* The IPC server thread.  One thread serves the control and the tunnel
\* service, so a command starts when the last one has returned.

Running == ~hist.aborted
Instantiated == net.proto # "none"
IpcIdle == Running /\ ipc.pc = "idle"

CreateTunnelClient ==
  /\ IpcIdle
  /\ \E c \in Clients :
       /\ ~pl.clients[c].open
       /\ pl' = CreateClient(RefreshPolicy(pl, net.active), c)
  /\ UNCHANGED <<ow, lw, lane, wk, ipc, rx, tm, net, chan, used, hist>>

\* SetActivePeer, with SetPeerInactive of the old peer; its trailing queue
\* call is the next step.
SetActivePeer(p) ==
  LET old == net.active
      id == IF p = NoPeer THEN NoIdentity ELSE <<p, net.gen + 1>>
      inv == IF old = NoIdentity THEN pl ELSE InvalidatePeerActivation(pl, old)
      own == IF old = NoIdentity THEN ow ELSE QueueReset(ow)
  IN /\ IpcIdle
     /\ p # old[1]
     /\ p # NoPeer => net.gen < MaxActivations
     /\ pl' = RefreshPolicy(inv, id)
     /\ ow' = own
     /\ net' = [active |-> id, gen |-> IF p = NoPeer THEN net.gen ELSE net.gen + 1,
                proto |-> "none", staged |-> 0]
     /\ chan' = IF old = NoIdentity THEN chan ELSE UnclaimedChannel
     /\ ipc' = IF HasPendingWork(own)
               THEN [IdleIpc EXCEPT !.pc = "lane", !.cmd = "activate"] ELSE ipc
     /\ UNCHANGED <<lw, lane, wk, rx, tm, used, hist>>

\* OpenTunnelConnectedUdpFlow up to its first unlock.
OpenFlow(c, remote) ==
  LET p == RefreshPolicy(pl, net.active)
      r == ReserveFlow(p, c, remote)
      s == ReservedSlot(p)
      h == MakeFlowHandle(s, r.flows[s])
      src == Config[p.peer[1]].source
  IN /\ IpcIdle /\ pl.clients[c].open
     /\ ReserveStatus(p, c, remote, Instantiated) = "Success"
     /\ pl.nextFlow <= MaxFlows
     /\ IF SlotFree(ow)
        THEN /\ pl' = r
             /\ ow' = QueueFlowOperation(QueueConfigure(ow, src), "open", h, src)
             /\ ipc' = [IdleIpc EXCEPT !.pc = "lane", !.cmd = "open", !.c = c, !.h = h,
                                       !.ticket = ow.slot.gen, !.peer = p.peer,
                                       !.pol = p.pol]
        ELSE /\ pl' = [r EXCEPT !.flows[s] = NoFlow]
             /\ ow' = QueueConfigure(ow, src)
             /\ UNCHANGED ipc
     /\ UNCHANGED <<lw, lane, wk, rx, tm, net, chan, used, hist>>

Handles(c) == {MakeFlowHandle(s, pl.flows[s]) :
                 s \in {t \in FlowSlots : pl.flows[t].owner = c}}

SendDatagram(c, h) ==
  LET p == RefreshPolicy(pl, net.active)
  IN /\ IpcIdle
     /\ PrepareStatus(p, c, h, Instantiated) = "Success"
     /\ IF SlotFree(ow)
        THEN /\ ow' = QueueFlowOperation(ow, "send", h, 0)
             /\ ipc' = [IdleIpc EXCEPT !.pc = "lane", !.cmd = "send", !.c = c, !.h = h,
                                       !.ticket = ow.slot.gen]
             /\ pl' = p
        ELSE /\ pl' = CompleteSend(p, h, "QueueFull")
             /\ UNCHANGED <<ow, ipc>>
     /\ Spend
     /\ UNCHANGED <<lw, lane, wk, rx, tm, net, chan, hist>>

CloseTunnelFlow(c, h) ==
  /\ IpcIdle
  /\ FindFlow(pl, c, h) /\ pl.flows[h.slot].st = "open" /\ SlotFree(ow)
  /\ ow' = QueueFlowOperation(ow, "close", h, 0)
  /\ ipc' = [IdleIpc EXCEPT !.pc = "lane", !.cmd = "close", !.c = c, !.h = h,
                            !.ticket = ow.slot.gen]
  /\ Spend
  /\ UNCHANGED <<pl, lw, lane, wk, rx, tm, net, chan, hist>>

\* DestroyTunnelClient: the tokens of the open flows are copied, the client
\* goes, and the PCBs follow one by one.
DestroyTunnelClient(c) ==
  LET open == {s \in FlowSlots : pl.flows[s].st = "open" /\ pl.flows[s].owner = c}
      tokens[i \in 0..FlowCount] ==
        IF i = 0 THEN <<>>
        ELSE IF i \in open
             THEN Append(tokens[i - 1], MakeFlowHandle(i, pl.flows[i]))
             ELSE tokens[i - 1]
  IN /\ IpcIdle /\ pl.clients[c].open
     /\ pl' = DestroyClient(pl, c)
     /\ ipc' = IF open = {} THEN ipc
               ELSE [IdleIpc EXCEPT !.pc = "next", !.cmd = "destroy",
                                    !.rest = tokens[FlowCount]]
     /\ UNCHANGED <<ow, lw, lane, wk, rx, tm, net, chan, used, hist>>

\* A busy slot skips the token.
DestroyNext ==
  /\ Running /\ ipc.pc = "next"
  /\ LET h == Head(ipc.rest)
         left == Tail(ipc.rest)
     IN IF SlotFree(ow)
        THEN /\ ow' = QueueFlowOperation(ow, "close", h, 0)
             /\ ipc' = [ipc EXCEPT !.pc = "lane", !.h = h, !.rest = left,
                                   !.ticket = ow.slot.gen]
             /\ UNCHANGED hist
        ELSE /\ ipc' = IF left = <<>> THEN IdleIpc ELSE [ipc EXCEPT !.rest = left]
             /\ hist' = [hist EXCEPT !.stray = @ \union {h}]
             /\ UNCHANGED ow
  /\ UNCHANGED <<pl, lw, lane, wk, rx, tm, net, chan, used>>

Resume(i) == IF i.rest = <<>> THEN IdleIpc
             ELSE [IdleIpc EXCEPT !.pc = "next", !.cmd = "destroy", !.rest = i.rest]

\* QueueUserspaceIpAdapter, without the mutex.  Sending and activating ignore
\* the result; the others cancel when it is a refusal.
IpcQueue ==
  /\ Running /\ ipc.pc = "lane"
  /\ lane' = QueueWork(lane, "adapter")
  /\ ipc' = CASE ipc.cmd = "activate" -> IdleIpc
              [] ipc.cmd = "send" -> [ipc EXCEPT !.pc = "flush", !.accepted = Accepted(lane)]
              [] OTHER -> IF ~Accepted(lane) THEN [ipc EXCEPT !.pc = "cancel"]
                          ELSE [ipc EXCEPT !.pc = IF ipc.cmd = "close" THEN "mark"
                                                  ELSE "flush",
                                           !.accepted = TRUE]
  /\ UNCHANGED <<pl, ow, lw, wk, rx, tm, net, chan, used, hist>>

IpcCancel ==
  /\ Running /\ ipc.pc = "cancel"
  /\ ow' = Cancel(ow, ipc.ticket)
  /\ pl' = IF ipc.cmd = "open"
           THEN CancelFlowReservation(pl, [client |-> ipc.c, h |-> ipc.h]) ELSE pl
  /\ ipc' = Resume(ipc)
  /\ LET taken == ow.slot.gen = ipc.ticket /\ ow.slot.st \in {"running", "complete"}
     IN hist' = [hist EXCEPT
                   !.stray = IF \/ ipc.cmd = "open" /\ taken
                                \/ ipc.cmd = "destroy" /\ ~taken
                             THEN @ \union {ipc.h} ELSE @,
                   !.cut = IF ipc.cmd = "close" /\ taken THEN @ \union {ipc.h} ELSE @]
  /\ UNCHANGED <<lw, lane, wk, rx, tm, net, chan, used>>

\* Mutant: the owner is not told that its flow is closed.
IpcMarkQuiet ==
  /\ Running /\ ipc.pc = "mark"
  /\ pl' = IF FindFlow(pl, ipc.c, ipc.h) THEN CloseFlowSlot(pl, ipc.h.slot, FALSE) ELSE pl
  /\ ipc' = [ipc EXCEPT !.pc = "flush"]
  /\ UNCHANGED <<ow, lw, lane, wk, rx, tm, net, chan, used, hist>>
IpcMark ==
  /\ Running /\ ipc.pc = "mark"
  /\ pl' = CloseFlow(pl, ipc.c, ipc.h)
  /\ ipc' = [ipc EXCEPT !.pc = "flush"]
  /\ UNCHANGED <<ow, lw, lane, wk, rx, tm, net, chan, used, hist>>

IpcFlush ==
  /\ Running /\ ipc.pc = "flush" /\ Quiescent
  /\ ipc' = [ipc EXCEPT !.pc = "finish"]
  /\ UNCHANGED <<pl, ow, lw, lane, wk, rx, tm, net, chan, used, hist>>

\* Mutant: what lwIP answered is not looked at.
FinishOpenAny ==
  LET r == [client |-> ipc.c, h |-> ipc.h, peer |-> ipc.peer, pol |-> ipc.pol]
  IN /\ Running /\ ipc.pc = "finish" /\ ipc.cmd = "open"
     /\ pl' = IF HasResult(ow, ipc.ticket) /\ CanCommit(pl, r)
              THEN CommitFlowReservation(pl, r) ELSE CancelFlowReservation(pl, r)
     /\ ow' = TakeResult(ow, ipc.ticket)
     /\ ipc' = IdleIpc
     /\ UNCHANGED <<lw, lane, wk, rx, tm, net, chan, used, hist>>
\* The reservation still stands: only this thread changes the policy.  The
\* close of a stale PCB that follows a failed commit is never reached
\* (ReservationStands).
FinishOpen ==
  LET ok == HasResult(ow, ipc.ticket) /\ ow.slot.res = "Success"
      r == [client |-> ipc.c, h |-> ipc.h, peer |-> ipc.peer, pol |-> ipc.pol]
  IN /\ Running /\ ipc.pc = "finish" /\ ipc.cmd = "open"
     /\ pl' = IF ok /\ CanCommit(pl, r) THEN CommitFlowReservation(pl, r)
              ELSE CancelFlowReservation(pl, r)
     /\ ow' = TakeResult(ow, ipc.ticket)
     /\ ipc' = IdleIpc
     /\ UNCHANGED <<lw, lane, wk, rx, tm, net, chan, used, hist>>

\* SubmitInternalIpPacketBatch: all fragments are staged or none is.
SubmitBatch(n) ==
  CASE n = 0 \/ n > MaxFragments -> "QueueFull"
    [] net.proto # "up" -> "TransportUnavailable"
    [] OTHER -> IF net.staged + n > StageCapacity THEN "QueueFull" ELSE "Success"

FinishSend ==
  LET found == HasResult(ow, ipc.ticket)
      status == CASE ~found -> "TransportUnavailable"
                  [] found /\ ow.slot.res = "Success" -> SubmitBatch(ow.slot.n)
                  [] OTHER -> IF ow.slot.res = "QueueFull" THEN "QueueFull"
                              ELSE "TransportUnavailable"
  IN /\ Running /\ ipc.pc = "finish" /\ ipc.cmd = "send"
     /\ net' = IF status = "Success" THEN [net EXCEPT !.staged = @ + ow.slot.n] ELSE net
     /\ ow' = TakeResult(ow, ipc.ticket)
     /\ pl' = CompleteSend(pl, ipc.h, status)
     /\ ipc' = IdleIpc
     /\ UNCHANGED <<lw, lane, wk, rx, tm, chan, used, hist>>

FinishClose ==
  /\ Running /\ ipc.pc = "finish" /\ ipc.cmd \in {"close", "destroy"}
  /\ ow' = TakeResult(ow, ipc.ticket)
  /\ ipc' = Resume(ipc)
  /\ UNCHANGED <<pl, lw, lane, wk, rx, tm, net, chan, used, hist>>

\* ReceiveTunnelCompletions: the caller's record and payload buffers decide how
\* many records go.
ReceiveTunnelCompletions(c, n) ==
  /\ IpcIdle /\ pl.clients[c].open /\ n <= Len(pl.clients[c].q)
  /\ pl' = ReceiveCompletions(pl, c, n)
  /\ UNCHANGED <<ow, lw, lane, wk, ipc, rx, tm, net, chan, used, hist>>

\* TriggerDebugPayload queues debug work; an effect of any lane queues
\* inner-packet work.
TriggerDebugPayload ==
  /\ IpcIdle
  /\ net.active # NoIdentity
  /\ lane' = QueueWork(lane, "debug")
  /\ UNCHANGED <<pl, ow, lw, wk, ipc, rx, tm, net, chan, used, hist>>

QueueInnerPacketSubmission ==
  /\ Running
  /\ net.active # NoIdentity
  /\ lane' = QueueWork(lane, "inner")
  /\ Spend
  /\ UNCHANGED <<pl, ow, lw, wk, ipc, rx, tm, net, chan, hist>>

Claim(k, p) == [owner |-> p, q |-> <<>>]

\* PacketDataPlane::SubmitValidatedPacket of a well-formed packet: a new process
\* takes the channel over and loses what was staged and received, even when its
\* own packet then finds the stage full.
SubmitValidatedPacket(k, staged, p) ==
  LET take == k.owner # p
      before == IF take THEN 0 ELSE staged
  IN [chan |-> IF take THEN Claim(k, p) ELSE k,
      staged |-> IF before < StageCapacity THEN before + 1 ELSE before]

SubmitInnerIpv4Packet(p) ==
  LET r == SubmitValidatedPacket(chan, net.staged, p)
  IN /\ IpcIdle
     /\ net.proto = "up"
     /\ chan' = r.chan
     /\ net' = [net EXCEPT !.staged = r.staged]
     /\ Spend
     /\ UNCHANGED <<pl, ow, lw, lane, wk, ipc, rx, tm, hist>>

\* PacketDataPlane::ReceivePacket: only the owner reads, and the front packet
\* goes whether it is delivered or found stale. A caller without a large enough
\* buffer changes nothing.
ReceivePacket(k, p) ==
  IF k.owner # p \/ k.q = <<>> THEN k ELSE [k EXCEPT !.q = Tail(@)]

ReceiveInnerIpv4Packet(p) ==
  /\ IpcIdle
  /\ chan' = ReceivePacket(chan, p) /\ chan' # chan
  /\ UNCHANGED <<pl, ow, lw, lane, wk, ipc, rx, tm, net, used, hist>>

IpcStep == \/ DestroyNext \/ IpcQueue \/ IpcCancel \/ IpcMark \/ IpcFlush
           \/ FinishOpen \/ FinishSend \/ FinishClose

-----------------------------------------------------------------------------
\* The lane's worker.

Dequeue ==
  /\ Running /\ lane.run = "none" /\ lane.q # <<>>
  /\ lane' = [lane EXCEPT !.run = Head(lane.q), !.q = Tail(@)]
  /\ wk' = IF Head(lane.q) = "adapter" THEN [wk EXCEPT !.pc = "take"] ELSE wk
  /\ UNCHANGED <<pl, ow, lw, ipc, rx, tm, net, chan, used, hist>>

FinishOther ==
  /\ Running /\ lane.run \in {"debug", "inner"}
  /\ lane' = FinishWork(lane)
  /\ UNCHANGED <<pl, ow, lw, wk, ipc, rx, tm, net, chan, used, hist>>

\* UserspaceIpAdapterWorkCallback, one step per locked section.
WorkerTake ==
  /\ Running /\ wk.pc = "take"
  /\ IF NextKind(ow) = "none"
     THEN wk' = [wk EXCEPT !.pc = "return"] /\ UNCHANGED ow
     ELSE /\ ow' = TakeNext(ow)
          /\ wk' = [pc |-> IF NextKind(ow) = "input" THEN "fence" ELSE "exec",
                    op |-> TakenOperation(ow), res |-> "none", n |-> 0]
  /\ UNCHANGED <<pl, lw, lane, ipc, rx, tm, net, chan, used, hist>>

WorkerReturn ==
  /\ Running /\ wk.pc = "return"
  /\ lane' = FinishWork(lane)
  /\ wk' = [wk EXCEPT !.pc = "idle"]
  /\ UNCHANGED <<pl, ow, lw, ipc, rx, tm, net, chan, used, hist>>

InputIsCurrent(op) ==
  net.active = op.peer /\ pl.pol = op.pol /\ lw.epoch = op.epoch

\* A stale input is not executed; the adapter's timeout is set up all the same.
WorkerFence ==
  /\ Running /\ wk.pc = "fence"
  /\ IF InputIsCurrent(wk.op)
     THEN wk' = [wk EXCEPT !.pc = "exec"] /\ UNCHANGED lw
     ELSE /\ wk' = [wk EXCEPT !.pc = "done", !.res = "Stale"]
          /\ lw' = [lw EXCEPT !.armed = lw.init]
  /\ UNCHANGED <<pl, ow, lane, ipc, rx, tm, net, chan, used, hist>>

Bump(l) == NextGeneration(l.epoch)

\* What lwIP may answer, with the number of fragments of a send.  Errors that
\* the daemon does not tell apart have one name.
Outcomes(op) ==
  CASE op.kind = "send" ->
         IF op.tok \in lw.pcbs
         THEN {[res |-> "Success", n |-> k] : k \in 0..MaxFragments}
              \union {[res |-> "QueueFull", n |-> 0], [res |-> "TransportError", n |-> 0]}
         ELSE {[res |-> "InvalidArgument", n |-> 0]}
    [] op.kind = "open" ->
         CASE ~lw.init -> {[res |-> "NotInitialized", n |-> 0]}
           [] lw.init /\ (op.src # lw.addr \/ op.tok \in lw.pcbs) ->
                {[res |-> "InvalidArgument", n |-> 0]}
           [] OTHER -> IF Cardinality(lw.pcbs) >= FlowCount
                       THEN {[res |-> "FlowQuotaExhausted", n |-> 0]}
                       ELSE {[res |-> "Success", n |-> 0], [res |-> "TransportError", n |-> 0]}
    [] op.kind = "input" ->
         IF ~lw.init THEN {[res |-> "NotInitialized", n |-> 0]}
         ELSE {[res |-> "Success", n |-> 0], [res |-> "QueueFull", n |-> 0]}
    [] op.kind = "configure" ->
         {[res |-> "Success", n |-> 0], [res |-> "TransportError", n |-> 0]}
    [] OTHER -> {[res |-> "Success", n |-> 0]}

Adapter(op, res) ==
  CASE op.kind = "reset" -> [lw EXCEPT !.init = FALSE, !.pcbs = {}, !.epoch = Bump(lw)]
    [] op.kind = "configure" ->
         IF res = "Success"
         THEN [lw EXCEPT !.init = TRUE, !.addr = op.src, !.pcbs = {},
                         !.epoch = NextGeneration(Bump(lw))]
         ELSE [lw EXCEPT !.init = FALSE, !.pcbs = {}, !.epoch = Bump(lw)]
    [] op.kind = "open" ->
         IF res = "Success" THEN [lw EXCEPT !.pcbs = @ \union {op.tok}] ELSE lw
    [] op.kind = "close" -> [lw EXCEPT !.pcbs = @ \ {op.tok}]
    [] OTHER -> lw

\* Execute without the mutex, then arm or cancel the adapter's timeout.  A
\* network interface lwIP refuses counts among the events.
WorkerExecute ==
  /\ Running /\ wk.pc = "exec"
  /\ \E o \in Outcomes(wk.op) :
       /\ LET l == Adapter(wk.op, o.res) IN lw' = [l EXCEPT !.armed = l.init]
       /\ wk' = [wk EXCEPT !.pc = "done", !.res = o.res, !.n = o.n]
       /\ IF wk.op.kind = "configure" /\ o.res # "Success" THEN Spend ELSE UNCHANGED used
  /\ UNCHANGED <<pl, ow, lane, ipc, rx, tm, net, chan, hist>>

\* DeliverDecryptedPacket, of a packet no PCB took.
DeliverDecryptedPacket(k, id) ==
  IF net.active # id \/ k.owner = NoProcess \/ Len(k.q) >= ReceiveCapacity THEN k
  ELSE [k EXCEPT !.q = Append(@, [peer |-> id, owner |-> k.owner])]

\* CompleteLocked and, for an input, DeliverUserspaceIpInputLocked, which
\* aborts when the packet is no longer in the slot.
WorkerDone ==
  LET o == Complete(ow, wk.op, wk.res, wk.n)
      input == wk.op.kind = "input"
      deliver == input /\ wk.res = "Success"
      there == HasResult(o, wk.op.ticket) /\ o.slot.kind = "input"
  IN /\ Running /\ wk.pc = "done"
     /\ wk' = [wk EXCEPT !.pc = "take", !.op = NoOp, !.res = "none", !.n = 0]
     /\ ow' = IF input THEN TakeResult(o, wk.op.ticket) ELSE o
     /\ hist' = [hist EXCEPT !.aborted = deliver /\ ~there]
     /\ \/ ~(deliver /\ there) /\ UNCHANGED <<pl, chan>>
        \/ deliver /\ there /\ UNCHANGED <<pl, chan>>   \* rejected or a fragment
        \/ /\ deliver /\ there
           /\ chan' = DeliverDecryptedPacket(chan, wk.op.peer) /\ UNCHANGED pl
        \/ /\ deliver /\ there
           /\ \E h \in lw.pcbs :
                pl' = DeliverInboundUdpDatagram(pl, h, wk.op.peer, wk.op.pol)
           /\ UNCHANGED chan
     /\ UNCHANGED <<lw, lane, ipc, rx, tm, net, used>>

WorkerStep == \/ Dequeue \/ FinishOther \/ WorkerTake \/ WorkerFence
              \/ WorkerExecute \/ WorkerDone \/ WorkerReturn

-----------------------------------------------------------------------------
\* The receive lane publishes a decrypted packet (ExecutePublishDecryptedPacket).

PublishDecryptedPacket ==
  /\ Running /\ rx.pc = "idle"
  /\ net.proto = "up" /\ SlotFree(ow) /\ lw.epoch # 0
  /\ ow' = QueueInputPacket(ow, net.active, pl.pol, lw.epoch)
  /\ rx' = [pc |-> "lane", ticket |-> ow.slot.gen]
  /\ Spend
  /\ UNCHANGED <<pl, lw, lane, wk, ipc, tm, net, chan, hist>>

PublishQueue ==
  /\ Running /\ rx.pc = "lane"
  /\ lane' = QueueWork(lane, "adapter")
  /\ rx' = IF Accepted(lane) THEN [rx EXCEPT !.pc = "idle", !.ticket = 0]
           ELSE [rx EXCEPT !.pc = "cancel"]
  /\ UNCHANGED <<pl, ow, lw, wk, ipc, tm, net, chan, used, hist>>

PublishCancel ==
  /\ Running /\ rx.pc = "cancel"
  /\ ow' = Cancel(ow, rx.ticket)
  /\ rx' = [rx EXCEPT !.pc = "idle", !.ticket = 0]
  /\ UNCHANGED <<pl, lw, lane, wk, ipc, tm, net, chan, used, hist>>

\* UserspaceIpTimeoutCallback on the timer lane.
UserspaceIpTimeout ==
  /\ Running /\ tm = "idle" /\ lw.armed
  /\ ow' = QueueRunTimeouts(ow)
  /\ tm' = "lane"
  /\ lw' = [lw EXCEPT !.armed = FALSE]
  /\ Spend
  /\ UNCHANGED <<pl, lane, wk, ipc, rx, net, chan, hist>>

TimeoutQueue ==
  /\ Running /\ tm = "lane"
  /\ lane' = QueueWork(lane, "adapter")
  /\ tm' = "idle"
  /\ UNCHANGED <<pl, ow, lw, wk, ipc, rx, net, chan, used, hist>>

\* Lower layers: the activation's protocol instance is made once its socket is
\* open, and an activation error keeps it but clears what is staged.
InstantiateProtocol ==
  /\ Running /\ net.active # NoIdentity /\ net.proto = "none"
  /\ net' = [net EXCEPT !.proto = "up"]
  /\ UNCHANGED <<pl, ow, lw, lane, wk, ipc, rx, tm, chan, used, hist>>

EnterActivationError ==
  /\ Running /\ net.proto = "up"
  /\ net' = [net EXCEPT !.proto = "error", !.staged = 0]
  /\ UNCHANGED <<pl, ow, lw, lane, wk, ipc, rx, tm, chan, used, hist>>

\* A staged packet retires with a notification.
RetireStaged ==
  /\ Running /\ net.staged > 0
  /\ net' = [net EXCEPT !.staged = @ - 1]
  /\ pl' = NotifyOutboundCapacityAvailable(pl, net.active)
  /\ UNCHANGED <<ow, lw, lane, wk, ipc, rx, tm, chan, used, hist>>

\* Without a notification: a send that found no usable binding retires its
\* packet, an exhausted handshake and expired keys clear what is staged.
ClearStaged ==
  /\ Running /\ net.staged > 0
  /\ \E n \in {net.staged - 1, 0} : net' = [net EXCEPT !.staged = n]
  /\ UNCHANGED <<pl, ow, lw, lane, wk, ipc, rx, tm, chan, used, hist>>

ExpireTombstone ==
  /\ Running
  /\ \E t \in pl.tombs : pl' = [pl EXCEPT !.tombs = @ \ {t}]
  /\ Spend
  /\ UNCHANGED <<ow, lw, lane, wk, ipc, rx, tm, net, chan, hist>>

\* After an abort the process is gone.
Aborted == hist.aborted /\ UNCHANGED vars

Command ==
  \/ CreateTunnelClient \/ TriggerDebugPayload
  \/ \E p \in Peers \union {NoPeer} : SetActivePeer(p)
  \/ \E c \in Clients :
       \/ DestroyTunnelClient(c)
       \/ \E a \in Remotes : OpenFlow(c, a)
       \/ \E h \in Handles(c) : SendDatagram(c, h) \/ CloseTunnelFlow(c, h)
       \/ \E n \in 1..QueueCapacity : ReceiveTunnelCompletions(c, n)
  \/ \E p \in Processes : SubmitInnerIpv4Packet(p) \/ ReceiveInnerIpv4Packet(p)

LaneStep == PublishQueue \/ PublishCancel \/ TimeoutQueue

Next ==
  \/ Command \/ IpcStep \/ WorkerStep \/ LaneStep
  \/ PublishDecryptedPacket \/ UserspaceIpTimeout \/ QueueInnerPacketSubmission
  \/ InstantiateProtocol \/ EnterActivationError \/ RetireStaged \/ ClearStaged \/ ExpireTombstone
  \/ Aborted

Spec == Init /\ [][Next]_vars

\* A thread that can run does: the server thread inside a command, the lane's
\* worker, and the two lanes that queue for it.
Fairness == WF_vars(IpcStep) /\ WF_vars(WorkerStep) /\ WF_vars(LaneStep)
FairSpec == Spec /\ Fairness
-----------------------------------------------------------------------------
\* Types: the plane, the slot, the lane and the threads keep their shape, and
\* every queue keeps its capacity.
TypeOK ==
  /\ \A c \in Clients : /\ Len(pl.clients[c].q) <= QueueCapacity
                        /\ pl.clients[c].data <= DataCapacity
  /\ \A s \in FlowSlots : /\ pl.flows[s].st \in {"none", "pending", "open", "closed"}
                          /\ pl.flows[s].occ \in 0..InboundPerFlow
  /\ pl.slabs \in 0..SlabCount
  /\ Pending(lane) <= LaneSlots /\ lane.run \in Works \union {"none"}
  /\ ow.slot.st \in {"free", "pending", "running", "complete"}
  /\ net.staged \in 0..StageCapacity
  /\ Len(chan.q) <= ReceiveCapacity
  /\ (wk.pc # "idle") = (lane.run = "adapter")

\* When the flush of an accepted operation returns, its result is in the slot
\* under its own ticket: nobody cancelled it, took it, or left it unrun
\* (QueueUserspaceIpAdapter, FlushSubmissionWork, TakeResultLocked).
WaiterServed ==
  ipc.pc = "finish" /\ ipc.accepted =>
    /\ HasResult(ow, ipc.ticket) /\ ow.slot.tok = ipc.h
    /\ ow.slot.kind = IF ipc.cmd = "destroy" THEN "close" ELSE ipc.cmd

\* A reservation whose PCB was opened can still be committed: nothing changes
\* the policy or the slot while the server thread waits for the lane
\* (CommitFlowReservation).
ReservationStands ==
  ipc.cmd = "open" /\ ipc.pc \in {"flush", "finish"} =>
    CanCommit(pl, [client |-> ipc.c, h |-> ipc.h, peer |-> ipc.peer, pol |-> ipc.pol])

\* An open flow has its PCB, unless it is being closed or its close was
\* cancelled after the worker had taken it (OpenTunnelConnectedUdpFlow,
\* CloseTunnelFlow, QueueConfigureLocked).
OpenFlowHasPcb ==
  \A s \in FlowSlots :
    LET h == MakeFlowHandle(s, pl.flows[s])
    IN pl.flows[s].st = "open" =>
         \/ h \in lw.pcbs \/ h \in hist.cut
         \/ ipc.cmd = "close" /\ ipc.h = h

\* A PCB belongs to a live flow, unless a reset of the adapter is on its way,
\* the server thread is still removing it, or the lane or the slot refused its
\* removal (DestroyTunnelClient, SetPeerInactive).
PcbHasFlow ==
  \A h \in lw.pcbs :
    \/ Live(pl.flows[h.slot]) /\ pl.flows[h.slot].gen = h.gen
    \/ ow.reset \/ ow.config \/ wk.op.kind \in {"reset", "configure"}
    \/ wk.op.kind = "close" /\ wk.op.tok = h
    \/ h \in hist.stray
    \/ ipc.pc # "idle" /\ (ipc.h = h \/ \E i \in 1..Len(ipc.rest) : ipc.rest[i] = h)

\* The flows of the plane and the PCBs of lwIP, which two threads change in
\* different critical sections, agree in both directions but for what is under
\* way or was refused (OpenTunnelConnectedUdpFlow, DestroyTunnelClient).
FlowsMatchPcbs == OpenFlowHasPcb /\ PcbHasFlow

\* The packet channel holds packets received for its present owner, under the
\* active activation (PacketChannel::Claim, PacketDataPlane::Clear).
ReceivedIsOwned ==
  \A i \in 1..Len(chan.q) :
     chan.q[i] = [peer |-> net.active, owner |-> chan.owner]

\* The daemon's threads use the plane as the service allows: whatever lane,
\* worker and server thread do, the clients see FlowService (all commands of
\* daemon_runtime.cpp that reach m_tunnel_flow_plane).
Service == INSTANCE FlowService WITH act <- net.gen
ImplementsService == Service!Spec

\* A command of the server thread returns: the flush it waits in ends and no
\* lane waits for it (IpcStep).
CommandReturns == (ipc.pc # "idle") ~> (ipc.pc = "idle" \/ hist.aborted)

\* The packet of a delivered input is still in the slot
\* ("AMS_ABORT_UNLESS(!packet.empty())" in DeliverUserspaceIpInputLocked).
InputStillThere == ~hist.aborted

\* Whenever a staged packet retires, each waiting flow is told
\* (HORIZON_INTEGRATION_SPEC.md: "emits a coalesced `Writable` completion for
\* each waiting flow whenever a staged packet retires").
RetirementIsAnnounced ==
  [][(net.proto = "up" /\ net'.proto = "up" /\ net'.staged < net.staged) =>
       \A s \in FlowSlots : pl'.flows[s].st = "open" => ~pl'.flows[s].waiter]_vars
=============================================================================
