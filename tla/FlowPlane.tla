------------------------------ MODULE FlowPlane ------------------------------
(***************************************************************************)
(* TunnelFlowPlane (runtime/tunnel_flow_plane.cpp): clients with their     *)
(* completion queues, UDP flow slots, quarantined reverse tuples and the   *)
(* routing policy.  Every method runs under the daemon's state mutex, so   *)
(* each is an operator from one plane (a record) to the next; TunnelDaemon *)
(* holds the plane as a variable and calls them.                           *)
(*                                                                         *)
(* A flow handle is the slot and its allocation generation; a peer         *)
(* identity is a peer and an activation generation.                        *)
(***************************************************************************)
EXTENDS Naturals, Sequences, FiniteSets

CONSTANTS Clients,         \* client slots
          NoClient,
          FlowCount,       \* MaximumFlows
          FlowsPerClient,  \* MaximumFlowsPerClient
          TombstoneCount,  \* ReverseTupleQuarantineCapacity
          DataCapacity,    \* DataCompletionCapacity
          InboundPerFlow,  \* MaximumInboundDatagramsPerFlow
          SlabCount,       \* InboundPacketSlabCount
          PortCount,       \* virtual source ports, 16384 in the code
          AddressBits,     \* width of an address, 32 in the code
          Remotes,         \* remote endpoints that are asked for
          Peers, NoPeer,
          Config           \* what each peer's configuration says

Address == 0..(2 ^ AddressBits - 1)

ASSUME FlowConstants ==
  /\ NoClient \notin Clients /\ NoPeer \notin Peers
  /\ FlowCount \in Nat \ {0} /\ FlowsPerClient \in Nat \ {0}
  /\ TombstoneCount \in Nat /\ DataCapacity \in Nat
  /\ InboundPerFlow \in Nat /\ SlabCount \in Nat
  /\ PortCount \in Nat \ {0} /\ AddressBits \in Nat
  /\ Remotes \subseteq Address
  /\ Config \in [Peers -> [valid : BOOLEAN, leak : BOOLEAN, source : Address,
                           routes : SUBSET [net : Address, len : 0..AddressBits]]]

FlowSlots == 1..FlowCount
NoIdentity == <<NoPeer, 0>>
NoFlow == [st |-> "none", owner |-> NoClient, gen |-> 0, peer |-> NoIdentity,
           pol |-> 0, remote |-> 0, port |-> 0, occ |-> 0, waiter |-> FALSE]
NoHandle == [slot |-> 0, gen |-> 0]
NoContext == [open |-> FALSE, q |-> <<>>, data |-> 0, event |-> FALSE]

InitPlane ==
  [clients |-> [c \in Clients |-> NoContext],
   flows |-> [s \in FlowSlots |-> NoFlow],
   tombs |-> {}, slabs |-> 0, port |-> 0, nextFlow |-> 1,
   avail |-> FALSE, peer |-> NoIdentity, pol |-> 1, routes |-> {},
   lost |-> FALSE]   \* history: a control record found its reserve taken

\* CompletionQueueCapacity: the data share plus one policy record and two
\* control records for every flow of the client.
QueueCapacity == DataCapacity + 1 + 2 * FlowsPerClient

Live(f) == f.st \in {"pending", "open"}
MakeFlowHandle(s, f) == [slot |-> s, gen |-> f.gen]

\* FindFlow: a handle names the slot's present allocation, for its owner.
FindFlow(p, c, h) ==
  /\ p.clients[c].open
  /\ h.slot \in FlowSlots
  /\ p.flows[h.slot].st # "none"
  /\ p.flows[h.slot].gen = h.gen /\ p.flows[h.slot].owner = c

CreateClient(p, c) == [p EXCEPT !.clients[c] = [NoContext EXCEPT !.open = TRUE]]

-----------------------------------------------------------------------------
\* Completion queues.

IsData(e) == e.type = "data"
DataAt(q) == {i \in 1..Len(q) : IsData(q[i])}
DataIn(q) == Cardinality(DataAt(q))

\* Mutant: the event is signalled by data records only.
NotifyIfNeededData(k, e) == k.event \/ (k.q = <<>> /\ IsData(e))
\* The event is signalled only when the queue was empty.
NotifyIfNeeded(k, e) == k.event \/ k.q = <<>>

WithRecord(k, e) == [k EXCEPT !.q = Append(@, e), !.event = NotifyIfNeeded(k, e)]

\* History: the control records queued for k, with e, are of no more flows than
\* the queue has room reserved for.
WithinReserve(k, e) ==
  LET handles == {k.q[i].h : i \in {j \in 1..Len(k.q) : ~IsData(k.q[j])}} \union {e.h}
  IN Cardinality(handles \ {NoHandle}) <= FlowsPerClient

AppendControl(p, c, e) ==
  LET k == p.clients[c]
  IN IF Len(k.q) >= QueueCapacity
     THEN [p EXCEPT !.lost = @ \/ WithinReserve(k, e)]
     ELSE [p EXCEPT !.clients[c] = WithRecord(k, e)]

\* Mutant: a second record of the same type and flow is queued.
EnqueueControlCompletionTwice(p, c, e) ==
  IF c = NoClient \/ ~p.clients[c].open THEN p ELSE AppendControl(p, c, e)
\* A control record replaces one of its own type and flow, and is dropped
\* when the queue is full.
EnqueueControlCompletion(p, c, e) ==
  IF \/ c = NoClient \/ ~p.clients[c].open
     \/ \E i \in 1..Len(p.clients[c].q) : p.clients[c].q[i] = e
  THEN p ELSE AppendControl(p, c, e)

\* A slab and the flow's occupancy are taken before the record is queued, and
\* given back when there is no room for it.
TakeSlab(p, s) ==
  LET f == p.flows[s] IN [p EXCEPT !.flows[s] = [f EXCEPT !.occ = @ + 1], !.slabs = @ + 1]
GiveSlabBack(p, s) ==
  LET f == p.flows[s] IN [p EXCEPT !.flows[s] = [f EXCEPT !.occ = @ - 1], !.slabs = @ - 1]

\* The record remembers the activation its packet was for.
EnqueueDataCompletion(p, s, id) ==
  LET f == p.flows[s]
      k == p.clients[f.owner]
      e == [type |-> "data", h |-> MakeFlowHandle(s, f), from |-> id]
  IN IF k.data >= DataCapacity \/ Len(k.q) >= QueueCapacity
     THEN GiveSlabBack(p, s)
     ELSE [p EXCEPT !.clients[f.owner] = [WithRecord(k, e) EXCEPT !.data = @ + 1]]

\* Only data records go; what the client still has to be told stays.
WithoutData(q, h) ==
  LET kept[i \in 0..Len(q)] ==
        IF i = 0 THEN <<>>
        ELSE IF IsData(q[i]) /\ q[i].h = h THEN kept[i - 1]
        ELSE Append(kept[i - 1], q[i])
  IN kept[Len(q)]
RemoveFlowCompletions(p, s) ==
  LET f == p.flows[s]
      k == p.clients[f.owner]
      rest == WithoutData(k.q, MakeFlowHandle(s, f))
  IN [p EXCEPT !.clients[f.owner] = [@ EXCEPT !.q = rest, !.data = DataIn(rest)],
               !.slabs = @ - (Len(k.q) - Len(rest))]

\* The first n records of a queue taken out, and the clear of the event that
\* the daemon performs when nothing is left.
Drained(k, n) ==
  LET rest == SubSeq(k.q, n + 1, Len(k.q))
  IN [k EXCEPT !.q = rest, !.data = @ - DataIn(SubSeq(k.q, 1, n)),
               !.event = @ /\ rest # <<>>]
\* Of those, the data of the flow in slot s.
ReadOf(p, c, n, s) ==
  Cardinality({i \in 1..n : LET e == p.clients[c].q[i]
                            IN IsData(e) /\ FindFlow(p, c, e.h) /\ e.h.slot = s})

\* Mutant: the occupancy of the flow is not given back.
ReceiveCompletionsKeepOccupancy(p, c, n) ==
  [p EXCEPT !.clients[c] = Drained(@, n),
            !.slabs = @ - DataIn(SubSeq(p.clients[c].q, 1, n))]
ReceiveCompletions(p, c, n) ==
  [p EXCEPT !.clients[c] = Drained(@, n),
            !.slabs = @ - DataIn(SubSeq(p.clients[c].q, 1, n)),
            !.flows = [s \in FlowSlots |-> [p.flows[s] EXCEPT !.occ = @ - ReadOf(p, c, n, s)]]]

-----------------------------------------------------------------------------
\* Reverse tuples.  A tombstone is forgotten when its 60 seconds are over:
\* every reader clears the expired ones first.

TupleOf(f) == [src |-> Config[f.peer[1]].source, port |-> f.port, remote |-> f.remote]
LiveSlots(p) == {s \in FlowSlots : Live(p.flows[s])}

\* One free tombstone for every live flow and for the one to come.
HasTombstoneReservation(p) ==
  TombstoneCount - Cardinality(p.tombs) > Cardinality(LiveSlots(p))

\* Mutant: quarantined tuples are not looked at.
FreePortsNoQuarantine(p, src, remote) ==
  {n \in 0..(PortCount - 1) :
     \A s \in LiveSlots(p) :
        TupleOf(p.flows[s]) # [src |-> src, port |-> n, remote |-> remote]}
\* Ports whose tuple no live flow holds and no tombstone quarantines.
FreePorts(p, src, remote) ==
  {n \in 0..(PortCount - 1) :
     LET t == [src |-> src, port |-> n, remote |-> remote]
     IN t \notin p.tombs /\ \A s \in LiveSlots(p) : TupleOf(p.flows[s]) # t}

\* AllocateVirtualTuple takes the next free port after the last one used.
Ahead(p, n) == (n + PortCount - p.port) % PortCount
NextPort(p, src, remote) ==
  CHOOSE n \in FreePorts(p, src, remote) :
    \A m \in FreePorts(p, src, remote) : Ahead(p, n) <= Ahead(p, m)

\* QuarantineTuple takes a free tombstone, if there is one.
QuarantineTuple(p, s) ==
  IF Cardinality(p.tombs) < TombstoneCount
  THEN [p EXCEPT !.tombs = @ \union {TupleOf(p.flows[s])}] ELSE p

-----------------------------------------------------------------------------
\* Closing.

\* What a closed slot remembers besides its handle only feeds GetFlowState.
ClosedFlow(f) == [NoFlow EXCEPT !.st = "closed", !.owner = f.owner, !.gen = f.gen]
ShutFlow(p, s) ==
  LET q == QuarantineTuple(RemoveFlowCompletions(p, s), s)
  IN [q EXCEPT !.flows[s] = ClosedFlow(p.flows[s])]

\* A pending slot is cleared without a word.  An open one loses its queued
\* data, its tuple is quarantined, and the owner is told if notify.
CloseFlowSlot(p, s, notify) ==
  LET f == p.flows[s]
  IN CASE f.st = "pending" -> [p EXCEPT !.flows[s] = NoFlow]
       [] f.st = "open" /\ notify ->
            EnqueueControlCompletion(ShutFlow(p, s), f.owner,
                                     [type |-> "state", h |-> MakeFlowHandle(s, f)])
       [] f.st = "open" /\ ~notify -> ShutFlow(p, s)
       [] OTHER -> p

\* CloseFlowSlot on every slot of a set, in slot order.
CloseAll(p, slots, notify) ==
  LET step[i \in 0..FlowCount] ==
        IF i = 0 THEN p
        ELSE IF i \in slots THEN CloseFlowSlot(step[i - 1], i, notify) ELSE step[i - 1]
  IN step[FlowCount]

\* CloseFlow and InvalidatePeerActivation.
CloseFlow(p, c, h) == IF FindFlow(p, c, h) THEN CloseFlowSlot(p, h.slot, TRUE) ELSE p
InvalidatePeerActivation(p, id) ==
  CloseAll(p, {s \in FlowSlots : p.flows[s].st = "open" /\ p.flows[s].peer = id}, TRUE)

\* DestroyClient: the closed slots no longer belong to anyone, as the client
\* generation they carry is never handed out again.
DestroyClient(p, c) ==
  LET mine == {s \in FlowSlots : p.flows[s].owner = c}
      q == CloseAll(p, mine, FALSE)
  IN [q EXCEPT !.clients[c] = NoContext,
               !.slabs = @ - DataIn(q.clients[c].q),
               !.flows = [s \in FlowSlots |->
                            IF s \in mine THEN [q.flows[s] EXCEPT !.owner = NoClient]
                            ELSE q.flows[s]]]

-----------------------------------------------------------------------------
\* Policy.

\* RouteMatches and SelectRoute: the routes were masked when they were parsed,
\* and any match serves.
RouteMatches(r, a) ==
  LET unit == 2 ^ (AddressBits - r.len) IN r.net \div unit = a \div unit
SelectRoute(p, a) == p.avail /\ \E r \in p.routes : RouteMatches(r, a)

\* EnqueuePolicyChanged tells every client.
EnqueuePolicyChanged(p) ==
  LET Told(c) == EnqueueControlCompletion(p, c, [type |-> "policy", h |-> NoHandle])
  IN [p EXCEPT !.clients = [c \in Clients |-> Told(c).clients[c]],
               !.lost = \E c \in Clients : Told(c).lost]

\* What the configuration of the active peer, or of none, makes of the policy.
\* The routes parsed before an invalid item stay behind in m_routes, and count
\* as a change.
RoutesOf(id) == IF id = NoIdentity THEN {} ELSE Config[id[1]].routes
Usable(id) == id # NoIdentity /\ Config[id[1]].valid /\ RoutesOf(id) # {}
WithPolicy(p, id) ==
  [p EXCEPT !.avail = Usable(id), !.peer = IF Usable(id) THEN id ELSE NoIdentity,
            !.pol = @ + 1, !.routes = RoutesOf(id)]
Unchanged(p, id) ==
  /\ p.avail = Usable(id) /\ p.routes = RoutesOf(id)
  /\ p.peer = IF Usable(id) THEN id ELSE NoIdentity

\* RefreshPolicy(id): an unchanged policy does nothing; a changed one closes
\* the flows it no longer carries and restamps the others.
RefreshPolicy(p, id) ==
  LET new == WithPolicy(p, id)
      gone == {s \in FlowSlots : /\ Live(p.flows[s])
                                 /\ \/ ~new.avail
                                    \/ p.flows[s].peer # id
                                    \/ ~SelectRoute(new, p.flows[s].remote)}
      q == CloseAll(new, gone, TRUE)
  IN IF Unchanged(p, id) THEN p
     ELSE EnqueuePolicyChanged(
            [q EXCEPT !.flows = [s \in FlowSlots |->
                                   IF Live(q.flows[s]) THEN [q.flows[s] EXCEPT !.pol = new.pol]
                                   ELSE q.flows[s]]])

-----------------------------------------------------------------------------
\* Opening.

FreeSlots(p) == {s \in FlowSlots : ~Live(p.flows[s])}
Owned(p, c) == {s \in LiveSlots(p) : p.flows[s].owner = c}

\* ReserveConnectedUdpFlow, up to the first refusal.
ReserveStatus(p, c, remote, protocol) ==
  CASE ~p.clients[c].open -> "MalformedInput"
    [] ~p.avail -> "PeerUnavailable"
    [] ~SelectRoute(p, remote) -> "RouteNotCovered"
    [] ~protocol -> IF Config[p.peer[1]].leak THEN "TunnelBlockedByPolicy"
                    ELSE "TransportUnavailable"
    [] Cardinality(Owned(p, c)) >= FlowsPerClient -> "FlowQuotaExhausted"
    [] FreeSlots(p) = {} -> "FlowQuotaExhausted"
    [] ~HasTombstoneReservation(p) -> "ReverseTupleExhausted"
    [] FreePorts(p, Config[p.peer[1]].source, remote) = {} -> "ReverseTupleExhausted"
    [] OTHER -> "Success"

ReservedSlot(p) == CHOOSE s \in FreeSlots(p) : \A t \in FreeSlots(p) : s <= t

\* Mutant: the generation counts the live flows.
ReserveFlowLiveGeneration(p, c, remote) ==
  LET s == ReservedSlot(p)
      port == NextPort(p, Config[p.peer[1]].source, remote)
  IN [p EXCEPT !.flows[s] = [st |-> "pending", owner |-> c,
                             gen |-> Cardinality(LiveSlots(p)) + 1,
                             peer |-> p.peer, pol |-> p.pol, remote |-> remote,
                             port |-> port, occ |-> 0, waiter |-> FALSE],
               !.port = (port + 1) % PortCount,
               !.nextFlow = @ + 1]
ReserveFlow(p, c, remote) ==
  LET s == ReservedSlot(p)
      port == NextPort(p, Config[p.peer[1]].source, remote)
  IN [p EXCEPT !.flows[s] = [st |-> "pending", owner |-> c, gen |-> p.nextFlow,
                             peer |-> p.peer, pol |-> p.pol, remote |-> remote,
                             port |-> port, occ |-> 0, waiter |-> FALSE],
               !.port = (port + 1) % PortCount,
               !.nextFlow = @ + 1]

\* CommitFlowReservation and CancelFlowReservation of the reservation r.
CanCommit(p, r) ==
  /\ FindFlow(p, r.client, r.h)
  /\ p.flows[r.h.slot].st = "pending" /\ p.flows[r.h.slot].peer = r.peer
  /\ p.peer = r.peer /\ p.pol = r.pol
CommitFlowReservation(p, r) == [p EXCEPT !.flows[r.h.slot] = [@ EXCEPT !.st = "open"]]
CancelFlowReservation(p, r) ==
  IF FindFlow(p, r.client, r.h) /\ p.flows[r.h.slot].st = "pending"
  THEN [p EXCEPT !.flows[r.h.slot] = NoFlow] ELSE p

-----------------------------------------------------------------------------
\* Sending and delivering.

PrepareStatus(p, c, h, protocol) ==
  CASE ~FindFlow(p, c, h) -> "StaleHandle"
    [] p.flows[h.slot].st # "open" -> "FlowClosed"
    [] ~p.avail \/ p.flows[h.slot].peer # p.peer -> "PeerUnavailable"
    [] ~protocol -> "TransportUnavailable"
    [] OTHER -> "Success"

CompleteSend(p, h, status) ==
  IF p.flows[h.slot].gen # h.gen \/ p.flows[h.slot].st # "open" THEN p
  ELSE CASE status = "QueueFull" -> [p EXCEPT !.flows[h.slot] = [@ EXCEPT !.waiter = TRUE]]
         [] status = "Success" -> [p EXCEPT !.flows[h.slot] = [@ EXCEPT !.waiter = FALSE]]
         [] OTHER -> p

\* NotifyOutboundCapacityAvailable: one coalesced Writable for each waiter.
TellWritable(p, s) ==
  LET f == p.flows[s]
  IN EnqueueControlCompletion([p EXCEPT !.flows[s] = [f EXCEPT !.waiter = FALSE]], f.owner,
                              [type |-> "writable", h |-> MakeFlowHandle(s, f)])
NotifyOutboundCapacityAvailable(p, id) ==
  LET waiting == {s \in FlowSlots : /\ p.flows[s].st = "open"
                                    /\ p.flows[s].peer = id /\ p.flows[s].waiter}
      step[i \in 0..FlowCount] ==
        IF i = 0 THEN p
        ELSE IF i \in waiting THEN TellWritable(step[i - 1], i) ELSE step[i - 1]
  IN step[FlowCount]

\* Mutant: the generations are not compared.
DeliverableAnyPolicy(p, h, id, pol) ==
  /\ h.slot \in FlowSlots
  /\ p.flows[h.slot].gen = h.gen /\ p.flows[h.slot].st = "open"
\* DeliverInboundUdpDatagram: the flow is the one the adapter's token names,
\* and nothing it was opened under has changed.  The code compares the remote
\* endpoint as well, which lwIP's connected PCB has done before.
Deliverable(p, h, id, pol) ==
  /\ h.slot \in FlowSlots
  /\ p.flows[h.slot].gen = h.gen /\ p.flows[h.slot].st = "open"
  /\ p.flows[h.slot].peer = id /\ p.flows[h.slot].pol = pol
  /\ p.pol = pol /\ p.peer = id

DeliverInboundUdpDatagram(p, h, id, pol) ==
  IF \/ ~Deliverable(p, h, id, pol)
     \/ p.flows[h.slot].occ >= InboundPerFlow \/ p.slabs >= SlabCount
  THEN p
  ELSE EnqueueDataCompletion(TakeSlab(p, h.slot), h.slot, id)
=============================================================================
