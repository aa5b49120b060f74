----------------------------- MODULE FlowService -----------------------------
(***************************************************************************)
(* The tunnel flow service as its clients see it: FlowPlane with its       *)
(* methods called in any order.  Nothing is said of threads, of the lane   *)
(* or of lwIP: a reservation is committed or cancelled some time later, a  *)
(* datagram for any token, activation and policy may be delivered at any   *)
(* time.  TunnelDaemon implements this specification.                      *)
(***************************************************************************)
EXTENDS FlowPlane

CONSTANTS MaxFlows,        \* bound on the reservations made
          MaxActivations   \* bound on the activations

VARIABLES pl,   \* TunnelFlowPlane
          act   \* activations so far

vars == <<pl, act>>

Init == pl = InitPlane /\ act = 0

Seen == {NoIdentity} \union (Peers \X (1..act))
HandlesOf(c) == {MakeFlowHandle(s, pl.flows[s]) :
                   s \in {t \in FlowSlots : pl.flows[t].owner = c}}

\* SetActivePeer: the old activation is invalidated, the policy refreshed.
SwitchPeer(id) ==
  /\ pl' = RefreshPolicy(InvalidatePeerActivation(pl, pl.peer), id)
  /\ act' = IF id = NoIdentity THEN act ELSE act + 1

Create(c) == ~pl.clients[c].open /\ pl' = CreateClient(pl, c) /\ UNCHANGED act
Destroy(c) == pl.clients[c].open /\ pl' = DestroyClient(pl, c) /\ UNCHANGED act

Reserve(c, remote) ==
  /\ pl.nextFlow <= MaxFlows
  /\ ReserveStatus(pl, c, remote, TRUE) = "Success"
  /\ pl' = ReserveFlow(pl, c, remote)
  /\ UNCHANGED act

\* The reservation is given up in the critical section that made it.
ReserveAndCancel(c, remote) ==
  /\ pl.nextFlow <= MaxFlows
  /\ ReserveStatus(pl, c, remote, TRUE) = "Success"
  /\ pl' = [ReserveFlow(pl, c, remote) EXCEPT !.flows[ReservedSlot(pl)] = NoFlow]
  /\ UNCHANGED act

ReservationOf(s) ==
  [client |-> pl.flows[s].owner, h |-> MakeFlowHandle(s, pl.flows[s]),
   peer |-> pl.flows[s].peer, pol |-> pl.flows[s].pol]
Commit(s) ==
  /\ pl.flows[s].st = "pending" /\ CanCommit(pl, ReservationOf(s))
  /\ pl' = CommitFlowReservation(pl, ReservationOf(s))
  /\ UNCHANGED act
CancelReservation(s) ==
  /\ pl.flows[s].st = "pending"
  /\ pl' = CancelFlowReservation(pl, ReservationOf(s))
  /\ UNCHANGED act

Close(c, h) == pl' = CloseFlow(pl, c, h) /\ UNCHANGED act
SendDone(h, status) == pl' = CompleteSend(pl, h, status) /\ UNCHANGED act
CapacityAvailable == pl' = NotifyOutboundCapacityAvailable(pl, pl.peer) /\ UNCHANGED act
\* A datagram for anything else than the flow's token, activation and policy
\* changes nothing.
Deliver(h, id, pol) ==
  /\ Deliverable(pl, h, id, pol)
  /\ pl' = DeliverInboundUdpDatagram(pl, h, id, pol)
  /\ UNCHANGED act
Receive(c, n) ==
  /\ pl.clients[c].open /\ n <= Len(pl.clients[c].q)
  /\ pl' = ReceiveCompletions(pl, c, n)
  /\ UNCHANGED act
Expire(t) == pl' = [pl EXCEPT !.tombs = @ \ {t}] /\ UNCHANGED act

\* Everything but a switch of the active peer.
Use ==
  \/ CapacityAvailable
  \/ \E s \in FlowSlots : Commit(s) \/ CancelReservation(s)
  \/ \E t \in pl.tombs : Expire(t)
  \/ \E c \in Clients :
       \/ Create(c) \/ Destroy(c)
       \/ \E a \in Remotes : Reserve(c, a) \/ ReserveAndCancel(c, a)
       \/ \E n \in 1..QueueCapacity : Receive(c, n)
       \/ \E h \in HandlesOf(c) :
            \/ Close(c, h)
            \/ \E status \in {"QueueFull", "Success"} : SendDone(h, status)
            \/ \E id \in Seen, pol \in 0..pl.pol : Deliver(h, id, pol)

Next ==
  \/ SwitchPeer(NoIdentity)
  \/ act < MaxActivations /\ \E p \in Peers : SwitchPeer(<<p, act + 1>>)
  \/ Use

Spec == Init /\ [][Next]_vars

-----------------------------------------------------------------------------
\* Types: states, counters and queues keep their ranges.
TypeOK ==
  /\ \A c \in Clients : /\ Len(pl.clients[c].q) <= QueueCapacity
                        /\ pl.clients[c].data \in 0..DataCapacity
  /\ \A s \in FlowSlots : /\ pl.flows[s].st \in {"none", "pending", "open", "closed"}
                          /\ pl.flows[s].occ \in 0..InboundPerFlow
                          /\ pl.flows[s].owner \in Clients \union {NoClient}
  /\ pl.slabs \in 0..SlabCount /\ pl.port \in 0..(PortCount - 1)
  /\ Cardinality(pl.tombs) <= TombstoneCount

\* Every live flow finds a free tombstone when it closes, so no tuple escapes
\* its quarantine (HasTombstoneReservation, "Every live flow must be able to
\* reserve a tombstone when it closes").
TombstoneReserved ==
  TombstoneCount - Cardinality(pl.tombs) >= Cardinality(LiveSlots(pl))

\* No two live flows share a reverse tuple, and none has a quarantined one, so
\* a late answer to a closed flow never reaches its successor
\* (AllocateVirtualTuple, QuarantineTuple).
TuplesDistinct ==
  /\ \A s, t \in LiveSlots(pl) :
       s # t => TupleOf(pl.flows[s]) # TupleOf(pl.flows[t])
  /\ \A s \in LiveSlots(pl) : TupleOf(pl.flows[s]) \notin pl.tombs

QueuedFor(s) ==
  LET f == pl.flows[s]
      q == pl.clients[f.owner].q
  IN Cardinality({i \in 1..Len(q) : IsData(q[i]) /\ q[i].h = MakeFlowHandle(s, f)})

\* The counters agree with the queues after any mix of deliveries, closes,
\* partial drains and destroyed clients: a client's data count, the slabs taken
\* and each flow's occupancy are the records that are queued
\* (RemoveFlowCompletions, ReceiveCompletions, DestroyClient).
SlabsAccounted ==
  /\ \A c \in Clients : pl.clients[c].data = DataIn(pl.clients[c].q)
  /\ LET total[S \in SUBSET Clients] ==
           IF S = {} THEN 0
           ELSE LET c == CHOOSE d \in S : TRUE IN DataIn(pl.clients[c].q) + total[S \ {c}]
     IN pl.slabs = total[Clients]
  /\ \A s \in FlowSlots : pl.flows[s].st = "open" => pl.flows[s].occ = QueuedFor(s)

\* A client with something to read has its event signalled, whatever order
\* the deliveries, the drains and the clear came in (NotifyIfNeeded and the
\* clear in ReceiveTunnelCompletions).
EventCovers ==
  \A c \in Clients : pl.clients[c].q # <<>> => pl.clients[c].event

\* Queued data came for an open flow under the activation the policy has now:
\* what was received before a peer switch never reaches a flow opened after it
\* (DeliverInboundUdpDatagram, CloseFlowSlot).
DeliveredIsCurrent ==
  \A c \in Clients : \A i \in 1..Len(pl.clients[c].q) :
     LET e == pl.clients[c].q[i]
     IN IsData(e) => /\ FindFlow(pl, c, e.h)
                     /\ pl.flows[e.h.slot].st = "open"
                     /\ e.from = pl.peer

\* While a client has undelivered control records of at most FlowsPerClient
\* flows, none is dropped: two records a flow and one for the policy are
\* reserved (CompletionQueueCapacity, EnqueueControlCompletion).
ControlNotLost == ~pl.lost

\* A handle that was given out and no longer names a live flow never names one
\* again: neither a reused slot nor a reopened client slot revives it
\* (AllocateFlowGeneration, FindFlow).
Names(h) == Live(pl.flows[h.slot]) /\ pl.flows[h.slot].gen = h.gen
HandleNeverReturns ==
  [][\A s \in FlowSlots, g \in 1..(pl.nextFlow - 1) :
        ~Names([slot |-> s, gen |-> g]) => ~Names([slot |-> s, gen |-> g])']_vars
=============================================================================
