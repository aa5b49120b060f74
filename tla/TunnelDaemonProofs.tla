------------------------- MODULE TunnelDaemonProofs -------------------------
(***************************************************************************)
(* TunnelDaemon implements FlowService, for any number of clients, flows,  *)
(* lane slots and packets: every step of the server thread, the worker and *)
(* the lanes changes the plane as one method of the service does, or not   *)
(* at all.  Two facts make that true.  The plane's policy is always the    *)
(* one of the daemon's active peer, so a command that refreshes it first   *)
(* changes nothing; and every live flow carries that policy, so what the   *)
(* daemon asks for under its active peer is what the service does under    *)
(* the plane's own.                                                        *)
(*                                                                         *)
(* The operators of an instance are operators of their own to the prover:  *)
(* MethodsAreService shows, from the bottom up, that those of Service are  *)
(* the ones of FlowPlane.  What the methods keep is in FlowPlaneProofs.    *)
(***************************************************************************)
EXTENDS TunnelDaemon, FlowPlaneProofs

-----------------------------------------------------------------------------
(* The methods of the plane are those of the service. *)

\* Each method of FlowPlane is the one the instance Service was made of.
LEMMA MethodsAreService ==
  /\ FlowSlots = Service!FlowSlots
  /\ QueueCapacity = Service!QueueCapacity
  /\ NoIdentity = Service!NoIdentity
  /\ NoFlow = Service!NoFlow
  /\ InitPlane = Service!InitPlane
  /\ \A s, f : MakeFlowHandle(s, f) = Service!MakeFlowHandle(s, f)
  /\ \A p, c : CreateClient(p, c) = Service!CreateClient(p, c)
  /\ \A p, c : DestroyClient(p, c) = Service!DestroyClient(p, c)
  /\ \A p, id : InvalidatePeerActivation(p, id) = Service!InvalidatePeerActivation(p, id)
  /\ \A p, id : RefreshPolicy(p, id) = Service!RefreshPolicy(p, id)
  /\ \A p, c, remote, protocol : ReserveStatus(p, c, remote, protocol) =
        Service!ReserveStatus(p, c, remote, protocol)
  /\ \A p : ReservedSlot(p) = Service!ReservedSlot(p)
  /\ \A p, c, remote : ReserveFlow(p, c, remote) = Service!ReserveFlow(p, c, remote)
  /\ \A p, r : CanCommit(p, r) <=> Service!CanCommit(p, r)
  /\ \A p, r : CommitFlowReservation(p, r) = Service!CommitFlowReservation(p, r)
  /\ \A p, r : CancelFlowReservation(p, r) = Service!CancelFlowReservation(p, r)
  /\ \A p, c, h : CloseFlow(p, c, h) = Service!CloseFlow(p, c, h)
  /\ \A p, h, status : CompleteSend(p, h, status) = Service!CompleteSend(p, h, status)
  /\ \A p, id : NotifyOutboundCapacityAvailable(p, id) =
        Service!NotifyOutboundCapacityAvailable(p, id)
  /\ \A p, c, n : ReceiveCompletions(p, c, n) = Service!ReceiveCompletions(p, c, n)
  /\ \A p, h, id, pol : Deliverable(p, h, id, pol) <=> Service!Deliverable(p, h, id, pol)
  /\ \A p, h, id, pol : DeliverInboundUdpDatagram(p, h, id, pol) =
        Service!DeliverInboundUdpDatagram(p, h, id, pol)
<1>1. \A S : Cardinality(S) = Service!Cardinality(S)
  BY Zenon DEF Cardinality, Service!Cardinality
<1>2. FlowSlots = Service!FlowSlots
  BY Zenon DEF FlowSlots, Service!FlowSlots
<1>3. NoIdentity = Service!NoIdentity
  BY Zenon DEF NoIdentity, Service!NoIdentity
<1>4. NoFlow = Service!NoFlow
  BY Zenon, <1>3 DEF NoFlow, Service!NoFlow
<1>5. NoHandle = Service!NoHandle
  BY Zenon DEF NoHandle, Service!NoHandle
<1>6. NoContext = Service!NoContext
  BY Zenon DEF NoContext, Service!NoContext
<1>7. InitPlane = Service!InitPlane
  BY Zenon, <1>2, <1>3, <1>4, <1>6 DEF InitPlane, Service!InitPlane
<1>8. QueueCapacity = Service!QueueCapacity
  BY Zenon DEF QueueCapacity, Service!QueueCapacity
<1>9. \A f : Live(f) <=> Service!Live(f)
  BY Zenon DEF Live, Service!Live
<1>10. \A s, f : MakeFlowHandle(s, f) = Service!MakeFlowHandle(s, f)
  BY Zenon DEF MakeFlowHandle, Service!MakeFlowHandle
<1>11. \A p, c, h : FindFlow(p, c, h) <=> Service!FindFlow(p, c, h)
  BY Zenon, <1>2 DEF FindFlow, Service!FindFlow
<1>12. \A p, c : CreateClient(p, c) = Service!CreateClient(p, c)
  BY Zenon, <1>6 DEF CreateClient, Service!CreateClient
<1>13. \A e : IsData(e) <=> Service!IsData(e)
  BY Zenon DEF IsData, Service!IsData
<1>14. \A q : DataAt(q) = Service!DataAt(q)
  BY Zenon, <1>13 DEF DataAt, Service!DataAt
<1>15. \A q : DataIn(q) = Service!DataIn(q)
  BY Zenon, <1>1, <1>14 DEF DataIn, Service!DataIn
<1>16. \A k, e : NotifyIfNeeded(k, e) <=> Service!NotifyIfNeeded(k, e)
  BY Zenon DEF NotifyIfNeeded, Service!NotifyIfNeeded
<1>17. \A k, e : WithRecord(k, e) = Service!WithRecord(k, e)
  BY Zenon, <1>16 DEF WithRecord, Service!WithRecord
<1>18. \A k, e : WithinReserve(k, e) <=> Service!WithinReserve(k, e)
  BY Zenon, <1>1, <1>5, <1>13 DEF WithinReserve, Service!WithinReserve
<1>19. \A p, c, e : AppendControl(p, c, e) = Service!AppendControl(p, c, e)
  BY Zenon, <1>8, <1>17, <1>18 DEF AppendControl, Service!AppendControl
<1>20. \A p, c, e : EnqueueControlCompletion(p, c, e) =
        Service!EnqueueControlCompletion(p, c, e)
  BY Zenon, <1>19 DEF EnqueueControlCompletion, Service!EnqueueControlCompletion
<1>21. \A p, s : TakeSlab(p, s) = Service!TakeSlab(p, s)
  BY Zenon DEF TakeSlab, Service!TakeSlab
<1>22. \A p, s : GiveSlabBack(p, s) = Service!GiveSlabBack(p, s)
  BY Zenon DEF GiveSlabBack, Service!GiveSlabBack
<1>23. \A p, s, id : EnqueueDataCompletion(p, s, id) =
        Service!EnqueueDataCompletion(p, s, id)
  <2>1. ASSUME NEW p, NEW s, NEW id
        PROVE EnqueueDataCompletion(p, s, id) = Service!EnqueueDataCompletion(p, s, id)
    <3> DEFINE f == p.flows[s]
               k == p.clients[f.owner]
               e == [type |-> "data", h |-> MakeFlowHandle(s, f), from |-> id]
               m == WithRecord(k, e)
               Full == k.data >= DataCapacity \/ Len(k.q) >= QueueCapacity
               w == [p EXCEPT !.clients[f.owner] = [m EXCEPT !.data = @ + 1]]
    <3>1. m = Service!WithRecord(k, [type |-> "data", h |-> Service!MakeFlowHandle(s, f),
                                    from |-> id])
      BY Zenon, <1>10, <1>17
    <3>2. EnqueueDataCompletion(p, s, id) =
            IF Full THEN GiveSlabBack(p, s) ELSE w
      BY Zenon DEF EnqueueDataCompletion
    <3> HIDE DEF m
    <3>3. Service!EnqueueDataCompletion(p, s, id) =
            IF Full THEN Service!GiveSlabBack(p, s) ELSE w
      BY Zenon, <1>8, <3>1 DEF Service!EnqueueDataCompletion
    <3> HIDE DEF Full, w
    <3> QED
      BY <1>22, <3>2, <3>3
  <2> QED
    BY Zenon, <2>1
<1>24. \A q, h : WithoutData(q, h) = Service!WithoutData(q, h)
  BY Zenon DEF WithoutData, Service!WithoutData, IsData, Service!IsData
<1>25. \A p, s : RemoveFlowCompletions(p, s) = Service!RemoveFlowCompletions(p, s)
  BY Zenon, <1>10, <1>15, <1>24 DEF RemoveFlowCompletions, Service!RemoveFlowCompletions
<1>26. \A k, n : Drained(k, n) = Service!Drained(k, n)
  BY Zenon, <1>15 DEF Drained, Service!Drained
<1>27. \A p, c, n, s : ReadOf(p, c, n, s) = Service!ReadOf(p, c, n, s)
  BY Zenon, <1>1, <1>11, <1>13 DEF ReadOf, Service!ReadOf
<1>28. \A p, c, n : ReceiveCompletions(p, c, n) = Service!ReceiveCompletions(p, c, n)
  BY Zenon, <1>2, <1>15, <1>26, <1>27 DEF ReceiveCompletions, Service!ReceiveCompletions
<1>29. \A f : TupleOf(f) = Service!TupleOf(f)
  BY Zenon DEF TupleOf, Service!TupleOf
<1>30. \A p : LiveSlots(p) = Service!LiveSlots(p)
  BY Zenon, <1>2, <1>9 DEF LiveSlots, Service!LiveSlots
<1>31. \A p : HasTombstoneReservation(p) <=> Service!HasTombstoneReservation(p)
  BY Zenon, <1>1, <1>30 DEF HasTombstoneReservation, Service!HasTombstoneReservation
<1>32. \A p, src, remote : FreePorts(p, src, remote) = Service!FreePorts(p, src, remote)
  BY Zenon, <1>29, <1>30 DEF FreePorts, Service!FreePorts
<1>33. \A p, n : Ahead(p, n) = Service!Ahead(p, n)
  BY Zenon DEF Ahead, Service!Ahead
<1>34. \A p, src, remote : NextPort(p, src, remote) = Service!NextPort(p, src, remote)
  BY Zenon, <1>32, <1>33 DEF NextPort, Service!NextPort
<1>35. \A p, s : QuarantineTuple(p, s) = Service!QuarantineTuple(p, s)
  BY Zenon, <1>1, <1>29 DEF QuarantineTuple, Service!QuarantineTuple
<1>36. \A f : ClosedFlow(f) = Service!ClosedFlow(f)
  BY Zenon, <1>4 DEF ClosedFlow, Service!ClosedFlow
<1>37. \A p, s : ShutFlow(p, s) = Service!ShutFlow(p, s)
  BY Zenon, <1>25, <1>35, <1>36 DEF ShutFlow, Service!ShutFlow
<1>38. \A p, s, notify : CloseFlowSlot(p, s, notify) = Service!CloseFlowSlot(p, s, notify)
  BY Zenon, <1>4, <1>10, <1>20, <1>37 DEF CloseFlowSlot, Service!CloseFlowSlot
<1>39. \A p, slots, notify : CloseAll(p, slots, notify) = Service!CloseAll(p, slots, notify)
  BY Zenon, <1>38 DEF CloseAll, Service!CloseAll
<1>40. \A p, c, h : CloseFlow(p, c, h) = Service!CloseFlow(p, c, h)
  BY Zenon, <1>11, <1>38 DEF CloseFlow, Service!CloseFlow
<1>41. \A p, id : InvalidatePeerActivation(p, id) = Service!InvalidatePeerActivation(p, id)
  BY Zenon, <1>2, <1>39 DEF InvalidatePeerActivation, Service!InvalidatePeerActivation
<1>42. \A p, c : DestroyClient(p, c) = Service!DestroyClient(p, c)
  BY ZenonT(40), <1>2, <1>6, <1>15, <1>39 DEF DestroyClient, Service!DestroyClient
<1>43. \A r, a : RouteMatches(r, a) <=> Service!RouteMatches(r, a)
  BY Zenon DEF RouteMatches, Service!RouteMatches
<1>44. \A p, a : SelectRoute(p, a) <=> Service!SelectRoute(p, a)
  BY Zenon, <1>43 DEF SelectRoute, Service!SelectRoute
<1>45. \A p : EnqueuePolicyChanged(p) = Service!EnqueuePolicyChanged(p)
  BY Zenon, <1>5, <1>20 DEF EnqueuePolicyChanged, Service!EnqueuePolicyChanged
<1>46. \A id : RoutesOf(id) = Service!RoutesOf(id)
  BY Zenon, <1>3 DEF RoutesOf, Service!RoutesOf
<1>47. \A id : Usable(id) <=> Service!Usable(id)
  BY Zenon, <1>3, <1>46 DEF Usable, Service!Usable
<1>48. \A p, id : WithPolicy(p, id) = Service!WithPolicy(p, id)
  BY Zenon, <1>3, <1>46, <1>47 DEF WithPolicy, Service!WithPolicy
<1>49. \A p, id : Unchanged(p, id) <=> Service!Unchanged(p, id)
  BY Zenon, <1>3, <1>46, <1>47 DEF Unchanged, Service!Unchanged
<1>50. \A p, id : RefreshPolicy(p, id) = Service!RefreshPolicy(p, id)
  <2>1. ASSUME NEW p, NEW id
        PROVE RefreshPolicy(p, id) = Service!RefreshPolicy(p, id)
    <3> DEFINE new == WithPolicy(p, id)
               gone == {s \in FlowSlots : /\ Live(p.flows[s])
                                           /\ \/ ~new.avail
                                              \/ p.flows[s].peer # id
                                              \/ ~SelectRoute(new, p.flows[s].remote)}
               q == CloseAll(new, gone, TRUE)
               F == [s \in FlowSlots |->
                       IF Live(q.flows[s]) THEN [q.flows[s] EXCEPT !.pol = new.pol]
                       ELSE q.flows[s]]
               new2 == Service!WithPolicy(p, id)
               gone2 == {s \in Service!FlowSlots : /\ Service!Live(p.flows[s])
                                            /\ \/ ~new2.avail
                                               \/ p.flows[s].peer # id
                                               \/ ~Service!SelectRoute(new2,
                                                  p.flows[s].remote)}
               q2 == Service!CloseAll(new2, gone2, TRUE)
               F2 == [s \in Service!FlowSlots |->
                        IF Service!Live(q2.flows[s]) THEN [q2.flows[s] EXCEPT !.pol = new2.pol]
                        ELSE q2.flows[s]]
    <3>1. RefreshPolicy(p, id) = IF Unchanged(p, id) THEN p
                               ELSE EnqueuePolicyChanged([q EXCEPT !.flows = F])
      BY Zenon DEF RefreshPolicy
    <3>2. Service!RefreshPolicy(p, id) = IF Service!Unchanged(p, id) THEN p
                               ELSE Service!EnqueuePolicyChanged([q2 EXCEPT !.flows = F2])
      BY Zenon DEF Service!RefreshPolicy
    <3>3. new = new2
      BY Zenon, <1>48
    <3> HIDE DEF new, new2
    <3>4. gone = gone2
      <4>1. \A s : s \in gone <=> s \in gone2
        BY Zenon, <1>2, <1>9, <1>44, <3>3
      <4> HIDE DEF gone, gone2
      <4> QED
        BY Zenon, <4>1
    <3> HIDE DEF gone, gone2
    <3>5. q = q2
      BY Zenon, <1>39, <3>3, <3>4
    <3> HIDE DEF q, q2
    <3>6. F = F2
      BY Zenon, <1>2, <1>9, <3>3, <3>5
    <3> HIDE DEF F, F2
    <3> QED
      BY Zenon, <1>49, <1>45, <3>1, <3>2, <3>5, <3>6
  <2> QED
    BY Zenon, <2>1
<1>51. \A p : FreeSlots(p) = Service!FreeSlots(p)
  BY Zenon, <1>2, <1>9 DEF FreeSlots, Service!FreeSlots
<1>52. \A p, c : Owned(p, c) = Service!Owned(p, c)
  BY Zenon, <1>30 DEF Owned, Service!Owned
<1>53. \A p, c, remote, protocol : ReserveStatus(p, c, remote, protocol) =
        Service!ReserveStatus(p, c, remote, protocol)
  BY Zenon, <1>1, <1>31, <1>32, <1>44, <1>51, <1>52 DEF ReserveStatus, Service!ReserveStatus
<1>54. \A p : ReservedSlot(p) = Service!ReservedSlot(p)
  BY Zenon, <1>51 DEF ReservedSlot, Service!ReservedSlot
<1>55. \A p, c, remote : ReserveFlow(p, c, remote) = Service!ReserveFlow(p, c, remote)
  BY Zenon, <1>34, <1>54 DEF ReserveFlow, Service!ReserveFlow
<1>56. \A p, r : CanCommit(p, r) <=> Service!CanCommit(p, r)
  BY Zenon, <1>11 DEF CanCommit, Service!CanCommit
<1>57. \A p, r : CommitFlowReservation(p, r) = Service!CommitFlowReservation(p, r)
  BY Zenon DEF CommitFlowReservation, Service!CommitFlowReservation
<1>58. \A p, r : CancelFlowReservation(p, r) = Service!CancelFlowReservation(p, r)
  BY Zenon, <1>4, <1>11 DEF CancelFlowReservation, Service!CancelFlowReservation
<1>59. \A p, h, status : CompleteSend(p, h, status) = Service!CompleteSend(p, h, status)
  BY Zenon DEF CompleteSend, Service!CompleteSend
<1>60. \A p, s : TellWritable(p, s) = Service!TellWritable(p, s)
  BY Zenon, <1>10, <1>20 DEF TellWritable, Service!TellWritable
<1>61. \A p, id : NotifyOutboundCapacityAvailable(p, id) =
        Service!NotifyOutboundCapacityAvailable(p, id)
  <2>1. ASSUME NEW p, NEW id
        PROVE NotifyOutboundCapacityAvailable(p,
           id) = Service!NotifyOutboundCapacityAvailable(p, id)
    <3> DEFINE waiting == {s \in FlowSlots : /\ p.flows[s].st = "open"
                                              /\ p.flows[s].peer = id /\ p.flows[s].waiter}
               F(f) == [i \in 0..FlowCount |->
                          IF i = 0 THEN p
                          ELSE IF i \in waiting THEN TellWritable(f[i - 1],
                             i) ELSE f[i - 1]]
               G(f) == [i \in 0..FlowCount |->
                          IF i = 0 THEN p
                          ELSE IF i \in waiting THEN Service!TellWritable(f[i - 1],
                             i) ELSE f[i - 1]]
    <3>1. \A f : F(f) = G(f)
      BY Zenon, <1>60
    <3>2. NotifyOutboundCapacityAvailable(p, id) = (CHOOSE f : f = F(f))[FlowCount]
      BY Zenon DEF NotifyOutboundCapacityAvailable
    <3>3. Service!NotifyOutboundCapacityAvailable(p, id) = (CHOOSE f : f = G(f))[FlowCount]
      BY Zenon DEF Service!NotifyOutboundCapacityAvailable, FlowSlots, Service!FlowSlots
    <3> HIDE DEF F, G
    <3> QED
      BY Zenon, <3>1, <3>2, <3>3
  <2> QED
    BY Zenon, <2>1
<1>62. \A p, h, id, pol : Deliverable(p, h, id, pol) <=> Service!Deliverable(p, h, id, pol)
  BY Zenon, <1>2 DEF Deliverable, Service!Deliverable
<1>63. \A p, h, id, pol : DeliverInboundUdpDatagram(p, h, id, pol) =
        Service!DeliverInboundUdpDatagram(p, h, id, pol)
  BY Zenon, <1>21, <1>23, <1>62 DEF DeliverInboundUdpDatagram,
     Service!DeliverInboundUdpDatagram
<1> QED
  BY Zenon, <1>2, <1>8, <1>3, <1>4, <1>7, <1>10, <1>12, <1>42, <1>41, <1>50, <1>53,
     <1>54, <1>55, <1>56, <1>57, <1>58, <1>40, <1>59, <1>61, <1>28, <1>62, <1>63

-----------------------------------------------------------------------------
(* What the daemon keeps. *)

IpcFields == {"pc", "cmd", "c", "h", "ticket", "peer", "pol", "rest", "accepted"}
IpcRecord(i) == i = [x \in IpcFields |-> i[x]]
\* A send works on a handle that names a slot; only a destroyed client has
\* handles left over.
IpcSafe(i) == /\ IpcRecord(i)
              /\ i.cmd = "send" => i.h.slot \in FlowSlots
              /\ i.pc = "next" => i.cmd = "destroy"
NetRecord(n) ==
  n = [active |-> n.active, gen |-> n.gen, proto |-> n.proto, staged |-> n.staged]
Activations(n) == {NoIdentity} \union (Peers \X (1..n))

\* The server thread's state and the daemon's active peer, and the policy of
\* the plane, which is that of the active peer.
DaemonInv ==
  /\ IpcSafe(ipc) /\ NetRecord(net)
  /\ net.gen \in Nat /\ net.active \in Activations(net.gen)
  /\ Unchanged(pl, net.active)

\* Every live flow has an owner and the plane's present policy.
FlowsAreCurrent ==
  /\ pl.pol \in Nat
  /\ \A s \in FlowSlots : Live(pl.flows[s]) =>
       /\ pl.flows[s].owner \in Clients /\ pl.flows[s].peer \in Peers \X Nat
       /\ pl.flows[s].peer = pl.peer /\ pl.flows[s].pol = pl.pol

\* A refresh under the active peer changes nothing (RefreshPolicy returns early).
LEMMA RefreshIsIdle ==
  ASSUME DaemonInv
  PROVE RefreshPolicy(pl, net.active) = pl
  BY Zenon DEF DaemonInv, RefreshPolicy

\* The plane's peer is the active one, or none when that cannot be used; it is
\* one that the service has seen.
LEMMA PeerIsActive ==
  ASSUME DaemonInv
  PROVE /\ pl.peer = net.active \/ pl.peer = NoIdentity
        /\ pl.peer \in Activations(net.gen)
        /\ net.active = NoIdentity => pl.peer = NoIdentity
  BY Zenon DEF DaemonInv, Unchanged, Activations

\* Without a usable peer there is no live flow.
LEMMA NoPeerNoFlow ==
  ASSUME FlowsAreCurrent, pl.peer = NoIdentity
  PROVE \A s \in FlowSlots : ~Live(pl.flows[s])
<1>1. NoIdentity \notin Peers \X Nat
  BY FlowConstants DEF NoIdentity
<1> QED
  BY Zenon, <1>1 DEF FlowsAreCurrent

\* So the active peer's flows are those of the plane's peer.
LEMMA SameFlowsEitherWay ==
  ASSUME DaemonInv, FlowsAreCurrent, NEW s \in FlowSlots, pl.flows[s].st = "open"
  PROVE pl.flows[s].peer = net.active /\ pl.flows[s].peer = pl.peer
<1>1. Live(pl.flows[s])
  BY Zenon DEF Live
<1>2. pl.peer # NoIdentity
  BY Zenon, <1>1, NoPeerNoFlow
<1> QED
  BY Zenon, <1>1, <1>2, PeerIsActive DEF FlowsAreCurrent

\* NotifyOutboundCapacityAvailable reaches the same waiters under either name.
LEMMA SameWaiters ==
  ASSUME DaemonInv, FlowsAreCurrent
  PROVE NotifyOutboundCapacityAvailable(pl, net.active) =
          NotifyOutboundCapacityAvailable(pl, pl.peer)
<1> DEFINE W(id) == {s \in FlowSlots : /\ pl.flows[s].st = "open"
                                       /\ pl.flows[s].peer = id /\ pl.flows[s].waiter}
           G(w) == LET step[i \in 0..FlowCount] ==
                         IF i = 0 THEN pl
                         ELSE IF i \in w THEN TellWritable(step[i - 1], i) ELSE step[i - 1]
                   IN step[FlowCount]
<1>1. \A id : NotifyOutboundCapacityAvailable(pl, id) = G(W(id))
  BY Zenon DEF NotifyOutboundCapacityAvailable
<1>2. W(net.active) = W(pl.peer)
  BY Zenon, SameFlowsEitherWay
<1> HIDE DEF G, W
<1> QED
  BY Zenon, <1>1, <1>2

\* InvalidatePeerActivation closes the same flows under either name.
LEMMA SameInvalidated ==
  ASSUME DaemonInv, FlowsAreCurrent
  PROVE InvalidatePeerActivation(pl, net.active) = InvalidatePeerActivation(pl, pl.peer)
<1> DEFINE O(id) == {s \in FlowSlots : pl.flows[s].st = "open" /\ pl.flows[s].peer = id}
<1>1. \A id : InvalidatePeerActivation(pl, id) = CloseAll(pl, O(id), TRUE)
  BY Zenon DEF InvalidatePeerActivation
<1>2. O(net.active) = O(pl.peer)
  BY Zenon, SameFlowsEitherWay
<1> HIDE DEF O
<1> QED
  BY Zenon, <1>1, <1>2

-----------------------------------------------------------------------------
(* What each step does to the plane. *)

\* A use of the service by a step that leaves the activations alone.
Steady == Service!Use \/ (pl' = pl /\ net'.gen = net.gen)

\* net keeps its activations when only the staged count or the protocol change.
LEMMA NetUpdated ==
  ASSUME NetRecord(net), NEW n, NEW x,
         net' = [net EXCEPT !.staged = n] \/ net' = [net EXCEPT !.proto = x]
           \/ net' = [net EXCEPT !.proto = x, !.staged = n] \/ net' = net
  PROVE NetRecord(net') /\ net'.gen = net.gen /\ net'.active = net.active
  BY DEF NetRecord

\* CreateTunnelClient is Create.
LEMMA CreateIsUse ==
  ASSUME DaemonInv, CreateTunnelClient
  PROVE Service!Use
<1>1. PICK c \in Clients : ~pl.clients[c].open /\ pl' = CreateClient(pl, c) /\ net' = net
  BY Zenon, RefreshIsIdle DEF CreateTunnelClient
<1>2. Service!Create(c)
  BY Zenon, <1>1, MethodsAreService DEF Service!Create
<1> QED
  BY Zenon, <1>2 DEF Service!Use

\* OpenTunnelConnectedUdpFlow reserves, and gives the reservation up at once
\* when the adapter's slot is taken.
LEMMA OpenIsUse ==
  ASSUME DaemonInv, NEW c \in Clients, NEW remote \in Remotes, OpenFlow(c, remote)
  PROVE Service!Use
<1> DEFINE r == ReserveFlow(pl, c, remote)
           s == ReservedSlot(pl)
<1>1. /\ ReserveStatus(pl, c, remote, Instantiated) = "Success"
      /\ pl.nextFlow <= MaxFlows /\ net' = net
      /\ pl' = r \/ pl' = [r EXCEPT !.flows[s] = NoFlow]
  BY Zenon, RefreshIsIdle DEF OpenFlow
<1>2. ReserveStatus(pl, c, remote, TRUE) = "Success"
  <2>1. Instantiated
    BY <1>1 DEF ReserveStatus
  <2> QED
    BY <1>1, <2>1 DEF ReserveStatus
<1>3. Service!ReserveStatus(pl, c, remote, TRUE) = "Success"
  BY Zenon, <1>2, MethodsAreService
<1>4. Service!Reserve(c, remote) \/ Service!ReserveAndCancel(c, remote)
  <2>1. r = Service!ReserveFlow(pl, c, remote)
    BY Zenon, MethodsAreService
  <2>2. s = Service!ReservedSlot(pl) /\ NoFlow = Service!NoFlow
    BY Zenon, MethodsAreService
  <2> HIDE DEF r, s
  <2> QED
    BY Zenon, <1>1, <1>3, <2>1, <2>2 DEF Service!Reserve, Service!ReserveAndCancel
<1> QED
  BY Zenon, <1>4 DEF Service!Use

\* The handles a command may be given are those the service gave out.
LEMMA HandlesAgree ==
  ASSUME NEW c
  PROVE Handles(c) = Service!HandlesOf(c)
  BY Zenon, MethodsAreService DEF Handles, Service!HandlesOf

\* The handle of a live flow belongs to a client.
LEMMA LiveHandle ==
  ASSUME FlowsAreCurrent, NEW s \in FlowSlots, Live(pl.flows[s])
  PROVE \E c \in Clients : MakeFlowHandle(s, pl.flows[s]) \in Service!HandlesOf(c)
<1>1. pl.flows[s].owner \in Clients
  BY Zenon DEF FlowsAreCurrent
<1>2. MakeFlowHandle(s, pl.flows[s]) \in Handles(pl.flows[s].owner)
  BY Zenon DEF Handles
<1> QED
  BY Zenon, <1>1, <1>2, HandlesAgree

\* CompleteSend, by whichever command, is SendDone or changes nothing.
LEMMA SendIsUse ==
  ASSUME FlowsAreCurrent, NEW h, h.slot \in FlowSlots, NEW status,
         pl' = CompleteSend(pl, h, status), net'.gen = net.gen
  PROVE Steady
<1> DEFINE f == pl.flows[h.slot]
           g == MakeFlowHandle(h.slot, f)
<1>1. CASE f.gen # h.gen \/ f.st # "open" \/ status \notin {"QueueFull", "Success"}
  <2>1. pl' = pl
    BY <1>1 DEF CompleteSend
  <2> QED
    BY <2>1 DEF Steady
<1>2. CASE f.gen = h.gen /\ f.st = "open" /\ status \in {"QueueFull", "Success"}
  <2>1. PICK c \in Clients : g \in Service!HandlesOf(c)
    BY Zenon, <1>2, LiveHandle DEF Live
  <2>2. g.slot = h.slot /\ g.gen = h.gen
    BY <1>2 DEF MakeFlowHandle
  <2> HIDE DEF g, f
  <2>3. CompleteSend(pl, g, status) = CompleteSend(pl, h, status)
    BY Zenon, <2>2 DEF CompleteSend
  <2>4. Service!SendDone(g, status)
    BY Zenon, <2>3, MethodsAreService DEF Service!SendDone
  <2> QED
    BY Zenon, <1>2, <2>1, <2>4 DEF Service!Use, Steady
<1> QED
  BY Zenon, <1>1, <1>2

\* SendTunnelDatagram is queued, or refused with QueueFull.
LEMMA SendDatagramIsUse ==
  ASSUME DaemonInv, FlowsAreCurrent, NEW c \in Clients, NEW h \in Handles(c),
         SendDatagram(c, h)
  PROVE Steady /\ h.slot \in FlowSlots
<1>1. h.slot \in FlowSlots
  BY DEF Handles, MakeFlowHandle
<1>2. (pl' = pl \/ pl' = CompleteSend(pl, h, "QueueFull")) /\ net' = net
  BY Zenon, RefreshIsIdle DEF SendDatagram
<1> QED
  BY Zenon, <1>1, <1>2, SendIsUse DEF Steady

\* DestroyTunnelClient is Destroy, and ReceiveTunnelCompletions is Receive.
LEMMA DestroyIsUse ==
  ASSUME NEW c \in Clients, DestroyTunnelClient(c)
  PROVE Service!Use
<1>1. Service!Destroy(c)
  BY Zenon, MethodsAreService DEF DestroyTunnelClient, Service!Destroy
<1> QED
  BY Zenon, <1>1 DEF Service!Use

\* So is reading completions.
LEMMA ReceiveIsUse ==
  ASSUME NEW c \in Clients, NEW n \in 1..QueueCapacity, ReceiveTunnelCompletions(c, n)
  PROVE Service!Use
<1>1. Service!Receive(c, n)
  BY Zenon, MethodsAreService DEF ReceiveTunnelCompletions, Service!Receive
<1> QED
  BY Zenon, <1>1, MethodsAreService DEF Service!Use

\* The service's reservation of a slot is the one of FlowPlaneProofs.
LEMMA ReservationsAgree == \A s : ReservationAt(pl, s) = Service!ReservationOf(s)
  BY Zenon, MethodsAreService DEF ReservationAt, Service!ReservationOf

\* A reservation that is cancelled is still pending, or nothing changes.
LEMMA CancelIsUse ==
  ASSUME NEW r, pl' = CancelFlowReservation(pl, r), net'.gen = net.gen
  PROVE Steady
<1> DEFINE s == r.h.slot
           q == ReservationAt(pl, s)
<1>1. CASE FindFlow(pl, r.client, r.h) /\ pl.flows[s].st = "pending"
  <2>1. s \in FlowSlots /\ pl.flows[s].gen = r.h.gen /\ pl.flows[s].owner = r.client
    BY Zenon, <1>1 DEF FindFlow
  <2>2. q.client = r.client /\ q.h.slot = s /\ q.h.gen = r.h.gen
    BY <2>1 DEF ReservationAt, MakeFlowHandle
  <2> HIDE DEF s, q
  <2>3. FindFlow(pl, q.client, q.h) <=> FindFlow(pl, r.client, r.h)
    BY <2>2 DEF FindFlow, s
  <2>4. CancelFlowReservation(pl, q) = CancelFlowReservation(pl, r)
    BY Zenon, <2>2, <2>3 DEF CancelFlowReservation, s
  <2>5. Service!CancelReservation(s)
    BY Zenon, <1>1, <2>4, MethodsAreService, ReservationsAgree
       DEF Service!CancelReservation, q
  <2> QED
    BY Zenon, <2>1, <2>5, MethodsAreService DEF Service!Use, Steady
<1>2. CASE ~(FindFlow(pl, r.client, r.h) /\ pl.flows[s].st = "pending")
  BY Zenon, <1>2 DEF CancelFlowReservation, Steady
<1> QED
  BY Zenon, <1>1, <1>2

\* A reservation that is committed carries the present policy.
LEMMA CommitIsUse ==
  ASSUME FlowsAreCurrent, NEW r, CanCommit(pl, r), pl' = CommitFlowReservation(pl, r),
         net'.gen = net.gen
  PROVE Steady
<1> DEFINE s == r.h.slot
           q == ReservationAt(pl, s)
<1>1. /\ s \in FlowSlots /\ pl.flows[s].st = "pending" /\ pl.flows[s].peer = r.peer
      /\ FindFlow(pl, r.client, r.h) /\ pl.peer = r.peer
      /\ pl.flows[s].gen = r.h.gen /\ pl.flows[s].owner = r.client
  BY Zenon DEF CanCommit, FindFlow
<1>2. pl.flows[s].pol = pl.pol
  BY Zenon, <1>1 DEF FlowsAreCurrent, Live
<1>3. /\ q.client = r.client /\ q.h.slot = s /\ q.h.gen = r.h.gen
      /\ q.peer = r.peer /\ q.pol = pl.pol
  BY <1>1, <1>2 DEF ReservationAt, MakeFlowHandle
<1> HIDE DEF q, s
<1>4. FindFlow(pl, q.client, q.h)
  BY Zenon, <1>1, <1>3 DEF FindFlow, s
<1>5. CanCommit(pl, q)
  BY Zenon, <1>1, <1>3, <1>4 DEF CanCommit
<1>6. CommitFlowReservation(pl, q) = CommitFlowReservation(pl, r)
  BY Zenon, <1>3 DEF CommitFlowReservation, s
<1>7. Service!Commit(s)
  BY Zenon, <1>1, <1>5, <1>6, MethodsAreService, ReservationsAgree DEF Service!Commit, q
<1> QED
  BY Zenon, <1>1, <1>7, MethodsAreService DEF Service!Use, Steady

\* CloseFlow, marked by the server thread, is Close of a live flow or nothing.
LEMMA CloseIsUse ==
  ASSUME FlowsAreCurrent, NEW c, NEW h, pl' = CloseFlow(pl, c, h), net'.gen = net.gen
  PROVE Steady
<1> DEFINE s == h.slot
           g == MakeFlowHandle(s, pl.flows[s])
<1>1. CASE ~FindFlow(pl, c, h)
  BY Zenon, <1>1 DEF CloseFlow, Steady
<1>2. CASE FindFlow(pl, c, h) /\ ~Live(pl.flows[s])
  <2>1. CloseFlowSlot(pl, s, TRUE) = pl
    BY <1>2 DEF CloseFlowSlot, Live
  <2> QED
    BY Zenon, <1>2, <2>1 DEF CloseFlow, Steady
<1>3. CASE FindFlow(pl, c, h) /\ Live(pl.flows[s])
  <2>1. s \in FlowSlots /\ pl.flows[s].gen = h.gen /\ pl.flows[s].owner = c
    BY Zenon, <1>3 DEF FindFlow
  <2>2. c \in Clients
    BY Zenon, <1>3, <2>1 DEF FlowsAreCurrent
  <2>3. g \in Service!HandlesOf(c)
    BY Zenon, <2>1, HandlesAgree DEF Handles
  <2>4. g.slot = s /\ g.gen = h.gen
    BY <2>1 DEF MakeFlowHandle
  <2> HIDE DEF g, s
  <2>5. FindFlow(pl, c, g) <=> FindFlow(pl, c, h)
    BY Zenon, <2>4 DEF FindFlow, s
  <2>6. CloseFlow(pl, c, g) = CloseFlow(pl, c, h)
    BY Zenon, <2>4, <2>5 DEF CloseFlow, s
  <2>7. Service!Close(c, g)
    BY Zenon, <2>6, MethodsAreService DEF Service!Close
  <2> QED
    BY Zenon, <2>2, <2>3, <2>7 DEF Service!Use, Steady
<1> QED
  BY Zenon, <1>1, <1>2, <1>3

\* A datagram goes to a flow of the present policy, or nowhere.
LEMMA DeliveryIsUse ==
  ASSUME DaemonInv, FlowsAreCurrent, NEW h, NEW id, NEW pol,
         pl' = DeliverInboundUdpDatagram(pl, h, id, pol), net'.gen = net.gen
  PROVE Steady
<1> DEFINE s == h.slot
           g == MakeFlowHandle(s, pl.flows[s])
<1>1. CASE ~Deliverable(pl, h, id, pol)
  BY Zenon, <1>1 DEF DeliverInboundUdpDatagram, Steady
<1>2. CASE Deliverable(pl, h, id, pol)
  <2>1. /\ s \in FlowSlots /\ pl.flows[s].gen = h.gen /\ pl.flows[s].st = "open"
        /\ pl.pol = pol /\ pl.peer = id
    BY Zenon, <1>2 DEF Deliverable
  <2>2. PICK c \in Clients : g \in Service!HandlesOf(c)
    BY Zenon, <2>1, LiveHandle DEF Live
  <2>3. g.slot = s /\ g.gen = h.gen
    BY <2>1 DEF MakeFlowHandle
  <2> HIDE DEF g, s
  <2>4. Deliverable(pl, g, id, pol)
    BY Zenon, <1>2, <2>3 DEF Deliverable, s
  <2>5. DeliverInboundUdpDatagram(pl, g, id, pol) = DeliverInboundUdpDatagram(pl, h, id, pol)
    BY Zenon, <1>2, <2>3, <2>4 DEF DeliverInboundUdpDatagram, s
  <2>6. Service!Deliver(g, id, pol)
    BY Zenon, <2>4, <2>5, MethodsAreService DEF Service!Deliver
  <2>7. id \in Service!Seen
    BY Zenon, <2>1, PeerIsActive, MethodsAreService DEF Activations, Service!Seen
  <2>8. pol \in 0..pl.pol
    BY <2>1 DEF FlowsAreCurrent
  <2> QED
    BY Zenon, <2>2, <2>6, <2>7, <2>8 DEF Service!Use, Steady
<1> QED
  BY Zenon, <1>1, <1>2

\* Of the commands, all but SetActivePeer use the service or leave it alone.
LEMMA CommandIsUse ==
  ASSUME DaemonInv, FlowsAreCurrent, Command,
         \A p \in Peers \union {NoPeer} : ~SetActivePeer(p)
  PROVE Steady
<1> USE DEF Steady
<1>1. CASE CreateTunnelClient
  BY Zenon, <1>1, CreateIsUse
<1>2. CASE TriggerDebugPayload
  BY Zenon, <1>2 DEF TriggerDebugPayload
<1>3. ASSUME NEW c \in Clients, DestroyTunnelClient(c)
      PROVE Steady
  BY Zenon, <1>3, DestroyIsUse
<1>4. ASSUME NEW c \in Clients, NEW a \in Remotes, OpenFlow(c, a)
      PROVE Steady
  BY Zenon, <1>4, OpenIsUse
<1>5. ASSUME NEW c \in Clients, NEW h \in Handles(c), SendDatagram(c, h)
      PROVE Steady
  BY Zenon, <1>5, SendDatagramIsUse
<1>6. ASSUME NEW c \in Clients, NEW h \in Handles(c), CloseTunnelFlow(c, h)
      PROVE Steady
  BY Zenon, <1>6 DEF CloseTunnelFlow
<1>7. ASSUME NEW c \in Clients, NEW n \in 1..QueueCapacity, ReceiveTunnelCompletions(c, n)
      PROVE Steady
  BY Zenon, <1>7, ReceiveIsUse
<1>8. ASSUME NEW p \in Processes, SubmitInnerIpv4Packet(p)
      PROVE Steady
  <2>1. pl' = pl /\ \E n : net' = [net EXCEPT !.staged = n]
    BY Zenon, <1>8 DEF SubmitInnerIpv4Packet
  <2> QED
    BY Zenon, <2>1, NetUpdated DEF DaemonInv
<1>9. ASSUME NEW p \in Processes, ReceiveInnerIpv4Packet(p)
      PROVE Steady
  BY Zenon, <1>9 DEF ReceiveInnerIpv4Packet
<1> HIDE DEF Steady
<1> QED
  BY Zenon, <1>1, <1>2, <1>3, <1>4, <1>5, <1>6, <1>7, <1>8, <1>9 DEF Command

\* So do the steps inside a command.
LEMMA IpcStepIsUse ==
  ASSUME DaemonInv, FlowsAreCurrent, IpcStep
  PROVE Steady
<1>1. CASE DestroyNext \/ IpcQueue \/ IpcFlush \/ FinishClose
  BY Zenon, <1>1 DEF DestroyNext, IpcQueue, IpcFlush, FinishClose, Steady
<1>2. CASE IpcCancel
  <2> DEFINE r == [client |-> ipc.c, h |-> ipc.h]
  <2>1. net' = net /\ (pl' = pl \/ pl' = CancelFlowReservation(pl, r))
    BY Zenon, <1>2 DEF IpcCancel
  <2> HIDE DEF r
  <2> QED
    BY Zenon, <2>1, CancelIsUse DEF Steady
<1>3. CASE IpcMark
  BY Zenon, <1>3, CloseIsUse DEF IpcMark
<1>4. CASE FinishOpen
  <2> DEFINE r == [client |-> ipc.c, h |-> ipc.h, peer |-> ipc.peer, pol |-> ipc.pol]
  <2>1. /\ net' = net
        /\ \/ CanCommit(pl, r) /\ pl' = CommitFlowReservation(pl, r)
           \/ pl' = CancelFlowReservation(pl, r)
    BY Zenon, <1>4 DEF FinishOpen
  <2> HIDE DEF r
  <2> QED
    BY Zenon, <2>1, CancelIsUse, CommitIsUse
<1>5. CASE FinishSend
  <2>1. /\ \E status : pl' = CompleteSend(pl, ipc.h, status)
        /\ net' = net \/ \E n : net' = [net EXCEPT !.staged = n]
        /\ ipc.cmd = "send"
    BY Zenon, <1>5 DEF FinishSend
  <2>2. net'.gen = net.gen
    BY Zenon, <2>1, NetUpdated DEF DaemonInv
  <2> QED
    BY Zenon, <2>1, <2>2, SendIsUse DEF DaemonInv, IpcSafe
<1> QED
  BY Zenon, <1>1, <1>2, <1>3, <1>4, <1>5 DEF IpcStep

\* Of the worker's steps only the end of an input reaches the plane.
LEMMA WorkerStepIsUse ==
  ASSUME DaemonInv, FlowsAreCurrent, WorkerStep
  PROVE Steady
<1>1. CASE Dequeue \/ FinishOther \/ WorkerTake \/ WorkerFence \/ WorkerExecute \/ WorkerReturn
  BY Zenon, <1>1 DEF Dequeue, FinishOther, WorkerTake, WorkerFence, WorkerExecute,
     WorkerReturn, Steady
<1>2. CASE WorkerDone
  <2>1. /\ net' = net
        /\ \/ pl' = pl
           \/ \E h : pl' = DeliverInboundUdpDatagram(pl, h, wk.op.peer, wk.op.pol)
    BY Zenon, <1>2 DEF WorkerDone
  <2> QED
    BY Zenon, <2>1, DeliveryIsUse DEF Steady
<1> QED
  BY Zenon, <1>1, <1>2 DEF WorkerStep

\* Every step but SetActivePeer uses the service or leaves it alone.
LEMMA NextIsUse ==
  ASSUME DaemonInv, FlowsAreCurrent, [Next]_vars,
         \A p \in Peers \union {NoPeer} : ~SetActivePeer(p)
  PROVE Steady
<1>1. CASE Command
  BY Zenon, <1>1, CommandIsUse
<1>2. CASE IpcStep
  BY Zenon, <1>2, IpcStepIsUse
<1>3. CASE WorkerStep
  BY Zenon, <1>3, WorkerStepIsUse
<1>4. CASE LaneStep
  BY Zenon, <1>4 DEF LaneStep, PublishQueue, PublishCancel, TimeoutQueue, Steady
<1>5. CASE PublishDecryptedPacket \/ UserspaceIpTimeout \/ QueueInnerPacketSubmission
  BY Zenon, <1>5 DEF PublishDecryptedPacket, UserspaceIpTimeout,
     QueueInnerPacketSubmission, Steady
<1>6. CASE InstantiateProtocol \/ EnterActivationError \/ ClearStaged
  <2>1. /\ pl' = pl
        /\ \E n, x : \/ net' = [net EXCEPT !.staged = n] \/ net' = [net EXCEPT !.proto = x]
                     \/ net' = [net EXCEPT !.proto = x, !.staged = n]
    BY Zenon, <1>6 DEF InstantiateProtocol, EnterActivationError, ClearStaged
  <2> QED
    BY Zenon, <2>1, NetUpdated DEF DaemonInv, Steady
<1>7. CASE RetireStaged
  <2>1. net'.gen = net.gen
    BY Zenon, <1>7, NetUpdated DEF DaemonInv, RetireStaged
  <2>2. Service!CapacityAvailable
    BY Zenon, <1>7, <2>1, SameWaiters, MethodsAreService
       DEF RetireStaged, Service!CapacityAvailable
  <2> QED
    BY Zenon, <2>2 DEF Service!Use, Steady
<1>8. CASE ExpireTombstone
  <2>1. PICK t \in pl.tombs : pl' = [pl EXCEPT !.tombs = @ \ {t}] /\ net' = net
    BY Zenon, <1>8 DEF ExpireTombstone
  <2>2. Service!Expire(t)
    BY Zenon, <2>1 DEF Service!Expire
  <2> QED
    BY Zenon, <2>2 DEF Service!Use, Steady
<1>9. CASE Aborted \/ UNCHANGED vars
  BY Zenon, <1>9 DEF Aborted, vars, Steady
<1> QED
  BY Zenon, <1>1, <1>2, <1>3, <1>4, <1>5, <1>6, <1>7, <1>8, <1>9 DEF Next

-----------------------------------------------------------------------------
(* The daemon's part of the invariant. *)

Restaged == \E n : net' = [net EXCEPT !.staged = n]

\* Only SetActivePeer changes the active peer.
LEMMA NetKept ==
  ASSUME DaemonInv, [Next]_vars, \A p \in Peers \union {NoPeer} : ~SetActivePeer(p)
  PROVE NetRecord(net') /\ net'.gen = net.gen /\ net'.active = net.active
<1>1. CASE Command
  <2>1. net' = net \/ Restaged
    BY Zenon, <1>1 DEF Command, CreateTunnelClient, TriggerDebugPayload,
       DestroyTunnelClient, OpenFlow, SendDatagram, CloseTunnelFlow,
       ReceiveTunnelCompletions, SubmitInnerIpv4Packet, ReceiveInnerIpv4Packet, Restaged
  <2> QED
    BY Zenon, <2>1, NetUpdated DEF DaemonInv, Restaged
<1>2. CASE IpcStep
  <2>1. net' = net \/ Restaged
    BY Zenon, <1>2 DEF IpcStep, DestroyNext, IpcQueue, IpcCancel, IpcMark, IpcFlush,
       FinishOpen, FinishSend, FinishClose, Restaged
  <2> QED
    BY Zenon, <2>1, NetUpdated DEF DaemonInv, Restaged
<1>3. CASE WorkerStep
  <2>1. net' = net
    BY Zenon, <1>3 DEF WorkerStep, Dequeue, FinishOther, WorkerTake, WorkerFence,
       WorkerExecute, WorkerDone, WorkerReturn
  <2> QED
    BY Zenon, <2>1 DEF DaemonInv
<1>4. CASE LaneStep \/ PublishDecryptedPacket \/ UserspaceIpTimeout
             \/ QueueInnerPacketSubmission \/ ExpireTombstone \/ Aborted \/ UNCHANGED vars
  <2>1. net' = net
    BY Zenon, <1>4 DEF LaneStep, PublishQueue, PublishCancel, TimeoutQueue,
       PublishDecryptedPacket, UserspaceIpTimeout, QueueInnerPacketSubmission,
       ExpireTombstone, Aborted, vars
  <2> QED
    BY Zenon, <2>1 DEF DaemonInv
<1>5. CASE InstantiateProtocol \/ EnterActivationError \/ RetireStaged \/ ClearStaged
  <2>1. \E n, x : \/ net' = [net EXCEPT !.staged = n] \/ net' = [net EXCEPT !.proto = x]
                  \/ net' = [net EXCEPT !.proto = x, !.staged = n]
    BY Zenon, <1>5 DEF InstantiateProtocol, EnterActivationError, RetireStaged, ClearStaged
  <2> QED
    BY Zenon, <2>1, NetUpdated DEF DaemonInv
<1> QED
  BY Zenon, <1>1, <1>2, <1>3, <1>4, <1>5 DEF Next

\* The server thread at the start of each command.
ActivateIpc ==
  [IdleIpc EXCEPT !.pc = "lane", !.cmd = "activate"]
DestroyIpc(rest) ==
  [IdleIpc EXCEPT !.pc = "next", !.cmd = "destroy", !.rest = rest]
OpenIpc(c, h, t, d, n) ==
  [IdleIpc EXCEPT !.pc = "lane", !.cmd = "open", !.c = c, !.h = h,
                   !.ticket = t, !.peer = d, !.pol = n]
CloseIpc(c, h, t) ==
  [IdleIpc EXCEPT !.pc = "lane", !.cmd = "close", !.c = c, !.h = h,
                   !.ticket = t]
SendIpc(c, h, t) ==
  [IdleIpc EXCEPT !.pc = "lane", !.cmd = "send", !.c = c, !.h = h,
                   !.ticket = t]

\* Every command starts from an idle thread.
LEMMA StartIsSafe ==
  ASSUME NEW c, NEW h, NEW t, NEW d, NEW n, NEW rest
  PROVE /\ IpcSafe(IdleIpc) /\ IpcSafe(ActivateIpc) /\ IpcSafe(DestroyIpc(rest))
        /\ IpcSafe(OpenIpc(c, h, t, d, n)) /\ IpcSafe(CloseIpc(c, h, t))
        /\ h.slot \in FlowSlots => IpcSafe(SendIpc(c, h, t))
<1>1. IpcRecord(IdleIpc)
  BY DEF IpcRecord, IpcFields, IdleIpc
<1>2. IpcSafe(IdleIpc)
  BY <1>1 DEF IpcSafe, IdleIpc
<1>3. IpcSafe(ActivateIpc)
  <2> DEFINE j == ActivateIpc
  <2>1. IpcRecord(j) /\ j.cmd = "activate" /\ j.pc = "lane"
    BY <1>1 DEF IpcRecord, IpcFields, ActivateIpc
  <2> HIDE DEF j
  <2> QED
    BY <2>1 DEF IpcSafe, j
<1>4. IpcSafe(DestroyIpc(rest))
  <2> DEFINE j == DestroyIpc(rest)
  <2>1. IpcRecord(j) /\ j.cmd = "destroy" /\ j.pc = "next"
    BY <1>1 DEF IpcRecord, IpcFields, DestroyIpc
  <2> HIDE DEF j
  <2> QED
    BY <2>1 DEF IpcSafe, j
<1>5. IpcSafe(OpenIpc(c, h, t, d, n))
  <2> DEFINE j == OpenIpc(c, h, t, d, n)
  <2>1. IpcRecord(j) /\ j.cmd = "open" /\ j.pc = "lane"
    BY <1>1 DEF IpcRecord, IpcFields, OpenIpc
  <2> HIDE DEF j
  <2> QED
    BY <2>1 DEF IpcSafe, j
<1>6. IpcSafe(CloseIpc(c, h, t))
  <2> DEFINE j == CloseIpc(c, h, t)
  <2>1. IpcRecord(j) /\ j.cmd = "close" /\ j.pc = "lane"
    BY <1>1 DEF IpcRecord, IpcFields, CloseIpc
  <2> HIDE DEF j
  <2> QED
    BY <2>1 DEF IpcSafe, j
<1>7. ASSUME h.slot \in FlowSlots
      PROVE IpcSafe(SendIpc(c, h, t))
  <2> DEFINE j == SendIpc(c, h, t)
  <2>1. IpcRecord(j) /\ j.cmd = "send" /\ j.pc = "lane" /\ j.h = h
    BY <1>1 DEF IpcRecord, IpcFields, SendIpc
  <2> HIDE DEF j
  <2> QED
    BY <1>7, <2>1 DEF IpcSafe, j
<1> QED
  BY Zenon, <1>2, <1>3, <1>4, <1>5, <1>6, <1>7

At(pc) == [ipc EXCEPT !.pc = pc]
AtAccepted(pc, b) == [ipc EXCEPT !.pc = pc, !.accepted = b]

\* A command under way keeps its kind and handle.
LEMMA UpdateIsSafe ==
  ASSUME IpcSafe(ipc), NEW pc, pc # "next", NEW b
  PROVE IpcSafe(At(pc)) /\ IpcSafe(AtAccepted(pc, b))
<1>1. IpcSafe(At(pc))
  <2> DEFINE j == At(pc)
  <2>1. IpcRecord(j) /\ j.cmd = ipc.cmd /\ j.h = ipc.h /\ j.pc = pc
    BY DEF IpcSafe, IpcRecord, IpcFields, At, AtAccepted
  <2> HIDE DEF j
  <2> QED
    BY <2>1 DEF IpcSafe, j
<1>2. IpcSafe(AtAccepted(pc, b))
  <2> DEFINE j == AtAccepted(pc, b)
  <2>1. IpcRecord(j) /\ j.cmd = ipc.cmd /\ j.h = ipc.h /\ j.pc = pc
    BY DEF IpcSafe, IpcRecord, IpcFields, At, AtAccepted
  <2> HIDE DEF j
  <2> QED
    BY <2>1 DEF IpcSafe, j
<1> QED
  BY Zenon, <1>1, <1>2

\* The server thread stays safe.
LEMMA IpcKept ==
  ASSUME DaemonInv, [Next]_vars
  PROVE IpcSafe(ipc')
<1>0. IpcSafe(ipc) /\ IpcSafe(IdleIpc)
  BY Zenon, StartIsSafe DEF DaemonInv
<1>1. ASSUME NEW p, SetActivePeer(p)
      PROVE IpcSafe(ipc')
  <2>1. ipc' = ipc \/ ipc' = ActivateIpc
    BY Zenon, <1>1 DEF SetActivePeer, ActivateIpc
  <2> QED
    BY Zenon, <1>0, <2>1, StartIsSafe
<1>2. ASSUME NEW c \in Clients, DestroyTunnelClient(c)
      PROVE IpcSafe(ipc')
  <2>1. ipc' = ipc \/ \E r : ipc' = DestroyIpc(r)
    BY Zenon, <1>2 DEF DestroyTunnelClient, DestroyIpc
  <2> QED
    BY Zenon, <1>0, <2>1, StartIsSafe
<1>3. ASSUME NEW c \in Clients, NEW a \in Remotes, OpenFlow(c, a)
      PROVE IpcSafe(ipc')
  <2> DEFINE p == RefreshPolicy(pl, net.active)
             s == ReservedSlot(p)
             h == MakeFlowHandle(s, ReserveFlow(p, c, a).flows[s])
  <2>1. ipc' = ipc \/ ipc' = OpenIpc(c, h, ow.slot.gen, p.peer, p.pol)
    BY Zenon, <1>3 DEF OpenFlow, OpenIpc
  <2> HIDE DEF p, h
  <2> QED
    BY Zenon, <1>0, <2>1, StartIsSafe
<1>4. ASSUME NEW c \in Clients, NEW h \in Handles(c),
             SendDatagram(c, h) \/ CloseTunnelFlow(c, h)
      PROVE IpcSafe(ipc')
  <2>1. \/ ipc' = ipc \/ ipc' = SendIpc(c, h, ow.slot.gen)
        \/ ipc' = CloseIpc(c, h, ow.slot.gen)
    BY Zenon, <1>4 DEF SendDatagram, CloseTunnelFlow, SendIpc, CloseIpc
  <2>2. h.slot \in FlowSlots
    BY DEF Handles, MakeFlowHandle
  <2> QED
    BY Zenon, <1>0, <2>1, <2>2, StartIsSafe
<1>5. CASE DestroyNext
  <2> DEFINE A(r) == [ipc EXCEPT !.rest = r]
             B(h, r, t) == [ipc EXCEPT !.pc = "lane", !.h = h, !.rest = r, !.ticket = t]
  <2>1. /\ ipc.pc = "next"
        /\ \/ ipc' = IdleIpc \/ ipc' = A(Tail(ipc.rest))
           \/ ipc' = B(Head(ipc.rest), Tail(ipc.rest), ow.slot.gen)
    BY Zenon, <1>5 DEF DestroyNext
  <2>2. ipc.cmd = "destroy"
    BY Zenon, <1>0, <2>1 DEF IpcSafe
  <2>3. ASSUME NEW r
        PROVE IpcSafe(A(r))
    <3> DEFINE j == A(r)
    <3>1. IpcRecord(j) /\ j.cmd = "destroy"
      BY <1>0, <2>2 DEF IpcSafe, IpcRecord, IpcFields
    <3> HIDE DEF j
    <3> QED
      BY <3>1 DEF IpcSafe, j
  <2>4. ASSUME NEW h, NEW r, NEW t
        PROVE IpcSafe(B(h, r, t))
    <3> DEFINE j == B(h, r, t)
    <3>1. IpcRecord(j) /\ j.cmd = "destroy"
      BY <1>0, <2>2 DEF IpcSafe, IpcRecord, IpcFields
    <3> HIDE DEF j
    <3> QED
      BY <3>1 DEF IpcSafe, j
  <2> HIDE DEF A, B
  <2> QED
    BY Zenon, <1>0, <2>1, <2>3, <2>4
<1>6. CASE IpcQueue \/ IpcMark \/ IpcFlush
  <2>1. \/ ipc' = IdleIpc
        \/ \E pc \in {"flush", "cancel", "mark", "finish"} :
             ipc' = At(pc) \/ \E b : ipc' = AtAccepted(pc, b)
    BY <1>6 DEF IpcQueue, IpcMark, IpcFlush, At, AtAccepted
  <2>2. \A pc \in {"flush", "cancel", "mark", "finish"} : pc # "next"
    OBVIOUS
  <2> QED
    BY <1>0, <2>1, <2>2, UpdateIsSafe
<1>7. CASE IpcCancel \/ FinishClose
  <2>1. ipc' = IdleIpc \/ ipc' = DestroyIpc(ipc.rest)
    BY Zenon, <1>7 DEF IpcCancel, FinishClose, Resume, DestroyIpc
  <2> QED
    BY Zenon, <1>0, <2>1, StartIsSafe
<1>8. CASE FinishOpen \/ FinishSend
  BY Zenon, <1>0, <1>8 DEF FinishOpen, FinishSend
<1>9. CASE WorkerStep
  BY Zenon, <1>0, <1>9 DEF WorkerStep, Dequeue, FinishOther, WorkerTake, WorkerFence,
     WorkerExecute, WorkerDone, WorkerReturn
<1>10. CASE \/ CreateTunnelClient \/ TriggerDebugPayload
            \/ \E c \in Clients, n \in 1..QueueCapacity : ReceiveTunnelCompletions(c, n)
            \/ \E p \in Processes : SubmitInnerIpv4Packet(p) \/ ReceiveInnerIpv4Packet(p)
  BY Zenon, <1>0, <1>10 DEF CreateTunnelClient, TriggerDebugPayload,
     ReceiveTunnelCompletions, SubmitInnerIpv4Packet, ReceiveInnerIpv4Packet
<1>11. CASE \/ LaneStep \/ PublishDecryptedPacket \/ UserspaceIpTimeout
            \/ QueueInnerPacketSubmission \/ ExpireTombstone \/ Aborted \/ UNCHANGED vars
            \/ InstantiateProtocol \/ EnterActivationError \/ RetireStaged \/ ClearStaged
  BY Zenon, <1>0, <1>11 DEF LaneStep, PublishQueue, PublishCancel, TimeoutQueue,
     PublishDecryptedPacket, UserspaceIpTimeout, QueueInnerPacketSubmission,
     ExpireTombstone, Aborted, vars, InstantiateProtocol, EnterActivationError,
     RetireStaged, ClearStaged
<1> QED
  BY ZenonT(40), <1>1, <1>2, <1>3, <1>4, <1>5, <1>6, <1>7, <1>8, <1>9, <1>10, <1>11
     DEF Next, Command, IpcStep

\* A step that keeps the policy and the active peer keeps the invariant.
LEMMA DaemonKept ==
  ASSUME DaemonInv, [Next]_vars, SameRules(pl, pl'),
         \A p \in Peers \union {NoPeer} : ~SetActivePeer(p)
  PROVE DaemonInv'
<1>1. IpcSafe(ipc') /\ NetRecord(net') /\ net'.gen = net.gen /\ net'.active = net.active
  BY Zenon, NetKept, IpcKept
<1>2. Unchanged(pl', net'.active)
  BY Zenon, <1>1 DEF DaemonInv, Unchanged, SameRules
<1> QED
  BY Zenon, <1>1, <1>2 DEF DaemonInv

\* The activation that SetActivePeer(p) makes.
Named(p) == IF p = NoPeer THEN NoIdentity ELSE <<p, net.gen + 1>>

\* SetActivePeer is SwitchPeer: what it closes under the old active peer is what
\* the service closes under the plane's.  The second hypothesis is a fact about
\* CloseAll.
LEMMA SwitchIsSwitch ==
  ASSUME DaemonInv, FlowsAreCurrent, CloseAll(pl, {}, TRUE) = pl,
         NEW p \in Peers \union {NoPeer}, SetActivePeer(p)
  PROVE /\ Service!SwitchPeer(Named(p)) /\ (p # NoPeer => net.gen < MaxActivations)
        /\ NetRecord(net') /\ net'.active = Named(p)
        /\ net'.gen \in Nat /\ net'.active \in Activations(net'.gen)
<1> DEFINE old == net.active
           inv == IF old = NoIdentity THEN pl ELSE InvalidatePeerActivation(pl, old)
           g == IF p = NoPeer THEN net.gen ELSE net.gen + 1
<1>1. /\ pl' = RefreshPolicy(inv, Named(p))
      /\ net' = [active |-> Named(p), gen |-> g, proto |-> "none", staged |-> 0]
      /\ (p # NoPeer => net.gen < MaxActivations)
  BY Zenon DEF SetActivePeer, Named
<1>2. inv = InvalidatePeerActivation(pl, pl.peer)
  <2>1. CASE old = NoIdentity
    <3> DEFINE O == {s \in FlowSlots : pl.flows[s].st = "open" /\ pl.flows[s].peer = pl.peer}
    <3>1. pl.peer = NoIdentity
      BY Zenon, <2>1, PeerIsActive
    <3>2. \A s \in FlowSlots : ~Live(pl.flows[s])
      BY Zenon, <3>1, NoPeerNoFlow
    <3>3. O = {}
      BY Zenon, <3>2 DEF Live
    <3>4. InvalidatePeerActivation(pl, pl.peer) = CloseAll(pl, O, TRUE)
      BY Zenon DEF InvalidatePeerActivation
    <3> HIDE DEF O
    <3> QED
      BY Zenon, <2>1, <3>3, <3>4
  <2>2. CASE old # NoIdentity
    BY Zenon, <2>2, SameInvalidated
  <2> QED
    BY Zenon, <2>1, <2>2
<1> HIDE DEF inv
<1>3. /\ NetRecord(net') /\ net'.active = Named(p) /\ net'.gen = g
      /\ (p = NoPeer => Named(p) = NoIdentity /\ g = net.gen)
      /\ (p # NoPeer => Named(p) = <<p, net.gen + 1>> /\ g = net.gen + 1)
  BY <1>1 DEF NetRecord, Named
<1>4. NoIdentity = <<NoPeer, 0>> /\ (p # NoPeer => <<p, net.gen + 1>> # NoIdentity)
  BY DEF NoIdentity
<1>5. net.gen \in Nat
  BY Zenon DEF DaemonInv
<1>6. net'.gen \in Nat /\ net'.active \in Activations(net'.gen)
  <2>1. CASE p = NoPeer
    BY Zenon, <1>3, <1>5, <2>1 DEF Activations
  <2>2. CASE p # NoPeer
    <3>1. net.gen + 1 \in Nat /\ net.gen + 1 \in 1..(net.gen + 1) /\ p \in Peers
      BY <1>5, <2>2
    <3>2. <<p, net.gen + 1>> \in Peers \X (1..(net.gen + 1))
      BY <3>1
    <3> HIDE DEF g
    <3> QED
      BY Zenon, <1>3, <2>2, <3>1, <3>2 DEF Activations
  <2> QED
    BY Zenon, <2>1, <2>2
<1>7. net'.gen = IF Named(p) = Service!NoIdentity THEN net.gen ELSE net.gen + 1
  <2> HIDE DEF g
  <2>1. NoIdentity = Service!NoIdentity
    BY Zenon, MethodsAreService
  <2>2. CASE p = NoPeer
    BY Zenon, <1>3, <2>1, <2>2
  <2>3. CASE p # NoPeer
    BY Zenon, <1>3, <1>4, <2>1, <2>3
  <2> QED
    BY Zenon, <2>2, <2>3
<1>8. Service!SwitchPeer(Named(p))
  <2>1. pl' = Service!RefreshPolicy(Service!InvalidatePeerActivation(pl, pl.peer), Named(p))
    BY Zenon, <1>1, <1>2, MethodsAreService
  <2> QED
    BY Zenon, <1>7, <2>1 DEF Service!SwitchPeer
<1> QED
  BY Zenon, <1>1, <1>3, <1>6, <1>8

\* The daemon starts without a peer.
LEMMA DaemonStarts ==
  ASSUME Init
  PROVE DaemonInv /\ Service!Init
<1>1. pl = InitPlane /\ ipc = IdleIpc /\ net = [active |-> NoIdentity, gen |-> 0,
                                                proto |-> "none", staged |-> 0]
  BY Zenon DEF Init
<1>2. NetRecord(net) /\ net.gen = 0 /\ net.active = NoIdentity
  BY <1>1 DEF NetRecord
<1>3. IpcSafe(ipc)
  BY Zenon, <1>1, StartIsSafe
<1>4. Unchanged(pl, NoIdentity)
  <2>1. pl.avail = FALSE /\ pl.routes = {} /\ pl.peer = NoIdentity
    BY <1>1 DEF InitPlane
  <2> QED
    BY Zenon, <2>1 DEF Unchanged, Usable, RoutesOf
<1>5. Service!Init
  BY Zenon, <1>1, <1>2, MethodsAreService DEF Service!Init
<1>6. 0 \in Nat
  OBVIOUS
<1> QED
  BY Zenon, <1>2, <1>3, <1>4, <1>5, <1>6 DEF DaemonInv, Activations
-----------------------------------------------------------------------------
(* The plane's invariant, at the daemon. *)

\* A use of the service is a use of the daemon's plane.
LEMMA UseIsUses ==
  ASSUME Service!Use
  PROVE Uses(pl, pl') /\ net'.gen = net.gen
<1> DEFINE Goal == Uses(pl, pl') /\ net'.gen = net.gen
<1> USE MethodsAreService
<1>1. \A s : Service!ReservationOf(s) = ReservationAt(pl, s)
  BY Zenon, ReservationsAgree
<1>2. Service!CapacityAvailable => Goal
  BY Zenon DEF Service!CapacityAvailable, Uses
<1>3. ASSUME NEW s \in FlowSlots, Service!Commit(s) \/ Service!CancelReservation(s)
      PROVE Goal
  BY Zenon, <1>1, <1>3 DEF Service!Commit, Service!CancelReservation, Uses
<1>4. \A t \in pl.tombs : Service!Expire(t) => Goal
  BY Zenon DEF Service!Expire, Uses
<1>5. ASSUME NEW c \in Clients, Service!Create(c) \/ Service!Destroy(c)
      PROVE Goal
  BY Zenon, <1>5 DEF Service!Create, Service!Destroy, Uses
<1>6. ASSUME NEW c \in Clients, NEW a \in Remotes,
             Service!Reserve(c, a) \/ Service!ReserveAndCancel(c, a)
      PROVE Goal
  <2>1. /\ Service!ReserveFlow(pl, c, a) = ReserveFlow(pl, c, a)
        /\ Service!ReservedSlot(pl) = ReservedSlot(pl) /\ Service!NoFlow = NoFlow
        /\ Service!ReserveStatus(pl, c, a, TRUE) = ReserveStatus(pl, c, a, TRUE)
    BY Zenon
  <2> HIDE MethodsAreService
  <2> QED
    BY Zenon, <1>6, <2>1 DEF Service!Reserve, Service!ReserveAndCancel, Uses
<1>7. ASSUME NEW c \in Clients, NEW n \in 1..QueueCapacity, Service!Receive(c, n)
      PROVE Goal
  BY Zenon, <1>7 DEF Service!Receive, Uses
<1>8. ASSUME NEW c \in Clients, NEW h \in Service!HandlesOf(c), NEW st, NEW id, NEW pol,
             Service!Close(c, h) \/ Service!SendDone(h, st) \/ Service!Deliver(h, id, pol)
      PROVE Goal
  <2>1. PICK s \in FlowSlots : h = MakeFlowHandle(s, pl.flows[s])
    BY Zenon DEF Service!HandlesOf
  <2> QED
    BY Zenon, <1>8, <2>1 DEF Service!Close, Service!SendDone, Service!Deliver, Uses
<1> QED
  BY ZenonT(40), <1>2, <1>3, <1>4, <1>5, <1>6, <1>7, <1>8 DEF Service!Use

\* What the invariant of the plane says of the flows.
LEMMA ValidGivesCurrent ==
  ASSUME Valid(pl)
  PROVE FlowsAreCurrent
<1>1. pl \in Planes /\ Current(pl)
  BY Zenon DEF Valid, Sound
<1>2. pl \in PlaneRecords /\ \A s \in FlowSlots : Live(pl.flows[s]) =>
                pl.flows[s].owner \in Clients /\ pl.flows[s].peer \in Peers \X Nat
  BY Zenon, <1>1 DEF Planes
<1>3. pl.pol \in Nat
  BY <1>2 DEF PlaneRecords
<1>4. \A s \in FlowSlots : Live(pl.flows[s]) =>
        pl.flows[s].peer = pl.peer /\ pl.flows[s].pol = pl.pol
  BY Zenon, <1>1 DEF Current, LiveSlots
<1> QED
  BY Zenon, <1>2, <1>3, <1>4 DEF FlowsAreCurrent

\* The invariant of the daemon: its own part, and the plane's.
IInv == DaemonInv /\ Valid(pl)

\* It holds at the start.
LEMMA InvariantStarts ==
  ASSUME Init
  PROVE IInv /\ Service!Init
<1>1. DaemonInv /\ Service!Init
  BY Zenon, DaemonStarts
<1>2. pl = InitPlane
  BY Zenon, <1>1, MethodsAreService DEF Service!Init
<1> QED
  BY Zenon, <1>1, <1>2, InitPlaneIsValid DEF IInv

\* It is kept, and every step is one of the service.
LEMMA InvariantKept ==
  ASSUME IInv, [Next]_vars
  PROVE IInv' /\ [Service!Next]_(Service!vars)
<1>1. DaemonInv /\ Valid(pl) /\ FlowsAreCurrent
  BY Zenon, ValidGivesCurrent DEF IInv
<1>2. ASSUME NEW p \in Peers \union {NoPeer}, SetActivePeer(p)
      PROVE IInv' /\ [Service!Next]_(Service!vars)
  <2>1. /\ Service!SwitchPeer(Named(p)) /\ (p # NoPeer => net.gen < MaxActivations)
        /\ NetRecord(net') /\ net'.active = Named(p)
        /\ net'.gen \in Nat /\ net'.active \in Activations(net'.gen)
    BY Zenon, <1>1, <1>2, NothingClosed, SwitchIsSwitch
  <2>2. Service!Next
    <3>1. CASE p = NoPeer
      <4>1. Named(p) = Service!NoIdentity
        BY Zenon, <3>1, MethodsAreService DEF Named
      <4> QED
        BY Zenon, <2>1, <4>1 DEF Service!Next
    <3>2. CASE p # NoPeer
      <4>1. Named(p) = <<p, net.gen + 1>> /\ p \in Peers
        BY Zenon, <3>2 DEF Named
      <4> QED
        BY Zenon, <2>1, <3>2, <4>1 DEF Service!Next
    <3> QED
      BY Zenon, <3>1, <3>2
  <2>3. Named(p) \in Identities
    <3>1. net.gen + 1 \in Nat
      BY <1>1 DEF DaemonInv
    <3> QED
      BY <3>1 DEF Named, Identities
  <2>4. Good(pl, pl') /\ Unchanged(pl', Named(p))
    <3>1. pl' = RefreshPolicy(InvalidatePeerActivation(pl, pl.peer), Named(p))
      BY Zenon, <2>1, MethodsAreService DEF Service!SwitchPeer
    <3> QED
      BY Zenon, <1>1, <2>3, <3>1, SwitchIsGood
  <2>5. DaemonInv'
    BY Zenon, <1>1, <2>1, <2>4, IpcKept DEF DaemonInv
  <2> QED
    BY Zenon, <2>2, <2>4, <2>5 DEF IInv, Good
<1>3. ASSUME \A p \in Peers \union {NoPeer} : ~SetActivePeer(p)
      PROVE IInv' /\ [Service!Next]_(Service!vars)
  <2>1. Steady
    BY Zenon, <1>1, <1>3, NextIsUse
  <2>2. CASE Service!Use
    <3>1. Valid(pl') /\ SameRules(pl, pl')
      BY Zenon, <1>1, <2>2, UseIsUses, UsesAreGood DEF Good
    <3>2. DaemonInv'
      BY Zenon, <1>1, <1>3, <3>1, DaemonKept
    <3> QED
      BY Zenon, <2>2, <3>1, <3>2 DEF IInv, Service!Next
  <2>3. CASE pl' = pl /\ net'.gen = net.gen
    <3>1. UNCHANGED Service!vars
      BY Zenon, <2>3 DEF Service!vars
    <3>2. Valid(pl') /\ SameRules(pl, pl')
      BY Zenon, <1>1, <2>3 DEF SameRules
    <3>3. DaemonInv'
      BY Zenon, <1>1, <1>3, <3>2, DaemonKept
    <3> QED
      BY Zenon, <3>1, <3>2, <3>3 DEF IInv
  <2> QED
    BY Zenon, <2>1, <2>2, <2>3 DEF Steady
<1> QED
  BY Zenon, <1>2, <1>3

\* The daemon implements the service: lane, worker, server thread and the
\* lwIP adapter together never take the plane through a change that FlowService
\* does not allow (all commands of daemon_runtime.cpp that reach
\* m_tunnel_flow_plane).
THEOREM DaemonImplementsService == Spec => ImplementsService
<1>1. Init => IInv /\ Service!Init
  BY InvariantStarts
<1>2. IInv /\ [Next]_vars => IInv' /\ [Service!Next]_(Service!vars)
  BY InvariantKept
<1> QED
  BY <1>1, <1>2, PTL DEF Spec, ImplementsService, Service!Spec
=============================================================================
