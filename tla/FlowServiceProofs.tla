-------------------------- MODULE FlowServiceProofs --------------------------
(***************************************************************************)
(* What FlowService keeps, for any number of clients, flows, ports and     *)
(* tombstones: the plane stays Valid (FlowPlaneProofs), and the theorems   *)
(* are what that says of the properties of the specification.              *)
(***************************************************************************)
EXTENDS FlowService, FlowPlaneProofs

IInv == Valid(pl) /\ act \in Nat

\* Everything but a switch is a use of the plane.
LEMMA UseIsUses ==
  ASSUME Use
  PROVE Uses(pl, pl') /\ UNCHANGED act
<1>1. ASSUME NEW s \in FlowSlots, Commit(s) \/ CancelReservation(s)
      PROVE Uses(pl, pl') /\ UNCHANGED act
  BY Zenon, <1>1 DEF Commit, CancelReservation, ReservationOf, ReservationAt, Uses
<1>2. ASSUME NEW c \in Clients, Create(c) \/ Destroy(c)
      PROVE Uses(pl, pl') /\ UNCHANGED act
  BY Zenon, <1>2 DEF Create, Destroy, Uses
<1>3. ASSUME NEW c \in Clients, NEW a \in Remotes, Reserve(c, a) \/ ReserveAndCancel(c, a)
      PROVE Uses(pl, pl') /\ UNCHANGED act
  BY Zenon, <1>3 DEF Reserve, ReserveAndCancel, Uses
<1>4. ASSUME NEW c \in Clients, NEW n \in 1..QueueCapacity, Receive(c, n)
      PROVE Uses(pl, pl') /\ UNCHANGED act
  BY Zenon, <1>4 DEF Receive, Uses
<1>5. ASSUME NEW c \in Clients, NEW h \in HandlesOf(c), NEW status, NEW id, NEW pol,
             Close(c, h) \/ SendDone(h, status) \/ Deliver(h, id, pol)
      PROVE Uses(pl, pl') /\ UNCHANGED act
  <2>1. PICK s \in FlowSlots : h = MakeFlowHandle(s, pl.flows[s])
    BY Zenon DEF HandlesOf
  <2> QED
    BY Zenon, <1>5, <2>1 DEF Close, SendDone, Deliver, Uses
<1> QED
  BY ZenonT(40), <1>1, <1>2, <1>3, <1>4, <1>5 DEF Use, CapacityAvailable, Expire, Uses

\* Every step of the service leads from a valid plane to a valid one, and
\* revives no handle.
LEMMA NextKeeps ==
  ASSUME IInv, [Next]_vars
  PROVE IInv' /\ FlowsFollow(pl, pl')
<1>1. Valid(pl) /\ pl \in Planes /\ act \in Nat
  BY Zenon, ValidIsPlane DEF IInv
<1>2. SUFFICES Good(pl, pl') /\ act' \in Nat
  BY Zenon DEF IInv, Good
<1>3. ASSUME NEW id \in Identities, SwitchPeer(id)
      PROVE Good(pl, pl') /\ act' \in Nat
  <2>1. act' \in Nat
    BY <1>1, <1>3 DEF SwitchPeer
  <2> QED
    BY Zenon, <1>1, <1>3, <2>1, SwitchIsGood DEF SwitchPeer
<1>4. CASE SwitchPeer(NoIdentity)
  BY Zenon, <1>3, <1>4 DEF Identities
<1>5. ASSUME NEW p \in Peers, SwitchPeer(<<p, act + 1>>)
      PROVE Good(pl, pl') /\ act' \in Nat
  BY <1>1, <1>3, <1>5 DEF Identities
<1>6. CASE Use
  BY Zenon, <1>1, <1>6, UseIsUses, UsesAreGood
<1>7. CASE UNCHANGED vars
  <2>1. pl' = pl /\ act' = act
    BY Zenon, <1>7 DEF vars
  <2> QED
    BY Zenon, <1>1, <2>1, QuietReflexive, QuietIsGood
<1> QED
  BY Zenon, <1>4, <1>5, <1>6, <1>7 DEF Next

\* The invariant holds throughout.
LEMMA Invariance == Spec => []IInv
<1>1. Init => IInv
  BY InitPlaneIsValid DEF Init, IInv
<1>2. IInv /\ [Next]_vars => IInv'
  BY NextKeeps
<1> QED
  BY <1>1, <1>2, PTL DEF Spec

\* No two live flows share a reverse tuple and none has a quarantined one, for
\* any number of clients, flows, ports and tombstones (AllocateVirtualTuple,
\* QuarantineTuple): a closing flow always finds the tombstone that was
\* reserved for it, so its tuple cannot be handed out early.
THEOREM TuplesStayDistinct == Spec => []TuplesDistinct
<1>1. IInv => TuplesDistinct
  BY DEF IInv, Valid, Sound, DistinctTuples, TuplesDistinct
<1> QED
  BY <1>1, Invariance, PTL

\* Every live flow finds a free tombstone when it closes
\* (HasTombstoneReservation).
THEOREM TombstonesSuffice == Spec => []TombstoneReserved
<1>1. ASSUME IInv PROVE TombstoneReserved
  <2>1. IsFiniteSet(pl.tombs) /\ Taken(pl) <= TombstoneCount
    BY Zenon, <1>1 DEF IInv, Valid, Sound
  <2>2. Cardinality(pl.tombs) \in Nat /\ Cardinality(LiveSlots(pl)) \in Nat
    BY Zenon, <2>1, LiveSlotsFinite, FS_CardinalityType
  <2> QED
    BY SMTT(30), <2>1, <2>2, FlowConstants DEF Taken, TombstoneReserved
<1> QED
  BY <1>1, Invariance, PTL

\* A client with something to read has its event signalled (NotifyIfNeeded and
\* the clear in ReceiveTunnelCompletions).
THEOREM EventIsCovering == Spec => []EventCovers
<1>1. IInv => EventCovers
  BY Zenon DEF IInv, Valid, Sound, Covered, EventCovers
<1> QED
  BY <1>1, Invariance, PTL

\* Queued data belongs to an open flow of its client and came under the present
\* activation, however switches, closes and late deliveries interleave
\* (DeliverInboundUdpDatagram, CloseFlowSlot, RefreshPolicy).
THEOREM DeliveryIsCurrent == Spec => []DeliveredIsCurrent
<1>1. ASSUME IInv PROVE DeliveredIsCurrent
  <2>1. ASSUME NEW c \in Clients, NEW i \in 1..Len(pl.clients[c].q),
               IsData(pl.clients[c].q[i])
        PROVE LET e == pl.clients[c].q[i]
              IN FindFlow(pl, c, e.h) /\ pl.flows[e.h.slot].st = "open" /\ e.from = pl.peer
    <3> DEFINE e == pl.clients[c].q[i]
    <3>1. Backed(pl, c, e)
      BY Zenon, <1>1, <2>1 DEF IInv, Valid, Sound, DataBacked
    <3>2. e.h.slot \in LiveSlots(pl)
      BY ZenonT(40), <3>1 DEF Backed, FindFlow, LiveSlots, Live
    <3>3. pl.flows[e.h.slot].peer = pl.peer
      BY Zenon, <1>1, <3>2 DEF IInv, Valid, Current
    <3> QED
      BY ZenonT(40), <3>1, <3>3 DEF Backed
  <2> QED
    BY ZenonT(40), <2>1 DEF DeliveredIsCurrent
<1> QED
  BY <1>1, Invariance, PTL

\* A handle that no longer names a live flow never names one again
\* (AllocateFlowGeneration, FindFlow).
THEOREM HandlesNeverReturn == Spec => HandleNeverReturns
<1> DEFINE A == \A s \in FlowSlots, g \in 1..(pl.nextFlow - 1) :
                  ~Names([slot |-> s, gen |-> g]) => ~Names([slot |-> s, gen |-> g])'
<1>1. IInv /\ [Next]_vars => [A]_vars
  <2>1. SUFFICES ASSUME IInv, [Next]_vars, NEW s \in FlowSlots,
                        NEW g \in 1..(pl.nextFlow - 1),
                        ~Names([slot |-> s, gen |-> g]), Names([slot |-> s, gen |-> g])'
                 PROVE FALSE
    OBVIOUS
  <2>2. FlowsFollow(pl, pl')
    BY <2>1, NextKeeps
  <2>3. Live(pl'.flows[s]) /\ pl'.flows[s].gen = g
    BY Zenon, <2>1 DEF Names
  <2>4. ~(g >= pl.nextFlow)
    <3>1. pl.nextFlow \in Nat
      BY Zenon, <2>1, ValidIsPlane DEF IInv
    <3> QED
      BY <2>1, <3>1
  <2>5. Live(pl.flows[s]) /\ pl.flows[s].gen = g
    BY <2>2, <2>3, <2>4 DEF FlowsFollow
  <2> QED
    BY Zenon, <2>1, <2>5 DEF Names
<1> QED
  BY <1>1, Invariance, PTL DEF HandleNeverReturns, Spec
=============================================================================
