---------------------------- MODULE NoiseSession ----------------------------
(***************************************************************************)
(* Two devices, each of them the initiator and the responder of its own    *)
(* handshakes, over a network that loses, repeats and reorders datagrams:  *)
(* what was sent stays in net and may be received at any later time, any   *)
(* number of times.  An action is one whole handler: an initiation made    *)
(* (outbound.cpp), a datagram handled (inbound.cpp), key material expired  *)
(* or zeroed by its timers, the protocol of an activation built anew.      *)
(***************************************************************************)
EXTENDS NoiseKeys

CONSTANTS Ends,        \* the two devices
          FirstIndex,  \* the random start of each index allocator
          MaxHandshakes, MaxData, MaxResets  \* bounds

ASSUME NoiseSessionAssumption ==
  /\ \E a, b \in Ends : a # b /\ Ends = {a, b}
  /\ FirstIndex \in [Ends -> Nat \ {0}]
  /\ MaxHandshakes \in [Ends -> Nat] /\ MaxData \in Nat /\ MaxResets \in Nat

VARIABLES dev,    \* the devices
          net,    \* every datagram sent
          clock,  \* the time stamp of the last initiation of each device
          hist    \* what each device derived, opened and consumed; resets

vars == <<dev, net, clock, hist>>

Init ==
  /\ dev = [e \in Ends |-> NewDevice(FirstIndex[e])]
  /\ net = {}
  /\ clock = [e \in Ends |-> 1]
  /\ hist = [derived |-> [e \in Ends |-> {}], forgot |-> [e \in Ends |-> 0], opened |-> {},
             consumed |-> {}, twice |-> {}, resets |-> 0]

\* What both ends derive from a transcript: its initiator, and the indices of
\* its two messages, which stand for their ephemeral keys.
SessionKey(i, si, sr) == [i |-> i, si |-> si, sr |-> sr]

Hello(e, s, ts) == [type |-> "init", from |-> e, s |-> s, ts |-> ts]
Reply(e, s, r) == [type |-> "resp", from |-> e, s |-> s, r |-> r]
Data(e, key, r, c) == [type |-> "data", from |-> e, key |-> key, r |-> r, c |-> c]

\* The datagrams of a type (InspectMessageType) that an end may receive.
To(e, type) == {m \in net : m.type = type /\ m.from # e}
Sent(type) == {m \in net : m.type = type}

\* A bound: indices a device allocates.
IndexLeft(e) == dev[e].idx < FirstIndex[e] + MaxHandshakes[e]

\* Tai64nNow, rounded down: two initiations made within one step of the time
\* stamp carry the same one.
TimeStamps(e) == {clock[e], clock[e] + 1}

\* An initiation is created for the peer and sent.
Initiate(e) ==
  /\ IndexLeft(e)
  /\ \E ts \in TimeStamps(e) :
       /\ clock' = [clock EXCEPT ![e] = ts]
       /\ net' = net \cup {Hello(e, dev[e].idx, ts)}
  /\ dev' = [dev EXCEPT ![e] = CreateInitiation(@)]
  /\ UNCHANGED hist

\* An initiation is consumed, answered, and the responder's session derived.
\* That a response fails to build is a matter of module PeerHandlers.
ReceiveInitiation(e) ==
  \E m \in To(e, "init") :
    LET d == ConsumeInitiation(dev[e], m.s, m.ts)
        key == SessionKey(m.from, m.s, d.hs.local)
    IN /\ IndexLeft(e)
       /\ IsNewInitiation(dev[e], m.ts)
       /\ dev' = [dev EXCEPT ![e] = BeginResponderSession(d, key)]
       /\ net' = net \cup {Reply(e, d.hs.local, m.s)}
       /\ hist' = [hist EXCEPT !.derived[e] = @ \cup {key},
                               !.consumed = @ \cup {<<e, m.s>>},
                               !.twice = @ \cup ({<<e, m.s>>} \cap hist.consumed)]
       /\ UNCHANGED clock

\* A datagram under the keypair with which the device sends.
SentBy(e, d) == Data(e, d.kp["Current"].key, d.kp["Current"].remote, d.kp["Current"].ctr)
AfterSend(d) == [d EXCEPT !.kp["Current"] = ReserveSendCounter(@)]
DataLeft == Cardinality(Sent("data")) < MaxData

SendData(e) ==
  /\ DataLeft
  /\ CanSend(dev[e].kp["Current"])
  /\ net' = net \cup {SentBy(e, dev[e])}
  /\ hist' = [hist EXCEPT !.twice = @ \cup ({SentBy(e, dev[e])} \cap net)]
  /\ dev' = [dev EXCEPT ![e] = AfterSend(@)]
  /\ UNCHANGED clock

\* A response is consumed and the initiator's session derived.  With no packet
\* staged a keepalive confirms it at once.
ReceiveResponse(e) ==
  \E m \in To(e, "resp"), staged \in BOOLEAN :
    LET key == SessionKey(e, dev[e].hs.own, m.s)
        d == BeginInitiatorSession(ConsumeResponse(dev[e], m.s), key)
    IN /\ AcceptsResponse(dev[e], m.s, m.r)
       /\ IF staged
          THEN dev' = [dev EXCEPT ![e] = d] /\ UNCHANGED net
          ELSE /\ DataLeft /\ CanSend(d.kp["Current"])
               /\ dev' = [dev EXCEPT ![e] = AfterSend(d)]
               /\ net' = net \cup {SentBy(e, d)}
       /\ hist' = [hist EXCEPT !.derived[e] = @ \cup {key}]
       /\ UNCHANGED clock

\* Transport data is opened; on the next keypair it confirms the session.
ReceiveData(e) ==
  \E m \in To(e, "data") :
    LET slot == LookupIndexSlot(dev[e], m.r)
        k == dev[e].kp[slot]
        d == [dev[e] EXCEPT !.kp[slot].win = Advanced(@, m.c)]
    IN /\ slot \in KeySlots
       /\ k.key = m.key
       /\ Opens(k, m.c)
       /\ dev' = [dev EXCEPT ![e] = IF slot = "Next" THEN PromoteNextKeypair(d) ELSE d]
       /\ hist' = [hist EXCEPT !.opened = @ \cup {m}, !.twice = @ \cup ({m} \cap hist.opened)]
       /\ UNCHANGED <<net, clock>>

\* RejectAfterTime passes for a keypair.
Expire(e) ==
  \E s \in KeySlots :
    /\ IsValid(dev[e].kp[s]) /\ ~dev[e].kp[s].dead
    /\ dev' = [dev EXCEPT ![e].kp[s].dead = TRUE]
    /\ UNCHANGED <<net, clock, hist>>

\* What a device holds is given up: by the timer, or with the protocol state
\* of the activation; the allocator of indices belongs to the process.
Forget(e, d) ==
  /\ hist.resets < MaxResets
  /\ dev' = [dev EXCEPT ![e] = d]
  /\ hist' = [hist EXCEPT !.resets = @ + 1, !.forgot[e] = d.idx,
                          !.consumed = {x \in @ : x[1] # e}]
  /\ UNCHANGED <<net, clock>>

ZeroKeyMaterial(e) == Forget(e, ZeroedDevice(dev[e]))
Reactivate(e) == Forget(e, NewDevice(dev[e].idx))

Next ==
  \E e \in Ends :
    \/ Initiate(e) \/ ReceiveInitiation(e) \/ ReceiveResponse(e)
    \/ SendData(e) \/ ReceiveData(e)
    \/ Expire(e) \/ ZeroKeyMaterial(e) \/ Reactivate(e)

Spec == Init /\ [][Next]_vars

-----------------------------------------------------------------------------

Sessions == [i : Ends \cup {"none"}, si : Nat, sr : Nat]
Windows == [high : Nat, ring : [0..(RingBlocks - 1) -> SUBSET (0..(BlockBits - 1))],
            init : BOOLEAN]
Keypairs == [local : Nat, remote : Nat, key : Sessions, init : BOOLEAN, ctr : Nat,
             win : Windows, dead : BOOLEAN]
Handshakes == [state : {"Zeroed", "InitiationCreated", "SessionDerived"},
               local : Nat, remote : Nat, own : Nat]
Devices == [hs : Handshakes, kp : [KeySlots -> Keypairs], reg : [Slots -> Nat], idx : Nat,
            seen : Nat]

\* The type of the state; a handshake is at rest in three of its states only,
\* for a response is consumed or created within one handler.
TypeOK ==
  /\ dev \in [Ends -> Devices]
  /\ clock \in [Ends -> Nat]
  /\ \A m \in net : m.from \in Ends /\ m.type \in {"init", "resp", "data"}

\* A datagram is opened at most once, whatever the slots its keypair passes
\* through; a counter is sent at most once under a key; and between two losses
\* of the key material an initiation is consumed at most once.
NothingTwice == hist.twice = {}

\* The index of a keypair leads to the slot that holds it, and no other
\* keypair of the device has it: device.cpp looks the handshake up first.
LookupFindsOwner ==
  \A e \in Ends : \A s \in KeySlots :
    IsValid(dev[e].kp[s]) => LookupIndexSlot(dev[e], dev[e].kp[s].local) = s

\* A device sends only with keys that its peer derived too.
CurrentIsConfirmed ==
  \A e \in Ends : \A o \in Ends \ {e} :
    IsValid(dev[e].kp["Current"]) => dev[e].kp["Current"].key \in hist.derived[o]

LocalIndex(e, key) == IF key.i = e THEN key.si ELSE key.sr

\* The key a device sends with is still held by its peer, unless the peer gave
\* its key material up or derived a later session with the device.
HeldOrSuperseded ==
  \A e \in Ends : \A o \in Ends \ {e} :
    LET k == dev[e].kp["Current"].key IN
    IsValid(dev[e].kp["Current"]) =>
      \/ \E s \in KeySlots : dev[o].kp[s].key = k
      \/ LocalIndex(o, k) < hist.forgot[o]
      \/ \E j \in hist.derived[o] : LocalIndex(o, j) > LocalIndex(o, k)

\* The window of a keypair refuses exactly the counters that were opened under
\* it and those more than WindowSize behind the highest: the reference that
\* the ring of blocks implements.
WindowIsExact ==
  \A e \in Ends : \A s \in KeySlots :
    LET k == dev[e].kp[s]
        opened == {m.c : m \in {x \in hist.opened : x.key = k.key /\ x.from # e}}
    IN IsValid(k) => \A c \in 0..(RejectAfterMessages - 1) :
         Accepts(k.win, c) <=>
           /\ c \notin opened
           /\ \A h \in opened : h - c <= WindowSize
=============================================================================
