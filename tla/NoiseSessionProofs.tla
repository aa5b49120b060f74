------------------------- MODULE NoiseSessionProofs -------------------------
(***************************************************************************)
(* For any windows, indices and bounds: the index of a keypair finds the   *)
(* keypair, a device sends only with keys its peer derived as well, and    *)
(* which that peer still holds or has superseded; the replay window        *)
(* refuses exactly what it should; and nothing is done twice.              *)
(***************************************************************************)
EXTENDS NoiseSession, TLAPS

Messages == [type : {"init"}, from : Ends, s : Nat, ts : Nat]
            \cup [type : {"resp"}, from : Ends, s : Nat, r : Nat]
            \cup [type : {"data"}, from : Ends, key : Sessions, r : Nat, c : Nat]

\* A device in the middle of a handler: the response is created or consumed.
OpenHandshakes == [state : {"Zeroed", "InitiationCreated", "ResponseCreated", "SessionDerived"},
                   local : Nat, remote : Nat, own : Nat]
OpenDevices == [hs : OpenHandshakes, kp : [KeySlots -> Keypairs], reg : [Slots -> Nat],
                idx : Nat, seen : Nat]

\* The local indices of the keypairs are allocated ones, all of them different,
\* and different from that of the handshake.
IndicesDiffer(d) ==
  /\ d.hs.local < d.idx /\ d.reg["Handshake"] \in {0, d.hs.local}
  /\ d.hs.state = "InitiationCreated" => d.hs.local # 0
  /\ \A s \in KeySlots :
       /\ d.reg[s] = d.kp[s].local /\ d.kp[s].local < d.idx
       /\ d.kp[s].local # 0 => d.kp[s].local # d.hs.local
  /\ \A s, t \in KeySlots : d.kp[s].local = d.kp[t].local /\ d.kp[s].local # 0 => s = t

-----------------------------------------------------------------------------

\* The parts of the key state have their types when they are made.
LEMMA NewTypes ==
  /\ NewWindow \in Windows /\ NoSession \in Sessions /\ NoKeypair \in Keypairs
  /\ NoHandshake \in Handshakes
  /\ \A i \in Nat : NewDevice(i) \in Devices
<1>1. NewWindow \in Windows
  BY Zenon, NoiseKeysAssumption DEF NewWindow, Windows
<1>2. NoSession \in Sessions
  BY DEF NoSession, Sessions
<1>3. NoKeypair \in Keypairs
  BY Zenon, <1>1, <1>2 DEF NoKeypair, Keypairs
<1>4. NoHandshake \in Handshakes
  BY Zenon DEF NoHandshake, Handshakes
<1> QED
  BY Zenon, <1>1, <1>2, <1>3, <1>4 DEF NewDevice, Devices

\* ReplayWindow::TryAdvance.
LEMMA AdvancedType ==
  ASSUME NEW w \in Windows, NEW c \in Nat
  PROVE Advanced(w, c) \in Windows
<1> DEFINE Rings == [0..(RingBlocks - 1) -> SUBSET (0..(BlockBits - 1))]
<1>1. w.high \in Nat /\ w.ring \in Rings
  BY Zenon DEF Windows
<1>2. RingFor(w, c) \in Rings
  <2>1. Moved(w, c) \in Rings
    BY Zenon, <1>1 DEF Moved
  <2> QED
    BY Zenon, <1>1, <2>1 DEF RingFor
<1>3. c % BlockBits \in 0..(BlockBits - 1)
  BY NoiseKeysAssumption
<1> DEFINE b == BlockOf(c)
<1> HIDE DEF b
<1>4. [RingFor(w, c) EXCEPT ![b] = @ \cup {c % BlockBits}] \in Rings
  BY Zenon, <1>2, <1>3
<1> QED
  BY Zenon, <1>1, <1>4 DEF Advanced, Windows, b

\* NoiseKeypair::Establish.
Established(k, l, key) == k \in Keypairs /\ k.local = l /\ k.key = key

\* The keypair of the responder, and that of the initiator.
LEMMA EstablishFacts ==
  ASSUME NEW l \in Nat, NEW r \in Nat, NEW key \in Sessions
  PROVE /\ Established(Establish(l, r, key, TRUE), l, key)
        /\ Established(Establish(l, r, key, FALSE), l, key)
  BY Zenon, NewTypes DEF Established, Establish, Keypairs

\* noise_handshake_begin_session registers the keypairs and nothing else.
LEMMA DerivedFacts ==
  ASSUME NEW d \in OpenDevices, NEW kp \in [KeySlots -> Keypairs]
  PROVE LET r == Derived(d, kp) IN
        /\ r \in Devices /\ r.kp = kp /\ r.idx = d.idx /\ r.seen = d.seen
        /\ r.hs.local = 0 /\ r.hs.state = "SessionDerived" /\ r.reg["Handshake"] = 0
        /\ \A s \in KeySlots : r.reg[s] = kp[s].local
<1> DEFINE hs == [NoHandshake EXCEPT !.state = "SessionDerived"]
           reg == [s \in Slots |-> IF s = "Handshake" THEN 0 ELSE kp[s].local]
<1>1. hs \in Handshakes /\ hs.local = 0 /\ hs.state = "SessionDerived"
  BY DEF NoHandshake, Handshakes
<1>2. reg \in [Slots -> Nat] /\ reg["Handshake"] = 0 /\ \A s \in KeySlots : reg[s] = kp[s].local
  BY DEF Slots, KeySlots, Keypairs
<1>3. Derived(d, kp) = [d EXCEPT !.kp = kp, !.hs = hs, !.reg = reg]
  BY Zenon DEF Derived, RefreshKeypairIndices, OpenDevices
<1> HIDE DEF hs, reg
<1>4. LET r == Derived(d, kp)
      IN r.kp = kp /\ r.hs = hs /\ r.reg = reg /\ r.idx = d.idx /\ r.seen = d.seen
  BY <1>3 DEF OpenDevices
<1>5. Derived(d, kp) \in Devices
  <2>1. d.idx \in Nat /\ d.seen \in Nat
    BY Zenon DEF OpenDevices
  <2>2. Derived(d, kp) = [hs |-> hs, kp |-> kp, reg |-> reg, idx |-> d.idx, seen |-> d.seen]
    BY Zenon, <1>3 DEF OpenDevices
  <2> QED
    BY <1>1, <1>2, <2>1, <2>2 DEF Devices
<1> QED
  BY <1>1, <1>2, <1>4, <1>5

\* What the proofs use of a device that keeps its types and its indices apart.
Sound(d) == d \in Devices /\ IndicesDiffer(d)

\* A device of which every keypair is one of d, in another slot, or the new one
\* of an index that none had.
LEMMA DerivedSound ==
  ASSUME NEW d \in OpenDevices, NEW kp \in [KeySlots -> Keypairs],
         \A s \in KeySlots : kp[s].local < d.idx,
         \A s, t \in KeySlots : kp[s].local = kp[t].local /\ kp[s].local # 0 => s = t
  PROVE /\ Sound(Derived(d, kp)) /\ Derived(d, kp).kp = kp
        /\ Derived(d, kp).idx = d.idx /\ Derived(d, kp).seen = d.seen
        /\ Derived(d, kp).hs.state = "SessionDerived"
<1>1. 0 < d.idx
  <2>1. kp["Current"].local \in Nat /\ kp["Current"].local < d.idx
    BY Zenon DEF KeySlots, Keypairs
  <2> QED
    BY <2>1 DEF OpenDevices
<1> QED
  BY <1>1, DerivedFacts DEF Sound, IndicesDiffer

\* wg_device_create_handshake_initiation.
LEMMA InitiationSound ==
  ASSUME NEW d, Sound(d)
  PROVE LET r == CreateInitiation(d) IN
        /\ Sound(r) /\ r.kp = d.kp /\ r.idx = d.idx + 1 /\ r.seen = d.seen
        /\ r.hs.local = d.idx /\ r.hs.own = d.idx
<1> DEFINE hs == [state |-> "InitiationCreated", local |-> d.idx, remote |-> 0, own |-> d.idx]
           reg == [d.reg EXCEPT !["Handshake"] = d.idx]
           r == CreateInitiation(d)
<1>1. d \in Devices /\ d.idx \in Nat /\ 0 < d.idx
  BY DEF Sound, IndicesDiffer, Devices, Handshakes
<1>2. hs \in Handshakes /\ hs.local = d.idx /\ hs.own = d.idx
  BY <1>1 DEF Handshakes
<1>3. r = [d EXCEPT !.reg = reg, !.idx = d.idx + 1, !.hs = hs]
  BY Zenon, <1>1 DEF CreateInitiation, AllocateIndex, Devices
<1>6. /\ reg \in [Slots -> Nat] /\ reg["Handshake"] = d.idx
      /\ \A s \in KeySlots : reg[s] = d.reg[s]
  BY Zenon, <1>1 DEF Devices, Slots, KeySlots
<1> HIDE DEF hs, r, reg
<1>4. /\ r \in Devices /\ r.kp = d.kp /\ r.idx = d.idx + 1 /\ r.hs = hs
      /\ r.reg = reg /\ r.seen = d.seen
  <2>1. PICK i \in Nat : i = d.idx + 1
    BY <1>1
  <2>2. r = [d EXCEPT !.reg = reg, !.idx = i, !.hs = hs]
    BY <1>3, <2>1
  <2>3. r \in Devices
    BY Zenon, <1>1, <1>2, <1>6, <2>2 DEF Devices
  <2> QED
    BY Zenon, <1>1, <2>1, <2>2, <2>3 DEF Devices
<1>5. \A s \in KeySlots : d.kp[s].local \in Nat
  BY Zenon, <1>1 DEF Devices, Keypairs
<1>7. IndicesDiffer(r)
  BY <1>1, <1>2, <1>4, <1>5, <1>6 DEF Sound, IndicesDiffer
<1> QED
  BY Zenon, <1>2, <1>4, <1>7 DEF Sound, r

\* wg_device_promote_next_keypair.
LEMMA PromoteSound ==
  ASSUME NEW d, Sound(d)
  PROVE LET r == PromoteNextKeypair(d) IN
        /\ Sound(r)
        /\ r.kp["Current"] = d.kp["Next"] /\ r.kp["Previous"] = d.kp["Current"]
        /\ r.kp["Next"] = NoKeypair /\ r.hs = d.hs /\ r.idx = d.idx /\ r.seen = d.seen
<1> DEFINE kp == [d.kp EXCEPT !["Previous"] = d.kp["Current"], !["Current"] = d.kp["Next"],
                              !["Next"] = NoKeypair]
           reg == [s \in Slots |-> IF s = "Handshake" THEN 0 ELSE kp[s].local]
           r == PromoteNextKeypair(d)
<1>1. d \in Devices /\ d.kp \in [KeySlots -> Keypairs]
  BY DEF Sound, Devices
<1>2. /\ kp \in [KeySlots -> Keypairs]
      /\ kp["Current"] = d.kp["Next"] /\ kp["Previous"] = d.kp["Current"]
      /\ kp["Next"] = NoKeypair
  BY Zenon, <1>1, NewTypes DEF KeySlots
<1>3. MoveKeypair(MoveKeypair(d.kp, "Current", "Previous"), "Next", "Current") = kp
  BY Zenon, <1>1 DEF MoveKeypair, KeySlots
<1> HIDE DEF kp
<1>4. reg \in [Slots -> Nat] /\ reg["Handshake"] = 0 /\ \A s \in KeySlots : reg[s] = kp[s].local
  BY Zenon, <1>2 DEF Slots, KeySlots, Keypairs
<1>5. r = [d EXCEPT !.kp = kp, !.reg = reg]
  BY Zenon, <1>1, <1>3 DEF PromoteNextKeypair, RefreshKeypairIndices, Devices
<1> HIDE DEF reg, r
<1>6. r \in Devices /\ r.kp = kp /\ r.reg = reg /\ r.hs = d.hs /\ r.idx = d.idx
      /\ r.seen = d.seen
  BY Zenon, <1>1, <1>2, <1>4, <1>5 DEF Devices
<1>7. NoKeypair.local = 0 /\ d.hs.local \in Nat /\ d.idx \in Nat /\ 0 < d.idx
  BY <1>1 DEF NoKeypair, Devices, Handshakes, Sound, IndicesDiffer
<1>8. IndicesDiffer(r)
  BY <1>2, <1>4, <1>6, <1>7 DEF Sound, IndicesDiffer, KeySlots
<1> QED
  BY Zenon, <1>2, <1>6, <1>8 DEF Sound, r

\* What becomes of a device that answers an initiation.
Responds(d, s, ts, key) ==
  LET o == ConsumeInitiation(d, s, ts)
      r == BeginResponderSession(o, key)
  IN /\ o.hs.local = d.idx /\ Sound(r)
     /\ r.kp["Current"] = d.kp["Current"] /\ r.kp["Previous"] = NoKeypair
     /\ r.kp["Next"].key = key /\ r.kp["Next"] = Establish(d.idx, s, key, FALSE)
     /\ r.idx = d.idx + 1 /\ r.seen = ts /\ r.hs.state = "SessionDerived"

\* The responder's session: noise_handshake_consume_initiation_message,
\* noise_handshake_create_response_message and noise_handshake_begin_session.
LEMMA ResponderSound ==
  ASSUME NEW d, Sound(d), NEW s \in Nat, NEW ts \in Nat, NEW key \in Sessions
  PROVE Responds(d, s, ts, key)
<1> DEFINE hs == [state |-> "ResponseCreated", local |-> d.idx, remote |-> s, own |-> 0]
           reg == [d.reg EXCEPT !["Handshake"] = d.idx]
           o == ConsumeInitiation(d, s, ts)
           k == Establish(o.hs.local, o.hs.remote, key, FALSE)
           kp == [Current |-> o.kp["Current"], Previous |-> NoKeypair, Next |-> k]
<1>1. d \in Devices /\ d.idx \in Nat /\ 0 < d.idx /\ d.kp \in [KeySlots -> Keypairs]
  BY DEF Sound, IndicesDiffer, Devices, Handshakes
<1>2. hs \in OpenHandshakes /\ hs.local = d.idx /\ hs.remote = s
  BY Zenon, <1>1 DEF OpenHandshakes
<1>3. o = [d EXCEPT !.reg = reg, !.idx = d.idx + 1, !.hs = hs, !.seen = ts]
  BY Zenon, <1>1 DEF ConsumeInitiation, AllocateIndex, Devices
<1>11. reg \in [Slots -> Nat]
  BY Zenon, <1>1 DEF Devices
<1> HIDE DEF hs, o, reg
<1>4. o \in OpenDevices /\ o.kp = d.kp /\ o.idx = d.idx + 1 /\ o.hs = hs /\ o.seen = ts
  <2>1. PICK i \in Nat : i = d.idx + 1
    BY <1>1
  <2>2. o = [d EXCEPT !.reg = reg, !.idx = i, !.hs = hs, !.seen = ts]
    BY <1>3, <2>1
  <2>3. o \in OpenDevices
    BY Zenon, <1>1, <1>2, <1>11, <2>2 DEF Devices, OpenDevices
  <2> QED
    BY Zenon, <1>1, <2>1, <2>2, <2>3 DEF Devices
<1>12. k = Establish(d.idx, s, key, FALSE)
  BY Zenon, <1>2, <1>4
<1>5. k \in Keypairs /\ k.local = d.idx /\ k.key = key
  <2>2. Established(Establish(d.idx, s, key, FALSE), d.idx, key)
    BY Zenon, <1>1, EstablishFacts
  <2> HIDE DEF k
  <2> QED
    BY Zenon, <1>12, <2>2 DEF Established
<1> HIDE DEF k
<1>6. /\ kp \in [KeySlots -> Keypairs]
      /\ kp["Current"] = d.kp["Current"] /\ kp["Previous"] = NoKeypair /\ kp["Next"] = k
  BY <1>1, <1>4, <1>5, NewTypes DEF KeySlots
<1>7. BeginResponderSession(o, key) = Derived(o, kp)
  BY Zenon DEF BeginResponderSession, k
<1> HIDE DEF kp
<1>8. NoKeypair.local = 0 /\ \A x \in KeySlots : d.kp[x].local \in Nat /\ d.kp[x].local < d.idx
  BY Zenon, <1>1 DEF NoKeypair, Keypairs, Sound, IndicesDiffer
<1>9. /\ \A x \in KeySlots : kp[x].local < o.idx
      /\ \A x, y \in KeySlots : kp[x].local = kp[y].local /\ kp[x].local # 0 => x = y
  BY <1>1, <1>4, <1>5, <1>6, <1>8 DEF KeySlots
<1>10. /\ Sound(Derived(o, kp)) /\ Derived(o, kp).kp = kp
       /\ Derived(o, kp).idx = o.idx /\ Derived(o, kp).seen = o.seen
       /\ Derived(o, kp).hs.state = "SessionDerived"
  BY Zenon, <1>4, <1>6, <1>9, DerivedSound
<1> QED
  BY Zenon, <1>2, <1>4, <1>5, <1>6, <1>7, <1>10, <1>12 DEF o, Responds

\* What becomes of a device that accepts a response.
Initiates(d, s, key) ==
  LET r == BeginInitiatorSession(ConsumeResponse(d, s), key)
  IN /\ Sound(r) /\ r.kp["Current"].key = key
     /\ r.kp["Previous"] \in {d.kp[x] : x \in KeySlots}
     /\ r.kp["Next"] \in {NoKeypair, d.kp["Next"]} /\ ~IsValid(r.kp["Next"])
     /\ r.kp["Current"] = Establish(d.hs.local, s, key, TRUE)
     /\ r.idx = d.idx /\ r.seen = d.seen /\ r.hs.state = "SessionDerived"

\* The initiator's session: noise_handshake_consume_response_message and
\* noise_handshake_begin_session.
LEMMA InitiatorSound ==
  ASSUME NEW d, Sound(d), d.hs.state = "InitiationCreated", NEW s \in Nat, NEW key \in Sessions
  PROVE Initiates(d, s, key)
<1> DEFINE o == ConsumeResponse(d, s)
           from == IF IsValid(o.kp["Next"]) THEN "Next" ELSE "Current"
           k == Establish(o.hs.local, o.hs.remote, key, TRUE)
           kp == [MoveKeypair(o.kp, from, "Previous") EXCEPT !["Current"] = k]
<1>1. d \in Devices /\ d.idx \in Nat /\ d.kp \in [KeySlots -> Keypairs] /\ d.hs \in Handshakes
  BY Zenon DEF Sound, Devices
<1>2. o \in OpenDevices /\ o.kp = d.kp /\ o.idx = d.idx /\ o.hs.local = d.hs.local
      /\ o.hs.remote = s /\ o.seen = d.seen
  <2>1. [d.hs EXCEPT !.remote = s] \in OpenHandshakes
    BY <1>1 DEF Handshakes, OpenHandshakes
  <2>2. o = [d EXCEPT !.hs = [d.hs EXCEPT !.remote = s]]
    BY <1>1 DEF ConsumeResponse, Devices
  <2> QED
    BY <1>1, <2>1, <2>2 DEF Devices, Handshakes, OpenDevices
<1> HIDE DEF o
<1>11. k = Establish(d.hs.local, s, key, TRUE) /\ d.hs.local \in Nat
  BY Zenon, <1>1, <1>2 DEF Handshakes
<1>3. k \in Keypairs /\ k.local = d.hs.local /\ k.key = key
  <2>2. Established(Establish(d.hs.local, s, key, TRUE), d.hs.local, key)
    BY Zenon, <1>11, EstablishFacts
  <2> HIDE DEF k
  <2> QED
    BY Zenon, <1>11, <2>2 DEF Established
<1>4. BeginInitiatorSession(o, key) = Derived(o, kp)
  BY DEF BeginInitiatorSession
<1> HIDE DEF k
<1>5. /\ kp \in [KeySlots -> Keypairs] /\ kp["Current"] = k
      /\ \/ IsValid(d.kp["Next"]) /\ kp["Previous"] = d.kp["Next"] /\ kp["Next"] = NoKeypair
         \/ ~IsValid(d.kp["Next"]) /\ kp["Previous"] = d.kp["Current"]
            /\ kp["Next"] = d.kp["Next"]
  <2>1. CASE IsValid(d.kp["Next"])
    BY Zenon, <1>1, <1>2, <1>3, <2>1, NewTypes DEF MoveKeypair, KeySlots
  <2>2. CASE ~IsValid(d.kp["Next"])
    BY Zenon, <1>1, <1>2, <1>3, <2>2, NewTypes DEF MoveKeypair, KeySlots
  <2> QED
    BY Zenon, <2>1, <2>2
<1> HIDE DEF kp
<1>6. /\ NoKeypair.local = 0 /\ d.hs.local < d.idx /\ d.hs.local \in Nat
      /\ \A x \in KeySlots : /\ d.kp[x].local \in Nat /\ d.kp[x].local < d.idx
                             /\ d.kp[x].local # 0 => d.kp[x].local # d.hs.local
      /\ \A x, y \in KeySlots :
           d.kp[x].local = d.kp[y].local /\ d.kp[x].local # 0 => x = y
  BY Zenon, <1>1 DEF NoKeypair, Keypairs, Handshakes, Sound, IndicesDiffer
<1>7. \A x \in KeySlots : kp[x].local < o.idx
  BY <1>1, <1>2, <1>3, <1>5, <1>6 DEF KeySlots
<1>8. \A x, y \in KeySlots : kp[x].local = kp[y].local /\ kp[x].local # 0 => x = y
  BY <1>3, <1>5, <1>6 DEF KeySlots, IsValid
<1>9. /\ Sound(Derived(o, kp)) /\ Derived(o, kp).kp = kp
      /\ Derived(o, kp).idx = o.idx /\ Derived(o, kp).seen = o.seen
      /\ Derived(o, kp).hs.state = "SessionDerived"
  BY Zenon, <1>2, <1>5, <1>7, <1>8, DerivedSound
<1>10. ~IsValid(kp["Next"]) /\ kp["Next"] \in {NoKeypair, d.kp["Next"]}
       /\ kp["Previous"] \in {d.kp[x] : x \in KeySlots}
  BY Zenon, <1>5, <1>6 DEF IsValid, KeySlots
<1> QED
  BY Zenon, <1>2, <1>3, <1>4, <1>5, <1>9, <1>10, <1>11 DEF o, Initiates

\* Device d with keypair k in slot s.
Replaces(r, d, s, k) ==
  /\ Sound(r) /\ r.kp[s] = k /\ \A x \in KeySlots : x # s => r.kp[x] = d.kp[x]
  /\ r.hs = d.hs /\ r.idx = d.idx /\ r.seen = d.seen

\* A keypair that is used or expires keeps its index.
LEMMA KeypairsSound ==
  ASSUME NEW d, Sound(d), NEW s \in KeySlots, NEW k \in Keypairs, k.local = d.kp[s].local
  PROVE Replaces([d EXCEPT !.kp[s] = k], d, s, k)
<1> DEFINE kp == [d.kp EXCEPT ![s] = k]
           r == [d EXCEPT !.kp[s] = k]
<1>1. d \in Devices /\ d.kp \in [KeySlots -> Keypairs]
  BY Zenon DEF Sound, Devices
<1>2. kp \in [KeySlots -> Keypairs] /\ kp[s] = k /\ \A x \in KeySlots : x # s => kp[x] = d.kp[x]
  BY <1>1
<1>3. r = [d EXCEPT !.kp = kp]
  BY Zenon, <1>1 DEF Devices
<1> HIDE DEF kp, r
<1>4. r \in Devices /\ r.kp = kp /\ r.reg = d.reg /\ r.hs = d.hs /\ r.idx = d.idx
      /\ r.seen = d.seen
  BY Zenon, <1>1, <1>2, <1>3 DEF Devices
<1>5. \A x \in KeySlots : kp[x].local = d.kp[x].local
  BY Zenon, <1>2
<1>6. IndicesDiffer(r)
  BY <1>4, <1>5 DEF Sound, IndicesDiffer
<1> QED
  BY Zenon, <1>2, <1>4, <1>6 DEF Sound, Replaces, r

\* A device that has given its key material up.
LEMMA EmptySound ==
  ASSUME NEW d, Sound(d)
  PROVE LET Empty(r) == /\ Sound(r) /\ r.idx = d.idx /\ r.hs.state = "Zeroed"
                        /\ \A s \in KeySlots : r.kp[s] = NoKeypair
        IN Empty(ZeroedDevice(d)) /\ Empty(NewDevice(d.idx))
<1>1. d \in Devices /\ d.idx \in Nat /\ 0 < d.idx
  BY DEF Sound, IndicesDiffer, Devices, Handshakes
<1>2. NoKeypair.local = 0 /\ NoHandshake.local = 0 /\ NoHandshake.state = "Zeroed"
  BY Zenon DEF NoKeypair, NoHandshake
<1>3. NewDevice(d.idx) \in Devices
  BY <1>1, NewTypes
<1>4. ZeroedDevice(d) = NewDevice(d.idx)
  <2> DEFINE kp == [s \in KeySlots |-> NoKeypair]
             reg == [s \in Slots |-> 0]
  <2>1. ZeroedDevice(d) = [d EXCEPT !.hs = NoHandshake, !.kp = kp, !.reg = reg, !.seen = 0]
    BY DEF ZeroedDevice
  <2>2. NewDevice(d.idx) = [hs |-> NoHandshake, kp |-> kp, reg |-> reg, idx |-> d.idx,
                            seen |-> 0]
    BY Zenon DEF NewDevice
  <2> HIDE DEF kp, reg
  <2> QED
    BY Zenon, <1>1, <2>1, <2>2 DEF Devices
<1>5. IndicesDiffer(NewDevice(d.idx))
  BY Zenon, <1>1, <1>2 DEF NewDevice, IndicesDiffer, Slots, KeySlots
<1>6. LET r == NewDevice(d.idx)
      IN r.idx = d.idx /\ r.hs.state = "Zeroed" /\ \A s \in KeySlots : r.kp[s] = NoKeypair
  BY Zenon, <1>2 DEF NewDevice
<1> QED
  BY Zenon, <1>3, <1>4, <1>5, <1>6 DEF Sound

-----------------------------------------------------------------------------

Hist == [derived : [Ends -> SUBSET Sessions], forgot : [Ends -> Nat],
         opened : SUBSET Messages, consumed : SUBSET (Ends \X Nat),
         twice : SUBSET (Messages \cup (Ends \X Nat)), resets : Nat]

\* A session is derived by whoever answers an initiation, or sends under it.
Backed(m, derived) ==
  /\ m.type = "data" => m.key \in derived[m.from]
  /\ m.type = "resp" => \A i \in Ends \ {m.from} : SessionKey(i, m.r, m.s) \in derived[m.from]

\* The keys of device d of end e, with what the ends have derived.
KeysBacked(d, e, derived) ==
  /\ \A s \in KeySlots : IsValid(d.kp[s]) => d.kp[s].key \in derived[e]
  /\ \A o \in Ends \ {e} : IsValid(d.kp["Current"]) => d.kp["Current"].key \in derived[o]

\* A device that has the keys and indices of another.
LEMMA SameKeys ==
  ASSUME NEW d, NEW r, NEW e, NEW derived, KeysBacked(d, e, derived),
         \A x \in KeySlots : r.kp[x].local = d.kp[x].local /\ r.kp[x].key = d.kp[x].key
  PROVE KeysBacked(r, e, derived)
<1>1. r.kp["Current"].local = d.kp["Current"].local /\ r.kp["Current"].key = d.kp["Current"].key
  BY DEF KeySlots
<1> QED
  BY <1>1 DEF KeysBacked, IsValid

\* The inductive invariant.
SessionInv ==
  /\ dev \in [Ends -> Devices] /\ clock \in [Ends -> Nat]
  /\ net \subseteq Messages /\ hist \in Hist
  /\ \A m \in net : Backed(m, hist.derived)
  /\ \A e \in Ends : IndicesDiffer(dev[e]) /\ KeysBacked(dev[e], e, hist.derived)

\* A handler of one end, told by what it does to that end, the network and the
\* history.
LEMMA HandlerKeeps ==
  ASSUME SessionInv, NEW e \in Ends, NEW d, Sound(d), dev' = [dev EXCEPT ![e] = d],
         clock' \in [Ends -> Nat], net' \subseteq Messages, hist' \in Hist,
         \A x \in Ends : hist.derived[x] \subseteq hist'.derived[x],
         \A m \in net' \ net : Backed(m, hist'.derived),
         KeysBacked(d, e, hist'.derived)
  PROVE SessionInv'
<1>1. dev' \in [Ends -> Devices] /\ dev'[e] = d /\ \A x \in Ends \ {e} : dev'[x] = dev[x]
  BY Zenon DEF SessionInv, Sound
<1>2. ASSUME NEW m \in net' PROVE Backed(m, hist'.derived)
  <2>1. CASE m \in net
    <3>1. Backed(m, hist.derived) /\ m.from \in Ends
      BY <2>1 DEF SessionInv, Messages
    <3> QED
      BY Zenon, <3>1 DEF Backed
  <2> QED
    BY Zenon, <2>1
<1>3. ASSUME NEW x \in Ends PROVE IndicesDiffer(dev'[x]) /\ KeysBacked(dev'[x], x, hist'.derived)
  <2>1. CASE x = e
    BY Zenon, <1>1, <2>1 DEF Sound
  <2>2. CASE x # e
    <3>1. dev'[x] = dev[x] /\ IndicesDiffer(dev[x]) /\ KeysBacked(dev[x], x, hist.derived)
      BY Zenon, <1>1, <2>2 DEF SessionInv
    <3> QED
      BY Zenon, <3>1 DEF KeysBacked
  <2> QED
    BY Zenon, <2>1, <2>2
<1> QED
  BY Zenon, <1>1, <1>2, <1>3 DEF SessionInv

\* What the proofs of the handlers use.
LEMMA HandlerStarts ==
  ASSUME SessionInv, NEW e \in Ends
  PROVE /\ Sound(dev[e]) /\ KeysBacked(dev[e], e, hist.derived)
        /\ dev[e].hs.own \in Nat /\ dev[e].kp \in [KeySlots -> Keypairs]
        /\ \A x \in Ends : hist.derived[x] \subseteq Sessions
        /\ dev[e].idx \in Nat
  BY Zenon DEF SessionInv, Sound, Devices, Handshakes, Hist

\* An initiation.
LEMMA InitiateKeeps ==
  ASSUME SessionInv, NEW e \in Ends, Initiate(e)
  PROVE SessionInv'
<1> DEFINE d == CreateInitiation(dev[e])
<1>1. PICK ts \in TimeStamps(e) : /\ clock' = [clock EXCEPT ![e] = ts]
                                  /\ net' = net \cup {Hello(e, dev[e].idx, ts)}
  BY Zenon DEF Initiate
<1>2. ts \in Nat /\ clock' \in [Ends -> Nat]
  BY <1>1 DEF SessionInv, TimeStamps
<1>3. Sound(d) /\ d.kp = dev[e].kp
  BY Zenon, HandlerStarts, InitiationSound
<1>4. Hello(e, dev[e].idx, ts) \in Messages /\ Backed(Hello(e, dev[e].idx, ts), hist.derived)
  BY Zenon, <1>2, HandlerStarts DEF Hello, Messages, Backed
<1>5. hist' = hist /\ hist \in Hist /\ net' \subseteq Messages /\ dev' = [dev EXCEPT ![e] = d]
  BY Zenon, <1>1, <1>4 DEF Initiate, SessionInv
<1>6. KeysBacked(d, e, hist.derived)
  BY Zenon, <1>3, HandlerStarts DEF KeysBacked
<1> HIDE DEF d
<1> QED
  BY Zenon, <1>1, <1>2, <1>3, <1>4, <1>5, <1>6, HandlerKeeps

\* A session that an end derives is in the history of that end.
LEMMA DerivedGrows ==
  ASSUME SessionInv, NEW e \in Ends, NEW key \in Sessions,
         hist'.derived = [hist.derived EXCEPT ![e] = @ \cup {key}]
  PROVE /\ key \in hist'.derived[e]
        /\ hist'.derived \in [Ends -> SUBSET Sessions]
        /\ \A x \in Ends : hist.derived[x] \subseteq hist'.derived[x]
  BY DEF SessionInv, Hist

\* An initiation that is answered.
LEMMA ReceiveInitiationKeeps ==
  ASSUME SessionInv, NEW e \in Ends, ReceiveInitiation(e)
  PROVE SessionInv'
<1>1. PICK m \in To(e, "init") :
        LET d == ConsumeInitiation(dev[e], m.s, m.ts)
            key == SessionKey(m.from, m.s, d.hs.local)
        IN /\ dev' = [dev EXCEPT ![e] = BeginResponderSession(d, key)]
           /\ net' = net \cup {Reply(e, d.hs.local, m.s)}
           /\ hist' = [hist EXCEPT !.derived[e] = @ \cup {key},
                                   !.consumed = @ \cup {<<e, m.s>>},
                                   !.twice = @ \cup ({<<e, m.s>>} \cap hist.consumed)]
           /\ clock' = clock
  BY Zenon DEF ReceiveInitiation
<1> DEFINE o == ConsumeInitiation(dev[e], m.s, m.ts)
           i == dev[e].idx
           key == SessionKey(m.from, m.s, i)
           d == BeginResponderSession(o, key)
<1>2. m \in net /\ m.from \in Ends /\ m.from # e /\ m.s \in Nat /\ m.ts \in Nat
  BY Zenon DEF To, SessionInv, Messages
<1>3. i \in Nat /\ key \in Sessions
  BY Zenon, <1>2, HandlerStarts DEF SessionKey, Sessions
<1> HIDE DEF key
<1>4. /\ o.hs.local = i /\ Sound(d)
      /\ d.kp["Current"] = dev[e].kp["Current"] /\ d.kp["Previous"] = NoKeypair
      /\ d.kp["Next"].key = key
  <2>1. Sound(dev[e])
    BY Zenon, HandlerStarts
  <2>2. Responds(dev[e], m.s, m.ts, key)
    BY Zenon, <1>2, <1>3, <2>1, ResponderSound
  <2> QED
    BY Zenon, <2>2 DEF Responds
<1>5. /\ dev' = [dev EXCEPT ![e] = d] /\ net' = net \cup {Reply(e, i, m.s)} /\ clock' = clock
      /\ hist' = [hist EXCEPT !.derived[e] = @ \cup {key},
                              !.consumed = @ \cup {<<e, m.s>>},
                              !.twice = @ \cup ({<<e, m.s>>} \cap hist.consumed)]
  BY Zenon, <1>1, <1>4 DEF key
<1> HIDE DEF o, d
<1>6. hist' \in Hist /\ hist'.derived = [hist.derived EXCEPT ![e] = @ \cup {key}]
  <2>1. hist'.derived = [hist.derived EXCEPT ![e] = @ \cup {key}]
    BY <1>5 DEF SessionInv, Hist
  <2>2. /\ hist.consumed \cup {<<e, m.s>>} \in SUBSET (Ends \X Nat)
        /\ hist.twice \cup ({<<e, m.s>>} \cap hist.consumed)
             \in SUBSET (Messages \cup (Ends \X Nat))
    BY <1>2 DEF SessionInv, Hist
  <2>3. [hist.derived EXCEPT ![e] = @ \cup {key}] \in [Ends -> SUBSET Sessions]
    BY <1>3 DEF SessionInv, Hist
  <2> QED
    BY Zenon, <1>5, <2>1, <2>2, <2>3 DEF SessionInv, Hist
<1>7. key \in hist'.derived[e] /\ \A x \in Ends : hist.derived[x] \subseteq hist'.derived[x]
  BY Zenon, <1>3, <1>6, DerivedGrows
<1>8. Reply(e, i, m.s) \in Messages /\ Backed(Reply(e, i, m.s), hist'.derived)
  <2>1. Ends \ {e} = {m.from}
    BY <1>2, NoiseSessionAssumption
  <2> QED
    BY Zenon, <1>2, <1>3, <1>7, <2>1 DEF Reply, Messages, Backed, key
<1>9. KeysBacked(d, e, hist'.derived)
  <2>1. ~IsValid(NoKeypair) /\ KeysBacked(dev[e], e, hist.derived)
    BY HandlerStarts DEF IsValid, NoKeypair
  <2> QED
    BY Zenon, <1>4, <1>7, <2>1 DEF KeysBacked, KeySlots
<1>10. net' \subseteq Messages /\ clock' \in [Ends -> Nat]
  BY Zenon, <1>5, <1>8 DEF SessionInv
<1> QED
  BY Zenon, <1>4, <1>5, <1>6, <1>7, <1>8, <1>9, <1>10, HandlerKeeps

\* A datagram under the current keypair.
LEMMA SendFacts ==
  ASSUME NEW d, Sound(d), NEW e \in Ends, NEW derived \in [Ends -> SUBSET Sessions],
         KeysBacked(d, e, derived), IsValid(d.kp["Current"])
  PROVE /\ SentBy(e, d) \in Messages /\ Backed(SentBy(e, d), derived)
        /\ Sound(AfterSend(d)) /\ KeysBacked(AfterSend(d), e, derived)
<1> DEFINE k == d.kp["Current"]
           n == [k EXCEPT !.ctr = @ + 1]
<1>1. k \in Keypairs /\ "Current" \in KeySlots
  BY Zenon DEF Sound, Devices, KeySlots
<1>2. k.key \in Sessions /\ k.remote \in Nat /\ k.ctr \in Nat /\ k.key \in derived[e]
  BY <1>1 DEF Keypairs, KeysBacked
<1>3. SentBy(e, d) \in Messages /\ Backed(SentBy(e, d), derived)
  BY <1>2 DEF SentBy, Data, Messages, Backed
<1>4. n \in Keypairs /\ n.local = k.local /\ n.key = k.key
  BY <1>1, <1>2 DEF Keypairs
<1>5. AfterSend(d) = [d EXCEPT !.kp["Current"] = n]
  BY <1>1 DEF AfterSend, ReserveSendCounter, Sound, Devices
<1> HIDE DEF n
<1>6. /\ Sound(AfterSend(d)) /\ AfterSend(d).kp["Current"] = n
      /\ \A x \in KeySlots : x # "Current" => AfterSend(d).kp[x] = d.kp[x]
  <2>1. Replaces(AfterSend(d), d, "Current", n)
    BY <1>1, <1>4, <1>5, KeypairsSound
  <2> QED
    BY Zenon, <2>1 DEF Replaces
<1>7. KeysBacked(AfterSend(d), e, derived)
  BY Zenon, <1>4, <1>6 DEF KeysBacked, IsValid
<1> QED
  BY Zenon, <1>3, <1>6, <1>7

\* Transport data is sent.
LEMMA SendDataKeeps ==
  ASSUME SessionInv, NEW e \in Ends, SendData(e)
  PROVE SessionInv'
<1> DEFINE m == SentBy(e, dev[e])
           d == AfterSend(dev[e])
<1>1. hist.derived \in [Ends -> SUBSET Sessions] /\ hist \in Hist
  BY Zenon DEF SessionInv, Hist
<1>2. m \in Messages /\ Backed(m, hist.derived) /\ Sound(d) /\ KeysBacked(d, e, hist.derived)
  BY Zenon, <1>1, HandlerStarts, SendFacts DEF SendData, CanSend
<1>3. /\ dev' = [dev EXCEPT ![e] = d] /\ net' = net \cup {m} /\ clock' = clock
      /\ hist' = [hist EXCEPT !.twice = @ \cup ({m} \cap net)]
  BY Zenon DEF SendData
<1> HIDE DEF m, d
<1>4. hist' \in Hist /\ hist'.derived = hist.derived
  BY <1>1, <1>2, <1>3 DEF Hist
<1>5. net' \subseteq Messages /\ clock' \in [Ends -> Nat]
  BY Zenon, <1>2, <1>3 DEF SessionInv
<1> QED
  BY Zenon, <1>2, <1>3, <1>4, <1>5, HandlerKeeps

\* A response that is accepted, and the keepalive that confirms the session.
LEMMA ReceiveResponseKeeps ==
  ASSUME SessionInv, NEW e \in Ends, ReceiveResponse(e)
  PROVE SessionInv'
<1>1. PICK m \in To(e, "resp"), staged \in BOOLEAN :
        LET key == SessionKey(e, dev[e].hs.own, m.s)
            d == BeginInitiatorSession(ConsumeResponse(dev[e], m.s), key)
        IN /\ AcceptsResponse(dev[e], m.s, m.r)
           /\ IF staged
              THEN dev' = [dev EXCEPT ![e] = d] /\ net' = net
              ELSE /\ CanSend(d.kp["Current"])
                   /\ dev' = [dev EXCEPT ![e] = AfterSend(d)]
                   /\ net' = net \cup {SentBy(e, d)}
           /\ hist' = [hist EXCEPT !.derived[e] = @ \cup {key}]
           /\ clock' = clock
  BY Zenon DEF ReceiveResponse
<1> DEFINE key == SessionKey(e, dev[e].hs.own, m.s)
           d == BeginInitiatorSession(ConsumeResponse(dev[e], m.s), key)
<1>2. m \in net /\ m.type = "resp" /\ m.from \in Ends /\ m.from # e /\ m.s \in Nat
  BY Zenon DEF To, SessionInv, Messages
<1>3. /\ key \in Sessions /\ dev[e].hs.state = "InitiationCreated" /\ dev[e].hs.own = m.r
      /\ Sound(dev[e])
  BY Zenon, <1>1, <1>2, HandlerStarts DEF SessionKey, Sessions, AcceptsResponse
<1>4. key \in hist.derived[m.from] /\ Ends \ {e} = {m.from}
  <2>1. Ends \ {e} = {m.from} /\ e \in Ends \ {m.from}
    BY <1>2, NoiseSessionAssumption
  <2> QED
    BY Zenon, <1>2, <1>3, <2>1 DEF SessionInv, Backed
<1>5. /\ hist' = [hist EXCEPT !.derived[e] = @ \cup {key}] /\ clock' = clock
      /\ \/ dev' = [dev EXCEPT ![e] = d] /\ net' = net
         \/ /\ CanSend(d.kp["Current"])
            /\ dev' = [dev EXCEPT ![e] = AfterSend(d)] /\ net' = net \cup {SentBy(e, d)}
  BY Zenon, <1>1
<1> HIDE DEF key
<1>6. /\ Sound(d) /\ d.kp["Current"].key = key
      /\ d.kp["Previous"] \in {dev[e].kp[x] : x \in KeySlots}
      /\ d.kp["Next"] \in {NoKeypair, dev[e].kp["Next"]}
  <2>1. Initiates(dev[e], m.s, key)
    BY Zenon, <1>2, <1>3, InitiatorSound
  <2> QED
    BY Zenon, <2>1 DEF Initiates
<1> HIDE DEF d
<1>7. hist' \in Hist /\ hist'.derived = [hist.derived EXCEPT ![e] = @ \cup {key}]
  <2>1. hist'.derived = [hist.derived EXCEPT ![e] = @ \cup {key}]
    BY Zenon, <1>5 DEF SessionInv, Hist
  <2>2. [hist.derived EXCEPT ![e] = @ \cup {key}] \in [Ends -> SUBSET Sessions]
    BY <1>3 DEF SessionInv, Hist
  <2> QED
    BY Zenon, <1>5, <2>1, <2>2 DEF SessionInv, Hist
<1>8. /\ key \in hist'.derived[e] /\ hist'.derived \in [Ends -> SUBSET Sessions]
      /\ \A x \in Ends : hist.derived[x] \subseteq hist'.derived[x]
  BY Zenon, <1>3, <1>7, DerivedGrows
<1>9. KeysBacked(d, e, hist'.derived)
  <2>1. ~IsValid(NoKeypair) /\ KeysBacked(dev[e], e, hist.derived)
    BY Zenon, HandlerStarts DEF IsValid, NoKeypair
  <2>2. IsValid(d.kp["Previous"]) => d.kp["Previous"].key \in hist'.derived[e]
    BY Zenon, <1>6, <1>8, <2>1 DEF KeysBacked
  <2>3. IsValid(d.kp["Next"]) => d.kp["Next"].key \in hist'.derived[e]
    BY Zenon, <1>6, <1>8, <2>1 DEF KeysBacked, KeySlots
  <2> QED
    BY Zenon, <1>2, <1>4, <1>6, <1>8, <2>2, <2>3 DEF KeysBacked, KeySlots
<1>10. clock' \in [Ends -> Nat] /\ net \subseteq Messages
  BY Zenon, <1>5 DEF SessionInv
<1>11. CASE dev' = [dev EXCEPT ![e] = d] /\ net' = net
  BY Zenon, <1>6, <1>7, <1>8, <1>9, <1>10, <1>11, HandlerKeeps
<1>12. CASE /\ CanSend(d.kp["Current"])
            /\ dev' = [dev EXCEPT ![e] = AfterSend(d)] /\ net' = net \cup {SentBy(e, d)}
  <2>1. /\ SentBy(e, d) \in Messages /\ Backed(SentBy(e, d), hist'.derived)
        /\ Sound(AfterSend(d)) /\ KeysBacked(AfterSend(d), e, hist'.derived)
    BY Zenon, <1>6, <1>8, <1>9, <1>12, SendFacts DEF CanSend
  <2>2. net' \subseteq Messages
    BY Zenon, <1>10, <1>12, <2>1
  <2> QED
    BY Zenon, <1>7, <1>8, <1>10, <1>12, <2>1, <2>2, HandlerKeeps
<1> QED
  BY <1>5, <1>11, <1>12

\* Transport data is opened, and confirms the next keypair.
LEMMA ReceiveDataKeeps ==
  ASSUME SessionInv, NEW e \in Ends, ReceiveData(e)
  PROVE SessionInv'
<1>1. PICK m \in To(e, "data") :
        LET slot == LookupIndexSlot(dev[e], m.r)
            k == dev[e].kp[slot]
            d == [dev[e] EXCEPT !.kp[slot].win = Advanced(@, m.c)]
        IN /\ slot \in KeySlots
           /\ k.key = m.key
           /\ dev' = [dev EXCEPT ![e] = IF slot = "Next" THEN PromoteNextKeypair(d) ELSE d]
           /\ hist' = [hist EXCEPT !.opened = @ \cup {m}, !.twice = @ \cup ({m} \cap hist.opened)]
           /\ net' = net /\ clock' = clock
  BY Zenon DEF ReceiveData
<1> DEFINE slot == LookupIndexSlot(dev[e], m.r)
           k == dev[e].kp[slot]
           n == [k EXCEPT !.win = Advanced(@, m.c)]
           d == [dev[e] EXCEPT !.kp[slot] = n]
<1>2. /\ m \in net /\ m \in Messages /\ m.from \in Ends /\ m.from # e /\ m.c \in Nat
      /\ m.key \in hist.derived[m.from] /\ Ends \ {e} = {m.from}
  <2>1. m \in net /\ m \in Messages /\ m.type = "data" /\ m.from \in Ends /\ m.from # e
    BY Zenon DEF To, SessionInv, Messages
  <2>2. Ends \ {e} = {m.from}
    BY <2>1, NoiseSessionAssumption
  <2> QED
    BY Zenon, <2>1, <2>2 DEF SessionInv, Messages, Backed
<1>3. /\ slot \in KeySlots /\ k.key = m.key
      /\ hist' = [hist EXCEPT !.opened = @ \cup {m}, !.twice = @ \cup ({m} \cap hist.opened)]
      /\ net' = net /\ clock' = clock
  BY Zenon, <1>1
<1>4. Sound(dev[e]) /\ KeysBacked(dev[e], e, hist.derived) /\ k \in Keypairs
  BY Zenon, <1>3, HandlerStarts
<1>5. dev' = [dev EXCEPT ![e] = IF slot = "Next" THEN PromoteNextKeypair(d) ELSE d]
  <2>1. [dev[e] EXCEPT !.kp[slot].win = Advanced(@, m.c)] = d
    BY Zenon, <1>3, <1>4 DEF Sound, Devices
  <2> QED
    BY Zenon, <1>1, <2>1
<1> HIDE DEF slot
<1>6. n \in Keypairs /\ n.local = k.local /\ n.key = k.key
  BY Zenon, <1>2, <1>4, AdvancedType DEF Keypairs
<1> HIDE DEF n
<1>7. Sound(d) /\ d.kp[slot] = n /\ \A x \in KeySlots : x # slot => d.kp[x] = dev[e].kp[x]
  <2>1. Replaces(d, dev[e], slot, n)
    BY Zenon, <1>3, <1>4, <1>6, KeypairsSound
  <2> QED
    BY Zenon, <2>1 DEF Replaces
<1> HIDE DEF d
<1>8. KeysBacked(d, e, hist.derived)
  <2>1. \A x \in KeySlots : /\ d.kp[x].local = dev[e].kp[x].local
                            /\ d.kp[x].key = dev[e].kp[x].key
    BY Zenon, <1>6, <1>7
  <2> QED
    BY Zenon, <1>4, <2>1, SameKeys
<1>9. hist' \in Hist /\ hist'.derived = hist.derived
  BY Zenon, <1>2, <1>3 DEF SessionInv, Hist
<1>10. net' \subseteq Messages /\ clock' \in [Ends -> Nat]
  BY Zenon, <1>3 DEF SessionInv
<1>11. CASE slot = "Next"
  <2> DEFINE r == PromoteNextKeypair(d)
  <2>1. /\ Sound(r)
        /\ r.kp["Current"] = d.kp["Next"] /\ r.kp["Previous"] = d.kp["Current"]
        /\ r.kp["Next"] = NoKeypair
    BY Zenon, <1>7, PromoteSound
  <2> HIDE DEF r
  <2>2. ~IsValid(NoKeypair)
    BY Zenon DEF IsValid, NoKeypair
  <2>3. d.kp["Next"].key = m.key
    BY Zenon, <1>3, <1>6, <1>7, <1>11
  <2>4. KeysBacked(r, e, hist.derived)
    BY Zenon, <1>2, <1>8, <2>1, <2>2, <2>3 DEF KeysBacked, KeySlots
  <2>5. dev' = [dev EXCEPT ![e] = r]
    BY Zenon, <1>5, <1>11 DEF r
  <2> QED
    BY Zenon, <1>3, <1>9, <1>10, <2>1, <2>4, <2>5, HandlerKeeps
<1>12. CASE slot # "Next"
  <2>1. dev' = [dev EXCEPT ![e] = d]
    BY Zenon, <1>5, <1>12
  <2> QED
    BY Zenon, <1>3, <1>7, <1>8, <1>9, <1>10, <2>1, HandlerKeeps
<1> QED
  BY Zenon, <1>11, <1>12

\* RejectAfterTime passes.
LEMMA ExpireKeeps ==
  ASSUME SessionInv, NEW e \in Ends, Expire(e)
  PROVE SessionInv'
<1>1. PICK s \in KeySlots : dev' = [dev EXCEPT ![e].kp[s].dead = TRUE]
  BY Zenon DEF Expire
<1> DEFINE k == dev[e].kp[s]
           n == [k EXCEPT !.dead = TRUE]
           d == [dev[e] EXCEPT !.kp[s] = n]
<1>2. Sound(dev[e]) /\ KeysBacked(dev[e], e, hist.derived) /\ k \in Keypairs
  BY HandlerStarts
<1>3. dev' = [dev EXCEPT ![e] = d]
  BY Zenon, <1>1, <1>2 DEF Sound, Devices
<1>4. n \in Keypairs /\ n.local = k.local /\ n.key = k.key
  BY Zenon, <1>2 DEF Keypairs
<1> HIDE DEF n
<1>5. Sound(d) /\ d.kp[s] = n /\ \A x \in KeySlots : x # s => d.kp[x] = dev[e].kp[x]
  <2>1. Replaces(d, dev[e], s, n)
    BY Zenon, <1>2, <1>4, KeypairsSound
  <2> QED
    BY Zenon, <2>1 DEF Replaces
<1> HIDE DEF d
<1>6. KeysBacked(d, e, hist.derived)
  <2>1. \A x \in KeySlots : /\ d.kp[x].local = dev[e].kp[x].local
                            /\ d.kp[x].key = dev[e].kp[x].key
    BY Zenon, <1>4, <1>5
  <2> QED
    BY Zenon, <1>2, <2>1, SameKeys
<1>7. /\ hist' = hist /\ hist \in Hist /\ net' = net /\ net \subseteq Messages
      /\ clock' \in [Ends -> Nat]
  BY Zenon DEF Expire, SessionInv
<1> QED
  BY Zenon, <1>3, <1>5, <1>6, <1>7, HandlerKeeps

\* The key material is given up.
LEMMA ForgetKeeps ==
  ASSUME SessionInv, NEW e \in Ends, ZeroKeyMaterial(e) \/ Reactivate(e)
  PROVE SessionInv'
<1>1. PICK d : /\ Forget(e, d) /\ Sound(d) /\ d.idx = dev[e].idx
               /\ \A s \in KeySlots : d.kp[s] = NoKeypair
  <2>1. Sound(dev[e])
    BY HandlerStarts
  <2> QED
    BY <2>1, EmptySound DEF ZeroKeyMaterial, Reactivate
<1>2. KeysBacked(d, e, hist'.derived)
  <2>1. ~IsValid(NoKeypair)
    BY Zenon DEF IsValid, NoKeypair
  <2>2. ~IsValid(d.kp["Current"]) /\ \A s \in KeySlots : ~IsValid(d.kp[s])
    BY Zenon, <1>1, <2>1 DEF KeySlots
  <2> QED
    BY <2>2 DEF KeysBacked
<1>3. hist' \in Hist /\ hist'.derived = hist.derived
  <2>1. hist \in Hist /\ d.idx \in Nat
    BY <1>1, HandlerStarts DEF SessionInv
  <2>2. hist' = [hist EXCEPT !.resets = hist.resets + 1,
                             !.forgot = [hist.forgot EXCEPT ![e] = d.idx],
                             !.consumed = {x \in hist.consumed : x[1] # e}]
    BY <1>1, <2>1 DEF Forget, Hist
  <2>3. hist.resets + 1 \in Nat /\ [hist.forgot EXCEPT ![e] = d.idx] \in [Ends -> Nat]
    BY <2>1 DEF Hist
  <2> QED
    BY Zenon, <2>1, <2>2, <2>3 DEF Hist
<1>4. /\ dev' = [dev EXCEPT ![e] = d] /\ net' = net /\ net \subseteq Messages
      /\ clock' \in [Ends -> Nat]
  BY Zenon, <1>1 DEF Forget, SessionInv
<1> QED
  BY Zenon, <1>1, <1>2, <1>3, <1>4, HandlerKeeps

\* Two devices without keys.
LEMMA SessionInit == Init => SessionInv
<1> SUFFICES ASSUME Init PROVE SessionInv
  BY Zenon
<1>1. ASSUME NEW e \in Ends
      PROVE /\ dev[e] \in Devices /\ IndicesDiffer(dev[e])
            /\ KeysBacked(dev[e], e, hist.derived)
  <2>1. dev[e] = NewDevice(FirstIndex[e]) /\ FirstIndex[e] \in Nat /\ 0 < FirstIndex[e]
    BY NoiseSessionAssumption DEF Init
  <2>2. NoKeypair.local = 0 /\ NoHandshake.local = 0 /\ NoHandshake.state = "Zeroed"
    BY DEF NoKeypair, NoHandshake
  <2>3. dev[e] \in Devices
    BY <2>1, NewTypes
  <2>4. IndicesDiffer(dev[e])
    BY SMTT(30), <2>1, <2>2 DEF NewDevice, IndicesDiffer, Slots, KeySlots
  <2>5. KeysBacked(dev[e], e, hist.derived)
    BY SMTT(30), <2>1, <2>2 DEF NewDevice, KeysBacked, IsValid, KeySlots
  <2> QED
    BY <2>3, <2>4, <2>5
<1>2. hist \in Hist
  BY Zenon DEF Init, Hist
<1>3. dev \in [Ends -> Devices] /\ clock \in [Ends -> Nat] /\ net = {}
  BY Zenon, <1>1 DEF Init
<1> QED
  BY Zenon, <1>1, <1>2, <1>3 DEF SessionInv

\* Every behaviour keeps the invariant.
LEMMA Invariance == Spec => []SessionInv
<1>1. SessionInv /\ [Next]_vars => SessionInv'
  <2> SUFFICES ASSUME SessionInv, [Next]_vars PROVE SessionInv'
    OBVIOUS
  <2>1. CASE Next
    BY <2>1, InitiateKeeps, ReceiveInitiationKeeps, ReceiveResponseKeeps, SendDataKeeps,
       ReceiveDataKeeps, ExpireKeeps, ForgetKeeps DEF Next
  <2>2. CASE UNCHANGED vars
    BY <2>2 DEF vars, SessionInv
  <2> QED
    BY <2>1, <2>2
<1> QED
  BY <1>1, SessionInit, PTL DEF Spec

\* The devices keep their types, the rings of their windows included.
THEOREM TypeCorrect == Spec => []TypeOK
<1>1. SessionInv => TypeOK
  BY Zenon DEF SessionInv, TypeOK, Messages
<1> QED
  BY <1>1, Invariance, PTL

\* wg_device_lookup_index_slot leads from the index of a keypair to its slot.
THEOREM IndexFindsKeypair == Spec => []LookupFindsOwner
<1>1. ASSUME SessionInv, NEW e \in Ends, NEW s \in KeySlots, IsValid(dev[e].kp[s])
      PROVE LookupIndexSlot(dev[e], dev[e].kp[s].local) = s
  <2> DEFINE i == dev[e].kp[s].local
  <2>1. IndicesDiffer(dev[e]) /\ i # 0
    BY Zenon, <1>1 DEF SessionInv, IsValid
  <2>2. dev[e].reg["Handshake"] # i /\ \A t \in KeySlots : dev[e].reg[t] = i => t = s
    BY <2>1 DEF IndicesDiffer
  <2>3. dev[e].reg[s] = i
    BY Zenon, <2>1 DEF IndicesDiffer
  <2> HIDE DEF i
  <2>4. LookupIndexSlot(dev[e], i) = s
    BY Zenon, <2>1, <2>2, <2>3 DEF LookupIndexSlot, KeySlots
  <2> QED
    BY <2>4 DEF i
<1>2. SessionInv => LookupFindsOwner
  BY Zenon, <1>1 DEF LookupFindsOwner
<1> QED
  BY <1>2, Invariance, PTL

\* A device sends with the keys of a session only when its peer has derived it
\* as well: the initiator on the response, the responder on the first data.
THEOREM SessionIsShared == Spec => []CurrentIsConfirmed
<1>1. SessionInv => CurrentIsConfirmed
  BY Zenon DEF SessionInv, KeysBacked, CurrentIsConfirmed
<1> QED
  BY <1>1, Invariance, PTL

-----------------------------------------------------------------------------
\* ReplayWindow: the ring of blocks against the set of counters it stands for.

\* The window holds exactly the counters of set opened, as far as its blocks
\* go: those of the block of the highest counter and of the RingBlocks - 1
\* blocks before it.
Block(c) == c \div BlockBits
InRing(w, c) == Block(c) <= Block(w.high) /\ Block(w.high) < Block(c) + RingBlocks
WindowHolds(w, opened) ==
  /\ opened \subseteq 0..w.high
  /\ w.init => w.high \in opened
  /\ ~w.init => opened = {} /\ w.high = 0
  /\ \A c \in Nat : InRing(w, c) => (c % BlockBits \in w.ring[BlockOf(c)] <=> c \in opened)

\* Division by the size of a block or of the ring.
LEMMA DivFacts ==
  ASSUME NEW n \in Nat \ {0}, NEW c \in Nat
  PROVE  /\ c \div n \in Nat /\ c % n \in 0..(n - 1)
         /\ c = n * (c \div n) + (c % n)
  OBVIOUS

\* Quotient and remainder are unique.
LEMMA DivUnique ==
  ASSUME NEW n \in Nat \ {0}, NEW q \in Nat, NEW r \in 0..(n - 1), NEW c \in Nat,
         c = n * q + r
  PROVE  c \div n = q /\ c % n = r
  OBVIOUS

\* A step of the factor is at least a step of the product.
LEMMA ProductStep ==
  ASSUME NEW n \in Nat \ {0}, NEW p \in Nat, NEW q \in Nat, p < q
  PROVE  n * p + n <= n * q
  OBVIOUS

\* Later counters are in later blocks.
LEMMA BlockOrder ==
  ASSUME NEW x \in Nat, NEW y \in Nat, x <= y
  PROVE  Block(x) \in Nat /\ Block(y) \in Nat /\ Block(x) <= Block(y)
<1>1. Block(x) \in Nat /\ x % BlockBits \in 0..(BlockBits - 1)
      /\ x = BlockBits * Block(x) + (x % BlockBits)
  BY Zenon, DivFacts, NoiseKeysAssumption DEF Block
<1>2. Block(y) \in Nat /\ y % BlockBits \in 0..(BlockBits - 1)
      /\ y = BlockBits * Block(y) + (y % BlockBits)
  BY Zenon, DivFacts, NoiseKeysAssumption DEF Block
<1>3. Block(y) < Block(x) => BlockBits * Block(y) + BlockBits <= BlockBits * Block(x)
  BY Zenon, <1>1, <1>2, ProductStep, NoiseKeysAssumption
<1>4. BlockBits * Block(x) \in Nat /\ BlockBits * Block(y) \in Nat /\ BlockBits \in Nat
  BY <1>1, <1>2, NoiseKeysAssumption
<1>5. ~(Block(y) < Block(x))
  <2>1. ASSUME NEW p \in Nat, NEW q \in Nat, NEW r \in Nat, NEW s \in Nat,
               x = p + r, y = q + s, s < BlockBits, q + BlockBits <= p
        PROVE FALSE
    BY <1>4, <2>1
  <2>2. x % BlockBits \in Nat /\ y % BlockBits \in Nat /\ y % BlockBits < BlockBits
    BY <1>1, <1>2, <1>4
  <2> QED
    BY Zenon, <1>1, <1>2, <1>3, <1>4, <2>1, <2>2
<1> QED
  BY <1>1, <1>2, <1>5

\* The block and the bit determine the counter.
LEMMA BlockBit ==
  ASSUME NEW x \in Nat, NEW y \in Nat, Block(x) = Block(y),
         x % BlockBits = y % BlockBits
  PROVE  x = y
<1>1. x = BlockBits * Block(x) + (x % BlockBits)
  BY Zenon, DivFacts, NoiseKeysAssumption DEF Block
<1>2. y = BlockBits * Block(y) + (y % BlockBits)
  BY Zenon, DivFacts, NoiseKeysAssumption DEF Block
<1> QED
  BY Zenon, <1>1, <1>2

\* A counter that is not too old is in a block of the ring.
LEMMA NotTooOld ==
  ASSUME NEW x \in Nat, NEW y \in Nat, x <= y, y - x <= WindowSize
  PROVE  Block(y) < Block(x) + RingBlocks
<1>1. Block(x) \in Nat /\ x % BlockBits \in 0..(BlockBits - 1)
      /\ x = BlockBits * Block(x) + (x % BlockBits)
  BY Zenon, DivFacts, NoiseKeysAssumption DEF Block
<1>2. Block(y) \in Nat /\ y % BlockBits \in 0..(BlockBits - 1)
      /\ y = BlockBits * Block(y) + (y % BlockBits)
  BY Zenon, DivFacts, NoiseKeysAssumption DEF Block
<1>3. RingBlocks \in Nat /\ BlockBits \in Nat \ {0}
  BY Zenon, NoiseKeysAssumption
<1>4. SUFFICES ASSUME Block(x) + RingBlocks <= Block(y) PROVE FALSE
  BY <1>1, <1>2, <1>3
<1>5. BlockBits * (Block(x) + RingBlocks) <= BlockBits * Block(y)
  BY <1>1, <1>2, <1>3, <1>4
<1>6. BlockBits * (Block(x) + RingBlocks) = BlockBits * Block(x) + BlockBits * RingBlocks
      /\ WindowSize = BlockBits * RingBlocks - BlockBits
  BY <1>1, <1>3 DEF WindowSize
<1> DEFINE p == BlockBits * Block(x)
           q == BlockBits * Block(y)
           t == BlockBits * RingBlocks
<1>7. p \in Nat /\ q \in Nat /\ t \in Nat
  BY <1>1, <1>2, <1>3
<1>8. x = p + (x % BlockBits) /\ y = q + (y % BlockBits) /\ p + t <= q
      /\ y - x <= t - BlockBits
  BY Zenon, <1>1, <1>2, <1>5, <1>6
<1> HIDE DEF p, q, t
<1> QED
  BY <1>1, <1>2, <1>3, <1>7, <1>8

\* Two blocks of the ring are in different places of it.
LEMMA RingPlaces ==
  ASSUME NEW m \in Nat, NEW n \in Nat, m <= n, n < m + RingBlocks,
         m % RingBlocks = n % RingBlocks
  PROVE  m = n
<1>1. m \div RingBlocks \in Nat /\ m % RingBlocks \in 0..(RingBlocks - 1)
      /\ m = RingBlocks * (m \div RingBlocks) + (m % RingBlocks)
  BY Zenon, DivFacts, NoiseKeysAssumption
<1>2. n \div RingBlocks \in Nat /\ n % RingBlocks \in 0..(RingBlocks - 1)
      /\ n = RingBlocks * (n \div RingBlocks) + (n % RingBlocks)
  BY Zenon, DivFacts, NoiseKeysAssumption
<1> DEFINE p == m \div RingBlocks
           q == n \div RingBlocks
<1> HIDE DEF p, q
<1>3. /\ p < q => RingBlocks * p + RingBlocks <= RingBlocks * q
      /\ q < p => RingBlocks * q + RingBlocks <= RingBlocks * p
  BY Zenon, <1>1, <1>2, ProductStep, NoiseKeysAssumption DEF p, q
<1>4. m = RingBlocks * p + (m % RingBlocks) /\ n = RingBlocks * q + (m % RingBlocks)
      /\ p \in Nat /\ q \in Nat /\ RingBlocks * p \in Nat /\ RingBlocks * q \in Nat
      /\ m % RingBlocks \in Nat /\ RingBlocks \in Nat \ {0}
  BY <1>1, <1>2, NoiseKeysAssumption DEF p, q
<1>5. ~(p < q) /\ ~(q < p)
  BY <1>3, <1>4
<1>6. p = q
  BY <1>4, <1>5
<1> QED
  BY Zenon, <1>4, <1>6

\* RingBlocks blocks in a row cover the ring.
LEMMA RingCover ==
  ASSUME NEW u \in Nat, NEW n \in Nat, u < n
  PROVE  \E i \in (u + 1)..(u + RingBlocks) : i % RingBlocks = n % RingBlocks
<1> DEFINE a == n - u - 1
           i == u + 1 + (a % RingBlocks)
           k == a \div RingBlocks
<1>1. a \in Nat
  OBVIOUS
<1> HIDE DEF a
<1>2. k \in Nat /\ a % RingBlocks \in 0..(RingBlocks - 1)
      /\ a = RingBlocks * k + (a % RingBlocks) /\ RingBlocks \in Nat \ {0}
  BY Zenon, <1>1, DivFacts, NoiseKeysAssumption
<1> HIDE DEF k
<1>3. i \in (u + 1)..(u + RingBlocks) /\ i \in Nat /\ n = RingBlocks * k + i
  <2> DEFINE p == RingBlocks * k
  <2>1. p \in Nat
    BY <1>2
  <2>2. a = p + (a % RingBlocks)
    BY Zenon, <1>2
  <2> HIDE DEF p
  <2>3. i \in (u + 1)..(u + RingBlocks) /\ i \in Nat
    BY <1>2
  <2>4. n = p + i
    BY <1>1, <1>2, <2>1, <2>2 DEF a
  <2> QED
    BY Zenon, <2>3, <2>4 DEF p
<1> HIDE DEF i
<1>4. i \div RingBlocks \in Nat /\ i % RingBlocks \in 0..(RingBlocks - 1)
      /\ i = RingBlocks * (i \div RingBlocks) + (i % RingBlocks)
  BY Zenon, <1>2, <1>3, DivFacts
<1> DEFINE q == i \div RingBlocks
           r == i % RingBlocks
<1> HIDE DEF q, r
<1>5. q \in Nat /\ r \in 0..(RingBlocks - 1) /\ i = RingBlocks * q + r
  BY Zenon, <1>4 DEF q, r
<1>6. RingBlocks * (k + q) = RingBlocks * k + RingBlocks * q /\ k + q \in Nat
  BY <1>2, <1>5
<1>7. n = RingBlocks * (k + q) + r
  BY <1>2, <1>3, <1>5, <1>6
<1>8. n % RingBlocks = r
  <2>1. PICK z \in Nat : z = k + q
    BY <1>6
  <2>2. n = RingBlocks * z + r
    BY <1>7, <2>1
  <2>3. RingBlocks \in Nat \ {0} /\ r \in 0..(RingBlocks - 1)
    BY Zenon, <1>2, <1>5
  <2> QED
    BY <2>2, <2>3, DivUnique
<1> QED
  BY Zenon, <1>3, <1>8 DEF r

\* The blocks a ring enters when its highest counter moves to c.
Entered(w, c) ==
  {i % RingBlocks :
     i \in (Block(w.high) + 1)..(Block(w.high) + Smaller(Block(c) - Block(w.high), RingBlocks))}

\* A counter of the ring has a place and a bit in it.
LEMMA Placed ==
  ASSUME NEW c \in Nat
  PROVE  /\ Block(c) \in Nat /\ BlockOf(c) \in 0..(RingBlocks - 1)
         /\ BlockOf(c) = Block(c) % RingBlocks
<1>1. Block(c) \in Nat /\ BlockOf(c) = Block(c) % RingBlocks
  BY Zenon, DivFacts, NoiseKeysAssumption DEF Block, BlockOf
<1> QED
  BY Zenon, <1>1, DivFacts, NoiseKeysAssumption

\* The blocks that are not entered keep their bits, the others lose them.
LEMMA MovedFacts ==
  ASSUME NEW w \in Windows, NEW c \in Nat, NEW x \in Nat
  PROVE  Moved(w, c)[BlockOf(x)] =
           IF BlockOf(x) \in Entered(w, c) THEN {} ELSE w.ring[BlockOf(x)]
<1>1. BlockOf(x) \in 0..(RingBlocks - 1)
  BY Zenon, Placed
<1>2. Moved(w, c) = [b \in 0..(RingBlocks - 1) |->
                       IF b \in Entered(w, c) THEN {} ELSE w.ring[b]]
  BY Zenon DEF Moved, Entered, Block
<1> QED
  BY Zenon, <1>1, <1>2

\* A block of the ring after the move was entered exactly if it is a new one.
LEMMA EnteredFacts ==
  ASSUME NEW w \in Windows, NEW c \in Nat, w.high < c, NEW x \in Nat,
         Block(x) <= Block(c), Block(c) < Block(x) + RingBlocks
  PROVE  BlockOf(x) \in Entered(w, c) <=> Block(w.high) < Block(x)
<1> DEFINE h == Block(w.high)
           n == Block(c)
           v == Block(x)
           diff == Smaller(n - h, RingBlocks)
<1>1. w.high \in Nat /\ RingBlocks \in Nat \ {0}
  BY Zenon, NoiseKeysAssumption DEF Windows
<1>2. h \in Nat /\ n \in Nat /\ h <= n
  BY <1>1, BlockOrder
<1>3. v \in Nat /\ BlockOf(x) = v % RingBlocks /\ v <= n /\ n < v + RingBlocks
  BY Zenon, Placed
<1> HIDE DEF h, n, v
<1>4. diff \in Nat /\ (diff = n - h \/ (diff = RingBlocks /\ RingBlocks <= n - h))
  BY <1>1, <1>2 DEF Smaller
<1> HIDE DEF diff
<1>5. Entered(w, c) = {i % RingBlocks : i \in (h + 1)..(h + diff)}
  BY Zenon DEF Entered, h, n, diff
<1>6. CASE h < v
  <2>1. \E i \in (h + 1)..(h + diff) : i % RingBlocks = v % RingBlocks
    <3>1. CASE diff = n - h
      <4>1. v \in (h + 1)..(h + diff)
        BY <1>2, <1>3, <1>6, <3>1
      <4> QED
        BY Zenon, <4>1
    <3>2. CASE diff = RingBlocks
      BY Zenon, <1>2, <1>3, <1>6, <3>2, RingCover
    <3> QED
      BY Zenon, <1>4, <3>1, <3>2
  <2> QED
    BY Zenon, <1>3, <1>5, <1>6, <2>1 DEF h, v
<1>7. CASE ~(h < v)
  <2>1. ASSUME NEW i \in (h + 1)..(h + diff), i % RingBlocks = v % RingBlocks
        PROVE  FALSE
    <3>1. i \in Nat /\ v <= i /\ i < v + RingBlocks /\ v # i
      BY <1>1, <1>2, <1>3, <1>4, <1>7
    <3> QED
      BY Zenon, <1>3, <2>1, <3>1, RingPlaces
  <2> QED
    BY Zenon, <1>3, <1>5, <1>7, <2>1 DEF h, v
<1> QED
  BY Zenon, <1>6, <1>7

\* The bit of a counter of the ring, when the highest counter moves to c.
LEMMA RingForFacts ==
  ASSUME NEW w \in Windows, NEW opened, WindowHolds(w, opened), NEW c \in Nat,
         NEW x \in Nat,
         IF c > w.high THEN Block(x) <= Block(c) /\ Block(c) < Block(x) + RingBlocks
         ELSE InRing(w, x)
  PROVE  x % BlockBits \in RingFor(w, c)[BlockOf(x)] <=> x \in opened
<1>1. w.high \in Nat
  BY Zenon DEF Windows
<1>2. CASE ~(c > w.high)
  BY Zenon, <1>2 DEF RingFor, WindowHolds
<1>3. CASE c > w.high
  <2>1. /\ RingFor(w, c) = Moved(w, c) /\ w.high < c
        /\ Block(x) <= Block(c) /\ Block(c) < Block(x) + RingBlocks
    BY <1>1, <1>3 DEF RingFor
  <2>2. BlockOf(x) \in Entered(w, c) <=> Block(w.high) < Block(x)
    BY Zenon, <2>1, EnteredFacts
  <2>3. Block(w.high) \in Nat /\ Block(c) \in Nat /\ Block(w.high) <= Block(c) /\ Block(x) \in Nat
        /\ RingBlocks \in Nat
    BY <1>1, <2>1, BlockOrder, Placed, NoiseKeysAssumption
  <2>4. CASE Block(w.high) < Block(x)
    <3>1. RingFor(w, c)[BlockOf(x)] = {}
      BY Zenon, <2>1, <2>2, <2>4, MovedFacts
    <3>2. ~(x <= w.high)
      <4>1. x <= w.high => Block(x) <= Block(w.high)
        BY Zenon, <1>1, BlockOrder
      <4> QED
        BY <2>3, <2>4, <4>1
    <3>3. x \notin opened
      BY <1>1, <3>2 DEF WindowHolds
    <3> QED
      BY Zenon, <3>1, <3>3
  <2>5. CASE ~(Block(w.high) < Block(x))
    <3>1. RingFor(w, c)[BlockOf(x)] = w.ring[BlockOf(x)]
      BY Zenon, <2>1, <2>2, <2>5, MovedFacts
    <3>2. InRing(w, x)
      BY <2>1, <2>3, <2>5 DEF InRing
    <3> QED
      BY Zenon, <3>1, <3>2 DEF WindowHolds
  <2> QED
    BY Zenon, <2>4, <2>5
<1> QED
  BY Zenon, <1>2, <1>3

\* ReplayWindow::TryAdvance refuses exactly the counters it has advanced to
\* and those more than WindowSize behind the highest of them.
LEMMA AcceptsExactly ==
  ASSUME NEW w \in Windows, NEW opened, WindowHolds(w, opened), NEW c \in Nat
  PROVE  Accepts(w, c) <=> c \notin opened /\ \A h \in opened : h - c <= WindowSize
<1>1. w.high \in Nat /\ WindowSize \in Nat /\ RingBlocks \in Nat \ {0}
  BY NoiseKeysAssumption DEF Windows, WindowSize
<1>2. opened \subseteq 0..w.high
  BY Zenon DEF WindowHolds
<1>3. CASE c > w.high
  <2>1. ~TooOld(w, c) /\ c \notin opened
    BY <1>1, <1>2, <1>3 DEF TooOld
  <2>2. \A h \in opened : h - c <= WindowSize
    BY <1>1, <1>2, <1>3
  <2>3. Block(c) \in Nat
    BY Zenon, Placed
  <2>4. Block(c) <= Block(c) /\ Block(c) < Block(c) + RingBlocks
    BY <1>1, <2>3
  <2>5. c % BlockBits \notin RingFor(w, c)[BlockOf(c)]
    BY Zenon, <1>3, <2>1, <2>4, RingForFacts
  <2> QED
    BY Zenon, <2>1, <2>2, <2>5 DEF Accepts
<1>4. CASE ~(c > w.high) /\ TooOld(w, c)
  <2>1. w.high \in opened /\ w.high - c > WindowSize
    BY Zenon, <1>4 DEF TooOld, WindowHolds
  <2>2. ~(w.high - c <= WindowSize)
    BY <1>1, <2>1
  <2> QED
    BY Zenon, <1>4, <2>1, <2>2 DEF Accepts
<1>5. CASE ~(c > w.high) /\ ~TooOld(w, c)
  <2>1. c <= w.high /\ w.high - c <= WindowSize
    <3>1. CASE w.init
      BY <1>1, <1>5, <3>1 DEF TooOld
    <3>2. CASE ~w.init
      BY <1>1, <1>5, <3>2 DEF WindowHolds
    <3> QED
      BY Zenon, <3>1, <3>2
  <2>2. InRing(w, c)
    BY Zenon, <1>1, <2>1, BlockOrder, NotTooOld DEF InRing
  <2>3. c % BlockBits \in RingFor(w, c)[BlockOf(c)] <=> c \in opened
    BY Zenon, <1>5, <2>2, RingForFacts
  <2>4. \A h \in opened : h - c <= WindowSize
    BY <1>1, <1>2, <2>1
  <2> QED
    BY Zenon, <1>5, <2>3, <2>4 DEF Accepts
<1> QED
  BY Zenon, <1>3, <1>4, <1>5

\* The window after it has advanced to a counter it accepts.
LEMMA AdvancedHolds ==
  ASSUME NEW w \in Windows, NEW opened, WindowHolds(w, opened), NEW c \in Nat,
         Accepts(w, c)
  PROVE  WindowHolds(Advanced(w, c), opened \cup {c})
<1> DEFINE a == Advanced(w, c)
           ring == [RingFor(w, c) EXCEPT ![BlockOf(c)] = @ \cup {c % BlockBits}]
           high == IF c > w.high THEN c ELSE w.high
<1>1. w.high \in Nat /\ RingBlocks \in Nat \ {0} /\ opened \subseteq 0..w.high
  BY Zenon, NoiseKeysAssumption DEF Windows, WindowHolds
<1>2. a.high = high /\ a.init = TRUE /\ a.ring = ring
  BY Zenon DEF Advanced
<1>3. high \in Nat /\ w.high <= high /\ c <= high /\ high \in {c, w.high}
      /\ (c > w.high => high = c) /\ (~(c > w.high) => high = w.high)
  BY <1>1
<1>4. RingFor(w, c) \in [0..(RingBlocks - 1) -> SUBSET (0..(BlockBits - 1))]
  BY Zenon DEF RingFor, Moved, Windows
<1> HIDE DEF a, ring, high
<1>5. opened \cup {c} \subseteq 0..a.high
  BY <1>1, <1>2, <1>3
<1>6. a.high \in opened \cup {c}
  <2>1. CASE c > w.high
    BY Zenon, <1>2, <1>3, <2>1
  <2>2. CASE ~(c > w.high) /\ w.init
    BY Zenon, <1>2, <1>3, <2>2 DEF WindowHolds
  <2>3. CASE ~(c > w.high) /\ ~w.init
    BY <1>1, <1>2, <1>3, <2>3 DEF WindowHolds
  <2> QED
    BY Zenon, <2>1, <2>2, <2>3
<1>7. InRing(a, c)
  <2>1. CASE c > w.high
    <3>1. a.high = c /\ Block(c) \in Nat
      BY Zenon, <1>2, <1>3, <2>1, Placed
    <3> QED
      BY <1>1, <3>1 DEF InRing
  <2>2. CASE ~(c > w.high)
    <3>1. ~TooOld(w, c) /\ WindowSize \in Nat
      BY NoiseKeysAssumption DEF Accepts, WindowSize
    <3>2. c <= w.high /\ w.high - c <= WindowSize
      <4>1. CASE w.init
        BY <1>1, <2>2, <3>1, <4>1 DEF TooOld
      <4>2. CASE ~w.init
        BY <1>1, <2>2, <3>1, <4>2 DEF WindowHolds
      <4> QED
        BY Zenon, <4>1, <4>2
    <3> QED
      BY Zenon, <1>1, <1>2, <1>3, <2>2, <3>2, BlockOrder, NotTooOld DEF InRing
  <2> QED
    BY Zenon, <2>1, <2>2
<1>8. ASSUME NEW x \in Nat, InRing(a, x)
      PROVE  x % BlockBits \in a.ring[BlockOf(x)] <=> x \in opened \cup {c}
  <2>1. x % BlockBits \in RingFor(w, c)[BlockOf(x)] <=> x \in opened
    <3>1. CASE c > w.high
      BY Zenon, <1>2, <1>3, <1>8, <3>1, RingForFacts DEF InRing
    <3>2. CASE ~(c > w.high)
      BY Zenon, <1>2, <1>3, <1>8, <3>2, RingForFacts DEF InRing
    <3> QED
      BY Zenon, <3>1, <3>2
  <2>2. BlockOf(x) \in 0..(RingBlocks - 1) /\ BlockOf(c) \in 0..(RingBlocks - 1)
        /\ BlockOf(x) = Block(x) % RingBlocks /\ BlockOf(c) = Block(c) % RingBlocks
        /\ Block(x) \in Nat /\ Block(c) \in Nat
    BY Zenon, Placed
  <2>3. a.ring[BlockOf(x)] = IF BlockOf(x) = BlockOf(c)
                             THEN RingFor(w, c)[BlockOf(x)] \cup {c % BlockBits}
                             ELSE RingFor(w, c)[BlockOf(x)]
    BY Zenon, <1>2, <1>4, <2>2 DEF ring
  <2>4. BlockOf(x) = BlockOf(c) => Block(x) = Block(c)
    <3>1. a.high \in Nat /\ Block(a.high) \in Nat
      BY Zenon, <1>2, <1>3, Placed
    <3>2. \/ Block(x) <= Block(c) /\ Block(c) < Block(x) + RingBlocks
          \/ Block(c) <= Block(x) /\ Block(x) < Block(c) + RingBlocks
      BY <1>1, <1>7, <1>8, <2>2, <3>1 DEF InRing
    <3> QED
      BY Zenon, <2>2, <3>2, RingPlaces
  <2>5. BlockOf(x) = BlockOf(c) /\ x % BlockBits = c % BlockBits => x = c
    BY Zenon, <2>4, BlockBit
  <2> QED
    BY Zenon, <2>1, <2>3, <2>5
<1> QED
  BY Zenon, <1>2, <1>5, <1>6, <1>8 DEF WindowHolds, a

\* A new window holds nothing.
LEMMA NewWindowHolds == WindowHolds(NewWindow, {})
<1>1. NewWindow.high = 0 /\ NewWindow.init = FALSE
      /\ NewWindow.ring = [b \in 0..(RingBlocks - 1) |-> {}]
  BY Zenon DEF NewWindow
<1>2. ASSUME NEW c \in Nat PROVE NewWindow.ring[BlockOf(c)] = {}
  BY Zenon, <1>1, Placed
<1> QED
  BY Zenon, <1>1, <1>2 DEF WindowHolds

-----------------------------------------------------------------------------
\* Nothing is done twice.

\* The counters that end e has opened under a key.
Opened(e, key, opened) == {m.c : m \in {x \in opened : x.key = key /\ x.from # e}}

\* A key of end e is superseded by a later one, was given up, or is held in
\* the slot it sends with or in the one it waits for.
KeyStands(d, e, h, k) ==
  \/ LocalIndex(e, k) < h.forgot[e]
  \/ \E j \in h.derived[e] : LocalIndex(e, j) > LocalIndex(e, k)
  \/ \E s \in {"Current", "Next"} : IsValid(d.kp[s]) /\ d.kp[s].key = k

\* What the network and the history say of keypair k of end e.
KeypairTracks(k, e, msgs, h) ==
  IsValid(k) =>
    /\ k.local = LocalIndex(e, k.key)
    /\ \A m \in msgs : m.type = "data" /\ m.from = e /\ m.key = k.key => m.c < k.ctr
    /\ WindowHolds(k.win, Opened(e, k.key, h.opened))

\* What they say of device d of end e.
Tracks(d, e, msgs, h) ==
  /\ d.hs.state = "InitiationCreated" =>
       d.hs.own = d.hs.local /\ \A k \in h.derived[e] : LocalIndex(e, k) < d.hs.local
  /\ \A k \in h.derived[e] : LocalIndex(e, k) < d.idx /\ KeyStands(d, e, h, k)
  /\ \A s \in KeySlots : KeypairTracks(d.kp[s], e, msgs, h)
  /\ IsValid(d.kp["Next"]) => \A k \in h.derived[e] : LocalIndex(e, k) <= d.kp["Next"].local
  /\ \A m \in msgs : m.type = "init" /\ m.from = e => m.s < d.idx
  /\ \A x \in h.consumed : x[1] = e =>
       \E m \in msgs : m.type = "init" /\ m.from # e /\ m.s = x[2] /\ m.ts <= d.seen

HistoryInv ==
  /\ \A e \in Ends : Tracks(dev[e], e, net, hist)
  /\ \A m, n \in net : m.type = "init" /\ n.type = "init" /\ m.from = n.from /\ m.s = n.s => m = n
  /\ \A m \in hist.opened : m.type = "data" /\ \A o \in Ends \ {m.from} : m.key \in hist.derived[o]
  /\ hist.twice = {}

\* The local index of a session.
LEMMA LocalIndexType ==
  ASSUME NEW e, NEW k \in Sessions PROVE LocalIndex(e, k) \in Nat
  BY Zenon DEF LocalIndex, Sessions

\* There is one other end.
LEMMA OtherEnd ==
  ASSUME NEW e \in Ends, NEW x \in Ends, NEW y \in Ends, x # e, y # e PROVE x = y
  BY NoiseSessionAssumption

\* What is opened grows by nothing that an end may have opened.
LEMMA SameOpened ==
  ASSUME NEW e, NEW key, NEW p, NEW q, p \subseteq q,
         \A m \in q \ p : m.from = e \/ m.key # key
  PROVE Opened(e, key, q) = Opened(e, key, p)
  BY Zenon DEF Opened

\* A keypair that keeps its index, key and window, and uses no counter again,
\* while nothing was sent or opened under it that it does not count.
LEMMA KeypairKeeps ==
  ASSUME NEW k, NEW n, NEW e, NEW p, NEW q, NEW g, NEW h, KeypairTracks(k, e, p, g),
         n.local = k.local, n.key = k.key, n.win = k.win,
         n.ctr = k.ctr, p \subseteq q, g.opened \subseteq h.opened,
         \A m \in q \ p : m.type = "data" /\ m.from = e => m.key # k.key,
         \A m \in h.opened \ g.opened : m.from = e \/ m.key # k.key
  PROVE KeypairTracks(n, e, q, h)
<1> SUFFICES ASSUME IsValid(n) PROVE KeypairTracks(n, e, q, h)
  BY Zenon DEF KeypairTracks
<1>1. /\ k.local = LocalIndex(e, k.key)
      /\ \A m \in p : m.type = "data" /\ m.from = e /\ m.key = k.key => m.c < k.ctr
      /\ WindowHolds(k.win, Opened(e, k.key, g.opened))
  BY Zenon DEF KeypairTracks, IsValid
<1>2. Opened(e, k.key, h.opened) = Opened(e, k.key, g.opened)
  <2>1. \A m \in h.opened \ g.opened : m.from = e \/ m.key # k.key
    OBVIOUS
  <2>2. g.opened \subseteq h.opened
    OBVIOUS
  <2> HIDE DEF Opened
  <2> QED
    BY <2>1, <2>2, SameOpened
<1>3. \A m \in q : m.type = "data" /\ m.from = e /\ m.key = k.key => m.c < k.ctr
  BY Zenon, <1>1
<1> QED
  BY Zenon, <1>1, <1>2, <1>3 DEF KeypairTracks

\* The device of the other end, which does nothing.
LEMMA OtherTracks ==
  ASSUME NEW d, NEW e, NEW p, NEW q, NEW g, NEW h, Tracks(d, e, p, g),
         h.derived[e] = g.derived[e], h.forgot[e] = g.forgot[e],
         p \subseteq q, \A m \in q \ p : m.from # e,
         g.opened \subseteq h.opened, \A m \in h.opened \ g.opened : m.from = e,
         \A x \in h.consumed : x[1] = e => x \in g.consumed
  PROVE Tracks(d, e, q, h)
<1>1. \A s \in KeySlots : KeypairTracks(d.kp[s], e, p, g)
  BY Zenon DEF Tracks
<1>2. ASSUME NEW s \in KeySlots PROVE KeypairTracks(d.kp[s], e, q, h)
  <2>1. KeypairTracks(d.kp[s], e, p, g)
    BY Zenon, <1>1
  <2>2. \A m \in q \ p : m.type = "data" /\ m.from = e => m.key # d.kp[s].key
    BY Zenon
  <2>3. \A m \in h.opened \ g.opened : m.from = e \/ m.key # d.kp[s].key
    BY Zenon
  <2> QED
    BY <2>1, <2>2, <2>3, KeypairKeeps
<1>3. \A k \in h.derived[e] : LocalIndex(e, k) < d.idx /\ KeyStands(d, e, h, k)
  BY Zenon DEF Tracks, KeyStands
<1>4. \A m \in q : m.type = "init" /\ m.from = e => m.s < d.idx
  BY Zenon DEF Tracks
<1>5. \A x \in h.consumed : x[1] = e =>
       \E m \in q : m.type = "init" /\ m.from # e /\ m.s = x[2] /\ m.ts <= d.seen
  BY Zenon DEF Tracks
<1> QED
  BY Zenon, <1>2, <1>3, <1>4, <1>5 DEF Tracks

\* A handler of end e, told by what it does to that end.
LEMMA HistoryKeeps ==
  ASSUME SessionInv, HistoryInv, NEW e \in Ends, NEW d, dev' = [dev EXCEPT ![e] = d],
         Tracks(d, e, net', hist'),
         \A x \in Ends : x # e => /\ hist'.derived[x] = hist.derived[x]
                                  /\ hist'.forgot[x] = hist.forgot[x],
         hist.derived[e] \subseteq hist'.derived[e],
         net \subseteq net', \A m \in net' \ net : m.from = e,
         \A m, n \in net' : m.type = "init" /\ n.type = "init" /\ m.from = n.from /\ m.s = n.s
                              => m = n,
         hist.opened \subseteq hist'.opened,
         \A m \in hist'.opened \ hist.opened :
           m.from \in Ends \ {e} /\ m.type = "data" /\ m.key \in hist'.derived[e],
         \A x \in hist'.consumed : x[1] # e => x \in hist.consumed,
         hist'.twice = {}
  PROVE HistoryInv'
<1>1. dev'[e] = d /\ \A x \in Ends : x # e => dev'[x] = dev[x]
  BY Zenon DEF SessionInv
<1>2. ASSUME NEW x \in Ends, x # e PROVE Tracks(dev'[x], x, net', hist')
  <2>1. Tracks(dev[x], x, net, hist) /\ dev'[x] = dev[x]
    BY Zenon, <1>1, <1>2 DEF HistoryInv
  <2>2. \A m \in hist'.opened \ hist.opened : m.from = x
    BY <1>2, OtherEnd
  <2>3. hist'.derived[x] = hist.derived[x] /\ hist'.forgot[x] = hist.forgot[x]
    BY Zenon, <1>2
  <2>4. \A m \in net' \ net : m.from # x
    BY Zenon, <1>2
  <2>5. \A y \in hist'.consumed : y[1] = x => y \in hist.consumed
    BY Zenon, <1>2
  <2> QED
    BY Zenon, <2>1, <2>2, <2>3, <2>4, <2>5, OtherTracks
<1>3. ASSUME NEW m \in hist'.opened
      PROVE m.type = "data" /\ \A o \in Ends \ {m.from} : m.key \in hist'.derived[o]
  <2>1. CASE m \in hist.opened
    <3>1. m.type = "data" /\ \A o \in Ends \ {m.from} : m.key \in hist.derived[o]
      BY Zenon, <2>1 DEF HistoryInv
    <3> QED
      BY Zenon, <3>1
  <2>2. CASE m \notin hist.opened
    <3>1. \A o \in Ends \ {m.from} : o = e
      BY <2>2, OtherEnd
    <3> QED
      BY Zenon, <2>2, <3>1
  <2> QED
    BY Zenon, <2>1, <2>2
<1>4. \A x \in Ends : Tracks(dev'[x], x, net', hist')
  BY Zenon, <1>1, <1>2
<1> QED
  BY Zenon, <1>3, <1>4 DEF HistoryInv

\* A device whose keypairs keep their indices and keys, and are as the network
\* and the history say.
LEMMA SlotsTrack ==
  ASSUME NEW d, NEW r, NEW e, NEW p, NEW q, NEW g, NEW h, Tracks(d, e, p, g),
         \A s \in KeySlots : /\ r.kp[s].local = d.kp[s].local /\ r.kp[s].key = d.kp[s].key
                             /\ KeypairTracks(r.kp[s], e, q, h),
         r.hs = d.hs, r.idx = d.idx, r.seen = d.seen,
         p \subseteq q, \A m \in q \ p : m.type # "init",
         h.derived = g.derived, h.forgot = g.forgot, h.consumed = g.consumed
  PROVE Tracks(r, e, q, h)
<1>1. "Current" \in KeySlots /\ "Next" \in KeySlots
  BY Zenon DEF KeySlots
<1>2. \A k : KeyStands(d, e, g, k) => KeyStands(r, e, h, k)
  BY <1>1 DEF KeyStands, IsValid
<1>3. IsValid(r.kp["Next"]) => \A k \in h.derived[e] : LocalIndex(e, k) <= r.kp["Next"].local
  BY Zenon, <1>1 DEF Tracks, IsValid
<1>4. \A k \in h.derived[e] : LocalIndex(e, k) < r.idx /\ KeyStands(r, e, h, k)
  BY Zenon, <1>2 DEF Tracks
<1>5. r.hs.state = "InitiationCreated" =>
        r.hs.own = r.hs.local /\ \A k \in h.derived[e] : LocalIndex(e, k) < r.hs.local
  BY Zenon DEF Tracks
<1>6. \A m \in q : m.type = "init" /\ m.from = e => m.s < r.idx
  BY Zenon DEF Tracks
<1>7. \A x \in h.consumed : x[1] = e =>
        \E m \in q : m.type = "init" /\ m.from # e /\ m.s = x[2] /\ m.ts <= r.seen
  BY Zenon DEF Tracks
<1> QED
  BY Zenon, <1>3, <1>4, <1>5, <1>6, <1>7 DEF Tracks

\* Two keypairs of a device have different keys.
LEMMA KeysDiffer ==
  ASSUME NEW d, Sound(d), NEW e, NEW p, NEW h, Tracks(d, e, p, h),
         NEW s \in KeySlots, NEW t \in KeySlots, s # t, IsValid(d.kp[s]), IsValid(d.kp[t])
  PROVE d.kp[s].key # d.kp[t].key
<1>1. /\ d.kp[s].local = LocalIndex(e, d.kp[s].key)
      /\ d.kp[t].local = LocalIndex(e, d.kp[t].key)
  BY Zenon DEF Tracks, KeypairTracks
<1>2. d.kp[s].local # d.kp[t].local
  BY Zenon DEF Sound, IndicesDiffer, IsValid
<1> QED
  BY Zenon, <1>1, <1>2

\* A datagram is sent under a counter that was not used.
LEMMA SendTracks ==
  ASSUME NEW d, Sound(d), NEW e, NEW p, p \subseteq Messages, NEW h, Tracks(d, e, p, h),
         IsValid(d.kp["Current"])
  PROVE /\ SentBy(e, d) \notin p
        /\ Tracks(AfterSend(d), e, p \cup {SentBy(e, d)}, h)
<1> DEFINE k == d.kp["Current"]
           n == [k EXCEPT !.ctr = @ + 1]
           m == SentBy(e, d)
           q == p \cup {m}
           r == AfterSend(d)
<1>1. "Current" \in KeySlots /\ k \in Keypairs /\ k.ctr \in Nat
  BY Zenon DEF Sound, Devices, KeySlots, Keypairs
<1>2. m.type = "data" /\ m.from = e /\ m.key = k.key /\ m.c = k.ctr
  BY Zenon DEF SentBy, Data
<1>3. /\ n \in Keypairs /\ n.local = k.local /\ n.key = k.key /\ n.win = k.win
      /\ n.ctr = k.ctr + 1
  BY <1>1 DEF Keypairs
<1>4. r = [d EXCEPT !.kp["Current"] = n]
  BY Zenon, <1>1 DEF AfterSend, ReserveSendCounter, Sound, Devices
<1> HIDE DEF n, m, r
<1>5. /\ r.kp["Current"] = n /\ \A x \in KeySlots : x # "Current" => r.kp[x] = d.kp[x]
      /\ r.hs = d.hs /\ r.idx = d.idx /\ r.seen = d.seen
  <2>1. Replaces(r, d, "Current", n)
    BY Zenon, <1>1, <1>3, <1>4, KeypairsSound
  <2> QED
    BY Zenon, <2>1 DEF Replaces
<1>6. /\ k.local = LocalIndex(e, k.key)
      /\ \A x \in p : x.type = "data" /\ x.from = e /\ x.key = k.key => x.c < k.ctr
      /\ WindowHolds(k.win, Opened(e, k.key, h.opened))
  BY Zenon, <1>1 DEF Tracks, KeypairTracks
<1>7. m \notin p
  BY <1>1, <1>2, <1>6
<1>8. KeypairTracks(n, e, q, h)
  <2>1. \A x \in q : x.type = "data" /\ x.from = e /\ x.key = n.key => x.c < n.ctr
    <3>1. ASSUME NEW x \in p, x.type = "data", x.from = e, x.key = k.key
          PROVE x.c < k.ctr + 1
      <4>1. x.c \in Nat /\ x.c < k.ctr
        BY Zenon, <1>6, <3>1 DEF Messages
      <4> QED
        BY <1>1, <4>1
    <3>2. k.ctr < k.ctr + 1
      BY <1>1
    <3> QED
      BY Zenon, <1>2, <1>3, <3>1, <3>2
  <2> QED
    BY Zenon, <1>3, <1>6, <2>1 DEF KeypairTracks
<1>9. ASSUME NEW x \in KeySlots, x # "Current" PROVE KeypairTracks(d.kp[x], e, q, h)
  <2> SUFFICES ASSUME IsValid(d.kp[x]) PROVE KeypairTracks(d.kp[x], e, q, h)
    BY Zenon DEF KeypairTracks
  <2>1. d.kp[x].key # k.key
    BY Zenon, <1>1, <1>9, KeysDiffer
  <2>2. KeypairTracks(d.kp[x], e, p, h)
    BY Zenon DEF Tracks
  <2>3. \A y \in q \ p : y.key # d.kp[x].key
    BY Zenon, <1>2, <2>1
  <2> QED
    BY Zenon, <2>2, <2>3, KeypairKeeps
<1>10. \A s \in KeySlots : /\ r.kp[s].local = d.kp[s].local /\ r.kp[s].key = d.kp[s].key
                           /\ KeypairTracks(r.kp[s], e, q, h)
  <2> HIDE DEF q
  <2> QED
    BY Zenon, <1>3, <1>5, <1>8, <1>9
<1>11. p \subseteq q /\ \A x \in q \ p : x.type # "init"
  BY <1>2
<1> HIDE DEF q
<1>12. Tracks(r, e, q, h)
  BY Zenon, <1>5, <1>10, <1>11, SlotsTrack
<1> QED
  BY Zenon, <1>7, <1>12 DEF m, q, r

\* The next keypair becomes the current one: it has the latest session.
LEMMA PromoteTracks ==
  ASSUME NEW d, Sound(d), NEW e, NEW p, NEW h, Tracks(d, e, p, h),
         KeysBacked(d, e, h.derived), IsValid(d.kp["Next"])
  PROVE Tracks(PromoteNextKeypair(d), e, p, h)
<1> DEFINE r == PromoteNextKeypair(d)
           n == d.kp["Next"]
           c == d.kp["Current"]
<1>1. /\ r.kp["Current"] = n /\ r.kp["Previous"] = c
      /\ r.kp["Next"] = NoKeypair /\ r.hs = d.hs /\ r.idx = d.idx /\ r.seen = d.seen
  BY Zenon, PromoteSound
<1>2. ~IsValid(NoKeypair)
  BY Zenon DEF IsValid, NoKeypair
<1> HIDE DEF r
<1>3. /\ "Next" \in KeySlots /\ "Current" \in KeySlots /\ n \in Keypairs /\ c \in Keypairs
      /\ n.local \in Nat /\ c.local \in Nat
  BY Zenon DEF Sound, Devices, KeySlots, Keypairs
<1>4. n.key \in h.derived[e] /\ n.local = LocalIndex(e, n.key)
      /\ \A k \in h.derived[e] : LocalIndex(e, k) <= n.local
  BY Zenon, <1>3 DEF KeysBacked, Tracks, KeypairTracks
<1>5. ASSUME IsValid(c), c.key \in h.derived[e] PROVE LocalIndex(e, n.key) > LocalIndex(e, c.key)
  <2>1. c.local = LocalIndex(e, c.key)
    BY Zenon, <1>3, <1>5 DEF Tracks, KeypairTracks
  <2>2. c.local # n.local
    BY Zenon, <1>3, <1>5 DEF Sound, IndicesDiffer, IsValid
  <2>3. c.local <= n.local
    BY Zenon, <1>4, <1>5, <2>1
  <2> QED
    BY <1>3, <1>4, <2>1, <2>2, <2>3
<1>6. ASSUME NEW k \in h.derived[e] PROVE LocalIndex(e, k) < r.idx /\ KeyStands(r, e, h, k)
  <2>1. LocalIndex(e, k) < d.idx /\ KeyStands(d, e, h, k)
    BY Zenon DEF Tracks
  <2>2. CASE IsValid(c) /\ c.key = k
    BY Zenon, <1>1, <1>4, <1>5, <2>1, <2>2 DEF KeyStands
  <2>3. CASE n.key = k
    BY Zenon, <1>1, <2>1, <2>3 DEF KeyStands
  <2>4. CASE LocalIndex(e, k) < h.forgot[e] \/ \E j \in h.derived[e] : LocalIndex(e, j) > LocalIndex(e, k)
    BY Zenon, <1>1, <2>1, <2>4 DEF KeyStands
  <2> QED
    BY Zenon, <2>1, <2>2, <2>3, <2>4 DEF KeyStands
<1>7. ASSUME NEW s \in KeySlots PROVE KeypairTracks(r.kp[s], e, p, h)
  <2>1. KeypairTracks(n, e, p, h) /\ KeypairTracks(c, e, p, h)
    BY Zenon, <1>3 DEF Tracks
  <2>2. KeypairTracks(NoKeypair, e, p, h)
    BY Zenon, <1>2 DEF KeypairTracks
  <2> HIDE DEF n, c
  <2> QED
    BY Zenon, <1>1, <2>1, <2>2 DEF KeySlots
<1>8. Tracks(r, e, p, h)
  <2>1. ~IsValid(r.kp["Next"])
    BY Zenon, <1>1, <1>2
  <2> HIDE DEF n, c
  <2> QED
    BY Zenon, <1>1, <1>6, <1>7, <2>1 DEF Tracks
<1> QED
  BY Zenon, <1>8 DEF r

\* The session of an index that no session of the end has: nothing was sent or
\* opened under it.
LEMMA NewKeyTracks ==
  ASSUME SessionInv, HistoryInv, NEW e \in Ends, NEW key \in Sessions, NEW l \in Nat,
         LocalIndex(e, key) = l, \A k \in hist.derived[e] : LocalIndex(e, k) < l,
         NEW r \in Nat, NEW i \in BOOLEAN, NEW q,
         \A m \in q \ net : m.type # "data"
  PROVE KeypairTracks(Establish(l, r, key, i), e, q, hist)
<1> DEFINE k == Establish(l, r, key, i)
<1>1. k.local = l /\ k.key = key /\ k.win = NewWindow
  BY Zenon DEF Establish, NoKeypair
<1> HIDE DEF k
<1>2. key \notin hist.derived[e]
  OBVIOUS
<1>3. ASSUME NEW m \in q, m.type = "data", m.from = e PROVE m.key # key
  <2>1. Backed(m, hist.derived)
    BY Zenon, <1>3 DEF SessionInv
  <2> QED
    BY Zenon, <1>2, <1>3, <2>1 DEF Backed
<1>4. Opened(e, key, hist.opened) = {}
  <2>1. ASSUME NEW m \in hist.opened, m.key = key, m.from # e PROVE FALSE
    BY Zenon, <1>2, <2>1 DEF HistoryInv
  <2> QED
    BY Zenon, <2>1 DEF Opened
<1>5. WindowHolds(NewWindow, Opened(e, key, hist.opened))
  BY Zenon, <1>4, NewWindowHolds
<1>6. KeypairTracks(k, e, q, hist)
  BY Zenon, <1>1, <1>3, <1>5 DEF KeypairTracks
<1> QED
  BY Zenon, <1>6 DEF k

\* A keypair, after a step that only adds messages of another kind.
LEMMA OtherMessages ==
  ASSUME NEW k, NEW e, NEW p, NEW q, NEW g, NEW h, KeypairTracks(k, e, p, g),
         p \subseteq q, \A m \in q \ p : m.type # "data", h.opened = g.opened
  PROVE KeypairTracks(k, e, q, h)
<1>1. \A m \in q \ p : m.type = "data" /\ m.from = e => m.key # k.key
  BY Zenon
<1>2. g.opened \subseteq h.opened /\ \A m \in h.opened \ g.opened : m.from = e \/ m.key # k.key
  BY Zenon
<1> QED
  BY <1>1, <1>2, KeypairKeeps

\* An initiation.
LEMMA InitiateHistory ==
  ASSUME SessionInv, HistoryInv, NEW e \in Ends, Initiate(e)
  PROVE HistoryInv'
<1> DEFINE d == CreateInitiation(dev[e])
           i == dev[e].idx
<1>1. PICK ts \in TimeStamps(e) : net' = net \cup {Hello(e, i, ts)}
  BY Zenon DEF Initiate
<1>2. dev' = [dev EXCEPT ![e] = d] /\ hist' = hist /\ i \in Nat /\ Sound(dev[e])
      /\ \A k \in hist.derived[e] : LocalIndex(e, k) \in Nat
  BY Zenon, HandlerStarts, LocalIndexType DEF Initiate
<1> DEFINE m == Hello(e, i, ts)
<1>3. m.type = "init" /\ m.from = e /\ m.s = i
  BY Zenon DEF Hello
<1>4. d.kp = dev[e].kp /\ d.idx = i + 1 /\ d.seen = dev[e].seen /\ d.hs.local = i /\ d.hs.own = i
  BY Zenon, <1>2, InitiationSound
<1> HIDE DEF d, i, m
<1>5. Tracks(dev[e], e, net, hist)
  BY Zenon DEF HistoryInv
<1>6. net \subseteq net' /\ \A x \in net' \ net : x = m
  BY Zenon, <1>1 DEF m
<1>7. \A s \in KeySlots : KeypairTracks(d.kp[s], e, net', hist)
  <2>1. \A s \in KeySlots : KeypairTracks(d.kp[s], e, net, hist)
    BY Zenon, <1>4, <1>5 DEF Tracks
  <2>2. \A x \in net' \ net : x.type # "data"
    BY Zenon, <1>3, <1>6
  <2> QED
    BY Zenon, <1>6, <2>1, <2>2, OtherMessages
<1>8. \A k \in hist.derived[e] : /\ LocalIndex(e, k) < i /\ LocalIndex(e, k) < i + 1
                                 /\ KeyStands(d, e, hist, k)
  <2>1. \A k \in hist.derived[e] : LocalIndex(e, k) < i /\ KeyStands(dev[e], e, hist, k)
    BY Zenon, <1>5 DEF Tracks, i
  <2>2. \A k \in hist.derived[e] : LocalIndex(e, k) < i + 1
    BY <1>2, <2>1
  <2> QED
    BY Zenon, <1>4, <2>1, <2>2 DEF KeyStands
<1>9. \A x \in net : x.type = "init" /\ x.from = e => x.s \in Nat /\ x.s < i
  <2>1. \A x \in net : x.type = "init" => x.s \in Nat
    BY Zenon DEF SessionInv, Messages
  <2> QED
    BY Zenon, <1>5, <2>1 DEF Tracks, i
<1>10. \A x \in net' : x.type = "init" /\ x.from = e => x.s < d.idx
  <2>1. ASSUME NEW x \in net, x.type = "init", x.from = e PROVE x.s < d.idx
    BY <1>2, <1>4, <1>9, <2>1
  <2>2. m.s < d.idx
    BY <1>2, <1>3, <1>4
  <2> QED
    BY Zenon, <1>6, <2>1, <2>2
<1>11. Tracks(d, e, net', hist')
  BY Zenon, <1>2, <1>4, <1>5, <1>6, <1>7, <1>8, <1>10 DEF Tracks
<1>12. ASSUME NEW x \in net', NEW y \in net', x.type = "init", y.type = "init",
              x.from = y.from, x.s = y.s
       PROVE x = y
  <2>1. CASE x \in net /\ y \in net
    BY Zenon, <1>12, <2>1 DEF HistoryInv
  <2>2. CASE x \in net /\ y = m
    BY <1>2, <1>3, <1>9, <1>12, <2>2
  <2>3. CASE x = m /\ y \in net
    BY <1>2, <1>3, <1>9, <1>12, <2>3
  <2> QED
    BY Zenon, <1>6, <2>1, <2>2, <2>3
<1>13. hist'.twice = {}
  BY Zenon, <1>2 DEF HistoryInv
<1>14. \A x \in net' \ net : x.from = e
  BY Zenon, <1>3, <1>6
<1> QED
  BY Zenon, <1>2, <1>6, <1>11, <1>12, <1>13, <1>14, HistoryKeeps

\* An initiation that is answered.
LEMMA ReceiveInitiationHistory ==
  ASSUME SessionInv, HistoryInv, NEW e \in Ends, ReceiveInitiation(e)
  PROVE HistoryInv'
<1>1. PICK m \in To(e, "init") :
        LET d == ConsumeInitiation(dev[e], m.s, m.ts)
            key == SessionKey(m.from, m.s, d.hs.local)
        IN /\ IsNewInitiation(dev[e], m.ts)
           /\ dev' = [dev EXCEPT ![e] = BeginResponderSession(d, key)]
           /\ net' = net \cup {Reply(e, d.hs.local, m.s)}
           /\ hist' = [hist EXCEPT !.derived[e] = @ \cup {key},
                                   !.consumed = @ \cup {<<e, m.s>>},
                                   !.twice = @ \cup ({<<e, m.s>>} \cap hist.consumed)]
  BY Zenon DEF ReceiveInitiation
<1> DEFINE o == ConsumeInitiation(dev[e], m.s, m.ts)
           i == dev[e].idx
           key == SessionKey(m.from, m.s, i)
           d == BeginResponderSession(o, key)
           reply == Reply(e, i, m.s)
           k == Establish(i, m.s, key, FALSE)
<1>2. /\ m \in net /\ m.type = "init" /\ m.from \in Ends /\ m.from # e
      /\ m.s \in Nat /\ m.ts \in Nat
  BY Zenon DEF To, SessionInv, Messages
<1>3. i \in Nat /\ key \in Sessions /\ Sound(dev[e]) /\ LocalIndex(e, key) = i
  BY <1>2, HandlerStarts DEF SessionKey, Sessions, LocalIndex
<1> HIDE DEF key
<1>4. Responds(dev[e], m.s, m.ts, key)
  BY Zenon, <1>2, <1>3, ResponderSound
<1>5. /\ o.hs.local = i /\ d.kp["Current"] = dev[e].kp["Current"]
      /\ d.kp["Previous"] = NoKeypair /\ d.kp["Next"] = k
      /\ d.idx = i + 1 /\ d.seen = m.ts /\ d.hs.state = "SessionDerived"
  BY Zenon, <1>4 DEF Responds
<1>6. /\ m.ts > dev[e].seen /\ dev' = [dev EXCEPT ![e] = d] /\ net' = net \cup {reply}
      /\ hist' = [hist EXCEPT !.derived[e] = @ \cup {key},
                              !.consumed = @ \cup {<<e, m.s>>},
                              !.twice = @ \cup ({<<e, m.s>>} \cap hist.consumed)]
  BY Zenon, <1>1, <1>5 DEF key, IsNewInitiation
<1>7. reply.type = "resp" /\ reply.from = e
  BY Zenon DEF Reply
<1>8. k.local = i /\ k.key = key /\ i # 0
  <2>1. 0 < i
    BY <1>3 DEF Sound, IndicesDiffer, Devices, Handshakes
  <2> QED
    BY <2>1, <1>3 DEF Establish, NoKeypair
<1> HIDE DEF o, d, reply, k, i
<1>9. /\ hist'.derived = [hist.derived EXCEPT ![e] = @ \cup {key}]
      /\ hist'.forgot = hist.forgot /\ hist'.opened = hist.opened
      /\ hist'.consumed = hist.consumed \cup {<<e, m.s>>}
      /\ hist'.twice = hist.twice \cup ({<<e, m.s>>} \cap hist.consumed)
  BY <1>6 DEF SessionInv, Hist
<1>10. /\ hist'.derived[e] = hist.derived[e] \cup {key}
       /\ \A x \in Ends : x # e => hist'.derived[x] = hist.derived[x]
       /\ hist.derived[e] \subseteq Sessions
  BY <1>9 DEF SessionInv, Hist
<1>11. Tracks(dev[e], e, net, hist) /\ dev[e].seen \in Nat
  BY Zenon DEF HistoryInv, SessionInv, Devices
<1>12. \A x \in hist.derived[e] : LocalIndex(e, x) \in Nat /\ LocalIndex(e, x) < i
  BY Zenon, <1>10, <1>11, LocalIndexType DEF Tracks, i
<1>13. net \subseteq net' /\ \A x \in net' \ net : x = reply
  BY Zenon, <1>6
<1>14. ASSUME NEW s \in KeySlots PROVE KeypairTracks(d.kp[s], e, net', hist')
  <2>1. \A x \in net' \ net : x.type # "data"
    BY Zenon, <1>7, <1>13
  <2>2. CASE s = "Current"
    <3>1. KeypairTracks(dev[e].kp["Current"], e, net, hist)
      BY Zenon, <1>11 DEF Tracks, KeySlots
    <3> QED
      BY Zenon, <1>5, <1>9, <1>13, <2>1, <2>2, <3>1, OtherMessages
  <2>3. CASE s = "Next"
    <3>1. KeypairTracks(k, e, net', hist)
      BY Zenon, <1>2, <1>3, <1>12, <2>1, NewKeyTracks DEF k
    <3> QED
      BY Zenon, <1>5, <1>9, <2>3, <3>1 DEF KeypairTracks
  <2>4. CASE s = "Previous"
    <3>1. ~IsValid(NoKeypair)
      BY Zenon DEF IsValid, NoKeypair
    <3> QED
      BY Zenon, <1>5, <2>4, <3>1 DEF KeypairTracks
  <2> QED
    BY Zenon, <2>2, <2>3, <2>4 DEF KeySlots
<1>15. ASSUME NEW x \in hist'.derived[e]
       PROVE /\ LocalIndex(e, x) < d.idx /\ KeyStands(d, e, hist', x)
             /\ LocalIndex(e, x) <= d.kp["Next"].local
  <2>1. CASE x = key
    <3>1. LocalIndex(e, x) < d.idx /\ LocalIndex(e, x) <= d.kp["Next"].local
      BY <1>3, <1>5, <1>8, <2>1
    <3> QED
      BY Zenon, <1>5, <1>8, <2>1, <3>1 DEF KeyStands, IsValid
  <2>2. CASE x # key
    <3>1. LocalIndex(e, x) \in Nat /\ LocalIndex(e, x) < i
      BY Zenon, <1>10, <1>12, <2>2
    <3>2. /\ LocalIndex(e, x) < d.idx /\ LocalIndex(e, x) <= d.kp["Next"].local
          /\ LocalIndex(e, key) > LocalIndex(e, x)
      BY <1>3, <1>5, <1>8, <3>1
    <3> QED
      BY Zenon, <1>10, <3>2 DEF KeyStands
  <2> QED
    BY Zenon, <2>1, <2>2
<1>16. ASSUME NEW x \in net', x.type = "init", x.from = e PROVE x.s < d.idx
  <2>1. x \in net /\ x.s \in Nat /\ x.s < i
    <3>1. x \in net
      BY Zenon, <1>7, <1>13, <1>16
    <3>2. x.s \in Nat
      BY <1>16, <3>1 DEF SessionInv, Messages
    <3> QED
      BY Zenon, <1>11, <1>16, <3>1, <3>2 DEF Tracks, i
  <2> QED
    BY <1>3, <1>5, <2>1
<1>17. ASSUME NEW x \in hist'.consumed, x[1] = e
       PROVE \E n \in net' : n.type = "init" /\ n.from # e /\ n.s = x[2] /\ n.ts <= d.seen
  <2>1. CASE x = <<e, m.s>>
    <3>1. m.ts <= d.seen
      BY <1>2, <1>5
    <3> QED
      BY Zenon, <1>2, <1>13, <2>1, <3>1
  <2>2. CASE x \in hist.consumed
    <3>1. PICK n \in net : n.type = "init" /\ n.from # e /\ n.s = x[2] /\ n.ts <= dev[e].seen
      BY Zenon, <1>11, <1>17, <2>2 DEF Tracks
    <3>2. n.ts \in Nat
      BY Zenon, <3>1 DEF SessionInv, Messages
    <3>3. n.ts <= d.seen
      BY <1>2, <1>5, <1>6, <1>11, <3>1, <3>2
    <3> QED
      BY Zenon, <1>13, <3>1, <3>3
  <2> QED
    BY Zenon, <1>9, <2>1, <2>2
<1>18. <<e, m.s>> \notin hist.consumed
  <2> SUFFICES ASSUME <<e, m.s>> \in hist.consumed PROVE FALSE
    OBVIOUS
  <2>1. PICK n \in net : n.type = "init" /\ n.from # e /\ n.s = m.s /\ n.ts <= dev[e].seen
    BY Zenon, <1>11 DEF Tracks
  <2>2. n.from \in Ends
    BY Zenon DEF SessionInv, Messages
  <2>3. n.from = m.from
    BY Zenon, <1>2, <2>1, <2>2, OtherEnd
  <2>4. n = m
    BY Zenon, <1>2, <2>1, <2>3 DEF HistoryInv
  <2> QED
    BY <1>2, <1>6, <1>11, <2>1, <2>4
<1>19. hist'.twice = {}
  BY Zenon, <1>9, <1>18 DEF HistoryInv
<1>20. Tracks(d, e, net', hist')
  BY Zenon, <1>5, <1>14, <1>15, <1>16, <1>17 DEF Tracks
<1>21. ASSUME NEW x \in net', NEW y \in net', x.type = "init", y.type = "init",
              x.from = y.from, x.s = y.s
       PROVE x = y
  BY Zenon, <1>7, <1>13, <1>21 DEF HistoryInv
<1>22. \A x \in hist'.consumed : x[1] # e => x \in hist.consumed
  <2>1. <<e, m.s>>[1] = e
    OBVIOUS
  <2> QED
    BY Zenon, <1>9, <2>1
<1>23. \A x \in net' \ net : x.from = e
  BY Zenon, <1>7, <1>13
<1>24. hist.derived[e] \subseteq hist'.derived[e] /\ hist'.opened = hist.opened
       /\ \A x \in Ends : x # e => /\ hist'.derived[x] = hist.derived[x]
                                   /\ hist'.forgot[x] = hist.forgot[x]
  BY Zenon, <1>9, <1>10
<1> QED
  BY Zenon, <1>6, <1>13, <1>19, <1>20, <1>21, <1>22, <1>23, <1>24, HistoryKeeps

\* Transport data is sent.
LEMMA SendDataHistory ==
  ASSUME SessionInv, HistoryInv, NEW e \in Ends, SendData(e)
  PROVE HistoryInv'
<1> DEFINE m == SentBy(e, dev[e])
           d == AfterSend(dev[e])
<1>1. /\ dev' = [dev EXCEPT ![e] = d] /\ net' = net \cup {m} /\ IsValid(dev[e].kp["Current"])
      /\ hist' = [hist EXCEPT !.twice = @ \cup ({m} \cap net)]
  BY Zenon DEF SendData, CanSend
<1>2. m.from = e /\ m.type = "data"
  BY Zenon DEF SentBy, Data
<1>3. Sound(dev[e]) /\ Tracks(dev[e], e, net, hist) /\ net \subseteq Messages
  BY Zenon, HandlerStarts DEF HistoryInv, SessionInv
<1>4. m \notin net /\ Tracks(d, e, net \cup {m}, hist)
  BY Zenon, <1>1, <1>3, SendTracks
<1> HIDE DEF m, d
<1>5. /\ hist'.derived = hist.derived /\ hist'.forgot = hist.forgot
      /\ hist'.opened = hist.opened /\ hist'.consumed = hist.consumed
      /\ hist'.twice = hist.twice \cup ({m} \cap net)
  BY <1>1 DEF SessionInv, Hist
<1>6. hist'.twice = {}
  BY Zenon, <1>4, <1>5 DEF HistoryInv
<1>7. Tracks(d, e, net', hist')
  <2>1. Tracks(d, e, net', hist)
    BY Zenon, <1>1, <1>4
  <2> QED
    BY Zenon, <1>5, <2>1, OtherTracks
<1>8. net \subseteq net' /\ \A x \in net' \ net : x = m
  BY Zenon, <1>1
<1>9. \A x \in net' \ net : x.from = e
  BY Zenon, <1>2, <1>8
<1>10. ASSUME NEW x \in net', NEW y \in net', x.type = "init", y.type = "init",
              x.from = y.from, x.s = y.s
       PROVE x = y
  BY Zenon, <1>2, <1>8, <1>10 DEF HistoryInv
<1> QED
  BY Zenon, <1>1, <1>5, <1>6, <1>7, <1>8, <1>9, <1>10, HistoryKeeps

\* Only the sessions that an end derived differ.
SameHistory(g, h) ==
  h.forgot = g.forgot /\ h.opened = g.opened /\ h.consumed = g.consumed

\* The initiator's session supersedes those before it.
LEMMA InitiatorTracks ==
  ASSUME SessionInv, HistoryInv, NEW e \in Ends, dev[e].hs.state = "InitiationCreated",
         NEW s \in Nat, NEW key \in Sessions, key.i = e, key.si = dev[e].hs.own,
         NEW d, d = BeginInitiatorSession(ConsumeResponse(dev[e], s), key),
         NEW h, h.derived[e] = hist.derived[e] \cup {key}, SameHistory(hist, h)
  PROVE Tracks(d, e, net, h)
<1> DEFINE l == dev[e].hs.local
           k == Establish(l, s, key, TRUE)
<1>1. Sound(dev[e]) /\ Tracks(dev[e], e, net, hist)
  BY Zenon, HandlerStarts DEF HistoryInv
<1>2. Initiates(dev[e], s, key)
  BY Zenon, <1>1, InitiatorSound
<1>3. /\ d.kp["Previous"] \in {dev[e].kp[x] : x \in KeySlots} /\ ~IsValid(d.kp["Next"])
      /\ d.kp["Current"] = k
      /\ d.idx = dev[e].idx /\ d.seen = dev[e].seen /\ d.hs.state = "SessionDerived"
  BY Zenon, <1>2 DEF Initiates
<1>4. l \in Nat /\ l # 0 /\ dev[e].idx \in Nat /\ l < dev[e].idx
  BY Zenon, <1>1 DEF Sound, IndicesDiffer, Devices, Handshakes
<1>5. dev[e].hs.own = l /\ LocalIndex(e, key) = l
  BY Zenon, <1>1 DEF Tracks, LocalIndex
<1>6. k.local = l /\ k.key = key
  BY DEF Establish, NoKeypair
<1> HIDE DEF k, l
<1>7. \A x \in hist.derived[e] : LocalIndex(e, x) < l /\ LocalIndex(e, x) < dev[e].idx
  BY Zenon, <1>1 DEF Tracks, l
<1>8. h.forgot = hist.forgot /\ h.opened = hist.opened /\ h.consumed = hist.consumed
  BY Zenon DEF SameHistory
<1>9. ASSUME NEW x \in KeySlots PROVE KeypairTracks(d.kp[x], e, net, h)
  <2>1. CASE x = "Current"
    <3>1. KeypairTracks(k, e, net, hist)
      BY Zenon, <1>4, <1>5, <1>7, NewKeyTracks DEF k
    <3> QED
      BY Zenon, <1>3, <1>8, <2>1, <3>1 DEF KeypairTracks
  <2>2. CASE x = "Next"
    BY Zenon, <1>3, <2>2 DEF KeypairTracks
  <2>3. CASE x = "Previous"
    <3>1. PICK y \in KeySlots : d.kp["Previous"] = dev[e].kp[y]
      BY Zenon, <1>3
    <3>2. KeypairTracks(dev[e].kp[y], e, net, hist)
      BY Zenon, <1>1 DEF Tracks
    <3> QED
      BY Zenon, <1>8, <2>3, <3>1, <3>2 DEF KeypairTracks
  <2> QED
    BY Zenon, <2>1, <2>2, <2>3 DEF KeySlots
<1>10. ASSUME NEW x \in h.derived[e] PROVE LocalIndex(e, x) < d.idx /\ KeyStands(d, e, h, x)
  <2>1. CASE x = key
    BY Zenon, <1>3, <1>4, <1>5, <1>6, <2>1 DEF KeyStands, IsValid
  <2>2. CASE x \in hist.derived[e]
    <3>1. LocalIndex(e, key) > LocalIndex(e, x)
      <4>1. LocalIndex(e, x) \in Nat /\ LocalIndex(e, x) < l
        BY Zenon, <1>7, <2>2, HandlerStarts, LocalIndexType
      <4> QED
        BY Zenon, <1>4, <1>5, <4>1
    <3> QED
      BY Zenon, <1>3, <1>7, <2>2, <3>1 DEF KeyStands
  <2> QED
    BY Zenon, <2>1, <2>2
<1>11. /\ \A m \in net : m.type = "init" /\ m.from = e => m.s < d.idx
       /\ \A x \in h.consumed : x[1] = e =>
            \E m \in net : m.type = "init" /\ m.from # e /\ m.s = x[2] /\ m.ts <= d.seen
  BY Zenon, <1>1, <1>3, <1>8 DEF Tracks
<1> QED
  BY Zenon, <1>3, <1>9, <1>10, <1>11 DEF Tracks

\* A response that is accepted, and the keepalive that confirms the session.
LEMMA ReceiveResponseHistory ==
  ASSUME SessionInv, HistoryInv, NEW e \in Ends, ReceiveResponse(e)
  PROVE HistoryInv'
<1>1. PICK m \in To(e, "resp") :
        LET key == SessionKey(e, dev[e].hs.own, m.s)
            d == BeginInitiatorSession(ConsumeResponse(dev[e], m.s), key)
        IN /\ dev[e].hs.state = "InitiationCreated"
           /\ \/ dev' = [dev EXCEPT ![e] = d] /\ net' = net
              \/ /\ IsValid(d.kp["Current"])
                 /\ dev' = [dev EXCEPT ![e] = AfterSend(d)]
                 /\ net' = net \cup {SentBy(e, d)}
           /\ hist' = [hist EXCEPT !.derived[e] = @ \cup {key}]
  BY Zenon DEF ReceiveResponse, AcceptsResponse, CanSend
<1> DEFINE key == SessionKey(e, dev[e].hs.own, m.s)
           d == BeginInitiatorSession(ConsumeResponse(dev[e], m.s), key)
<1>2. m.s \in Nat
  BY Zenon DEF To, SessionInv, Messages
<1>3. key \in Sessions /\ key.i = e /\ key.si = dev[e].hs.own
  BY Zenon, <1>2, HandlerStarts DEF SessionKey, Sessions
<1>4. /\ dev[e].hs.state = "InitiationCreated"
      /\ hist' = [hist EXCEPT !.derived[e] = @ \cup {key}]
      /\ \/ dev' = [dev EXCEPT ![e] = d] /\ net' = net
         \/ /\ IsValid(d.kp["Current"])
            /\ dev' = [dev EXCEPT ![e] = AfterSend(d)] /\ net' = net \cup {SentBy(e, d)}
  BY Zenon, <1>1
<1> HIDE DEF key
<1>5. /\ hist'.derived = [hist.derived EXCEPT ![e] = @ \cup {key}]
      /\ hist'.forgot = hist.forgot /\ hist'.opened = hist.opened
      /\ hist'.consumed = hist.consumed /\ hist'.twice = hist.twice
  BY <1>4 DEF SessionInv, Hist
<1>6. /\ hist'.derived[e] = hist.derived[e] \cup {key}
      /\ \A x \in Ends : x # e => hist'.derived[x] = hist.derived[x]
  BY <1>5 DEF SessionInv, Hist
<1>7. Sound(d) /\ Tracks(d, e, net, hist')
  <2>1. Sound(dev[e])
    BY Zenon, HandlerStarts
  <2>2. Initiates(dev[e], m.s, key)
    BY Zenon, <1>2, <1>3, <1>4, <2>1, InitiatorSound
  <2>3. Sound(d)
    BY Zenon, <2>2 DEF Initiates
  <2>4. SameHistory(hist, hist')
    BY Zenon, <1>5 DEF SameHistory
  <2> QED
    BY Zenon, <1>2, <1>3, <1>4, <1>6, <2>3, <2>4, InitiatorTracks
<1> HIDE DEF d
<1>8. /\ \A x \in Ends : x # e => /\ hist'.derived[x] = hist.derived[x]
                                  /\ hist'.forgot[x] = hist.forgot[x]
      /\ hist.derived[e] \subseteq hist'.derived[e] /\ hist'.twice = {}
  BY Zenon, <1>5, <1>6 DEF HistoryInv
<1>9. CASE dev' = [dev EXCEPT ![e] = d] /\ net' = net
  <2>1. \A x, y \in net' : x.type = "init" /\ y.type = "init" /\ x.from = y.from /\ x.s = y.s
                             => x = y
    BY Zenon, <1>9 DEF HistoryInv
  <2>2. Tracks(d, e, net', hist')
    BY Zenon, <1>7, <1>9
  <2> QED
    BY Zenon, <1>5, <1>8, <1>9, <2>1, <2>2, HistoryKeeps
<1>10. CASE /\ IsValid(d.kp["Current"])
            /\ dev' = [dev EXCEPT ![e] = AfterSend(d)] /\ net' = net \cup {SentBy(e, d)}
  <2> DEFINE n == SentBy(e, d)
             r == AfterSend(d)
  <2>1. n.from = e /\ n.type = "data"
    BY Zenon DEF SentBy, Data
  <2>2. Tracks(r, e, net \cup {n}, hist')
    <3>1. net \subseteq Messages
      BY Zenon DEF SessionInv
    <3> QED
      BY Zenon, <1>7, <1>10, <3>1, SendTracks
  <2>3. dev' = [dev EXCEPT ![e] = r] /\ net' = net \cup {n}
    BY Zenon, <1>10
  <2> HIDE DEF n, r
  <2>4. Tracks(r, e, net', hist')
    BY Zenon, <2>2, <2>3
  <2>5. net \subseteq net' /\ \A x \in net' \ net : x = n
    BY Zenon, <2>3
  <2>6. \A x \in net' \ net : x.from = e
    BY Zenon, <2>1, <2>5
  <2>7. \A x, y \in net' : x.type = "init" /\ y.type = "init" /\ x.from = y.from /\ x.s = y.s
                             => x = y
    BY Zenon, <2>1, <2>5 DEF HistoryInv
  <2> QED
    BY Zenon, <1>5, <1>8, <2>3, <2>4, <2>5, <2>6, <2>7, HistoryKeeps
<1> QED
  BY Zenon, <1>4, <1>9, <1>10

\* Message m is opened, and nothing else happens.
OpensOne(g, h, m) ==
  /\ h.derived = g.derived /\ h.forgot = g.forgot /\ h.consumed = g.consumed
  /\ h.opened = g.opened \cup {m}

\* A counter that is opened is held by the window of its keypair, and by no
\* other.
LEMMA OpenTracks ==
  ASSUME NEW d, Sound(d), NEW e, NEW p, NEW g, Tracks(d, e, p, g), NEW s \in KeySlots,
         NEW m, m.c \in Nat, m.from # e, m.key = d.kp[s].key, Opens(d.kp[s], m.c),
         NEW h, OpensOne(g, h, m),
         NEW r, r = [d EXCEPT !.kp[s] = [d.kp[s] EXCEPT !.win = Advanced(@, m.c)]]
  PROVE m \notin g.opened /\ Tracks(r, e, p, h)
<1> DEFINE k == d.kp[s]
           n == [k EXCEPT !.win = Advanced(@, m.c)]
           seen == Opened(e, k.key, g.opened)
<1>1. k \in Keypairs /\ k.win \in Windows /\ IsValid(k) /\ Accepts(k.win, m.c)
  BY Zenon DEF Sound, Devices, Keypairs, Opens, CanReceive
<1>2. /\ k.local = LocalIndex(e, k.key)
      /\ \A x \in p : x.type = "data" /\ x.from = e /\ x.key = k.key => x.c < k.ctr
      /\ WindowHolds(k.win, seen)
  BY Zenon, <1>1 DEF Tracks, KeypairTracks
<1>3. m \notin g.opened
  <2>1. m.c \notin seen
    <3> HIDE DEF seen
    <3> QED
      BY <1>1, <1>2, AcceptsExactly
  <2> QED
    BY Zenon, <2>1 DEF Opened
<1>4. /\ n \in Keypairs /\ n.local = k.local /\ n.key = k.key /\ n.ctr = k.ctr
      /\ n.win = Advanced(k.win, m.c)
  BY Zenon, <1>1, AdvancedType DEF Keypairs
<1> HIDE DEF n
<1>5. KeypairTracks(n, e, p, h)
  <2>1. Opened(e, k.key, h.opened) = seen \cup {m.c}
    BY Zenon DEF Opened, OpensOne
  <2> HIDE DEF seen
  <2>2. WindowHolds(Advanced(k.win, m.c), seen \cup {m.c})
    BY Zenon, <1>1, <1>2, AdvancedHolds
  <2> QED
    BY Zenon, <1>2, <1>4, <2>1, <2>2 DEF KeypairTracks
<1>6. /\ r.kp[s] = n /\ \A x \in KeySlots : x # s => r.kp[x] = d.kp[x]
      /\ r.hs = d.hs /\ r.idx = d.idx /\ r.seen = d.seen
  <2>1. Replaces([d EXCEPT !.kp[s] = n], d, s, n)
    BY Zenon, <1>4, KeypairsSound
  <2>2. r = [d EXCEPT !.kp[s] = n]
    BY Zenon DEF n
  <2> QED
    BY Zenon, <2>1, <2>2 DEF Replaces
<1>7. ASSUME NEW x \in KeySlots, x # s PROVE KeypairTracks(d.kp[x], e, p, h)
  <2> SUFFICES ASSUME IsValid(d.kp[x]) PROVE KeypairTracks(d.kp[x], e, p, h)
    BY Zenon DEF KeypairTracks
  <2>1. d.kp[x].key # m.key
    BY Zenon, <1>1, <1>7, KeysDiffer
  <2>2. KeypairTracks(d.kp[x], e, p, g)
    BY Zenon DEF Tracks
  <2>3. g.opened \subseteq h.opened /\ \A y \in h.opened \ g.opened : y.key # d.kp[x].key
    BY Zenon, <2>1 DEF OpensOne
  <2> QED
    BY Zenon, <2>2, <2>3, KeypairKeeps
<1>8. \A x \in KeySlots : /\ r.kp[x].local = d.kp[x].local /\ r.kp[x].key = d.kp[x].key
                          /\ KeypairTracks(r.kp[x], e, p, h)
  BY Zenon, <1>4, <1>5, <1>6, <1>7
<1>9. Tracks(r, e, p, h)
  <2>1. p \subseteq p /\ \A x \in p \ p : x.type # "init"
    BY Zenon
  <2> QED
    BY Zenon, <1>6, <1>8, <2>1, SlotsTrack DEF OpensOne
<1> QED
  BY Zenon, <1>3, <1>9

\* Transport data is opened, and confirms the next keypair.
LEMMA ReceiveDataHistory ==
  ASSUME SessionInv, HistoryInv, NEW e \in Ends, ReceiveData(e)
  PROVE HistoryInv'
<1>1. PICK m \in To(e, "data") :
        LET slot == LookupIndexSlot(dev[e], m.r)
            k == dev[e].kp[slot]
            d == [dev[e] EXCEPT !.kp[slot].win = Advanced(@, m.c)]
        IN /\ slot \in KeySlots
           /\ k.key = m.key /\ Opens(k, m.c)
           /\ dev' = [dev EXCEPT ![e] = IF slot = "Next" THEN PromoteNextKeypair(d) ELSE d]
           /\ hist' = [hist EXCEPT !.opened = @ \cup {m}, !.twice = @ \cup ({m} \cap hist.opened)]
           /\ net' = net
  BY Zenon DEF ReceiveData
<1> DEFINE slot == LookupIndexSlot(dev[e], m.r)
           k == dev[e].kp[slot]
           n == [k EXCEPT !.win = Advanced(@, m.c)]
           d == [dev[e] EXCEPT !.kp[slot] = n]
<1>2. m.from \in Ends /\ m.from # e /\ m.c \in Nat /\ m.type = "data"
  BY Zenon DEF To, SessionInv, Messages
<1>3. /\ slot \in KeySlots /\ k.key = m.key /\ Opens(k, m.c) /\ net' = net
      /\ hist' = [hist EXCEPT !.opened = @ \cup {m}, !.twice = @ \cup ({m} \cap hist.opened)]
  BY Zenon, <1>1
<1>4. /\ Sound(dev[e]) /\ KeysBacked(dev[e], e, hist.derived) /\ k \in Keypairs
      /\ Tracks(dev[e], e, net, hist)
  BY Zenon, <1>3, HandlerStarts DEF HistoryInv
<1>5. dev' = [dev EXCEPT ![e] = IF slot = "Next" THEN PromoteNextKeypair(d) ELSE d]
  <2>1. [dev[e] EXCEPT !.kp[slot].win = Advanced(@, m.c)] = d
    BY Zenon, <1>3, <1>4 DEF Sound, Devices
  <2> QED
    BY Zenon, <1>1, <2>1
<1> HIDE DEF slot
<1>6. /\ hist'.derived = hist.derived /\ hist'.forgot = hist.forgot
      /\ hist'.opened = hist.opened \cup {m} /\ hist'.consumed = hist.consumed
      /\ hist'.twice = hist.twice \cup ({m} \cap hist.opened)
  BY <1>3 DEF SessionInv, Hist
<1>7. n \in Keypairs /\ n.local = k.local /\ n.key = k.key
  BY Zenon, <1>2, <1>4, AdvancedType DEF Keypairs
<1>8. m \notin hist.opened /\ Tracks(d, e, net, hist')
  <2>1. m.key = dev[e].kp[slot].key /\ Opens(dev[e].kp[slot], m.c) /\ slot \in KeySlots
    BY Zenon, <1>3
  <2>2. OpensOne(hist, hist', m)
    BY Zenon, <1>6 DEF OpensOne
  <2>3. d = [dev[e] EXCEPT !.kp[slot] = [dev[e].kp[slot] EXCEPT !.win = Advanced(@, m.c)]]
    BY Zenon
  <2> HIDE DEF n, d, k
  <2> QED
    BY <1>2, <1>4, <2>1, <2>2, <2>3, OpenTracks
<1> HIDE DEF n
<1>9. Sound(d) /\ d.kp[slot] = n /\ \A x \in KeySlots : x # slot => d.kp[x] = dev[e].kp[x]
  <2>1. Replaces(d, dev[e], slot, n)
    BY Zenon, <1>3, <1>4, <1>7, KeypairsSound
  <2> QED
    BY Zenon, <2>1 DEF Replaces
<1> HIDE DEF d
<1>10. hist'.twice = {}
  BY Zenon, <1>6, <1>8 DEF HistoryInv
<1>11. m.key \in hist'.derived[e] /\ IsValid(k)
  BY Zenon, <1>3, <1>4, <1>6 DEF KeysBacked, Opens, CanReceive
<1>12. PICK r : dev' = [dev EXCEPT ![e] = r] /\ Tracks(r, e, net', hist')
  <2>1. CASE slot = "Next"
    <3>1. KeysBacked(d, e, hist'.derived)
      <4>1. \A x \in KeySlots : /\ d.kp[x].local = dev[e].kp[x].local
                                /\ d.kp[x].key = dev[e].kp[x].key
        BY Zenon, <1>7, <1>9
      <4> QED
        BY Zenon, <1>4, <1>6, <4>1, SameKeys
    <3>2. IsValid(d.kp["Next"])
      BY Zenon, <1>7, <1>9, <1>11, <2>1 DEF IsValid
    <3>3. Tracks(PromoteNextKeypair(d), e, net, hist')
      BY Zenon, <1>8, <1>9, <3>1, <3>2, PromoteTracks
    <3> QED
      BY Zenon, <1>3, <1>5, <2>1, <3>3
  <2>2. CASE slot # "Next"
    BY Zenon, <1>3, <1>5, <1>8, <2>2
  <2> QED
    BY Zenon, <2>1, <2>2
<1>13. \A x, y \in net' : x.type = "init" /\ y.type = "init" /\ x.from = y.from /\ x.s = y.s
                            => x = y
  BY Zenon, <1>3 DEF HistoryInv
<1>14. \A x \in hist'.opened \ hist.opened : x = m
  BY Zenon, <1>6
<1>15. \A x \in hist'.opened \ hist.opened :
         x.from \in Ends \ {e} /\ x.type = "data" /\ x.key \in hist'.derived[e]
  BY Zenon, <1>2, <1>11, <1>14
<1>16. hist.opened \subseteq hist'.opened
  BY Zenon, <1>6
<1> QED
  BY Zenon, <1>3, <1>6, <1>10, <1>12, <1>13, <1>15, <1>16, HistoryKeeps

\* RejectAfterTime passes.
LEMMA ExpireHistory ==
  ASSUME SessionInv, HistoryInv, NEW e \in Ends, Expire(e)
  PROVE HistoryInv'
<1>1. PICK s \in KeySlots : dev' = [dev EXCEPT ![e].kp[s].dead = TRUE]
  BY Zenon DEF Expire
<1> DEFINE k == dev[e].kp[s]
           n == [k EXCEPT !.dead = TRUE]
           d == [dev[e] EXCEPT !.kp[s] = n]
<1>2. Sound(dev[e]) /\ k \in Keypairs /\ Tracks(dev[e], e, net, hist)
  BY Zenon, HandlerStarts DEF HistoryInv
<1>3. dev' = [dev EXCEPT ![e] = d]
  BY Zenon, <1>1, <1>2 DEF Sound, Devices
<1>4. n \in Keypairs /\ n.local = k.local /\ n.key = k.key /\ n.ctr = k.ctr /\ n.win = k.win
  BY Zenon, <1>2 DEF Keypairs
<1> HIDE DEF n
<1>5. /\ d.kp[s] = n /\ \A x \in KeySlots : x # s => d.kp[x] = dev[e].kp[x]
      /\ d.hs = dev[e].hs /\ d.idx = dev[e].idx /\ d.seen = dev[e].seen
  <2>1. Replaces(d, dev[e], s, n)
    BY <1>2, <1>4, KeypairsSound
  <2> QED
    BY Zenon, <2>1 DEF Replaces
<1> HIDE DEF d
<1>6. hist' = hist /\ net' = net /\ hist.twice = {}
  BY Zenon DEF Expire, HistoryInv
<1>7. \A x \in KeySlots : /\ d.kp[x].local = dev[e].kp[x].local
                          /\ d.kp[x].key = dev[e].kp[x].key
                          /\ KeypairTracks(d.kp[x], e, net, hist)
  <2>1. \A x \in KeySlots : KeypairTracks(dev[e].kp[x], e, net, hist)
    BY Zenon, <1>2 DEF Tracks
  <2>2. KeypairTracks(n, e, net, hist)
    BY Zenon, <1>4, <2>1 DEF KeypairTracks, IsValid
  <2> QED
    BY Zenon, <1>4, <1>5, <2>1, <2>2
<1>8. Tracks(d, e, net', hist')
  <2>1. Tracks(d, e, net, hist)
    <3>1. net \subseteq net /\ \A x \in net \ net : x.type # "init"
      BY Zenon
    <3> QED
      BY <1>2, <1>5, <1>7, <3>1, SlotsTrack
  <2> QED
    BY Zenon, <1>6, <2>1
<1>9. \A x, y \in net' : x.type = "init" /\ y.type = "init" /\ x.from = y.from /\ x.s = y.s
                           => x = y
  BY Zenon, <1>6 DEF HistoryInv
<1> QED
  BY Zenon, <1>3, <1>6, <1>8, <1>9, HistoryKeeps

\* The key material is given up: every session derived so far is forgotten.
LEMMA ForgetHistory ==
  ASSUME SessionInv, HistoryInv, NEW e \in Ends, ZeroKeyMaterial(e) \/ Reactivate(e)
  PROVE HistoryInv'
<1>1. PICK d : /\ Forget(e, d) /\ d.idx = dev[e].idx /\ d.hs.state = "Zeroed"
               /\ \A s \in KeySlots : d.kp[s] = NoKeypair
  <2>1. Sound(dev[e])
    BY Zenon, HandlerStarts
  <2> QED
    BY <2>1, EmptySound DEF ZeroKeyMaterial, Reactivate
<1>2. ~IsValid(NoKeypair) /\ "Next" \in KeySlots
  BY Zenon DEF IsValid, NoKeypair, KeySlots
<1>3. /\ dev' = [dev EXCEPT ![e] = d] /\ net' = net
      /\ hist' = [hist EXCEPT !.resets = @ + 1, !.forgot[e] = d.idx,
                              !.consumed = {x \in @ : x[1] # e}]
  BY Zenon, <1>1 DEF Forget
<1>4. /\ hist'.derived = hist.derived /\ hist'.forgot = [hist.forgot EXCEPT ![e] = d.idx]
      /\ hist'.opened = hist.opened /\ hist'.consumed = {x \in hist.consumed : x[1] # e}
      /\ hist'.twice = hist.twice
  BY <1>3 DEF SessionInv, Hist
<1>5. hist'.forgot[e] = d.idx /\ \A x \in Ends : x # e => hist'.forgot[x] = hist.forgot[x]
  BY <1>4 DEF SessionInv, Hist
<1>6. Tracks(dev[e], e, net, hist)
  BY Zenon DEF HistoryInv
<1>7. \A k \in hist'.derived[e] : LocalIndex(e, k) < d.idx /\ KeyStands(d, e, hist', k)
  BY Zenon, <1>1, <1>4, <1>5, <1>6 DEF Tracks, KeyStands
<1>8. \A s \in KeySlots : KeypairTracks(d.kp[s], e, net', hist')
  BY Zenon, <1>1, <1>2 DEF KeypairTracks
<1>9. \A m \in net' : m.type = "init" /\ m.from = e => m.s < d.idx
  BY Zenon, <1>1, <1>3, <1>6 DEF Tracks
<1>10. ~IsValid(d.kp["Next"]) /\ \A x \in hist'.consumed : x[1] # e /\ x \in hist.consumed
  BY Zenon, <1>1, <1>2, <1>4
<1>11. Tracks(d, e, net', hist')
  BY Zenon, <1>1, <1>7, <1>8, <1>9, <1>10 DEF Tracks
<1>12. \A x, y \in net' : x.type = "init" /\ y.type = "init" /\ x.from = y.from /\ x.s = y.s
                            => x = y
  BY Zenon, <1>3 DEF HistoryInv
<1>13. hist'.twice = {} /\ \A x \in Ends : x # e => hist'.derived[x] = hist.derived[x]
  BY Zenon, <1>4 DEF HistoryInv
<1> QED
  BY Zenon, <1>3, <1>4, <1>5, <1>10, <1>11, <1>12, <1>13, HistoryKeeps

\* Two devices that derived, sent and opened nothing.
LEMMA HistoryInit == Init => HistoryInv
<1> SUFFICES ASSUME Init PROVE HistoryInv
  BY Zenon
<1>1. /\ net = {} /\ hist.opened = {} /\ hist.consumed = {} /\ hist.twice = {}
      /\ \A e \in Ends : hist.derived[e] = {}
  BY Zenon DEF Init
<1>2. ASSUME NEW e \in Ends
      PROVE dev[e].hs.state = "Zeroed" /\ \A s \in KeySlots : ~IsValid(dev[e].kp[s])
  <2>1. dev[e] = NewDevice(FirstIndex[e])
    BY Zenon DEF Init
  <2>2. ~IsValid(NoKeypair) /\ NoHandshake.state = "Zeroed"
    BY Zenon DEF IsValid, NoKeypair, NoHandshake
  <2>3. dev[e].hs = NoHandshake /\ dev[e].kp = [s \in KeySlots |-> NoKeypair]
    BY <2>1 DEF NewDevice
  <2> QED
    BY Zenon, <2>2, <2>3
<1>3. ASSUME NEW e \in Ends PROVE Tracks(dev[e], e, net, hist)
  BY Zenon, <1>1, <1>2 DEF Tracks, KeypairTracks, KeySlots
<1> QED
  BY Zenon, <1>1, <1>3 DEF HistoryInv

\* Every behaviour keeps the history.
LEMMA HistoryHolds == Spec => [](SessionInv /\ HistoryInv)
<1>1. SessionInv /\ HistoryInv /\ [Next]_vars => HistoryInv'
  <2> SUFFICES ASSUME SessionInv, HistoryInv, [Next]_vars PROVE HistoryInv'
    BY Zenon
  <2>1. CASE Next
    BY Zenon, <2>1, InitiateHistory, ReceiveInitiationHistory, ReceiveResponseHistory,
       SendDataHistory, ReceiveDataHistory, ExpireHistory, ForgetHistory DEF Next
  <2>2. CASE UNCHANGED vars
    BY Zenon, <2>2 DEF vars, HistoryInv
  <2> QED
    BY Zenon, <2>1, <2>2
<1> QED
  BY <1>1, HistoryInit, Invariance, PTL DEF Spec

\* A datagram is opened once, a counter sent once under a key, an initiation
\* consumed once while the device keeps its key material, whatever the network
\* repeats: TryAdvance, ReserveSendCounter and the time stamp of the last
\* initiation (noise_handshake_consume_initiation_message).
THEOREM NothingIsDoneTwice == Spec => []NothingTwice
<1>1. HistoryInv => NothingTwice
  BY Zenon DEF HistoryInv, NothingTwice
<1> QED
  BY <1>1, HistoryHolds, PTL

\* ReplayWindow::TryAdvance refuses exactly what was opened and what is too
\* old, for blocks and rings of any size.
THEOREM ReplayWindowIsExact == Spec => []WindowIsExact
<1>1. ASSUME SessionInv, HistoryInv, NEW e \in Ends, NEW s \in KeySlots,
             IsValid(dev[e].kp[s]), NEW c \in 0..(RejectAfterMessages - 1)
      PROVE LET k == dev[e].kp[s]
                opened == Opened(e, k.key, hist.opened)
            IN Accepts(k.win, c) <=> c \notin opened /\ \A h \in opened : h - c <= WindowSize
  <2> DEFINE k == dev[e].kp[s]
             opened == Opened(e, k.key, hist.opened)
  <2>1. k.win \in Windows
    BY Zenon, <1>1 DEF SessionInv, Devices, Keypairs
  <2>2. WindowHolds(k.win, opened)
    BY Zenon, <1>1 DEF HistoryInv, Tracks, KeypairTracks
  <2>3. c \in Nat
    BY NoiseKeysAssumption
  <2> HIDE DEF k, opened
  <2>4. Accepts(k.win, c) <=> c \notin opened /\ \A h \in opened : h - c <= WindowSize
    BY Zenon, <2>1, <2>2, <2>3, AcceptsExactly
  <2> QED
    BY Zenon, <2>4 DEF k, opened
<1>2. SessionInv /\ HistoryInv => WindowIsExact
  BY Zenon, <1>1 DEF WindowIsExact, Opened
<1> QED
  BY <1>2, HistoryHolds, PTL

\* The key that a device sends with is held by its peer, unless the peer gave
\* its key material up or derived a later session: neither promotion nor a new
\* handshake drops the only keypair that could open what is sent.
THEOREM PeerHoldsKey == Spec => []HeldOrSuperseded
<1>1. ASSUME SessionInv, HistoryInv, NEW e \in Ends, NEW o \in Ends \ {e},
             IsValid(dev[e].kp["Current"])
      PROVE LET k == dev[e].kp["Current"].key IN
            \/ \E s \in KeySlots : dev[o].kp[s].key = k
            \/ LocalIndex(o, k) < hist.forgot[o]
            \/ \E j \in hist.derived[o] : LocalIndex(o, j) > LocalIndex(o, k)
  <2> DEFINE k == dev[e].kp["Current"].key
  <2>1. k \in hist.derived[o]
    BY Zenon, <1>1 DEF SessionInv, KeysBacked
  <2>2. KeyStands(dev[o], o, hist, k)
    BY Zenon, <1>1, <2>1 DEF HistoryInv, Tracks
  <2> HIDE DEF k
  <2>3. \/ \E s \in KeySlots : dev[o].kp[s].key = k
        \/ LocalIndex(o, k) < hist.forgot[o]
        \/ \E j \in hist.derived[o] : LocalIndex(o, j) > LocalIndex(o, k)
    BY Zenon, <2>2 DEF KeyStands, KeySlots
  <2> QED
    BY Zenon, <2>3 DEF k
<1>2. SessionInv /\ HistoryInv => HeldOrSuperseded
  BY Zenon, <1>1 DEF HeldOrSuperseded
<1> QED
  BY <1>2, HistoryHolds, PTL

=============================================================================
