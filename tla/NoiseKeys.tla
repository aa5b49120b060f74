------------------------------ MODULE NoiseKeys ------------------------------
(***************************************************************************)
(* The key state of a WireGuard device with its one peer, as data: the     *)
(* replay window (session.cpp), the keypairs in their three slots, the     *)
(* index registry (device.cpp) and the derivation of a session at the end  *)
(* of a handshake (handshake.cpp).  NoiseSession runs two devices against  *)
(* each other.  Keys are symbolic: a session key is named by the end that  *)
(* initiated it and by the sender indices of its initiation and response,  *)
(* each of which comes with a fresh ephemeral key.                         *)
(***************************************************************************)
EXTENDS Integers, FiniteSets

CONSTANTS BlockBits, RingBlocks,  \* ReplayWindow: bits per block, blocks of the ring
          RejectAfterMessages     \* counters a keypair may use

ASSUME NoiseKeysAssumption ==
  /\ BlockBits \in Nat \ {0} /\ RingBlocks \in Nat \ {0}
  /\ RejectAfterMessages \in Nat

-----------------------------------------------------------------------------
\* ReplayWindow.  A ring of blocks, a block the set of its bits.

WindowSize == (RingBlocks - 1) * BlockBits
NewWindow == [high |-> 0, ring |-> [b \in 0..(RingBlocks - 1) |-> {}], init |-> FALSE]

BlockOf(c) == (c \div BlockBits) % RingBlocks
Smaller(m, n) == IF m < n THEN m ELSE n

\* The ring when the highest counter moves to c: the blocks it enters are empty.
\* Mutant: the block it comes to is not cleared.
MovedShort(w, c) ==
  LET current == w.high \div BlockBits
      diff == Smaller((c \div BlockBits) - current, RingBlocks)
      entered == {i % RingBlocks : i \in (current + 1)..(current + diff - 1)}
  IN [b \in 0..(RingBlocks - 1) |-> IF b \in entered THEN {} ELSE w.ring[b]]
Moved(w, c) ==
  LET current == w.high \div BlockBits
      diff == Smaller((c \div BlockBits) - current, RingBlocks)
      entered == {i % RingBlocks : i \in (current + 1)..(current + diff)}
  IN [b \in 0..(RingBlocks - 1) |-> IF b \in entered THEN {} ELSE w.ring[b]]

TooOld(w, c) == c <= w.high /\ w.init /\ w.high - c > WindowSize
RingFor(w, c) == IF c > w.high THEN Moved(w, c) ELSE w.ring

\* TryAdvance on a copy of the window, which is kept when the packet
\* authenticates: whether it is accepted, and the window then.
Accepts(w, c) == ~TooOld(w, c) /\ (c % BlockBits) \notin RingFor(w, c)[BlockOf(c)]
Advanced(w, c) ==
  [high |-> IF c > w.high THEN c ELSE w.high, init |-> TRUE,
   ring |-> [RingFor(w, c) EXCEPT ![BlockOf(c)] = @ \cup {c % BlockBits}]]

-----------------------------------------------------------------------------
\* Keypairs.

NoSession == [i |-> "none", si |-> 0, sr |-> 0]
NoKeypair == [local |-> 0, remote |-> 0, key |-> NoSession, init |-> FALSE, ctr |-> 0,
              win |-> NewWindow, dead |-> FALSE]

Establish(local, remote, key, init) ==
  [NoKeypair EXCEPT !.local = local, !.remote = remote, !.key = key, !.init = init]

IsValid(k) == k.local # 0
CanSend(k) == IsValid(k) /\ ~k.dead /\ k.ctr < RejectAfterMessages
CanReceive(k) == IsValid(k) /\ ~k.dead

\* Mutant: the counter is read, not reserved.
ReserveSendCounterStill(k) == k
ReserveSendCounter(k) == [k EXCEPT !.ctr = @ + 1]

\* noise_consume_transport_data_packet, for a packet under this keypair's key.
Opens(k, c) == CanReceive(k) /\ c < RejectAfterMessages /\ Accepts(k.win, c)

-----------------------------------------------------------------------------
\* The device: handshake, keypairs, registry, next index of the allocator and
\* the timestamp of the last initiation it consumed (0: none).

KeySlots == {"Current", "Next", "Previous"}
Slots == KeySlots \cup {"Handshake"}

NoHandshake == [state |-> "Zeroed", local |-> 0, remote |-> 0, own |-> 0]
NewDevice(idx) ==
  [hs |-> NoHandshake, kp |-> [s \in KeySlots |-> NoKeypair], reg |-> [s \in Slots |-> 0],
   idx |-> idx, seen |-> 0]

\* wg_device_refresh_keypair_indices.
RefreshKeypairIndices(d) ==
  [d EXCEPT !.reg = [s \in Slots |-> IF s = "Handshake" THEN 0 ELSE d.kp[s].local]]

\* wg_device_lookup_index_slot, in its order.
LookupIndexSlot(d, i) ==
  CASE i = 0 -> "None"
    [] i # 0 /\ d.reg["Handshake"] = i -> "Handshake"
    [] i # 0 /\ d.reg["Handshake"] # i /\ d.reg["Current"] = i -> "Current"
    [] i # 0 /\ d.reg["Handshake"] # i /\ d.reg["Current"] # i /\ d.reg["Next"] = i -> "Next"
    [] OTHER -> IF d.reg["Previous"] = i THEN "Previous" ELSE "None"

\* wg_device_allocate_index and the registration of the index it returns.  The
\* counter wraps past zero after 2^32 indices, which no bound here comes to;
\* before it wraps no index is met that is still registered.
AllocateIndex(d) == [d EXCEPT !.reg["Handshake"] = d.idx, !.idx = @ + 1]

\* wg_device_create_handshake_initiation; own stands for the ephemeral key and
\* the transcript, which are those of the initiation with this index.
CreateInitiation(d) ==
  [AllocateIndex(d) EXCEPT
     !.hs = [state |-> "InitiationCreated", local |-> d.idx, remote |-> 0, own |-> d.idx]]

\* A keypair is moved: its old slot is left empty.
MoveKeypair(kp, from, to) == [kp EXCEPT ![to] = kp[from], ![from] = NoKeypair]

\* wg_device_promote_next_keypair.
\* Mutant: the next keypair is reset before it is moved.
PromoteNextKeypairLost(d) ==
  RefreshKeypairIndices([d EXCEPT !.kp = [Previous |-> d.kp["Current"],
    Current |-> NoKeypair, Next |-> NoKeypair]])
PromoteNextKeypair(d) ==
  RefreshKeypairIndices([d EXCEPT !.kp =
    MoveKeypair(MoveKeypair(@, "Current", "Previous"), "Next", "Current")])

\* noise_handshake_begin_session with the transcript's keys, and the clearing
\* of the transcript.
Derived(d, kp) ==
  RefreshKeypairIndices([d EXCEPT !.kp = kp,
    !.hs = [NoHandshake EXCEPT !.state = "SessionDerived"]])

BeginInitiatorSession(d, key) ==
  LET from == IF IsValid(d.kp["Next"]) THEN "Next" ELSE "Current"
  IN Derived(d, [MoveKeypair(d.kp, from, "Previous") EXCEPT
                   !["Current"] = Establish(d.hs.local, d.hs.remote, key, TRUE)])

\* Mutant: the responder sends with the session before it is confirmed.
BeginResponderSessionEager(d, key) ==
  Derived(d, [Current |-> Establish(d.hs.local, d.hs.remote, key, FALSE), Next |-> NoKeypair,
              Previous |-> d.kp["Current"]])
BeginResponderSession(d, key) ==
  Derived(d, [Current |-> d.kp["Current"], Previous |-> NoKeypair,
              Next |-> Establish(d.hs.local, d.hs.remote, key, FALSE)])

\* noise_handshake_consume_initiation_message of an initiation with this index
\* and time stamp, the index of the response allocated and registered.  That
\* the code also refuses initiations that follow each other too fast is left
\* out: the device here accepts more.
IsNewInitiation(d, ts) == ts > d.seen
ConsumeInitiation(d, s, ts) ==
  [AllocateIndex(d) EXCEPT
     !.hs = [state |-> "ResponseCreated", local |-> d.idx, remote |-> s, own |-> 0],
     !.seen = ts]

\* noise_handshake_consume_response_message: a response with index s, to the
\* index r, that was made from the initiation with index r.
AcceptsResponse(d, s, r) ==
  /\ d.hs.state = "InitiationCreated"
  /\ r # 0 /\ d.reg["Handshake"] = r
  /\ s # d.hs.local
  /\ IsValid(d.kp["Current"]) => s # d.kp["Current"].remote
  /\ d.hs.own = r

ConsumeResponse(d, s) == [d EXCEPT !.hs.remote = s]

\* wg_peer_zero_key_material and wg_device_clear_index_registry; the time
\* stamp consumed last is forgotten with the handshake.
ZeroedDevice(d) ==
  [d EXCEPT !.hs = NoHandshake, !.kp = [s \in KeySlots |-> NoKeypair],
            !.reg = [s \in Slots |-> 0], !.seen = 0]
=============================================================================
