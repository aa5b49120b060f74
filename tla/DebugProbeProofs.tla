-------------------------- MODULE DebugProbeProofs --------------------------
(***************************************************************************)
(* For any actions and any numbers of probes, activations and refusals: a  *)
(* probe that waits belongs to the active activation, and the outcome of a *)
(* request is recorded in the probe that made it.                          *)
(***************************************************************************)
EXTENDS DebugProbe, TLAPS

\* No request or peer is of an activation that has not begun.
Begun ==
  /\ act <= hist.acts /\ lane.req.peer <= hist.acts
  /\ lane.pc = "commit" => lane.req.peer # 0

\* A probe waits only while a peer is active.
WaitsForPeer == IsPending(probe) => probe.peer = act /\ act # 0

\* Only the initial probe and a cancelled one are without a number.
Numbered ==
  /\ probe.status # "None" => probe.id # 0
  /\ ipc = "queue" => probe.status # "None"

\* While the lane holds a request of the active activation, the probe that made
\* it is still queued: no other can have begun.
HeldIsQueued ==
  (lane.pc = "commit" /\ lane.req.peer = act) =>
    /\ probe.status = "Queued" /\ ~probe.pending
    /\ probe.id = lane.req.id

\* The type TypeOK gives the history.
Hist == [acts : 0..MaxActivations, probes : 0..MaxProbes, refusals : 0..MaxRefusals,
         unwatched : SUBSET (1..MaxProbes), foreign : BOOLEAN]

\* The inductive invariant.
ProbeInv == TypeOK /\ Begun /\ WaitsForPeer /\ Numbered /\ HeldIsQueued /\ OutcomeIsOwn

\* DebugProbeRunner::Transition changes the status alone, and only where the
\* table of transitions allows it.
LEMMA TransitionFacts ==
  ASSUME NEW p \in Probes, NEW to \in Statuses
  PROVE LET q == Transition(p, to) IN
        /\ q \in Probes
        /\ q.peer = p.peer /\ q.action = p.action /\ q.id = p.id /\ q.pending = p.pending
        /\ CanTransition(p.status, to) => q.status = to
        /\ ~CanTransition(p.status, to) => q = p
  BY DEF Transition, Probes

\* MarkSent and MarkFailed touch a queued probe of the same activation only.
LEMMA MarkFacts ==
  ASSUME NEW p \in Probes, NEW req \in Requests, NEW to \in {"Sent"} \cup Failures
  PROVE LET q == Mark(p, req, to) IN
        /\ q \in Probes
        /\ q.peer = p.peer /\ q.id = p.id /\ q.pending = p.pending
        /\ q # p => p.status = "Queued" /\ q.status = to /\ req.peer = p.peer
        /\ p.status = "Queued" /\ Matches(p, req) => q.status = to
<1>1. to \in Statuses
  BY Zenon DEF Statuses, Failures
<1>2. CanTransition(p.status, to) <=> p.status = "Queued"
  BY DEF CanTransition, Failures, Outcomes
<1> QED
  BY <1>1, <1>2, TransitionFacts DEF Mark, Matches

\* The daemon starts with the invariant.
LEMMA ProbeInit == Init => ProbeInv
<1> SUFFICES ASSUME Init PROVE ProbeInv
  OBVIOUS
<1>1. NoProbe \in Probes /\ NoRequest \in Requests
  BY DebugProbeAssumption DEF NoProbe, NoRequest, Probes, Requests, Statuses
<1>2. /\ probe.status = "None" /\ probe.pending = FALSE
      /\ lane.pc = "idle" /\ lane.req = NoRequest /\ lane.req.peer = 0
      /\ hist.acts = 0 /\ hist.foreign = FALSE
  BY Zenon DEF Init, NoProbe, NoRequest
<1>3. hist \in Hist
  BY DebugProbeAssumption DEF Init, Hist
<1>4. TypeOK
  BY Zenon, <1>1, <1>2, <1>3, DebugProbeAssumption DEF Init, TypeOK, Hist
<1> QED
  BY <1>2, <1>4 DEF Init, ProbeInv, Begun, WaitsForPeer, Numbered, HeldIsQueued,
     OutcomeIsOwn, IsPending

\* Where the runner, the active peer and the lane stay, the invariant is one of
\* the types that change.
LEMMA Frame ==
  ASSUME ProbeInv, TypeOK',
         UNCHANGED <<act, probe, lane>>, hist'.acts = hist.acts,
         hist'.foreign = hist.foreign, ipc' = "queue" => ipc = "queue"
  PROVE ProbeInv'
  BY DEF ProbeInv, Begun, WaitsForPeer, Numbered, HeldIsQueued, OutcomeIsOwn, IsPending

\* A trigger finds no probe waiting, hence no request of this activation held.
LEMMA TriggerStep ==
  ASSUME ProbeInv, NEW action \in Actions, TriggerDebugPayload(action)
  PROVE ProbeInv'
<1>1. /\ act # 0 /\ ~IsPending(probe) /\ hist.probes + 1 \in 1..MaxProbes
      /\ UNCHANGED <<act, up, work, lane, rx, armed, due, echo>>
      /\ hist' = [hist EXCEPT !.probes = @ + 1] /\ ipc' = "queue"
  BY DebugProbeAssumption DEF TriggerDebugPayload, HasDebugPeer, ProbeInv, TypeOK
<1>2. /\ probe' \in Probes
      /\ probe'.peer = act /\ probe'.status = "Queued"
      /\ probe'.id = hist.probes + 1
  BY <1>1 DEF TriggerDebugPayload, Queue, Probes, Statuses, ProbeInv, TypeOK
<1>3. TypeOK'
  BY <1>1, <1>2, DebugProbeAssumption DEF ProbeInv, TypeOK, Hist
<1>4. ~(lane.pc = "commit" /\ lane.req.peer = act)
  BY <1>1 DEF ProbeInv, HeldIsQueued, IsPending
<1> QED
  BY <1>1, <1>2, <1>3, <1>4
  DEF ProbeInv, TypeOK, Begun, WaitsForPeer, Numbered, HeldIsQueued, OutcomeIsOwn

\* Queueing the work, or its refusal, leaves the runner alone.
LEMMA QueueStep ==
  ASSUME ProbeInv, QueueDebugPayloadSubmission
  PROVE ProbeInv'
<1>1. /\ UNCHANGED <<act, up, probe, lane, rx, armed, due, echo>> /\ ipc' = "idle"
      /\ probe.id \in 1..MaxProbes
  BY DebugProbeAssumption DEF QueueDebugPayloadSubmission, ProbeInv, TypeOK, Numbered, Probes
<1>2. CASE work' = TRUE /\ hist' = hist
  <2>1. TypeOK'
    BY <1>1, <1>2 DEF ProbeInv, TypeOK, Hist
  <2> QED
    BY Zenon, <1>1, <1>2, <2>1, Frame
<1>3. CASE /\ hist.refusals < MaxRefusals /\ work' = work
           /\ hist' = [hist EXCEPT !.refusals = @ + 1, !.unwatched = @ \cup {probe.id}]
  <2>1. hist' \in Hist /\ hist'.acts = hist.acts /\ hist'.foreign = hist.foreign
    <3>1. hist \in Hist /\ hist.refusals + 1 \in 0..MaxRefusals
      BY <1>3, DebugProbeAssumption DEF ProbeInv, TypeOK, Hist
    <3>2. hist.unwatched \cup {probe.id} \in SUBSET (1..MaxProbes)
      BY <1>1, <3>1 DEF Hist
    <3> QED
      BY Zenon, <1>3, <3>1, <3>2 DEF Hist
  <2>2. TypeOK'
    BY <1>1, <1>3, <2>1 DEF ProbeInv, TypeOK, Hist
  <2> QED
    BY <1>1, <2>1, <2>2, Frame
<1> QED
  BY Zenon, <1>2, <1>3 DEF QueueDebugPayloadSubmission

\* A new activation has a number no request in hand can have.
LEMMA SetActivePeerStep ==
  ASSUME ProbeInv, NEW on \in BOOLEAN, SetActivePeer(on)
  PROVE ProbeInv'
<1>1. /\ UNCHANGED <<work, lane, rx, armed, due, echo>> /\ up' = FALSE
      /\ ipc' \in {"idle", "cancel"}
      /\ act' = IF on THEN hist.acts + 1 ELSE 0
      /\ hist' = [hist EXCEPT !.acts = IF on THEN @ + 1 ELSE @]
      /\ on => hist.acts < MaxActivations
  BY Zenon DEF SetActivePeer
<1>2. NoProbe \in Probes
  BY DebugProbeAssumption DEF NoProbe, Probes, Statuses
<1>3. probe' = NoProbe \/ (probe' = probe /\ ~IsPending(probe))
  BY DEF SetActivePeer, Cancel, ProbeInv, WaitsForPeer
<1>4. /\ probe' \in Probes /\ ~IsPending(probe')
      /\ probe'.status # "None" => probe'.id # 0
      /\ probe'.pending => probe'.status = "Queued"
  <2>1. CASE probe' = NoProbe
    BY <1>2, <2>1 DEF NoProbe, IsPending
  <2>2. CASE probe' = probe /\ ~IsPending(probe)
    BY <2>2 DEF IsPending, ProbeInv, TypeOK, Numbered
  <2> QED
    BY <1>3, <2>1, <2>2
<1>5. /\ hist' \in Hist
      /\ act' \in 0..MaxActivations /\ act' <= hist'.acts
      /\ hist.acts \in Nat /\ hist'.acts >= hist.acts /\ hist'.foreign = hist.foreign
  BY <1>1, DebugProbeAssumption DEF ProbeInv, TypeOK, Hist
<1>6. TypeOK'
  BY Zenon, <1>1, <1>4, <1>5 DEF ProbeInv, TypeOK, Hist
<1>7. lane'.req.peer <= hist'.acts
  BY <1>1, <1>5, DebugProbeAssumption DEF ProbeInv, TypeOK, Begun, Requests
<1>8. ~(lane.pc = "commit" /\ lane.req.peer = act')
  <2>1. lane.req.peer \in Nat /\ (lane.pc = "commit" => lane.req.peer # 0)
    BY DebugProbeAssumption DEF ProbeInv, TypeOK, Begun, Requests
  <2>2. lane.req.peer <= hist.acts
    BY Zenon DEF ProbeInv, Begun
  <2> QED
    BY <1>1, <1>5, <2>1, <2>2
<1> QED
  BY <1>1, <1>4, <1>5, <1>6, <1>7, <1>8
  DEF ProbeInv, Begun, WaitsForPeer, Numbered, HeldIsQueued, OutcomeIsOwn

\* CancelDebugProbeTimeout, by the IPC thread or the receive lane.
LEMMA CancelStep ==
  ASSUME ProbeInv, CancelDebugProbeTimeout,
         UNCHANGED <<act, up, probe, work, lane, due, echo>>,
         ipc' \in {"idle", ipc}, rx' \in BOOLEAN
  PROVE ProbeInv'
<1>1. probe.status = "Sent" => probe.id \in 1..MaxProbes
  BY DebugProbeAssumption DEF ProbeInv, TypeOK, Numbered, Probes
<1>2. /\ hist' \in Hist
      /\ hist'.acts = hist.acts /\ hist'.foreign = hist.foreign
  <2>1. CASE armed /\ probe.status = "Sent"
    BY <1>1, <2>1 DEF CancelDebugProbeTimeout, ProbeInv, TypeOK, Hist
  <2>2. CASE ~(armed /\ probe.status = "Sent")
    BY <2>2 DEF CancelDebugProbeTimeout, ProbeInv, TypeOK, Hist
  <2> QED
    BY Zenon, <2>1, <2>2
<1>3. armed' \in BOOLEAN /\ ipc' \in {"idle", "queue", "cancel"}
  BY Zenon DEF CancelDebugProbeTimeout, ProbeInv, TypeOK, Hist
<1>4. TypeOK'
  BY <1>2, <1>3 DEF ProbeInv, TypeOK, Hist
<1> QED
  BY Zenon, <1>2, <1>4, Frame

\* The submission lane moves on and holds no request afterwards, or still the
\* one whose outcome it has recorded.
LEMMA LaneMoves ==
  ASSUME ProbeInv, NEW pc \in {"idle", "take", "arm", "armNow"},
         lane' = [lane EXCEPT !.pc = pc],
         UNCHANGED <<act, up, probe, ipc, rx, due, echo, hist>>,
         work' \in BOOLEAN, armed' \in BOOLEAN
  PROVE ProbeInv'
<1>1. lane'.pc = pc /\ lane'.req = lane.req
      /\ lane' \in [pc : {"idle", "take", "commit", "arm", "armNow"}, req : Requests]
  BY Zenon DEF ProbeInv, TypeOK
<1>2. TypeOK'
  BY <1>1 DEF ProbeInv, TypeOK, Hist
<1> QED
  BY Zenon, <1>1, <1>2 DEF ProbeInv, Begun, WaitsForPeer, Numbered, HeldIsQueued, OutcomeIsOwn, IsPending

\* The request taken is that of the probe queued for the active peer.
LEMMA TakeStep ==
  ASSUME ProbeInv, TakeDebugPayloadSubmission
  PROVE ProbeInv'
<1>1. UNCHANGED <<act, up, ipc, work, rx, armed, due, echo, hist>>
  BY Zenon DEF TakeDebugPayloadSubmission
<1>2. CASE HasPending(probe)
  <2>1. lane' = [pc |-> "commit", req |-> [peer |-> probe.peer, action |-> probe.action,
                                          id |-> probe.id]]
        /\ probe' = [probe EXCEPT !.pending = FALSE]
    BY <1>2 DEF TakeDebugPayloadSubmission, TakePending
  <2>2. probe \in Probes /\ probe.status = "Queued" /\ probe.peer = act /\ act # 0
    BY <1>2 DEF HasPending, ProbeInv, TypeOK, WaitsForPeer, IsPending
  <2>3. /\ probe' \in Probes /\ probe'.status = "Queued" /\ probe'.peer = act
        /\ probe'.id = probe.id /\ probe'.pending = FALSE
    BY Zenon, <2>1, <2>2 DEF Probes
  <2>4. /\ lane'.pc = "commit" /\ lane'.req.peer = act /\ lane'.req.id = probe.id
        /\ lane' \in [pc : {"idle", "take", "commit", "arm", "armNow"}, req : Requests]
    BY Zenon, <2>1, <2>2 DEF Probes, Requests
  <2>5. TypeOK'
    BY <1>1, <2>3, <2>4 DEF ProbeInv, TypeOK, Hist
  <2> QED
    BY <1>1, <2>2, <2>3, <2>4, <2>5
    DEF ProbeInv, Begun, WaitsForPeer, Numbered, HeldIsQueued, OutcomeIsOwn
<1>3. CASE ~HasPending(probe)
  <2>1. lane' = [pc |-> "idle", req |-> NoRequest] /\ probe' = probe
    BY Zenon, <1>3 DEF TakeDebugPayloadSubmission
  <2>2. /\ lane'.pc = "idle" /\ lane'.req.peer = 0 /\ 0 <= hist.acts
        /\ lane' \in [pc : {"idle", "take", "commit", "arm", "armNow"}, req : Requests]
    BY <2>1, DebugProbeAssumption DEF NoRequest, Requests, ProbeInv, TypeOK, Hist
  <2>3. TypeOK'
    BY <1>1, <2>1, <2>2 DEF ProbeInv, TypeOK, Hist
  <2> QED
    BY Zenon, <1>1, <2>1, <2>2, <2>3
    DEF ProbeInv, Begun, WaitsForPeer, Numbered, HeldIsQueued, OutcomeIsOwn, IsPending
<1> QED
  BY <1>2, <1>3

\* The outcome of a request: a probe it changes is the one that made it.
LEMMA CommitFacts ==
  ASSUME ProbeInv, lane.pc = "commit",
         NEW status \in {"Sent"} \cup Failures, NEW pc \in {"take", "arm"},
         Commit(status, pc), echo' \subseteq 1..MaxActivations
  PROVE ProbeInv'
<1> DEFINE q == Mark(probe, lane.req, status)
<1>1. /\ probe' = q /\ lane' = [lane EXCEPT !.pc = pc]
      /\ hist' = [hist EXCEPT !.foreign = @ \/ (q # probe /\ probe.id # lane.req.id)]
      /\ UNCHANGED <<act, up, ipc, work, rx, armed, due>>
  BY DEF Commit
<1>2. probe \in Probes /\ lane.req \in Requests
  BY Zenon DEF ProbeInv, TypeOK
<1>3. /\ q \in Probes
      /\ q.peer = probe.peer /\ q.id = probe.id /\ q.pending = probe.pending
      /\ q # probe => probe.status = "Queued" /\ q.status = status /\ lane.req.peer = probe.peer
  BY <1>2, MarkFacts
<1>4. q # probe => probe.peer = act /\ probe.id = lane.req.id /\ probe.pending = FALSE
  <2>1. q # probe => lane.req.peer = act
    BY Zenon, <1>3 DEF ProbeInv, WaitsForPeer, IsPending
  <2>2. probe.pending \in BOOLEAN
    BY <1>2 DEF Probes
  <2> QED
    BY Zenon, <1>3, <2>1, <2>2 DEF ProbeInv, HeldIsQueued
<1>5. hist' \in Hist /\ hist'.acts = hist.acts /\ hist'.foreign = FALSE
  BY Zenon, <1>1, <1>4 DEF ProbeInv, TypeOK, Hist, OutcomeIsOwn
<1>6. /\ lane'.pc = pc /\ lane'.req = lane.req
      /\ lane' \in [pc : {"idle", "take", "commit", "arm", "armNow"}, req : Requests]
  BY <1>1 DEF ProbeInv, TypeOK
<1>7. /\ IsPending(q) => IsPending(probe)
      /\ q.pending => q.status = "Queued"
      /\ q.status # "None" => q.id # 0
      /\ probe.status # "None" => q.status # "None"
  <2>1. CASE q = probe
    BY <2>1 DEF ProbeInv, TypeOK, Numbered
  <2>2. CASE q # probe
    BY <1>3, <1>4, <2>2 DEF ProbeInv, Numbered, IsPending, Failures
  <2> QED
    BY Zenon, <2>1, <2>2
<1>8. TypeOK'
  BY <1>1, <1>3, <1>5, <1>6, <1>7 DEF ProbeInv, TypeOK, Hist
<1> HIDE DEF q
<1> QED
  BY <1>1, <1>3, <1>5, <1>6, <1>7, <1>8
  DEF ProbeInv, Begun, WaitsForPeer, Numbered, HeldIsQueued, OutcomeIsOwn

\* Every branch of CommitDebugPayloadSubmission records one outcome.
LEMMA CommitStep ==
  ASSUME ProbeInv, CommitDebugPayloadSubmission
  PROVE ProbeInv'
<1>1. lane.pc = "commit" /\ echo \subseteq 1..MaxActivations
  BY Zenon DEF CommitDebugPayloadSubmission, ProbeInv, TypeOK
<1>2. CASE \E status \in Failures : Commit(status, "take") /\ echo' = echo
  BY Zenon, <1>1, <1>2, CommitFacts
<1>3. CASE act = lane.req.peer /\ Commit("Sent", "arm") /\ echo' = echo \cup {lane.req.peer}
  <2>1. lane.req.peer \in 1..MaxActivations
    BY <1>1, DebugProbeAssumption DEF ProbeInv, TypeOK, Begun, Requests
  <2>2. echo' \subseteq 1..MaxActivations
    BY Zenon, <1>1, <1>3, <2>1
  <2> QED
    BY <1>1, <1>3, <2>2, CommitFacts
<1> QED
  BY <1>2, <1>3 DEF CommitDebugPayloadSubmission, Failures, EchoRequest

\* A reply or the timeout settles a sent probe.
LEMMA SettleFacts ==
  ASSUME ProbeInv, probe.status = "Sent", NEW to \in Outcomes,
         probe' = Transition(probe, to),
         UNCHANGED <<act, up, ipc, work, lane, armed, echo, hist>>,
         rx' \in BOOLEAN, due' \in BOOLEAN
  PROVE ProbeInv'
<1>1. to \in Statuses /\ probe \in Probes /\ CanTransition(probe.status, to)
  BY DEF Statuses, Outcomes, Failures, CanTransition, ProbeInv, TypeOK
<1>2. /\ probe' \in Probes /\ probe'.status = to /\ to # "None"
      /\ probe'.peer = probe.peer /\ probe'.id = probe.id /\ probe'.pending = probe.pending
  BY <1>1, TransitionFacts DEF Outcomes
<1>3. ~probe.pending /\ ~IsPending(probe')
  BY Zenon, <1>2 DEF ProbeInv, TypeOK, IsPending, Outcomes
<1>4. TypeOK'
  BY <1>2, <1>3 DEF ProbeInv, TypeOK, Hist
<1>5. ~(lane.pc = "commit" /\ lane.req.peer = act)
  BY DEF ProbeInv, HeldIsQueued
<1> QED
  BY Zenon, <1>2, <1>3, <1>4, <1>5
  DEF ProbeInv, Begun, WaitsForPeer, Numbered, HeldIsQueued, OutcomeIsOwn

\* PublishDecryptedPacketLocked of a reply.
LEMMA PublishStep ==
  ASSUME ProbeInv, NEW a, PublishReply(a)
  PROVE ProbeInv'
<1>1. PICK to \in {"ReplyValidated", "ReplyRejected"} : probe' = Transition(probe, to)
  BY DEF PublishReply, HandleDecryptedPacket
<1> QED
  BY Zenon, <1>1, SettleFacts DEF PublishReply, Outcomes, ProbeInv, TypeOK

\* RunDebugProbeTimeout.
LEMMA TimeoutStep ==
  ASSUME ProbeInv, RunDebugProbeTimeout
  PROVE ProbeInv'
<1>1. CASE probe.status = "Sent"
  BY Zenon, <1>1, SettleFacts DEF RunDebugProbeTimeout, HandleTimeout, Outcomes, ProbeInv, TypeOK
<1>2. CASE probe.status # "Sent"
  <2>1. UNCHANGED <<act, up, ipc, work, lane, rx, armed, echo, hist, probe>> /\ due' = FALSE
    BY <1>2 DEF RunDebugProbeTimeout, HandleTimeout
  <2>2. TypeOK'
    BY Zenon, <2>1 DEF ProbeInv, TypeOK, Hist
  <2> QED
    BY <2>1, <2>2, Frame
<1> QED
  BY Zenon, <1>1, <1>2

\* Every step keeps the invariant.
LEMMA ProbeStep ==
  ASSUME ProbeInv, [Next]_vars
  PROVE ProbeInv'
<1>1. CASE \E action \in Actions : TriggerDebugPayload(action)
  BY <1>1, TriggerStep
<1>2. CASE \E on \in BOOLEAN : SetActivePeer(on)
  BY <1>2, SetActivePeerStep
<1>3. CASE QueueDebugPayloadSubmission
  BY Zenon, <1>3, QueueStep
<1>4. CASE IpcCancel \/ RxCancel
  BY Zenon, <1>4, CancelStep DEF IpcCancel, RxCancel, ProbeInv, TypeOK
<1>5. CASE TakeDebugPayloadSubmission
  BY <1>5, TakeStep
<1>6. CASE CommitDebugPayloadSubmission
  BY <1>6, CommitStep
<1>7. CASE StartWork \/ CheckBeforeArm \/ ArmDebugProbeTimeout
  <2>1. PICK pc \in {"idle", "take", "arm", "armNow"} : lane' = [lane EXCEPT !.pc = pc]
    BY Zenon, <1>7 DEF StartWork, CheckBeforeArm, ArmDebugProbeTimeout
  <2>2. /\ UNCHANGED <<act, up, probe, ipc, rx, due, echo, hist>>
        /\ work' \in BOOLEAN /\ armed' \in BOOLEAN
    BY Zenon, <1>7 DEF StartWork, CheckBeforeArm, ArmDebugProbeTimeout, ProbeInv, TypeOK
  <2> QED
    BY <2>1, <2>2, LaneMoves
<1>8. CASE \E a \in echo \cup {0} : PublishReply(a)
  BY <1>8, PublishStep
<1>9. CASE RunDebugProbeTimeout
  BY Zenon, <1>9, TimeoutStep
<1>10. CASE TimerFires \/ PeerChanges \/ UNCHANGED vars
  <2>1. UNCHANGED <<act, probe, ipc, lane, hist>> /\ TypeOK'
    BY Zenon, <1>10 DEF TimerFires, PeerChanges, vars, ProbeInv, TypeOK, Hist
  <2> QED
    BY <2>1, Frame
<1> QED
  BY <1>1, <1>2, <1>3, <1>4, <1>5, <1>6, <1>7, <1>8, <1>9, <1>10 DEF Next, Ipc, Lane

\* Every behaviour keeps the invariant.
LEMMA Invariance == Spec => []ProbeInv
  BY ProbeInit, ProbeStep, PTL DEF Spec

\* The state of the probe, its request and its threads is well typed.
THEOREM TypeCorrect == Spec => []TypeOK
<1>1. ProbeInv => TypeOK
  BY DEF ProbeInv
<1> QED
  BY <1>1, Invariance, PTL

\* A probe that waits is of the activation that is active: DeactivatePeer and
\* the next ActivatePeer leave none behind to answer Busy.
THEOREM NoneOutlivesItsPeer == Spec => []PendingIsCurrent
<1>1. ProbeInv => PendingIsCurrent
  BY DEF ProbeInv, WaitsForPeer, PendingIsCurrent
<1> QED
  BY <1>1, Invariance, PTL

\* What CommitDebugPayloadSubmission records, it records in the probe that made
\* the request, although the lane held it without the lock.
THEOREM OutcomeStaysOwn == Spec => []OutcomeIsOwn
<1>1. ProbeInv => OutcomeIsOwn
  BY DEF ProbeInv
<1> QED
  BY <1>1, Invariance, PTL

=============================================================================
