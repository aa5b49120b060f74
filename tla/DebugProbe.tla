----------------------------- MODULE DebugProbe -----------------------------
(***************************************************************************)
(* The debug probe: one ICMP echo at a time, triggered over IPC, built and *)
(* staged on the submission lane, answered on the receive lane, given up   *)
(* by a timeout that the timer lane delivers.  DebugProbeRunner is changed *)
(* under the daemon's lock only, but its work is queued, its timer armed   *)
(* and its timer cancelled after that lock is released: those are steps of *)
(* their own here.                                                         *)
(*                                                                         *)
(* An activation number stands for a peer's identity, 0 for none.          *)
(***************************************************************************)
EXTENDS Naturals

CONSTANTS Actions,         \* the supported DebugTriggerActions
          MaxProbes, MaxActivations, MaxRefusals  \* bounds

ASSUME DebugProbeAssumption ==
  /\ "none" \notin Actions
  /\ MaxProbes \in Nat /\ MaxActivations \in Nat /\ MaxRefusals \in Nat

VARIABLES act,    \* the active peer's activation, 0: none
          up,     \* the peer is established, bound and may send
          probe,  \* DebugProbeRunner; id numbers the triggers
          ipc,    \* the IPC thread between its lock and its command's end
          work,   \* the debug submission work is queued
          lane,   \* the submission lane inside the work's callback
          rx,     \* the receive lane has a timeout to cancel
          armed,  \* the debug timeout timer
          due,    \* the debug timeout work is queued on the timer lane
          echo,   \* activations whose echo requests were staged
          hist    \* activations, triggers and refusals; probes left unwatched;
                  \* a request whose outcome fell on another probe

vars == <<act, up, probe, ipc, work, lane, rx, armed, due, echo, hist>>

NoRequest == [peer |-> 0, action |-> "none", id |-> 0]
NoProbe == [peer |-> 0, action |-> "none", status |-> "None", pending |-> FALSE, id |-> 0]

Init ==
  /\ act = 0 /\ up = FALSE
  /\ probe = NoProbe
  /\ ipc = "idle"
  /\ work = FALSE
  /\ lane = [pc |-> "idle", req |-> NoRequest]
  /\ rx = FALSE
  /\ armed = FALSE /\ due = FALSE
  /\ echo = {}
  /\ hist = [acts |-> 0, probes |-> 0, refusals |-> 0, unwatched |-> {}, foreign |-> FALSE]

-----------------------------------------------------------------------------
(* DebugProbeRunner.                                                       *)

Failures == {"StaleActivation", "InvalidState", "BuildFailed", "SendFailed"}
Outcomes == {"ReplyValidated", "ReplyRejected", "TimedOut"}
Statuses == {"None", "Queued", "Sent"} \cup Failures \cup Outcomes

\* Mutant: a sent probe does not time out.
CanTransitionNoTimeout(from, to) ==
  /\ to = "Queued" => from \notin {"Queued", "Sent"}
  /\ to = "Sent" \/ to \in Failures => from = "Queued"
  /\ to \in Outcomes => from = "Sent" /\ to # "TimedOut"
CanTransition(from, to) ==
  /\ to = "Queued" => from \notin {"Queued", "Sent"}
  /\ to = "Sent" \/ to \in Failures => from = "Queued"
  /\ to \in Outcomes => from = "Sent"

Transition(p, to) == IF CanTransition(p.status, to) THEN [p EXCEPT !.status = to] ELSE p

IsPending(p) == p.status \in {"Queued", "Sent"}

\* Mutant: a request is told by its action.
MatchesAction(p, req) == req.action = p.action
Matches(p, req) == req.peer = p.peer /\ req.action = p.action

\* MarkSent and MarkFailed.
Mark(p, req, status) == IF Matches(p, req) THEN Transition(p, status) ELSE p

Queue(peer, action, id) ==
  [peer |-> peer, action |-> action, status |-> "Queued", pending |-> TRUE, id |-> id]

HasPending(p) == p.pending /\ p.status = "Queued"
TakePending(p) == [p EXCEPT !.pending = FALSE]

\* Cancel, for the identity of the peer that is deactivated.
Cancel(p, peer) == IF peer = p.peer THEN NoProbe ELSE p

\* BuildPacket; an unusable source address fails it as well.
Builds(p, req) == Matches(p, req) /\ p.status = "Queued"

\* What an echo request carries that its reply is told by.
EchoRequest(req) == req.peer

HandleTimeout(p) == IF p.status = "Sent" THEN Transition(p, "TimedOut") ELSE p

\* ValidateDebugIcmpEchoReply of an echo reply for the probe of activation a; 0
\* stands for a damaged or short ICMP packet, which is taken for a reply too.
Validation(p, a) ==
  IF a = 0 THEN "Invalid" ELSE IF a = p.peer THEN "Valid" ELSE "ActivationMismatch"

HandleDecryptedPacket(p, peer, a) ==
  Transition(p, IF Validation(p, a) = "Valid" /\ peer = p.peer
                THEN "ReplyValidated" ELSE "ReplyRejected")

-----------------------------------------------------------------------------
(* The IPC thread, which serves one command at a time.                     *)

\* SnapshotDebugPeer.
HasDebugPeer == act # 0 /\ up

TriggerDebugPayload(action) ==
  /\ ipc = "idle"
  /\ hist.probes < MaxProbes
  /\ HasDebugPeer /\ ~IsPending(probe) /\ CanTransition(probe.status, "Queued")
  /\ probe' = Queue(act, action, hist.probes + 1)
  /\ ipc' = "queue"
  /\ hist' = [hist EXCEPT !.probes = @ + 1]
  /\ UNCHANGED <<act, up, work, lane, rx, armed, due, echo>>

\* QueueDebugPayloadSubmission, whose result is dropped: a lane with both its
\* slots taken by the other works refuses work that is neither queued nor run.
QueueDebugPayloadSubmission ==
  /\ ipc = "queue"
  /\ ipc' = "idle"
  /\ \/ work' = TRUE /\ UNCHANGED hist
     \/ /\ ~work /\ lane.pc = "idle"
        /\ hist.refusals < MaxRefusals
        /\ hist' = [hist EXCEPT !.refusals = @ + 1, !.unwatched = @ \cup {probe.id}]
        /\ UNCHANGED work
  /\ UNCHANGED <<act, up, probe, lane, rx, armed, due, echo>>

\* SetActivePeer with SetPeerInactive of the peer that was active.
SetActivePeer(on) ==
  /\ ipc = "idle"
  /\ on => hist.acts < MaxActivations
  /\ on \/ act # 0
  /\ act' = IF on THEN hist.acts + 1 ELSE 0
  /\ up' = FALSE
  /\ hist' = [hist EXCEPT !.acts = IF on THEN @ + 1 ELSE @]
  /\ probe' = IF act # 0 THEN Cancel(probe, act) ELSE probe
  /\ ipc' = IF act # 0 THEN "cancel" ELSE ipc
  /\ UNCHANGED <<work, lane, rx, armed, due, echo>>

\* A timer that is cancelled while a sent probe waits leaves it unwatched.
CancelDebugProbeTimeout ==
  /\ armed' = FALSE
  /\ hist' = IF armed /\ probe.status = "Sent"
             THEN [hist EXCEPT !.unwatched = @ \cup {probe.id}] ELSE hist

IpcCancel ==
  /\ ipc = "cancel"
  /\ ipc' = "idle"
  /\ CancelDebugProbeTimeout
  /\ UNCHANGED <<act, up, probe, work, lane, rx, due, echo>>

-----------------------------------------------------------------------------
(* The submission lane: RunDebugPayloadSubmission.                         *)

StartWork ==
  /\ work /\ lane.pc = "idle"
  /\ work' = FALSE
  /\ lane' = [lane EXCEPT !.pc = "take"]
  /\ UNCHANGED <<act, up, probe, ipc, rx, armed, due, echo, hist>>

TakeDebugPayloadSubmission ==
  /\ lane.pc = "take"
  /\ IF HasPending(probe)
     THEN /\ lane' = [pc |-> "commit", req |-> [peer |-> probe.peer,
                        action |-> probe.action, id |-> probe.id]]
          /\ probe' = TakePending(probe)
     ELSE lane' = [pc |-> "idle", req |-> NoRequest] /\ UNCHANGED probe
  /\ UNCHANGED <<act, up, ipc, work, rx, armed, due, echo, hist>>

\* The outcome of a request: the probe, where the lane goes on, and whether the
\* echo was staged.
Commit(status, pc) ==
  LET p == Mark(probe, lane.req, status)
  IN /\ probe' = p
     /\ lane' = [lane EXCEPT !.pc = pc]
     /\ hist' = [hist EXCEPT !.foreign = @ \/ (p # probe /\ probe.id # lane.req.id)]
     /\ UNCHANGED <<act, up, ipc, work, rx, armed, due>>

CommitDebugPayloadSubmission ==
  LET req == lane.req
  IN /\ lane.pc = "commit"
     /\ \/ act # req.peer /\ Commit("StaleActivation", "take") /\ UNCHANGED echo
        \/ /\ act = req.peer /\ ~up
           /\ Commit("InvalidState", "take") /\ UNCHANGED echo
        \/ act = req.peer /\ up /\ Commit("BuildFailed", "take") /\ UNCHANGED echo
        \/ /\ act = req.peer /\ up /\ Builds(probe, req)      \* the stage is full
           /\ Commit("SendFailed", "take") /\ UNCHANGED echo
        \/ /\ act = req.peer /\ up /\ Builds(probe, req)
           /\ Commit("Sent", "arm") /\ echo' = echo \cup {EchoRequest(req)}

\* ArmDebugProbeTimeoutEffect: read under the lock, armed after it.
CheckBeforeArm ==
  /\ lane.pc = "arm"
  /\ lane' = [lane EXCEPT !.pc = IF probe.peer = lane.req.peer /\ probe.status = "Sent"
                                 THEN "armNow" ELSE "take"]
  /\ UNCHANGED <<act, up, probe, ipc, work, rx, armed, due, echo, hist>>

ArmDebugProbeTimeout ==
  /\ lane.pc = "armNow"
  /\ lane' = [lane EXCEPT !.pc = "take"]
  /\ armed' = TRUE
  /\ UNCHANGED <<act, up, probe, ipc, work, rx, due, echo, hist>>

-----------------------------------------------------------------------------
(* The receive lane, the timer and the timer lane, the environment.        *)

\* PublishDecryptedPacketLocked of what looks like a reply, however late; any
\* other packet, and any while no probe is sent, goes on to the adapter.
PublishReply(a) ==
  /\ ~rx
  /\ act # 0 /\ probe.status = "Sent"
  /\ probe' = HandleDecryptedPacket(probe, act, a)
  /\ rx' = TRUE
  /\ UNCHANGED <<act, up, ipc, work, lane, armed, due, echo, hist>>

RxCancel ==
  /\ rx
  /\ rx' = FALSE
  /\ CancelDebugProbeTimeout
  /\ UNCHANGED <<act, up, probe, ipc, work, lane, due, echo>>

\* AuxiliaryTimerCallback.
TimerFires ==
  /\ armed
  /\ armed' = FALSE /\ due' = TRUE
  /\ UNCHANGED <<act, up, probe, ipc, work, lane, rx, echo, hist>>

RunDebugProbeTimeout ==
  /\ due
  /\ due' = FALSE
  /\ probe' = HandleTimeout(probe)
  /\ UNCHANGED <<act, up, ipc, work, lane, rx, armed, echo, hist>>

\* The peer is established, or loses its session or its socket.
PeerChanges ==
  /\ act # 0
  /\ up' = ~up
  /\ UNCHANGED <<act, probe, ipc, work, lane, rx, armed, due, echo, hist>>

Lane == StartWork \/ TakeDebugPayloadSubmission \/ CommitDebugPayloadSubmission
        \/ CheckBeforeArm \/ ArmDebugProbeTimeout
Ipc == QueueDebugPayloadSubmission \/ IpcCancel

Next ==
  \/ \E action \in Actions : TriggerDebugPayload(action)
  \/ \E on \in BOOLEAN : SetActivePeer(on)
  \/ Ipc \/ Lane
  \/ \E a \in echo \cup {0} : PublishReply(a)
  \/ RxCancel \/ TimerFires \/ RunDebugProbeTimeout
  \/ PeerChanges

Spec == Init /\ [][Next]_vars

\* Threads run, and an armed timer expires.
FairSpec ==
  /\ Spec
  /\ WF_vars(Ipc) /\ WF_vars(Lane)
  /\ WF_vars(RxCancel) /\ WF_vars(TimerFires) /\ WF_vars(RunDebugProbeTimeout)

-----------------------------------------------------------------------------

Requests == [peer : 0..MaxActivations, action : Actions \cup {"none"}, id : 0..MaxProbes]
Probes == [peer : 0..MaxActivations, action : Actions \cup {"none"}, status : Statuses,
           pending : BOOLEAN, id : 0..MaxProbes]

\* The type of the state; a request waits only while its probe is queued.
TypeOK ==
  /\ act \in 0..MaxActivations /\ up \in BOOLEAN
  /\ probe \in Probes
  /\ probe.pending => probe.status = "Queued"
  /\ ipc \in {"idle", "queue", "cancel"}
  /\ work \in BOOLEAN /\ rx \in BOOLEAN /\ armed \in BOOLEAN /\ due \in BOOLEAN
  /\ lane \in [pc : {"idle", "take", "commit", "arm", "armNow"}, req : Requests]
  /\ echo \subseteq 1..MaxActivations
  /\ hist \in [acts : 0..MaxActivations, probes : 0..MaxProbes,
               refusals : 0..MaxRefusals, unwatched : SUBSET (1..MaxProbes),
               foreign : BOOLEAN]

\* A probe that still waits, and would answer Busy to the next trigger, belongs
\* to the activation that is active: none outlives the end of its own.
PendingIsCurrent == IsPending(probe) => probe.peer = act

\* What the lane's attempt to send came to is recorded in the probe whose request
\* it took, although it holds that request without the lock while probes end and
\* begin.  (Replies and timeouts carry no probe: a late one of the same
\* activation settles the probe that waits then.)
OutcomeIsOwn == ~hist.foreign

\* An accepted probe settles, unless the lane refused its work or the receive
\* lane, late with the cancel of the probe before, cancelled its timer.
ProbeSettles ==
  \A n \in 1..MaxProbes :
    (probe.id = n /\ IsPending(probe))
      ~> (probe.id # n \/ ~IsPending(probe) \/ n \in hist.unwatched)

\* Without the exception: every accepted probe settles.  The code does not
\* promise it, and a refused work item or a late cancel breaks it.
EveryProbeSettles ==
  \A n \in 1..MaxProbes :
    (probe.id = n /\ IsPending(probe)) ~> (probe.id # n \/ ~IsPending(probe))
=============================================================================
