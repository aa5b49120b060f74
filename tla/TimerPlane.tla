----------------------------- MODULE TimerPlane -----------------------------
(***************************************************************************)
(* The protocol timers, from the intent a peer event records to the        *)
(* expiry that comes back to the peer.  Four parties share them:           *)
(*                                                                         *)
(*  - the peer handlers, under the daemon state mutex, record intent in    *)
(*    TimerCoordinator (coord) and hand out tokens with the effects;       *)
(*  - each lane (a thread) executes the effects of the event it dispatched *)
(*    outside that mutex, through TimerScheduler, whose operation mutex    *)
(*    (opOwner) serialises arm and cancel;                                 *)
(*  - the timer-manager thread (cb) pops an expired timer and captures the *)
(*    armed token of its slot as the queued delivery;                      *)
(*  - the timer workqueue runs the slot's work item on TimerLane, which    *)
(*    takes the delivery and dispatches the expiry event.                  *)
(*                                                                         *)
(* Time is abstracted: a started timer may expire at any later moment.     *)
(* Tokens are compared for equality only, so the generations that a Cancel *)
(* burns are not counted, and the (peer, activation) pair of a token's     *)
(* owner is the number act of the activation.                              *)
(***************************************************************************)
EXTENDS Naturals, Sequences, FiniteSets

CONSTANTS
    Hooks,            \* the timer roles
    SequencedHooks,   \* roles whose owner carries the handshake sequence
    Lanes,            \* threads that dispatch events and execute effects
    TimerLane,        \* the lane of the timer workqueue
    CommandLane,      \* the lane of the IPC commands (activation changes)
    ArmLanes,         \* hook -> lanes whose events arm it
    NoHook,
    NoLane,
    MaxGeneration,    \* bound on tokens handed out
    MaxActivation,    \* bound on activations
    MaxSequence,      \* bound on handshake sequences
    HookOrder         \* the order in which a teardown cancels the hooks

ASSUME TimerConstants ==
    /\ SequencedHooks \subseteq Hooks
    /\ TimerLane \in Lanes
    /\ CommandLane \in Lanes
    /\ CommandLane # TimerLane
    /\ ArmLanes \in [Hooks -> SUBSET Lanes]
    /\ NoHook \notin Hooks
    /\ NoLane \notin Lanes
    /\ MaxGeneration \in Nat
    /\ MaxActivation \in Nat
    /\ MaxSequence \in Nat
    /\ HookOrder \in Seq(Hooks)
    /\ \A h \in Hooks : \E i \in 1..Len(HookOrder) : HookOrder[i] = h

Token == [act : Nat, seq : Nat, gen : Nat]
NoToken == [act |-> 0, seq |-> 0, gen |-> 0]

Effect == [op : {"Arm", "Cancel"}, hook : Hooks, tok : Token]

VARIABLES
    act,       \* activation in force, 0 when the peer is inactive
    lastAct,   \* last activation handed out
    failed,    \* the activation is in the Error state
    seq,       \* handshake_retry.sequence_count
    lastGen,   \* last token generation handed out
    coord,     \* TimerCoordinator: hook -> armed token
    batch,     \* lane -> timer effects it has still to execute
    pc,        \* lane -> where it is in the current effect
    held,      \* token TimerLane has taken for delivery
    opOwner,   \* lane inside TimerScheduler's operation mutex
    slot,      \* TimerSchedule: hook -> armed_token
    queued,    \* TimerSchedule: hook -> queued_token
    timer,     \* started timer_list of the hook, with the token it is for
    cb,        \* the callback the timer-manager thread is running
    workq,     \* FIFO of the timer workqueue
    workHook,  \* work item that is running
    rerun      \* that item was queued again while running

peerVars == <<act, lastAct, failed, seq, lastGen, coord>>
schedVars == <<opOwner, slot, timer>>
workVars == <<workq, workHook, rerun>>
vars == <<peerVars, batch, pc, held, schedVars, queued, cb, workVars>>

NoCallback == [stage |-> "idle", hook |-> NoHook, tok |-> NoToken]

(* Types of the coordinator, the effect batches, the schedule and threads. *)
TypeOK ==
    /\ act \in Nat /\ lastAct \in Nat /\ failed \in BOOLEAN
    /\ seq \in Nat /\ lastGen \in Nat
    /\ coord \in [Hooks -> Token]
    /\ batch \in [Lanes -> Seq(Effect)]
    /\ pc \in [Lanes -> {"idle", "take", "deliver", "run", "lock", "lookup",
                         "delete", "sync", "write", "start"}]
    /\ held \in Token
    /\ opOwner \in Lanes \union {NoLane}
    /\ slot \in [Hooks -> Token]
    /\ queued \in [Hooks -> Token]
    /\ timer \in [Hooks -> Token]
    /\ cb \in [stage : {"idle", "capture", "queue", "return"},
               hook : Hooks \union {NoHook}, tok : Token]
    /\ workq \in Seq(Hooks)
    /\ workHook \in Hooks \union {NoHook}
    /\ rerun \in BOOLEAN

Init ==
    /\ act = 0 /\ lastAct = 0 /\ failed = FALSE /\ seq = 0 /\ lastGen = 0
    /\ coord = [h \in Hooks |-> NoToken]
    /\ batch = [l \in Lanes |-> <<>>]
    /\ pc = [l \in Lanes |-> "idle"]
    /\ held = NoToken
    /\ opOwner = NoLane
    /\ slot = [h \in Hooks |-> NoToken]
    /\ queued = [h \in Hooks |-> NoToken]
    /\ timer = [h \in Hooks |-> NoToken]
    /\ cb = NoCallback
    /\ workq = <<>>
    /\ workHook = NoHook
    /\ rerun = FALSE

-----------------------------------------------------------------------------
(* TimerCoordinator, under the daemon state mutex. *)

OwnerSequence(h) == IF h \in SequencedHooks THEN seq ELSE 0

IsCurrent(h, t) ==
    /\ t # NoToken
    /\ t.act = act
    /\ t.seq = OwnerSequence(h)
    /\ coord[h] = t

(* FinalizeTimerEffects on one request <<op, hook>> of an event: Arm gives   *)
(* the hook a new token, Cancel hands out the armed one and forgets it.    *)
Requests(l) ==
    {r \in {"Arm", "Cancel"} \X Hooks : r[1] = "Arm" => l \in ArmLanes[r[2]]}

NewToken(h, g) == [act |-> act, seq |-> OwnerSequence(h), gen |-> g + 1]

FinalizeToken(r, c, g) == IF r[1] = "Arm" THEN NewToken(r[2], g) ELSE c[r[2]]

FinalizeCoord(r, c, g) ==
    [c EXCEPT ![r[2]] = IF r[1] = "Arm" THEN NewToken(r[2], g) ELSE NoToken]

FinalizeGen(r, g) == IF r[1] = "Arm" THEN g + 1 ELSE g

FinalizeEffect(r, c, g) ==
    [op |-> r[1], hook |-> r[2], tok |-> FinalizeToken(r, c, g)]

(* Lane l handles an event that makes timer request r, or r and then s;    *)
(* the effects are left in its batch.                                      *)
OneRequest(l, r) ==
    /\ coord' = FinalizeCoord(r, coord, lastGen)
    /\ lastGen' = FinalizeGen(r, lastGen)
    /\ batch' = [batch EXCEPT ![l] = <<FinalizeEffect(r, coord, lastGen)>>]

TwoRequests(l, r, s) ==
    LET c == FinalizeCoord(r, coord, lastGen)
        g == FinalizeGen(r, lastGen)
    IN  /\ coord' = FinalizeCoord(s, c, g)
        /\ lastGen' = FinalizeGen(s, g)
        /\ batch' = [batch EXCEPT ![l] = <<FinalizeEffect(r, coord, lastGen),
                                           FinalizeEffect(s, c, g)>>]

PeerEvent(l) ==
    /\ l # TimerLane
    /\ act # 0 /\ ~failed
    /\ pc[l] = "idle"
    /\ \/ \E r \in Requests(l) : OneRequest(l, r)
       \/ \E r, s \in Requests(l) : TwoRequests(l, r, s)
    /\ lastGen' <= MaxGeneration
    /\ pc' = [pc EXCEPT ![l] = "run"]
    /\ UNCHANGED <<act, lastAct, failed, seq, held, schedVars, queued, cb,
                   workVars>>

(* wg_peer_begin_retry: a new handshake sequence makes the tokens of       *)
(* sequenced hooks stale without cancelling them.                          *)
BeginRetry(l) ==
    /\ l # TimerLane
    /\ act # 0 /\ ~failed
    /\ pc[l] = "idle"
    /\ seq < MaxSequence
    /\ seq' = seq + 1
    /\ UNCHANGED <<act, lastAct, failed, lastGen, coord, batch, pc, held, schedVars,
                   queued, cb, workVars>>

CancelEveryHook(c) ==
    [i \in 1..Len(HookOrder) |-> [op |-> "Cancel", hook |-> HookOrder[i],
                                  tok |-> c[HookOrder[i]]]]

(* Activation: BeginActivation hands out a new activation. *)
Activate ==
    /\ act = 0
    /\ pc[CommandLane] = "idle"
    /\ lastAct < MaxActivation
    /\ act' = lastAct + 1
    /\ lastAct' = lastAct + 1
    /\ UNCHANGED <<failed, seq, lastGen, coord, batch, pc, held, schedVars, queued, cb,
                   workVars>>

(* Deactivation: the five tokens are taken into Cancel effects, then the   *)
(* coordinator forgets everything.                                         *)
Deactivate ==
    /\ act # 0
    /\ pc[CommandLane] = "idle"
    /\ act' = 0
    /\ failed' = FALSE
    /\ seq' = 0
    /\ coord' = [h \in Hooks |-> NoToken]
    /\ batch' = [batch EXCEPT ![CommandLane] = CancelEveryHook(coord)]
    /\ pc' = [pc EXCEPT ![CommandLane] = "run"]
    /\ UNCHANGED <<lastAct, lastGen, held, schedVars, queued, cb, workVars>>

(* EnterActivationError: cancels every hook and scrubs the protocol state; *)
(* the activation stays, in the Error state.                               *)
EnterActivationError(l) ==
    /\ l # TimerLane
    /\ act # 0 /\ ~failed
    /\ pc[l] = "idle"
    /\ failed' = TRUE
    /\ seq' = 0
    /\ coord' = [h \in Hooks |-> NoToken]
    /\ batch' = [batch EXCEPT ![l] = CancelEveryHook(coord)]
    /\ pc' = [pc EXCEPT ![l] = "run"]
    /\ UNCHANGED <<act, lastAct, lastGen, held, schedVars, queued, cb, workVars>>

-----------------------------------------------------------------------------
(* The effect executor and TimerScheduler, one lane at a time.  A lane at   *)
(* "run" looks at the head of its batch; "lock" to "start" are the steps    *)
(* of ArmProtocolTimer and CancelProtocolTimer.                            *)

Head1(l) == Head(batch[l])

Drop(l) ==
    /\ batch' = [batch EXCEPT ![l] = Tail(batch[l])]
    /\ pc' = [pc EXCEPT ![l] = "run"]

Goto(l, where) ==
    /\ pc' = [pc EXCEPT ![l] = where]
    /\ UNCHANGED batch

(* Mutant: arming a hook whose slot is armed is taken to be redundant. *)
RevalidateOnce(l) ==
    /\ pc[l] = "run"
    /\ batch[l] # <<>>
    /\ IF \/ /\ Head1(l).op = "Arm"
             /\ IsCurrent(Head1(l).hook, Head1(l).tok)
             /\ slot[Head1(l).hook] = NoToken
          \/ Head1(l).op = "Cancel" /\ Head1(l).tok # NoToken
       THEN Goto(l, "lock")
       ELSE Drop(l)
    /\ UNCHANGED <<peerVars, held, schedVars, queued, cb, workVars>>

(* An Arm is executed only if its token is current, checked under the      *)
(* state mutex, which is then released; a Cancel only if its token is      *)
(* valid.                                                                  *)
Revalidate(l) ==
    /\ pc[l] = "run"
    /\ batch[l] # <<>>
    /\ IF \/ Head1(l).op = "Arm" /\ IsCurrent(Head1(l).hook, Head1(l).tok)
          \/ Head1(l).op = "Cancel" /\ Head1(l).tok # NoToken
       THEN Goto(l, "lock")
       ELSE Drop(l)
    /\ UNCHANGED <<peerVars, held, schedVars, queued, cb, workVars>>

Lock(l) ==
    /\ pc[l] = "lock"
    /\ opOwner = NoLane
    /\ opOwner' = l
    /\ Goto(l, IF Head1(l).op = "Arm" THEN "delete" ELSE "lookup")
    /\ UNCHANGED <<peerVars, held, slot, timer, queued, cb, workVars>>

(* Mutant: cancel by hook, without comparing the token. *)
LookUpByHook(l) ==
    /\ pc[l] = "lookup"
    /\ Goto(l, "delete")
    /\ UNCHANGED <<peerVars, held, schedVars, queued, cb, workVars>>

(* CancelProtocolTimer(token): another token in the slot ends it. *)
LookUp(l) ==
    /\ pc[l] = "lookup"
    /\ IF slot[Head1(l).hook] = Head1(l).tok
       THEN Goto(l, "delete") /\ UNCHANGED opOwner
       ELSE Drop(l) /\ opOwner' = NoLane
    /\ UNCHANGED <<peerVars, held, slot, timer, queued, cb, workVars>>

(* timer_delete_sync: disarm, then wait for a running callback. *)
TimerDelete(l) ==
    /\ pc[l] = "delete"
    /\ timer' = [timer EXCEPT ![Head1(l).hook] = NoToken]
    /\ Goto(l, "sync")
    /\ UNCHANGED <<peerVars, held, opOwner, slot, queued, cb, workVars>>

(* Mutant: timer_delete, which does not wait for the callback. *)
TimerDeleteOnly(l) ==
    /\ pc[l] = "sync"
    /\ Goto(l, "write")
    /\ UNCHANGED <<peerVars, held, schedVars, queued, cb, workVars>>

TimerSync(l) ==
    /\ pc[l] = "sync"
    /\ cb.hook # Head1(l).hook
    /\ Goto(l, "write")
    /\ UNCHANGED <<peerVars, held, schedVars, queued, cb, workVars>>

(* TimerSchedule::Arm, or TimerSchedule::Cancel(token). *)
WriteSlot(l) ==
    LET e == Head1(l)
    IN  /\ pc[l] = "write"
        /\ \/ /\ e.op = "Arm"
              /\ slot' = [slot EXCEPT ![e.hook] = e.tok]
              /\ Goto(l, "start")
              /\ UNCHANGED opOwner
           \/ /\ e.op = "Cancel"
              /\ slot' = IF slot[e.hook] = e.tok
                         THEN [slot EXCEPT ![e.hook] = NoToken] ELSE slot
              /\ Drop(l)
              /\ opOwner' = NoLane
        /\ UNCHANGED <<peerVars, held, timer, queued, cb, workVars>>

ModTimer(l) ==
    /\ pc[l] = "start"
    /\ timer' = [timer EXCEPT ![Head1(l).hook] = Head1(l).tok]
    /\ opOwner' = NoLane
    /\ Drop(l)
    /\ UNCHANGED <<peerVars, held, slot, queued, cb, workVars>>

(* The batch is empty: the thread goes back to waiting for an event. *)
Return(l) ==
    /\ l # TimerLane
    /\ pc[l] = "run"
    /\ batch[l] = <<>>
    /\ Goto(l, "idle")
    /\ UNCHANGED <<peerVars, held, schedVars, queued, cb, workVars>>

Execute(l) ==
    \/ Revalidate(l) \/ Lock(l) \/ LookUp(l) \/ TimerDelete(l) \/ TimerSync(l)
    \/ WriteSlot(l) \/ ModTimer(l) \/ Return(l)

-----------------------------------------------------------------------------
(* The timer-manager thread: pop an expired timer, run its callback.       *)

Expire(h) ==
    /\ cb.stage = "idle"
    /\ timer[h] # NoToken
    /\ cb' = [stage |-> "capture", hook |-> h, tok |-> timer[h]]
    /\ timer' = [timer EXCEPT ![h] = NoToken]
    /\ UNCHANGED <<peerVars, batch, pc, held, opOwner, slot, queued, workVars>>

(* Mutant: the callback takes the operation mutex. *)
CaptureUnderOperationMutex ==
    /\ cb.stage = "capture"
    /\ opOwner = NoLane
    /\ queued' = [queued EXCEPT ![cb.hook] = slot[cb.hook]]
    /\ slot' = [slot EXCEPT ![cb.hook] = NoToken]
    /\ cb' = [cb EXCEPT !.stage = "queue"]
    /\ UNCHANGED <<peerVars, batch, pc, held, opOwner, timer, workVars>>

(* CaptureExpiration, under the schedule mutex only. *)
Capture ==
    /\ cb.stage = "capture"
    /\ IF slot[cb.hook] = NoToken
       THEN cb' = [cb EXCEPT !.stage = "return"] /\ UNCHANGED <<slot, queued>>
       ELSE /\ queued' = [queued EXCEPT ![cb.hook] = slot[cb.hook]]
            /\ slot' = [slot EXCEPT ![cb.hook] = NoToken]
            /\ cb' = [cb EXCEPT !.stage = "queue"]
    /\ UNCHANGED <<peerVars, batch, pc, held, opOwner, timer, workVars>>

(* queue_work on the hook's work item: coalesced while it is queued, a     *)
(* single rerun while it is running.                                       *)
QueueTimerWork ==
    /\ cb.stage = "queue"
    /\ \/ /\ workHook = cb.hook
          /\ rerun' = TRUE
          /\ UNCHANGED workq
       \/ /\ workHook # cb.hook
          /\ workq' = IF \E i \in 1..Len(workq) : workq[i] = cb.hook
                      THEN workq ELSE Append(workq, cb.hook)
          /\ UNCHANGED rerun
    /\ cb' = [cb EXCEPT !.stage = "return"]
    /\ UNCHANGED <<peerVars, batch, pc, held, schedVars, queued, workHook>>

CallbackReturn ==
    /\ cb.stage = "return"
    /\ cb' = NoCallback
    /\ UNCHANGED <<peerVars, batch, pc, held, schedVars, queued, workVars>>

TimerThread == Capture \/ QueueTimerWork \/ CallbackReturn

-----------------------------------------------------------------------------
(* The timer workqueue thread. *)

Dequeue ==
    /\ pc[TimerLane] = "idle"
    /\ workq # <<>>
    /\ workHook' = Head(workq)
    /\ workq' = Tail(workq)
    /\ pc' = [pc EXCEPT ![TimerLane] = "take"]
    /\ UNCHANGED <<peerVars, batch, held, schedVars, queued, cb, rerun>>

TakeDelivery ==
    /\ pc[TimerLane] = "take"
    /\ held' = queued[workHook]
    /\ queued' = [queued EXCEPT ![workHook] = NoToken]
    /\ pc' = [pc EXCEPT ![TimerLane] =
                  IF queued[workHook] = NoToken THEN "run" ELSE "deliver"]
    /\ UNCHANGED <<peerVars, batch, schedVars, cb, workVars>>

(* RunProtocolTimer and the guards of the ProtocolTimerExpired handler: a   *)
(* current expiry first cancels its own token; the policy of the hook may  *)
(* then arm a timer or end the activation in the Error state.              *)
DeliverExpiry ==
    LET own == <<"Cancel", workHook>>
    IN  /\ pc[TimerLane] = "deliver"
        /\ IsCurrent(workHook, held)
        /\ \/ /\ \/ OneRequest(TimerLane, own)
                 \/ \E s \in Requests(TimerLane) : TwoRequests(TimerLane, own, s)
              /\ lastGen' <= MaxGeneration
              /\ UNCHANGED <<failed, seq>>
           \/ /\ failed' = TRUE
              /\ seq' = 0
              /\ coord' = [h \in Hooks |-> NoToken]
              /\ batch' = [batch EXCEPT ![TimerLane] =
                    <<FinalizeEffect(own, coord, lastGen)>>
                    \o CancelEveryHook(FinalizeCoord(own, coord, lastGen))]
              /\ UNCHANGED lastGen
        /\ pc' = [pc EXCEPT ![TimerLane] = "run"]
        /\ held' = NoToken
        /\ UNCHANGED <<act, lastAct, schedVars, queued, cb, workVars>>

IgnoreStaleExpiry ==
    /\ pc[TimerLane] = "deliver"
    /\ ~IsCurrent(workHook, held)
    /\ pc' = [pc EXCEPT ![TimerLane] = "run"]
    /\ held' = NoToken
    /\ UNCHANGED <<peerVars, batch, schedVars, queued, cb, workVars>>

FinishWork ==
    /\ pc[TimerLane] = "run"
    /\ batch[TimerLane] = <<>>
    /\ workq' = IF rerun THEN Append(workq, workHook) ELSE workq
    /\ workHook' = NoHook
    /\ rerun' = FALSE
    /\ Goto(TimerLane, "idle")
    /\ UNCHANGED <<peerVars, held, schedVars, queued, cb>>

TimerWork ==
    \/ Dequeue \/ TakeDelivery \/ DeliverExpiry \/ IgnoreStaleExpiry
    \/ FinishWork

Next ==
    \/ Activate \/ Deactivate
    \/ \E l \in Lanes :
          PeerEvent(l) \/ BeginRetry(l) \/ EnterActivationError(l) \/ Execute(l)
    \/ \E h \in Hooks : Expire(h)
    \/ TimerThread
    \/ TimerWork

Spec == Init /\ [][Next]_vars

(* Threads that can run do run, deadlines come, mutexes are fair.          *)
Fairness ==
    /\ \A l \in Lanes : WF_vars(Execute(l)) /\ SF_vars(Lock(l))
    /\ \A h \in Hooks : WF_vars(Expire(h))
    /\ WF_vars(TimerThread)
    /\ WF_vars(TimerWork)

FairSpec == Spec /\ Fairness

-----------------------------------------------------------------------------
(* Properties. *)

(* The timer-manager thread, between popping a timer and capturing its     *)
(* expiry, finds in the slot the very token the timer was started for:     *)
(* an arm that races with a firing timer is never expired early.           *)
ExpiryCapturesOwnArm == cb.stage = "capture" => slot[cb.hook] = cb.tok

(* A slot of TimerSchedule that says "armed" is backed by a started timer  *)
(* for the same token, by the callback about to capture it, or by the lane *)
(* inside the operation mutex that is changing this slot.                  *)
SlotIsBacked ==
    \A h \in Hooks : slot[h] # NoToken =>
        \/ timer[h] = slot[h]
        \/ cb.stage = "capture" /\ cb.hook = h /\ cb.tok = slot[h]
        \/ /\ opOwner \in Lanes
           /\ pc[opOwner] \in {"sync", "write", "start"}
           /\ Head1(opOwner).hook = h

(* A captured expiry always has a run of its work item ahead of it: the    *)
(* coalescing and the single rerun of queue_work lose no delivery.         *)
QueuedHasWork ==
    \A h \in Hooks : queued[h] # NoToken =>
        \/ cb.stage = "queue" /\ cb.hook = h
        \/ \E i \in 1..Len(workq) : workq[i] = h
        \/ workHook = h /\ (pc[TimerLane] = "take" \/ rerun)

SingleArmer(h) == \E l \in Lanes : ArmLanes[h] \subseteq {l}

InFlight(h, t) ==
    \/ \E l \in Lanes : \E i \in 1..Len(batch[l]) :
          batch[l][i] = [op |-> "Arm", hook |-> h, tok |-> t]
    \/ slot[h] = t
    \/ queued[h] = t
    \/ workHook = h /\ held = t

(* A timer the peer believes to be armed is never lost: its token is in an *)
(* unexecuted Arm, in the schedule, or on its way back.  Only for a hook   *)
(* that a single lane arms (RetransmitHandshake and NewHandshake, by the   *)
(* transmit lane): see NewerScheduleKept for the others.                   *)
ArmedTimerNotLost ==
    \A h \in Hooks :
        SingleArmer(h) /\ IsCurrent(h, coord[h]) => InFlight(h, coord[h])

CancelDisarmsOwn ==
    \A l \in Lanes : pc[l] \in {"delete", "write"} /\ Head1(l).op = "Cancel" =>
        \A h \in Hooks : cb' = cb =>
            /\ timer'[h] = NoToken => timer[h] \in {NoToken, Head1(l).tok}
            /\ slot'[h] = NoToken => slot[h] \in {NoToken, Head1(l).tok}

(* A delayed cancel (CancelProtocolTimer) disarms nothing but the schedule *)
(* of its own token.                                                       *)
CancelKeepsNewer == [][CancelDisarmsOwn]_vars

(* The physical schedule of a hook only ever moves to a newer token.       *)
NewerScheduleKept ==
    [][\A h \in Hooks : slot[h] # NoToken /\ slot'[h] # NoToken =>
          slot'[h].gen >= slot[h].gen]_vars

(* What the peer armed comes back or is withdrawn: a current token of a    *)
(* hook with one arming lane expires, is replaced or is cancelled.         *)
ArmedTimerResolves ==
    \A h \in Hooks, g \in 1..MaxGeneration :
        SingleArmer(h) /\ IsCurrent(h, coord[h]) /\ coord[h].gen = g
            ~> ~(IsCurrent(h, coord[h]) /\ coord[h].gen = g)

=============================================================================
