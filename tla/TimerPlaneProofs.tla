-------------------------- MODULE TimerPlaneProofs --------------------------
(***************************************************************************)
(* What holds of the timer plane for any set of hooks, lanes and arming    *)
(* sites and any bounds: the types, the capture of an expiry, the backing  *)
(* of an armed slot, that a delayed cancel disarms only its own token, and *)
(* that no armed timer is lost.                                            *)
(*                                                                         *)
(* The argument is about the operation mutex.  A lane between Lock and its *)
(* release is its owner; from timer_delete_sync on, the hook it works on   *)
(* has neither a started timer nor a running callback, so nobody else can  *)
(* move that hook's slot.  For the last result a second argument is about  *)
(* generations: a token is handed out once, and with one arming lane the   *)
(* token being armed is the coordinator's or was cancelled.                *)
(***************************************************************************)
EXTENDS TimerPlane, TLAPS

Critical == {"lookup", "delete", "sync", "write", "start"}

(* The lane in a scheduler operation is the owner of the operation mutex.  *)
OwnerInv ==
    /\ \A l \in Lanes : pc[l] \in Critical => opOwner = l
    /\ opOwner # NoLane => pc[opOwner] \in Critical

(* The effect a lane is executing is the head of its batch, has a valid    *)
(* token, and fits the step the lane is at.                                *)
HeadInv ==
    \A l \in Lanes : pc[l] \in Critical \union {"lock"} =>
        /\ batch[l] # <<>>
        /\ Head1(l).tok # NoToken
        /\ pc[l] = "lookup" => Head1(l).op = "Cancel"
        /\ pc[l] = "start" => Head1(l).op = "Arm"

CallbackInv ==
    /\ cb.stage = "idle" => cb = NoCallback
    /\ cb.stage # "idle" => cb.hook \in Hooks

(* A started timer agrees with its slot, and is gone while its callback    *)
(* has the expiry still to capture.                                        *)
TimerInv ==
    /\ \A h \in Hooks : timer[h] # NoToken => slot[h] = timer[h]
    /\ cb.stage = "capture" => timer[cb.hook] = NoToken

(* The timer workqueue thread has a work item exactly while it is running. *)
WorkInv == pc[TimerLane] = "idle" <=> workHook = NoHook

(* What the owner of the operation mutex knows of the hook it works on.    *)
OwnerKnows ==
    \A l \in Lanes :
        /\ pc[l] \in {"sync", "write", "start"} => timer[Head1(l).hook] = NoToken
        /\ pc[l] \in {"write", "start"} => cb.hook # Head1(l).hook
        /\ pc[l] = "start" => slot[Head1(l).hook] = Head1(l).tok
        /\ pc[l] \in {"delete", "sync", "write"} /\ Head1(l).op = "Cancel"
              => slot[Head1(l).hook] \in {Head1(l).tok, NoToken}

Inv ==
    /\ TypeOK /\ OwnerInv /\ HeadInv /\ CallbackInv /\ WorkInv
    /\ TimerInv /\ OwnerKnows
    /\ ExpiryCapturesOwnArm /\ SlotIsBacked /\ QueuedHasWork

-----------------------------------------------------------------------------
(* Types. *)

(* The fields of an effect written out. *)
LEMMA EffectFields ==
  ASSUME NEW e, NEW o, NEW h, NEW t, e = [op |-> o, hook |-> h, tok |-> t]
  PROVE  e.op = o /\ e.hook = h /\ e.tok = t
  OBVIOUS

(* The empty token is a token. *)
LEMMA NoTokenType == NoToken \in Token
  BY DEF NoToken, Token

(* What appending to a queue keeps and adds. *)
LEMMA AppendFacts ==
  ASSUME NEW S, NEW q \in Seq(S), NEW e \in S
  PROVE  /\ Append(q, e) \in Seq(S)
         /\ Len(q) \in Nat
         /\ Len(Append(q, e)) = Len(q) + 1
         /\ Append(q, e)[Len(q) + 1] = e
         /\ \A i \in 1..Len(q) : Append(q, e)[i] = q[i]
         /\ \A i \in 1..Len(q) : i \in 1..Len(Append(q, e))
  OBVIOUS

(* What removing the head of a queue keeps. *)
LEMMA TailFacts ==
  ASSUME NEW S, NEW q \in Seq(S), q # <<>>
  PROVE  /\ Tail(q) \in Seq(S)
         /\ Len(q) \in Nat \ {0}
         /\ Head(q) = q[1]
         /\ \A i \in 2..Len(q) : i - 1 \in 1..Len(Tail(q)) /\ Tail(q)[i - 1] = q[i]
  OBVIOUS

(* The cancels of a teardown are effects when the coordinator holds tokens. *)
LEMMA CancelEveryHookType ==
  ASSUME NEW c \in [Hooks -> Token]
  PROVE  CancelEveryHook(c) \in Seq(Effect)
<1>1. \A i \in 1..Len(HookOrder) : HookOrder[i] \in Hooks
  BY TimerConstants
<1>2. \A i \in 1..Len(HookOrder) :
        [op |-> "Cancel", hook |-> HookOrder[i], tok |-> c[HookOrder[i]]] \in Effect
  BY <1>1 DEF Effect
<1>3. Len(HookOrder) \in Nat
  BY TimerConstants
<1> QED
  BY <1>2, <1>3 DEF CancelEveryHook

(* FinalizeTimerEffects on a request keeps the types of coordinator,       *)
(* generation counter and effect.                                          *)
LEMMA FinalizeType ==
  ASSUME TypeOK, NEW r \in {"Arm", "Cancel"} \X Hooks,
         NEW c \in [Hooks -> Token], NEW g \in Nat
  PROVE  /\ FinalizeCoord(r, c, g) \in [Hooks -> Token]
         /\ FinalizeGen(r, g) \in Nat
         /\ FinalizeEffect(r, c, g) \in Effect
<1>1. r[1] \in {"Arm", "Cancel"} /\ r[2] \in Hooks
  BY Zenon
<1>2. NewToken(r[2], g) \in Token
  BY <1>1 DEF NewToken, Token, OwnerSequence, TypeOK
<1> QED
  BY <1>1, <1>2, NoTokenType
  DEF FinalizeCoord, FinalizeGen, FinalizeEffect, FinalizeToken, Effect

(* A handler that makes one timer request keeps the types. *)
LEMMA OneRequestType ==
  ASSUME TypeOK, NEW l \in Lanes, NEW r \in {"Arm", "Cancel"} \X Hooks,
         OneRequest(l, r)
  PROVE  /\ coord' \in [Hooks -> Token]
         /\ lastGen' \in Nat
         /\ batch' \in [Lanes -> Seq(Effect)]
<1>1. coord \in [Hooks -> Token] /\ lastGen \in Nat
  BY Zenon DEF TypeOK
<1>2. <<FinalizeEffect(r, coord, lastGen)>> \in Seq(Effect)
  BY <1>1, FinalizeType
<1> QED
  BY Zenon, <1>1, <1>2, FinalizeType DEF OneRequest, TypeOK

(* A handler that makes two timer requests keeps the types. *)
LEMMA TwoRequestsType ==
  ASSUME TypeOK, NEW l \in Lanes, NEW r \in {"Arm", "Cancel"} \X Hooks,
         NEW s \in {"Arm", "Cancel"} \X Hooks, TwoRequests(l, r, s)
  PROVE  /\ coord' \in [Hooks -> Token]
         /\ lastGen' \in Nat
         /\ batch' \in [Lanes -> Seq(Effect)]
<1> DEFINE c == FinalizeCoord(r, coord, lastGen)
           g == FinalizeGen(r, lastGen)
<1>1. coord \in [Hooks -> Token] /\ lastGen \in Nat
  BY DEF TypeOK
<1>2. c \in [Hooks -> Token] /\ g \in Nat
      /\ FinalizeEffect(r, coord, lastGen) \in Effect
  BY <1>1, FinalizeType
<1>3. /\ coord' = FinalizeCoord(s, c, g)
      /\ lastGen' = FinalizeGen(s, g)
      /\ batch' = [batch EXCEPT ![l] = <<FinalizeEffect(r, coord, lastGen),
                                        FinalizeEffect(s, c, g)>>]
  BY Zenon DEF TwoRequests
<1> HIDE DEF c, g
<1>4. FinalizeCoord(s, c, g) \in [Hooks -> Token] /\ FinalizeGen(s, g) \in Nat
      /\ FinalizeEffect(s, c, g) \in Effect
  BY Zenon, <1>2, FinalizeType
<1>5. <<FinalizeEffect(r, coord, lastGen), FinalizeEffect(s, c, g)>> \in Seq(Effect)
  BY <1>2, <1>4
<1> QED
  BY Zenon, <1>3, <1>4, <1>5 DEF TypeOK

(* What a handler requests is the arm or the cancel of a hook. *)
LEMMA RequestsType ==
  ASSUME NEW l
  PROVE  Requests(l) \subseteq {"Arm", "Cancel"} \X Hooks
  BY Zenon DEF Requests

(* Every step keeps the types. *)
LEMMA TypeStep ==
  ASSUME TypeOK, HeadInv, CallbackInv, WorkInv, [Next]_vars
  PROVE  TypeOK'
<1>0. /\ workHook # NoHook => workHook \in Hooks
      /\ \A l \in Lanes : pc[l] \in Critical => Head1(l) \in Effect
      /\ \A l \in Lanes : batch[l] # <<>> => Tail(batch[l]) \in Seq(Effect)
  BY DEF TypeOK, HeadInv, Head1, Critical
<1>1. CASE UNCHANGED vars
  BY <1>1 DEF TypeOK, vars, peerVars, schedVars, workVars
<1>2. CASE Activate
  BY <1>2 DEF TypeOK, Activate, schedVars, workVars
<1>3. CASE Deactivate
  BY Zenon, <1>3, NoTokenType, CancelEveryHookType, TimerConstants
  DEF TypeOK, Deactivate, schedVars, workVars
<1>4. ASSUME NEW l \in Lanes, PeerEvent(l) PROVE TypeOK'
  <2>1. /\ coord' \in [Hooks -> Token]
        /\ lastGen' \in Nat
        /\ batch' \in [Lanes -> Seq(Effect)]
    BY <1>4, RequestsType, OneRequestType, TwoRequestsType DEF PeerEvent
  <2> QED
    BY Zenon, <1>4, <2>1 DEF TypeOK, PeerEvent, schedVars, workVars
<1>5. ASSUME NEW l \in Lanes, BeginRetry(l) PROVE TypeOK'
  BY <1>5 DEF TypeOK, BeginRetry, schedVars, workVars
<1>6. ASSUME NEW l \in Lanes, EnterActivationError(l) PROVE TypeOK'
  BY <1>6, NoTokenType, CancelEveryHookType
  DEF TypeOK, EnterActivationError, schedVars, workVars
<1>7. ASSUME NEW l \in Lanes, Execute(l) PROVE TypeOK'
  <2>1. CASE Revalidate(l)
    BY ZenonT(60), <2>1, <1>0 DEF TypeOK, Revalidate, Goto, Drop, peerVars, schedVars, workVars
  <2>2. CASE Lock(l)
    BY <2>2 DEF TypeOK, Lock, Goto, peerVars, workVars
  <2>3. CASE LookUp(l)
    BY ZenonT(60), <2>3, <1>0 DEF TypeOK, HeadInv, Critical, LookUp, Goto, Drop, peerVars, workVars
  <2>4. CASE TimerDelete(l)
    BY Zenon, <2>4, NoTokenType DEF TypeOK, TimerDelete, Goto, peerVars, workVars
  <2>5. CASE TimerSync(l)
    BY <2>5 DEF TypeOK, TimerSync, Goto, peerVars, schedVars, workVars
  <2>6. CASE WriteSlot(l)
    <3>1. Head1(l) \in Effect /\ Tail(batch[l]) \in Seq(Effect)
      BY <2>6, <1>0 DEF WriteSlot, HeadInv, Critical
    <3>2. slot' \in [Hooks -> Token]
      BY ZenonT(60), <2>6, <3>1, NoTokenType DEF TypeOK, WriteSlot, Effect
    <3>3. /\ opOwner' \in Lanes \union {NoLane}
          /\ batch' \in [Lanes -> Seq(Effect)]
          /\ pc' \in [Lanes -> {"idle", "take", "deliver", "run", "lock", "lookup",
                                "delete", "sync", "write", "start"}]
      BY ZenonT(60), <2>6, <3>1 DEF TypeOK, WriteSlot, Goto, Drop
    <3> QED
      BY Zenon, <2>6, <3>2, <3>3 DEF TypeOK, WriteSlot, peerVars, workVars
  <2>7. CASE ModTimer(l)
    BY Zenon, <2>7, <1>0
    DEF TypeOK, HeadInv, Critical, ModTimer, Drop, Effect, peerVars, workVars
  <2>8. CASE Return(l)
    BY <2>8 DEF TypeOK, Return, Goto, peerVars, schedVars, workVars
  <2> QED
    BY <1>7, <2>1, <2>2, <2>3, <2>4, <2>5, <2>6, <2>7, <2>8 DEF Execute
<1>8. ASSUME NEW h \in Hooks, Expire(h) PROVE TypeOK'
  BY Zenon, <1>8, NoTokenType DEF TypeOK, Expire, peerVars, workVars
<1>9. CASE Capture
  BY ZenonT(60), <1>9, NoTokenType DEF TypeOK, CallbackInv, Capture, peerVars, workVars
<1>10. CASE QueueTimerWork
  <2>1. cb.hook \in Hooks
    BY Zenon, <1>10 DEF CallbackInv, QueueTimerWork
  <2>2. workq' \in Seq(Hooks)
    <3>1. Append(workq, cb.hook) \in Seq(Hooks) /\ workq \in Seq(Hooks)
      BY <2>1 DEF TypeOK
    <3>2. workq' = workq \/ workq' = Append(workq, cb.hook)
      BY <1>10, Zenon DEF QueueTimerWork
    <3> QED
      BY <3>1, <3>2
  <2>3. rerun' \in BOOLEAN
    BY <1>10, Zenon DEF TypeOK, QueueTimerWork
  <2>4. cb' \in [stage : {"idle", "capture", "queue", "return"},
                hook : Hooks \union {NoHook}, tok : Token]
    BY Zenon, <1>10 DEF TypeOK, QueueTimerWork
  <2> QED
    BY Zenon, <1>10, <2>2, <2>3, <2>4 DEF TypeOK, QueueTimerWork, peerVars, schedVars
<1>11. CASE CallbackReturn
  BY Zenon, <1>11, NoTokenType DEF TypeOK, CallbackReturn, NoCallback, peerVars, schedVars, workVars
<1>12. CASE Dequeue
  <2>1. Head(workq) \in Hooks /\ Tail(workq) \in Seq(Hooks)
    BY <1>12 DEF TypeOK, Dequeue
  <2> QED
    BY Zenon, <1>12, <2>1 DEF TypeOK, Dequeue, peerVars, schedVars
<1>13. CASE TakeDelivery
  BY Zenon, <1>13, <1>0, NoTokenType DEF TypeOK, WorkInv, TakeDelivery, peerVars, schedVars, workVars
<1>14. CASE DeliverExpiry
  <2> DEFINE own == <<"Cancel", workHook>>
  <2>1. workHook \in Hooks /\ own \in {"Arm", "Cancel"} \X Hooks
    BY Zenon, <1>14, <1>0 DEF DeliverExpiry, WorkInv
  <2>2. /\ coord' \in [Hooks -> Token]
        /\ lastGen' \in Nat
        /\ batch' \in [Lanes -> Seq(Effect)]
        /\ failed' \in BOOLEAN /\ seq' \in Nat
    <3>1. CASE OneRequest(TimerLane, own) /\ UNCHANGED <<failed, seq>>
      BY Zenon, <3>1, <2>1, TimerConstants, OneRequestType DEF TypeOK
    <3>2. ASSUME NEW s \in Requests(TimerLane), TwoRequests(TimerLane, own, s),
                 UNCHANGED <<failed, seq>>
          PROVE  <2>2!:
      BY Zenon, <3>2, <2>1, TimerConstants, RequestsType, TwoRequestsType DEF TypeOK
    <3>3. CASE /\ failed' = TRUE
               /\ seq' = 0
               /\ coord' = [h \in Hooks |-> NoToken]
               /\ batch' = [batch EXCEPT ![TimerLane] =
                     <<FinalizeEffect(own, coord, lastGen)>>
                     \o CancelEveryHook(FinalizeCoord(own, coord, lastGen))]
               /\ UNCHANGED lastGen
      <4>1. /\ FinalizeEffect(own, coord, lastGen) \in Effect
            /\ CancelEveryHook(FinalizeCoord(own, coord, lastGen)) \in Seq(Effect)
        BY Zenon, <2>1, FinalizeType, CancelEveryHookType DEF TypeOK
      <4>2. <<FinalizeEffect(own, coord, lastGen)>>
            \o CancelEveryHook(FinalizeCoord(own, coord, lastGen)) \in Seq(Effect)
        BY <4>1
      <4> HIDE DEF own
      <4> QED
        BY Zenon, <3>3, <4>2, NoTokenType DEF TypeOK
    <3> QED
      BY Zenon, <1>14, <3>1, <3>2, <3>3 DEF DeliverExpiry
  <2> HIDE DEF own
  <2> QED
    BY Zenon, <1>14, <2>2, NoTokenType DEF TypeOK, DeliverExpiry, schedVars, workVars
<1>15. CASE IgnoreStaleExpiry
  BY Zenon, <1>15, NoTokenType DEF TypeOK, IgnoreStaleExpiry, peerVars, schedVars, workVars
<1>16. CASE FinishWork
  <2>1. workHook \in Hooks
    BY Zenon, <1>16, <1>0 DEF FinishWork, WorkInv
  <2>2. workq' \in Seq(Hooks)
    BY <1>16, <2>1 DEF TypeOK, FinishWork
  <2> QED
    BY Zenon, <1>16, <2>2 DEF TypeOK, FinishWork, Goto, peerVars, schedVars
<1> QED
  BY <1>1, <1>2, <1>3, <1>4, <1>5, <1>6, <1>7, <1>8, <1>9, <1>10, <1>11, <1>12,
     <1>13, <1>14, <1>15, <1>16 DEF Next, TimerThread, TimerWork

-----------------------------------------------------------------------------
(* The schedule. *)

Schedule ==
    /\ OwnerInv /\ HeadInv /\ TimerInv /\ OwnerKnows
    /\ ExpiryCapturesOwnArm /\ SlotIsBacked

(* Each lane either stays where it is or moves between places outside the  *)
(* scheduler.                                                              *)
Quiet ==
    \A k \in Lanes :
        \/ pc'[k] = pc[k] /\ batch'[k] = batch[k]
        \/ /\ pc[k] \notin Critical \union {"lock"}
           /\ pc'[k] \notin Critical \union {"lock"}

(* A step that leaves the scheduler and the running callback alone, and    *)
(* moves lanes only outside the scheduler, disturbs nothing.               *)
LEMMA QuietStep ==
  ASSUME TypeOK, Schedule, Quiet, UNCHANGED <<schedVars, cb>>
  PROVE  Schedule'
<1>1. \A k \in Lanes : pc'[k] \in Critical \union {"lock"} =>
         pc'[k] = pc[k] /\ Head1(k)' = Head1(k) /\ batch'[k] = batch[k]
  BY DEF Quiet, Head1
<1>2. \A k \in Lanes : pc[k] \in Critical => pc'[k] = pc[k] /\ Head1(k)' = Head1(k)
  BY Zenon DEF Quiet, Head1
<1>3. opOwner' = opOwner /\ slot' = slot /\ timer' = timer /\ cb' = cb
  BY Zenon DEF schedVars
<1>4. OwnerInv'
  BY <1>1, <1>2, <1>3 DEF TypeOK, Schedule, OwnerInv
<1>5. HeadInv'
  BY <1>1 DEF Schedule, HeadInv
<1>6. TimerInv' /\ ExpiryCapturesOwnArm'
  BY Zenon, <1>3 DEF Schedule, TimerInv, ExpiryCapturesOwnArm
<1>7. OwnerKnows'
  BY <1>1, <1>3 DEF Schedule, OwnerKnows, Critical
<1>8. SlotIsBacked'
  BY <1>2, <1>3 DEF Schedule, SlotIsBacked, Critical
<1> QED
  BY Zenon, <1>4, <1>5, <1>6, <1>7, <1>8 DEF Schedule

(* The steps of the peer handlers, of the workqueue thread, and of a lane  *)
(* that returns or drops an effect are quiet.                              *)
LEMMA QuietActions ==
  ASSUME TypeOK,
         \/ Activate \/ Deactivate \/ Dequeue \/ TakeDelivery \/ DeliverExpiry
         \/ IgnoreStaleExpiry \/ FinishWork
         \/ \E l \in Lanes : PeerEvent(l) \/ BeginRetry(l)
                            \/ EnterActivationError(l) \/ Return(l)
  PROVE  Quiet /\ UNCHANGED <<schedVars, cb>>
<1> USE DEF Quiet, Critical, TypeOK
<1>1. CASE Activate
  BY Zenon, <1>1 DEF Activate
<1>2. CASE Deactivate
  BY Zenon, <1>2, TimerConstants DEF Deactivate
<1>3. CASE Dequeue
  BY Zenon, <1>3, TimerConstants DEF Dequeue
<1>4. CASE TakeDelivery
  BY Zenon, <1>4, TimerConstants DEF TakeDelivery
<1>5. CASE DeliverExpiry
  <2>1. \A k \in Lanes : k # TimerLane => batch'[k] = batch[k] /\ pc'[k] = pc[k]
    BY <1>5, TimerConstants DEF DeliverExpiry, OneRequest, TwoRequests
  <2>2. pc[TimerLane] = "deliver" /\ pc'[TimerLane] = "run"
    BY Zenon, <1>5, TimerConstants DEF DeliverExpiry
  <2> QED
    BY Zenon, <1>5, <2>1, <2>2 DEF DeliverExpiry
<1>6. CASE IgnoreStaleExpiry
  BY Zenon, <1>6, TimerConstants DEF IgnoreStaleExpiry
<1>7. CASE FinishWork
  BY Zenon, <1>7, TimerConstants DEF FinishWork, Goto
<1>8. ASSUME NEW l \in Lanes, PeerEvent(l) PROVE Quiet /\ UNCHANGED <<schedVars, cb>>
  <2>1. \A k \in Lanes : k # l => batch'[k] = batch[k] /\ pc'[k] = pc[k]
    BY Zenon, <1>8 DEF PeerEvent, OneRequest, TwoRequests
  <2>2. pc[l] = "idle" /\ pc'[l] = "run"
    BY Zenon, <1>8 DEF PeerEvent
  <2> QED
    BY Zenon, <1>8, <2>1, <2>2 DEF PeerEvent
<1>9. ASSUME NEW l \in Lanes, BeginRetry(l) PROVE Quiet /\ UNCHANGED <<schedVars, cb>>
  BY <1>9 DEF BeginRetry
<1>10. ASSUME NEW l \in Lanes, EnterActivationError(l)
       PROVE  Quiet /\ UNCHANGED <<schedVars, cb>>
  BY <1>10 DEF EnterActivationError
<1>11. ASSUME NEW l \in Lanes, Return(l) PROVE Quiet /\ UNCHANGED <<schedVars, cb>>
  BY <1>11 DEF Return, Goto
<1> QED
  BY Zenon, <1>1, <1>2, <1>3, <1>4, <1>5, <1>6, <1>7, <1>8, <1>9, <1>10, <1>11

(* A lane that executes effects moves only itself, and touches neither the *)
(* callback nor the workqueue.                                             *)
LEMMA ExecuteFrame ==
  ASSUME TypeOK, NEW l \in Lanes, Execute(l)
  PROVE  /\ UNCHANGED <<queued, cb, workq, workHook, rerun>>
         /\ \A k \in Lanes : k # l => pc'[k] = pc[k] /\ batch'[k] = batch[k]
         /\ pc[l] \notin {"idle", "take", "deliver"}
         /\ l = TimerLane => pc'[l] # "idle"
<1>1. CASE Revalidate(l)
  BY <1>1 DEF Revalidate, Goto, Drop, TypeOK, workVars
<1>2. CASE Lock(l)
  BY Zenon, <1>2 DEF Lock, Goto, TypeOK, workVars
<1>3. CASE LookUp(l)
  BY <1>3 DEF LookUp, Goto, Drop, TypeOK, workVars
<1>4. CASE TimerDelete(l)
  BY Zenon, <1>4 DEF TimerDelete, Goto, TypeOK, workVars
<1>5. CASE TimerSync(l)
  BY <1>5 DEF TimerSync, Goto, TypeOK, workVars
<1>6. CASE WriteSlot(l)
  BY <1>6 DEF WriteSlot, Goto, Drop, TypeOK, workVars
<1>7. CASE ModTimer(l)
  BY Zenon, <1>7 DEF ModTimer, Drop, TypeOK, workVars
<1>8. CASE Return(l)
  BY <1>8 DEF Return, Goto, TypeOK, workVars
<1> QED
  BY <1>1, <1>2, <1>3, <1>4, <1>5, <1>6, <1>7, <1>8 DEF Execute

(* The steps of a lane through ArmProtocolTimer and CancelProtocolTimer.   *)
LEMMA ScheduleExecute ==
  ASSUME TypeOK, Schedule, NEW l \in Lanes, Execute(l)
  PROVE  Schedule'
<1> USE DEF Critical
<1>0. /\ \A k \in Lanes : k # l => pc'[k] = pc[k] /\ Head1(k)' = Head1(k)
                                /\ batch'[k] = batch[k]
      /\ cb' = cb
  BY ExecuteFrame DEF Head1
<1>a. opOwner = l => \A k \in Lanes : k # l => pc[k] \notin Critical
  BY DEF Schedule, OwnerInv
<1>b. NoLane \notin Lanes
  BY TimerConstants
<1>c. batch[l] # <<>> => Head1(l) \in Effect
  BY DEF TypeOK, Head1
<1>1. CASE Revalidate(l)
  <2>1. CASE pc'[l] = "run"
    <3>1. Quiet /\ UNCHANGED <<schedVars, cb>>
      BY Zenon, <1>1, <2>1, <1>0 DEF Quiet, Revalidate
    <3> QED
      BY Zenon, <3>1, QuietStep
  <2>2. CASE pc'[l] = "lock"
    <3>0. Goto(l, "lock") /\ Head1(l).tok # NoToken
      BY <1>1, <2>2 DEF Revalidate, Drop, IsCurrent, TypeOK
    <3>1. /\ batch' = batch /\ Head1(l)' = Head1(l)
          /\ batch[l] # <<>> /\ pc[l] = "run"
          /\ opOwner' = opOwner /\ slot' = slot /\ timer' = timer
      BY <1>1, <3>0 DEF Revalidate, Goto, Head1, schedVars
    <3>a. opOwner # l /\ opOwner \in Lanes \union {NoLane}
      BY <1>b, <3>1 DEF Schedule, OwnerInv, TypeOK
    <3>2. OwnerInv' /\ HeadInv'
      <4>1. OwnerInv'
        BY Zenon, <1>0, <2>2, <3>1, <3>a DEF Schedule, OwnerInv
      <4>2. HeadInv'
        BY <1>0, <2>2, <3>0, <3>1 DEF Schedule, HeadInv
      <4> QED
        BY <4>1, <4>2
    <3>3. TimerInv' /\ ExpiryCapturesOwnArm'
      BY Zenon, <1>0, <3>1 DEF Schedule, TimerInv, ExpiryCapturesOwnArm
    <3>4. OwnerKnows' /\ SlotIsBacked'
      <4>1. OwnerKnows'
        BY <1>0, <2>2, <3>1 DEF Schedule, OwnerKnows
      <4>2. SlotIsBacked'
        BY <1>0, <3>1, <3>a, <1>b DEF Schedule, SlotIsBacked
      <4> QED
        BY <4>1, <4>2
    <3> QED
      BY <3>2, <3>3, <3>4 DEF Schedule
  <2> QED
    BY Zenon, <1>1, <2>1, <2>2 DEF Revalidate, Goto, Drop, TypeOK
<1>2. CASE Lock(l)
  <2>1. /\ pc[l] = "lock" /\ opOwner = NoLane /\ opOwner' = l
        /\ batch' = batch /\ Head1(l)' = Head1(l)
        /\ pc'[l] = IF Head1(l).op = "Arm" THEN "delete" ELSE "lookup"
        /\ slot' = slot /\ timer' = timer
    BY <1>2 DEF Lock, Goto, Head1, TypeOK
  <2>2. Head1(l) \in Effect
    BY Zenon, <2>1, <1>c DEF Schedule, HeadInv
  <2>3. OwnerInv' /\ HeadInv'
    BY <1>0, <1>b, <2>1, <2>2 DEF Schedule, OwnerInv, HeadInv, TypeOK, Effect
  <2>4. TimerInv' /\ ExpiryCapturesOwnArm'
    BY <1>0, <2>1 DEF Schedule, TimerInv, ExpiryCapturesOwnArm
  <2>5. \A k \in Lanes : pc[k] \notin Critical
    BY Zenon, <1>b, <2>1 DEF Schedule, OwnerInv
  <2>6. pc'[l] = "lookup" \/ (pc'[l] = "delete" /\ Head1(l).op # "Cancel")
    BY Zenon, <2>1, <2>2 DEF Effect
  <2>7. OwnerKnows'
    BY <1>0, <2>1, <2>5, <2>6 DEF Schedule, OwnerKnows
  <2>8. SlotIsBacked'
    BY Zenon, <1>0, <1>b, <2>1 DEF Schedule, SlotIsBacked
  <2> QED
    BY Zenon, <2>3, <2>4, <2>7, <2>8 DEF Schedule
<1>3. CASE LookUp(l)
  <2>1. /\ pc[l] = "lookup" /\ opOwner = l /\ slot' = slot /\ timer' = timer
        /\ Head1(l).op = "Cancel" /\ batch[l] # <<>>
    BY Zenon, <1>3 DEF LookUp, Schedule, OwnerInv, HeadInv
  <2>2. \/ /\ pc'[l] = "delete" /\ opOwner' = l /\ Head1(l)' = Head1(l)
           /\ batch'[l] = batch[l] /\ slot[Head1(l).hook] = Head1(l).tok
        \/ pc'[l] = "run" /\ opOwner' = NoLane
    BY Zenon, <1>3, <2>1 DEF LookUp, Goto, Drop, Head1, TypeOK
  <2>3. OwnerInv' /\ HeadInv'
    BY <1>0, <1>a, <1>b, <2>1, <2>2 DEF Schedule, OwnerInv, HeadInv
  <2>4. TimerInv' /\ ExpiryCapturesOwnArm'
    BY Zenon, <1>0, <2>1 DEF Schedule, TimerInv, ExpiryCapturesOwnArm
  <2>5. OwnerKnows' /\ SlotIsBacked'
    BY <1>0, <1>b, <2>1, <2>2 DEF Schedule, OwnerKnows, SlotIsBacked
  <2> QED
    BY <2>3, <2>4, <2>5 DEF Schedule
<1>4. CASE TimerDelete(l)
  <2>1. /\ pc[l] = "delete" /\ opOwner = l /\ slot' = slot /\ opOwner' = l
        /\ pc'[l] = "sync" /\ batch' = batch /\ Head1(l)' = Head1(l)
        /\ batch[l] # <<>> /\ Head1(l).tok # NoToken
        /\ timer' = [timer EXCEPT ![Head1(l).hook] = NoToken]
    BY <1>4 DEF TimerDelete, Goto, Head1, Schedule, OwnerInv, HeadInv, TypeOK
  <2>2. Head1(l).hook \in Hooks
    BY Zenon, <2>1, <1>c DEF Effect
  <2>3. OwnerInv' /\ HeadInv'
    BY <1>0, <2>1 DEF Schedule, OwnerInv, HeadInv
  <2>4. TimerInv' /\ ExpiryCapturesOwnArm'
    BY <1>0, <2>1, <2>2 DEF Schedule, TimerInv, ExpiryCapturesOwnArm, TypeOK
  <2>5. OwnerKnows' /\ SlotIsBacked'
    BY <1>0, <1>a, <2>1, <2>2 DEF Schedule, OwnerKnows, SlotIsBacked, TypeOK
  <2> QED
    BY <2>3, <2>4, <2>5 DEF Schedule
<1>5. CASE TimerSync(l)
  <2>1. /\ pc[l] = "sync" /\ opOwner = l /\ slot' = slot /\ opOwner' = l
        /\ pc'[l] = "write" /\ batch' = batch /\ Head1(l)' = Head1(l)
        /\ batch[l] # <<>> /\ Head1(l).tok # NoToken
        /\ timer' = timer /\ cb.hook # Head1(l).hook
    BY <1>5 DEF TimerSync, Goto, Head1, Schedule, OwnerInv, HeadInv, TypeOK, schedVars
  <2>3. OwnerInv' /\ HeadInv'
    BY <1>0, <2>1 DEF Schedule, OwnerInv, HeadInv
  <2>4. TimerInv' /\ ExpiryCapturesOwnArm'
    BY Zenon, <1>0, <2>1 DEF Schedule, TimerInv, ExpiryCapturesOwnArm
  <2>5. OwnerKnows'
    BY <1>0, <1>a, <2>1 DEF Schedule, OwnerKnows
  <2>6. SlotIsBacked'
    BY <1>0, <2>1 DEF Schedule, SlotIsBacked
  <2> QED
    BY <2>3, <2>4, <2>5, <2>6 DEF Schedule
<1>6. CASE WriteSlot(l)
  <2>1. /\ pc[l] = "write" /\ opOwner = l /\ timer' = timer
        /\ batch[l] # <<>> /\ Head1(l).tok # NoToken
        /\ timer[Head1(l).hook] = NoToken /\ cb.hook # Head1(l).hook
    BY Zenon, <1>6 DEF WriteSlot, Schedule, OwnerInv, HeadInv, OwnerKnows
  <2>2. Head1(l).hook \in Hooks /\ Head1(l).tok \in Token
    BY <2>1, <1>c DEF Effect
  <2>3. CASE Head1(l).op = "Arm"
    <3>1. /\ slot' = [slot EXCEPT ![Head1(l).hook] = Head1(l).tok]
          /\ pc'[l] = "start" /\ batch' = batch /\ Head1(l)' = Head1(l) /\ opOwner' = l
      BY Zenon, <1>6, <2>1, <2>3 DEF WriteSlot, Goto, Head1, TypeOK
    <3>2. OwnerInv' /\ HeadInv'
      BY <1>0, <2>1, <2>3, <3>1 DEF Schedule, OwnerInv, HeadInv
    <3>3. TimerInv' /\ ExpiryCapturesOwnArm'
      BY <1>0, <2>1, <2>2, <3>1 DEF Schedule, TimerInv, ExpiryCapturesOwnArm, TypeOK
    <3>4. /\ slot'[Head1(l).hook] = Head1(l).tok
          /\ \A h \in Hooks : h # Head1(l).hook => slot'[h] = slot[h]
      BY Zenon, <2>2, <3>1 DEF TypeOK
    <3>5. OwnerKnows'
      BY <1>0, <1>a, <2>1, <2>2, <2>3, <3>1, <3>4 DEF Schedule, OwnerKnows
    <3>6. SlotIsBacked'
      BY <1>0, <2>1, <2>2, <3>1, <3>4 DEF Schedule, SlotIsBacked
    <3> QED
      BY <3>2, <3>3, <3>5, <3>6 DEF Schedule
  <2>4. CASE Head1(l).op = "Cancel"
    <3>1. /\ slot' = [slot EXCEPT ![Head1(l).hook] = NoToken]
          /\ pc'[l] = "run" /\ opOwner' = NoLane
      <4>1. slot[Head1(l).hook] \in {Head1(l).tok, NoToken}
        BY Zenon, <2>1, <2>4 DEF Schedule, OwnerKnows
      <4> QED
        BY <1>6, <2>2, <2>4, <4>1 DEF WriteSlot, Drop, TypeOK
    <3>2. OwnerInv' /\ HeadInv'
      BY <1>0, <1>a, <2>1, <3>1 DEF Schedule, OwnerInv, HeadInv
    <3>3. TimerInv' /\ ExpiryCapturesOwnArm'
      BY <1>0, <2>1, <2>2, <3>1 DEF Schedule, TimerInv, ExpiryCapturesOwnArm, TypeOK
    <3>4. /\ slot'[Head1(l).hook] = NoToken
          /\ \A h \in Hooks : h # Head1(l).hook => slot'[h] = slot[h]
      BY <2>2, <3>1 DEF TypeOK
    <3>5. OwnerKnows'
      BY <1>0, <1>a, <2>1, <3>1 DEF Schedule, OwnerKnows
    <3>6. SlotIsBacked'
      BY <1>0, <2>1, <2>2, <3>1, <3>4 DEF Schedule, SlotIsBacked
    <3> QED
      BY Zenon, <3>2, <3>3, <3>5, <3>6 DEF Schedule
  <2> QED
    BY Zenon, <1>6, <2>3, <2>4 DEF WriteSlot
<1>7. CASE ModTimer(l)
  <2>1. /\ pc[l] = "start" /\ opOwner = l /\ slot' = slot
        /\ pc'[l] = "run" /\ opOwner' = NoLane
        /\ batch[l] # <<>> /\ Head1(l).tok # NoToken
        /\ slot[Head1(l).hook] = Head1(l).tok /\ cb.hook # Head1(l).hook
        /\ timer' = [timer EXCEPT ![Head1(l).hook] = Head1(l).tok]
    BY <1>7 DEF ModTimer, Drop, Schedule, OwnerInv, HeadInv, OwnerKnows, TypeOK
  <2>2. Head1(l).hook \in Hooks
    BY Zenon, <2>1, <1>c DEF Effect
  <2>3. OwnerInv' /\ HeadInv'
    BY <1>0, <1>a, <2>1 DEF Schedule, OwnerInv, HeadInv
  <2>4. /\ timer'[Head1(l).hook] = Head1(l).tok
        /\ \A h \in Hooks \union {NoHook} : h # Head1(l).hook => timer'[h] = timer[h]
    BY <2>1, <2>2 DEF TypeOK
  <2>5. TimerInv'
    BY <1>0, <2>1, <2>2, <2>4 DEF Schedule, TimerInv, TypeOK
  <2>6. ExpiryCapturesOwnArm'
    BY <1>0, <2>1 DEF Schedule, ExpiryCapturesOwnArm
  <2>7. OwnerKnows'
    BY <1>0, <1>a, <2>1 DEF Schedule, OwnerKnows
  <2>8. SlotIsBacked'
    BY <1>0, <2>1, <2>2, <2>4 DEF Schedule, SlotIsBacked
  <2> QED
    BY <2>3, <2>5, <2>6, <2>7, <2>8 DEF Schedule
<1>8. CASE Return(l)
  BY <1>8, QuietActions, QuietStep
<1> QED
  BY Zenon, <1>1, <1>2, <1>3, <1>4, <1>5, <1>6, <1>7, <1>8 DEF Execute

(* The steps of the timer-manager thread. *)
LEMMA ScheduleTimerThread ==
  ASSUME TypeOK, CallbackInv, Schedule, TimerThread \/ \E h \in Hooks : Expire(h)
  PROVE  Schedule'
<1> USE DEF Critical
<1>0. pc' = pc /\ batch' = batch /\ opOwner' = opOwner
  BY Zenon DEF TimerThread, Capture, QueueTimerWork, CallbackReturn, Expire, schedVars
<1>1. OwnerInv' /\ HeadInv' /\ \A l \in Lanes : Head1(l)' = Head1(l)
  BY <1>0 DEF Schedule, OwnerInv, HeadInv, Head1
<1>2. ASSUME NEW h \in Hooks, Expire(h) PROVE Schedule'
  <2>1. /\ cb' = [stage |-> "capture", hook |-> h, tok |-> timer[h]]
        /\ timer' = [timer EXCEPT ![h] = NoToken] /\ slot' = slot
        /\ timer[h] # NoToken /\ cb.stage = "idle" /\ slot[h] = timer[h]
    BY Zenon, <1>2 DEF Expire, Schedule, TimerInv
  <2>2. TimerInv' /\ ExpiryCapturesOwnArm'
    BY <2>1 DEF Schedule, TimerInv, ExpiryCapturesOwnArm, TypeOK
  <2>3. OwnerKnows'
    BY <1>0, <1>1, <2>1 DEF Schedule, OwnerKnows, TypeOK
  <2>4. SlotIsBacked'
    BY <1>0, <1>1, <2>1 DEF Schedule, SlotIsBacked, TypeOK
  <2> QED
    BY Zenon, <1>1, <2>2, <2>3, <2>4 DEF Schedule
<1>3. CASE Capture
  <2>1. /\ cb.stage = "capture" /\ cb.hook \in Hooks /\ cb'.hook = cb.hook
        /\ cb'.stage \in {"queue", "return"} /\ timer' = timer
        /\ slot' = [slot EXCEPT ![cb.hook] = NoToken]
    BY <1>3 DEF Capture, CallbackInv, TypeOK
  <2>a. /\ slot'[cb.hook] = NoToken
        /\ \A h \in Hooks : h # cb.hook => slot'[h] = slot[h]
    BY Zenon, <2>1 DEF TypeOK
  <2>2. TimerInv' /\ ExpiryCapturesOwnArm'
    BY <2>1, <2>a DEF Schedule, TimerInv, ExpiryCapturesOwnArm
  <2>3. OwnerKnows'
    BY <1>0, <1>1, <2>1 DEF Schedule, OwnerKnows, TypeOK
  <2>4. SlotIsBacked'
    BY <1>0, <1>1, <2>1, <2>a DEF Schedule, SlotIsBacked
  <2> QED
    BY <1>1, <2>2, <2>3, <2>4 DEF Schedule
<1>4. CASE QueueTimerWork \/ CallbackReturn
  <2>1. /\ cb.stage # "capture" /\ cb'.stage # "capture" /\ slot' = slot /\ timer' = timer
        /\ cb'.hook \in {cb.hook, NoHook}
    BY <1>4 DEF QueueTimerWork, CallbackReturn, NoCallback, TypeOK, schedVars
  <2>2. ASSUME NEW l \in Lanes, pc[l] \in Critical PROVE Head1(l).hook \in Hooks
    <3>1. batch[l] # <<>>
      BY <2>2 DEF Schedule, HeadInv
    <3>2. Head1(l) \in Effect
      BY <3>1 DEF TypeOK, Head1
    <3> QED
      BY <3>2 DEF Effect
  <2>3. TimerInv' /\ ExpiryCapturesOwnArm' /\ SlotIsBacked'
    BY <1>0, <1>1, <2>1 DEF Schedule, TimerInv, ExpiryCapturesOwnArm, SlotIsBacked, TypeOK
  <2>4. \A l \in Lanes : pc[l] \in {"write", "start"} => cb'.hook # Head1(l).hook
    BY <2>1, <2>2, TimerConstants DEF Schedule, OwnerKnows
  <2>5. OwnerKnows'
    BY Zenon, <1>0, <1>1, <2>1, <2>4 DEF Schedule, OwnerKnows
  <2> QED
    BY <1>1, <2>3, <2>5 DEF Schedule
<1> QED
  BY Zenon, <1>2, <1>3, <1>4 DEF TimerThread

(* The timer-manager thread and the workqueue thread know their hook.      *)
LEMMA ThreadStep ==
  ASSUME TypeOK, CallbackInv, WorkInv, [Next]_vars
  PROVE  CallbackInv' /\ WorkInv'
<1>1. CallbackInv'
  <2>1. CASE cb' = cb
    BY <2>1 DEF CallbackInv
  <2>2. CASE TimerThread \/ \E h \in Hooks : Expire(h)
    <3>1. CASE Capture \/ QueueTimerWork
      BY Zenon, <3>1 DEF TypeOK, CallbackInv, Capture, QueueTimerWork
    <3>2. CASE CallbackReturn
      BY <3>2 DEF CallbackInv, CallbackReturn, NoCallback
    <3>3. CASE \E h \in Hooks : Expire(h)
      BY <3>3 DEF CallbackInv, Expire
    <3> QED
      BY <2>2, <3>1, <3>2, <3>3 DEF TimerThread
  <2>3. UNCHANGED vars \/ Activate \/ Deactivate => cb' = cb
    BY Zenon DEF vars, Activate, Deactivate
  <2>4. \A l \in Lanes :
           PeerEvent(l) \/ BeginRetry(l) \/ EnterActivationError(l) => cb' = cb
    BY Zenon DEF PeerEvent, BeginRetry, EnterActivationError
  <2>5. \A l \in Lanes : Execute(l) => cb' = cb
    BY ExecuteFrame
  <2>6. TimerWork => cb' = cb
    BY Zenon DEF TimerWork, Dequeue, TakeDelivery, DeliverExpiry, IgnoreStaleExpiry, FinishWork
  <2> QED
    BY <2>1, <2>2, <2>3, <2>4, <2>5, <2>6 DEF Next
<1>a. ASSUME NEW l \in Lanes, Execute(l)
      PROVE  /\ workHook' = workHook
             /\ \A k \in Lanes : k # l => pc'[k] = pc[k]
             /\ pc[l] # "idle"
             /\ l = TimerLane => pc'[l] # "idle"
  BY <1>a, ExecuteFrame
<1>2. WorkInv'
  <2>4. ASSUME NEW l \in Lanes, Execute(l) PROVE WorkInv'
    BY Zenon, <1>a, <2>4, TimerConstants DEF WorkInv
  <2> USE TimerConstants DEF TypeOK, WorkInv
  <2>1. CASE UNCHANGED vars
    BY <2>1 DEF vars, workVars
  <2>2. CASE Activate \/ Deactivate
    BY <2>2 DEF Activate, Deactivate, workVars
  <2>3. ASSUME NEW l \in Lanes, PeerEvent(l) \/ BeginRetry(l) \/ EnterActivationError(l)
        PROVE  WorkInv'
    BY ZenonT(60), <2>3 DEF PeerEvent, BeginRetry, EnterActivationError, workVars
  <2>5. CASE TimerThread \/ \E h \in Hooks : Expire(h)
    BY Zenon, <2>5 DEF TimerThread, Capture, QueueTimerWork, CallbackReturn, Expire, workVars
  <2>6. CASE TimerWork
    <3>1. CASE Dequeue
      <4>1. Head(workq) \in Hooks
        BY <3>1 DEF Dequeue
      <4> QED
        BY Zenon, <3>1, <4>1 DEF Dequeue
    <3>2. CASE TakeDelivery
      BY <3>2 DEF TakeDelivery, workVars
    <3>3. CASE DeliverExpiry \/ IgnoreStaleExpiry
      BY <3>3 DEF DeliverExpiry, IgnoreStaleExpiry, workVars
    <3>4. CASE FinishWork
      BY <3>4 DEF FinishWork, Goto
    <3> QED
      BY <2>6, <3>1, <3>2, <3>3, <3>4 DEF TimerWork
  <2> QED
    BY <2>1, <2>2, <2>3, <2>4, <2>5, <2>6 DEF Next
<1> QED
  BY <1>1, <1>2

(* A captured expiry keeps a run of its work item ahead of it.             *)
LEMMA QueuedStep ==
  ASSUME TypeOK, CallbackInv, WorkInv, QueuedHasWork, [Next]_vars
  PROVE  QueuedHasWork'
<1> USE TimerConstants
<1>1. CASE UNCHANGED <<queued, cb, workq, workHook, rerun>> /\
           (pc[TimerLane] = "take" => pc'[TimerLane] = "take")
  BY Zenon, <1>1 DEF QueuedHasWork
<1>2. CASE Activate \/ Deactivate \/ UNCHANGED vars
  BY <1>2, <1>1 DEF Activate, Deactivate, TypeOK, workVars, vars
<1>3. ASSUME NEW l \in Lanes, PeerEvent(l) \/ BeginRetry(l) \/ EnterActivationError(l)
      PROVE  QueuedHasWork'
  BY Zenon, <1>3, <1>1 DEF PeerEvent, BeginRetry, EnterActivationError, TypeOK, workVars
<1>4. ASSUME NEW l \in Lanes, Execute(l) PROVE QueuedHasWork'
  <2>1. /\ UNCHANGED <<queued, cb, workq, workHook, rerun>>
        /\ pc[l] # "take"
        /\ \A k \in Lanes : k # l => pc'[k] = pc[k]
    BY <1>4, ExecuteFrame
  <2> QED
    BY Zenon, <2>1, <1>1
<1>5. ASSUME NEW h \in Hooks, Expire(h) PROVE QueuedHasWork'
  BY Zenon, <1>5 DEF Expire, QueuedHasWork, workVars
<1>6. CASE Capture
  <2>1. /\ cb.stage = "capture" /\ cb.hook \in Hooks /\ cb'.hook = cb.hook
        /\ UNCHANGED <<workq, workHook, rerun, pc>>
        /\ \/ queued' = queued
           \/ cb'.stage = "queue" /\ \A h \in Hooks : h # cb.hook => queued'[h] = queued[h]
    BY ZenonT(60), <1>6 DEF Capture, CallbackInv, TypeOK, workVars
  <2> QED
    BY Zenon, <2>1 DEF QueuedHasWork
<1>7. CASE QueueTimerWork
  <2>1. cb.hook \in Hooks /\ queued' = queued /\ workHook' = workHook /\ pc' = pc
    BY <1>7 DEF QueueTimerWork, CallbackInv
  <2>2. \A i \in 1..Len(workq) : i \in 1..Len(workq') /\ workq'[i] = workq[i]
    <3>1. workq' = workq \/ workq' = Append(workq, cb.hook)
      BY <1>7, Zenon DEF QueueTimerWork
    <3>2. CASE workq' = workq
      BY <3>2
    <3>3. CASE workq' = Append(workq, cb.hook)
      <4>1. workq \in Seq(Hooks)
        BY Zenon DEF TypeOK
      <4> QED
        BY <2>1, <3>3, <4>1, AppendFacts
    <3> QED
      BY Zenon, <3>1, <3>2, <3>3
  <2>3. (\E i \in 1..Len(workq') : workq'[i] = cb.hook) \/ (workHook = cb.hook /\ rerun')
    <3>1. CASE workHook = cb.hook
      BY <1>7, <3>1 DEF QueueTimerWork
    <3>2. CASE workHook # cb.hook /\ \E i \in 1..Len(workq) : workq[i] = cb.hook
      BY Zenon, <2>2, <3>2
    <3>3. CASE workHook # cb.hook /\ ~\E i \in 1..Len(workq) : workq[i] = cb.hook
      <4>1. workq' = Append(workq, cb.hook)
        BY Zenon, <1>7, <3>3 DEF QueueTimerWork
      <4>2. Len(workq') = Len(workq) + 1 /\ workq'[Len(workq) + 1] = cb.hook
            /\ Len(workq) \in Nat
        <5>1. workq \in Seq(Hooks)
          BY Zenon DEF TypeOK
        <5> QED
          BY <4>1, <2>1, <5>1, AppendFacts
      <4> QED
        BY <4>2
    <3> QED
      BY Zenon, <3>1, <3>2, <3>3
  <2>4. rerun => rerun'
    BY <1>7, Zenon DEF QueueTimerWork
  <2> SUFFICES ASSUME NEW h \in Hooks, queued[h] # NoToken
               PROVE  \/ \E i \in 1..Len(workq') : workq'[i] = h
                      \/ workHook = h /\ (pc[TimerLane] = "take" \/ rerun')
    BY Zenon, <2>1 DEF QueuedHasWork
  <2>5. CASE cb.hook = h
    BY <2>3, <2>5
  <2>6. CASE \E i \in 1..Len(workq) : workq[i] = h
    BY Zenon, <2>2, <2>6
  <2>7. CASE workHook = h /\ (pc[TimerLane] = "take" \/ rerun)
    BY <2>4, <2>7
  <2> QED
    BY Zenon, <2>5, <2>6, <2>7 DEF QueuedHasWork
<1>8. CASE CallbackReturn
  BY Zenon, <1>8 DEF CallbackReturn, QueuedHasWork, workVars
<1>9. CASE Dequeue
  <2>0. workq \in Seq(Hooks) /\ workq # <<>>
    BY <1>9 DEF Dequeue, TypeOK
  <2>1. /\ queued' = queued /\ cb' = cb /\ workHook = NoHook
        /\ workHook' = workq[1] /\ workq' = Tail(workq) /\ pc'[TimerLane] = "take"
        /\ Len(workq) \in Nat
    <3>1. pc'[TimerLane] = "take" /\ workHook = NoHook
      BY <1>9 DEF Dequeue, WorkInv, TypeOK
    <3> QED
      BY Zenon, <1>9, <2>0, <3>1, TailFacts DEF Dequeue
  <2>2. ASSUME NEW h \in Hooks, NEW i \in 1..Len(workq), workq[i] = h
        PROVE  workHook' = h \/ \E j \in 1..Len(workq') : workq'[j] = h
    <3>1. CASE i = 1
      BY <2>1, <2>2, <3>1
    <3>2. CASE i # 1
      <4>1. i - 1 \in 1..Len(workq') /\ workq'[i - 1] = h
        <5>1. i \in 2..Len(workq)
          BY <2>1, <2>2, <3>2
        <5> QED
          BY <2>0, <2>1, <2>2, <5>1, TailFacts
      <4> QED
        BY Zenon, <4>1
    <3> QED
      BY <3>1, <3>2
  <2> QED
    BY ZenonT(60), <2>1, <2>2 DEF QueuedHasWork
<1>10. CASE TakeDelivery
  BY Zenon, <1>10 DEF TakeDelivery, QueuedHasWork, TypeOK, workVars
<1>11. CASE DeliverExpiry \/ IgnoreStaleExpiry
  BY <1>11, <1>1 DEF DeliverExpiry, IgnoreStaleExpiry, TypeOK, workVars
<1>12. CASE FinishWork
  <2>1. /\ queued' = queued /\ cb' = cb /\ pc[TimerLane] = "run"
        /\ workq' = IF rerun THEN Append(workq, workHook) ELSE workq
        /\ workHook \in Hooks /\ Len(workq) \in Nat
    BY <1>12 DEF FinishWork, WorkInv, TypeOK
  <2>a. workq \in Seq(Hooks)
    BY Zenon DEF TypeOK
  <2>2. \A i \in 1..Len(workq) : i \in 1..Len(workq') /\ workq'[i] = workq[i]
    <3>1. CASE rerun
      <4>1. workq' = Append(workq, workHook)
        BY Zenon, <2>1, <3>1
      <4>2. \A i \in 1..Len(workq) : Append(workq, workHook)[i] = workq[i]
                                     /\ i \in 1..Len(Append(workq, workHook))
        BY <2>1, <2>a
      <4> QED
        BY Zenon, <4>1, <4>2
    <3>2. CASE ~rerun
      BY Zenon, <2>1, <3>2
    <3> QED
      BY Zenon, <3>1, <3>2
  <2>3. rerun => \E i \in 1..Len(workq') : workq'[i] = workHook
    <3>1. rerun => /\ Len(workq') = Len(workq) + 1
                   /\ workq'[Len(workq) + 1] = workHook
      BY <2>1, <2>a, AppendFacts
    <3>2. Len(workq) + 1 \in 1..(Len(workq) + 1)
      BY <2>1
    <3> QED
      BY Zenon, <3>1, <3>2
  <2> SUFFICES ASSUME NEW h \in Hooks, queued[h] # NoToken,
                      ~(cb.stage = "queue" /\ cb.hook = h)
               PROVE  \E i \in 1..Len(workq') : workq'[i] = h
    BY Zenon, <2>1 DEF QueuedHasWork
  <2>4. CASE \E i \in 1..Len(workq) : workq[i] = h
    BY Zenon, <2>2, <2>4
  <2>5. CASE workHook = h /\ rerun
    BY Zenon, <2>3, <2>5
  <2> QED
    BY Zenon, <2>1, <2>4, <2>5 DEF QueuedHasWork
<1> QED
  BY <1>2, <1>3, <1>4, <1>5, <1>6, <1>7, <1>8, <1>9, <1>10, <1>11, <1>12
  DEF Next, TimerThread, TimerWork

-----------------------------------------------------------------------------
(* The theorems. *)

(* The initial state satisfies the inductive invariant. *)
LEMMA InitInv == Init => Inv
<1> SUFFICES ASSUME Init PROVE Inv
  BY Zenon
<1>1. TypeOK
  <2>1. batch \in [Lanes -> Seq(Effect)] /\ workq \in Seq(Hooks)
    BY DEF Init
  <2>2. cb \in [stage : {"idle", "capture", "queue", "return"},
               hook : Hooks \union {NoHook}, tok : Token]
    BY Zenon, NoTokenType DEF Init, NoCallback
  <2> QED
    BY Zenon, <2>1, <2>2, NoTokenType DEF Init, TypeOK
<1>2. OwnerInv /\ HeadInv /\ CallbackInv /\ WorkInv
  BY Zenon, TimerConstants
  DEF Init, OwnerInv, HeadInv, CallbackInv, WorkInv, Critical, NoCallback
<1>3. TimerInv /\ OwnerKnows /\ ExpiryCapturesOwnArm /\ SlotIsBacked /\ QueuedHasWork
  BY DEF Init, TimerInv, OwnerKnows, ExpiryCapturesOwnArm, SlotIsBacked, QueuedHasWork,
         NoCallback
<1> QED
  BY <1>1, <1>2, <1>3 DEF Inv

(* Every step, and every stutter, keeps the inductive invariant. *)
LEMMA NextInv == Inv /\ [Next]_vars => Inv'
<1> SUFFICES ASSUME Inv, [Next]_vars PROVE Inv'
  BY Zenon
<1>1. TypeOK'
  BY TypeStep DEF Inv
<1>2. CallbackInv' /\ WorkInv'
  BY Zenon, ThreadStep DEF Inv
<1>3. QueuedHasWork'
  BY QueuedStep DEF Inv
<1>4. Schedule'
  <2>0. TypeOK /\ CallbackInv /\ Schedule
    BY Zenon DEF Inv, Schedule
  <2>1. CASE UNCHANGED vars
    BY Zenon, <2>0, <2>1, QuietStep DEF vars, Quiet
  <2>2. CASE TimerThread \/ \E h \in Hooks : Expire(h)
    BY Zenon, <2>0, <2>2, ScheduleTimerThread
  <2>3. CASE \E l \in Lanes : Execute(l)
    BY <2>0, <2>3, ScheduleExecute
  <2>4. CASE \/ Activate \/ Deactivate \/ TimerWork
             \/ \E l \in Lanes : PeerEvent(l) \/ BeginRetry(l) \/ EnterActivationError(l)
    BY <2>0, <2>4, QuietActions, QuietStep DEF TimerWork
  <2> QED
    BY <2>1, <2>2, <2>3, <2>4 DEF Next
<1> QED
  BY <1>1, <1>2, <1>3, <1>4 DEF Inv, Schedule

-----------------------------------------------------------------------------
(* No armed timer is lost. *)

(* Tokens are handed out in the order of their generations. *)
TokensIssued ==
    /\ held.gen <= lastGen
    /\ \A h \in Hooks : /\ coord[h].gen <= lastGen /\ slot[h].gen <= lastGen
                        /\ queued[h].gen <= lastGen
    /\ \A l \in Lanes : \A i \in 1..Len(batch[l]) : batch[l][i].tok.gen <= lastGen

(* What the coordinator holds belongs to an activation and a handshake     *)
(* sequence that were in force.                                            *)
OwnersPast ==
    /\ act <= lastAct
    /\ \A h \in Hooks : coord[h].act <= lastAct /\ coord[h].seq <= seq

(* A thread that waits or takes a delivery has no effect to execute, and   *)
(* only a delivery under way holds a token.                                *)
RestingInv ==
    /\ \A l \in Lanes : pc[l] \in {"idle", "take", "deliver"} => batch[l] = <<>>
    /\ pc[TimerLane] # "deliver" => held = NoToken

(* A hook is armed by the lanes that may, and a token that is being        *)
(* cancelled is no longer the coordinator's.                               *)
EffectsInv ==
    \A l \in Lanes : \A i \in 1..Len(batch[l]) :
        LET e == batch[l][i]
        IN  /\ e.op = "Arm" => l \in ArmLanes[e.hook]
            /\ e.op = "Cancel" /\ e.tok # NoToken => e.tok # coord[e.hook]

Arming(l, h) ==
    /\ pc[l] \in Critical \union {"lock"}
    /\ Head1(l).op = "Arm" /\ Head1(l).hook = h

(* With a single arming lane, the token that lane is arming is the         *)
(* coordinator's or was cancelled, and what is on its way back was not     *)
(* overtaken by another arm.                                               *)
ArmingInv ==
    \A h \in Hooks : SingleArmer(h) =>
        /\ \A l \in Lanes : Arming(l, h) => coord[h] \in {Head1(l).tok, NoToken}
        /\ coord[h] # NoToken /\ (queued[h] = coord[h] \/ (workHook = h /\ held = coord[h]))
              => slot[h] \in {NoToken, coord[h]}

LossInv ==
    /\ TokensIssued /\ OwnersPast /\ RestingInv /\ EffectsInv /\ ArmingInv
    /\ ArmedTimerNotLost

(* What the requests of an event on lane l make of the coordinator (c), of *)
(* the last generation (g) and of the effects (b).                         *)
Issued(l, b, c, g) ==
    /\ lastGen <= g
    /\ \A h \in Hooks :
          /\ c[h].gen <= g /\ c[h].act <= lastAct /\ c[h].seq <= seq
          /\ \/ c[h] \in {coord[h], NoToken}
             \/ /\ l \in ArmLanes[h] /\ lastGen < c[h].gen
                /\ \E i \in 1..Len(b) : b[i] = [op |-> "Arm", hook |-> h, tok |-> c[h]]
    /\ \A i \in 1..Len(b) :
          /\ b[i].tok.gen <= g
          /\ b[i].op = "Arm" => l \in ArmLanes[b[i].hook]
          /\ b[i].op = "Cancel" /\ b[i].tok # NoToken => b[i].tok # c[b[i].hook]

(* The parts of an effect. *)
LEMMA EffectHook ==
  ASSUME NEW e \in Effect
  PROVE  e.hook \in Hooks /\ e.tok \in Token /\ e.op \in {"Arm", "Cancel"}
  BY DEF Effect

(* FinalizeTimerEffects on one more request keeps that relation: an arm    *)
(* has a fresh token, a cancel takes the token out of the coordinator.     *)
LEMMA RequestIssued ==
  ASSUME TypeOK, OwnersPast, NEW l \in Lanes,
         NEW r \in {"Arm", "Cancel"} \X Hooks, r[1] = "Arm" => l \in ArmLanes[r[2]],
         NEW c \in [Hooks -> Token], NEW g \in Nat, NEW b \in Seq(Effect),
         Issued(l, b, c, g)
  PROVE  Issued(l, Append(b, FinalizeEffect(r, c, g)), FinalizeCoord(r, c, g),
                FinalizeGen(r, g))
<1> DEFINE e == FinalizeEffect(r, c, g)
           d == FinalizeCoord(r, c, g)
           k == FinalizeGen(r, g)
           a == Append(b, e)
           n == NewToken(r[2], g)
<1>1. r[1] \in {"Arm", "Cancel"} /\ r[2] \in Hooks
  BY Zenon
<1>2. d \in [Hooks -> Token] /\ k \in Nat /\ e \in Effect
  BY Zenon, FinalizeType
<1>3. /\ d[r[2]] = IF r[1] = "Arm" THEN n ELSE NoToken
      /\ \A h \in Hooks : h # r[2] => d[h] = c[h]
  BY <1>1 DEF FinalizeCoord
<1>4. k = IF r[1] = "Arm" THEN g + 1 ELSE g
  BY Zenon DEF FinalizeGen
<1>5. n.gen = g + 1 /\ n.act <= lastAct /\ n.seq <= seq
  BY DEF NewToken, OwnerSequence, OwnersPast, TypeOK
<1>6. e = [op |-> r[1], hook |-> r[2], tok |-> IF r[1] = "Arm" THEN n ELSE c[r[2]]]
  BY Zenon DEF FinalizeEffect, FinalizeToken
<1>7. /\ a \in Seq(Effect) /\ Len(b) \in Nat /\ Len(a) = Len(b) + 1 /\ a[Len(b) + 1] = e
      /\ \A i \in 1..Len(b) : a[i] = b[i] /\ i \in 1..Len(a)
  BY <1>2, AppendFacts
<1>8. lastGen \in Nat /\ lastAct \in Nat /\ seq \in Nat /\ NoToken \in Token
      /\ NoToken.gen = 0 /\ NoToken.act = 0 /\ NoToken.seq = 0
  BY Zenon, NoTokenType DEF TypeOK, NoToken
<1>9. lastGen <= g /\ g <= k
  BY <1>4 DEF Issued
<1> HIDE DEF e, d, k, a, n
<1>10. ASSUME NEW h \in Hooks
       PROVE  /\ d[h].gen <= k /\ d[h].act <= lastAct /\ d[h].seq <= seq
              /\ \/ d[h] \in {coord[h], NoToken}
                 \/ /\ l \in ArmLanes[h] /\ lastGen < d[h].gen
                    /\ \E i \in 1..Len(a) :
                          a[i] = [op |-> "Arm", hook |-> h, tok |-> d[h]]
  <2>1. /\ c[h].gen <= g /\ c[h].act <= lastAct /\ c[h].seq <= seq
        /\ \/ c[h] \in {coord[h], NoToken}
           \/ /\ l \in ArmLanes[h] /\ lastGen < c[h].gen
              /\ \E i \in 1..Len(b) : b[i] = [op |-> "Arm", hook |-> h, tok |-> c[h]]
    BY Zenon DEF Issued
  <2>2. CASE h # r[2]
    <3>1. d[h] = c[h] /\ c[h].gen \in Nat
      BY Zenon, <1>3, <2>2 DEF Token
    <3>2. d[h].gen <= k
      BY <1>2, <1>9, <2>1, <3>1
    <3> QED
      BY Zenon, <1>7, <2>1, <3>1, <3>2
  <2>3. CASE h = r[2] /\ r[1] = "Arm"
    <3>1. d[h] = n /\ e = [op |-> "Arm", hook |-> h, tok |-> n] /\ k = g + 1
      BY Zenon, <1>3, <1>4, <1>6, <2>3
    <3>2. n.gen <= k /\ lastGen < n.gen
      BY <1>5, <1>8, <1>9, <3>1
    <3>3. Len(b) + 1 \in 1..Len(a)
      BY <1>7
    <3> QED
      BY Zenon, <1>5, <1>7, <2>3, <3>1, <3>2, <3>3
  <2>4. CASE h = r[2] /\ r[1] # "Arm"
    <3>1. d[h] = NoToken
      BY Zenon, <1>3, <2>4
    <3> QED
      BY <1>2, <1>8, <3>1
  <2> QED
    BY Zenon, <2>2, <2>3, <2>4
<1>11. ASSUME NEW i \in 1..Len(a)
       PROVE  /\ a[i].tok.gen <= k
              /\ a[i].op = "Arm" => l \in ArmLanes[a[i].hook]
              /\ a[i].op = "Cancel" /\ a[i].tok # NoToken => a[i].tok # d[a[i].hook]
  <2>1. CASE i \in 1..Len(b)
    <3>1. a[i] = b[i] /\ b[i] \in Effect
      BY <1>7, <2>1
    <3>2. /\ b[i].tok.gen <= g
          /\ b[i].op = "Arm" => l \in ArmLanes[b[i].hook]
          /\ b[i].op = "Cancel" /\ b[i].tok # NoToken => b[i].tok # c[b[i].hook]
      BY Zenon, <2>1 DEF Issued
    <3>3. b[i].tok.gen \in Nat /\ b[i].hook \in Hooks
      BY Zenon, <3>1 DEF Effect, Token
    <3>4. b[i].tok.gen <= k /\ b[i].tok.gen # g + 1
      BY <1>2, <1>9, <3>2, <3>3
    <3>5. b[i].tok # n
      BY Zenon, <1>5, <3>4
    <3>6. b[i].op = "Cancel" /\ b[i].tok # NoToken => b[i].tok # d[b[i].hook]
      BY Zenon, <1>3, <3>2, <3>3, <3>5
    <3> QED
      BY Zenon, <3>1, <3>2, <3>4, <3>6
  <2>2. CASE i = Len(b) + 1
    <3>1. a[i] = e
      BY Zenon, <1>7, <2>2
    <3>2. CASE r[1] = "Arm"
      <4>1. e.op = "Arm" /\ e.hook = r[2] /\ e.tok = n /\ k = g + 1
        BY Zenon, <1>4, <1>6, <3>2
      <4>2. n.gen <= k
        BY <1>5, <4>1
      <4> QED
        BY <3>1, <3>2, <4>1, <4>2
    <3>3. CASE r[1] = "Cancel"
      <4>1. e.op = "Cancel" /\ e.hook = r[2] /\ e.tok = c[r[2]] /\ k = g /\ d[r[2]] = NoToken
        BY Zenon, <1>3, <1>4, <1>6, <3>3
      <4>2. c[r[2]].gen <= g
        BY Zenon, <1>1 DEF Issued
      <4> QED
        BY Zenon, <3>1, <4>1, <4>2
    <3> QED
      BY Zenon, <1>1, <3>2, <3>3
  <2> QED
    BY <1>7, <2>1, <2>2
<1>12. lastGen <= k
  BY <1>2, <1>8, <1>9
<1> QED
  BY Zenon, <1>10, <1>11, <1>12 DEF Issued, a, d, k, e

(* With a single arming lane, two lanes that may arm a hook are the same.  *)
LEMMA OneArmer ==
  ASSUME NEW h \in Hooks, SingleArmer(h), NEW k \in Lanes, NEW l \in Lanes,
         k \in ArmLanes[h], l \in ArmLanes[h]
  PROVE  k = l
  BY Zenon DEF SingleArmer

(* The lane that is arming a hook is one of its arming lanes. *)
LEMMA ArmerMay ==
  ASSUME TypeOK, HeadInv, EffectsInv, NEW l \in Lanes, NEW h \in Hooks, Arming(l, h)
  PROVE  l \in ArmLanes[h]
<1>1. batch[l] # <<>> /\ batch[l] \in Seq(Effect)
  BY Zenon DEF HeadInv, Arming, TypeOK
<1>2. Head1(l) = batch[l][1] /\ 1 \in 1..Len(batch[l])
  BY <1>1 DEF Head1
<1> QED
  BY Zenon, <1>2 DEF EffectsInv, Arming

(* A handled event loses no armed timer: a hook keeps its token, gives it  *)
(* up, or has a fresh one whose Arm is in the lane's new batch.            *)
LEMMA HandlerKeeps ==
  ASSUME Inv, LossInv, NEW l \in Lanes, pc[l] \in {"idle", "deliver"},
         NEW b \in Seq(Effect), batch' = [batch EXCEPT ![l] = b],
         pc' = [pc EXCEPT ![l] = "run"],
         coord' \in [Hooks -> Token], lastGen' \in Nat,
         Issued(l, b, coord', lastGen'),
         slot' = slot, queued' = queued, workHook' = workHook, lastAct' = lastAct,
         act' \in {0, act}, seq' \in Nat,
         \/ act' = act /\ seq' = seq
         \/ \A h \in Hooks : coord'[h] = NoToken,
         \/ l # TimerLane /\ held' = held
         \/ /\ l = TimerLane /\ held' = NoToken
            /\ \A h \in Hooks : workHook = h /\ held # NoToken => coord'[h] # held
  PROVE  LossInv'
<1> DEFINE Fresh(h) ==
             /\ l \in ArmLanes[h] /\ lastGen < coord'[h].gen
             /\ \E i \in 1..Len(b) : b[i] = [op |-> "Arm", hook |-> h, tok |-> coord'[h]]
<1>1. TypeOK /\ HeadInv /\ TokensIssued /\ OwnersPast /\ RestingInv /\ EffectsInv
      /\ ArmingInv /\ ArmedTimerNotLost
  BY Zenon DEF Inv, LossInv
<1>2. /\ batch'[l] = b /\ pc'[l] = "run" /\ batch[l] = <<>>
      /\ \A k \in Lanes : k # l => batch'[k] = batch[k] /\ pc'[k] = pc[k]
  BY Zenon, <1>1 DEF TypeOK, RestingInv
<1>3. /\ \A h \in Hooks : coord'[h].gen <= lastGen' /\ coord'[h].act <= lastAct
                          /\ coord'[h].seq <= seq
      /\ \A h \in Hooks : coord'[h] = coord[h] \/ coord'[h] = NoToken \/ Fresh(h)
      /\ lastGen <= lastGen'
  BY Zenon DEF Issued
<1>4. \A i \in 1..Len(b) :
          /\ b[i].tok.gen <= lastGen'
          /\ b[i].op = "Arm" => l \in ArmLanes[b[i].hook]
          /\ b[i].op = "Cancel" /\ b[i].tok # NoToken => b[i].tok # coord'[b[i].hook]
  BY Zenon DEF Issued
<1>5. /\ NoToken \in Token /\ NoToken.gen = 0 /\ NoToken.act = 0 /\ NoToken.seq = 0
      /\ lastGen \in Nat /\ lastAct \in Nat /\ seq \in Nat
      /\ \A t \in Token : t.gen \in Nat
  BY Zenon, <1>1, NoTokenType DEF TypeOK, NoToken, Token
<1>6. \A t \in Token : t.gen <= lastGen => t.gen <= lastGen'
  BY <1>3, <1>5
<1>7. \A t \in Token, h \in Hooks : t.gen <= lastGen /\ Fresh(h) => t # coord'[h]
  BY <1>5
<1>8. \A k \in Lanes : \A i \in 1..Len(batch[k]) :
          batch[k][i] \in Effect /\ batch[k][i].tok \in Token /\ batch[k][i].hook \in Hooks
  <2> SUFFICES ASSUME NEW k \in Lanes, NEW i \in 1..Len(batch[k])
               PROVE  batch[k][i] \in Effect /\ batch[k][i].tok \in Token
                      /\ batch[k][i].hook \in Hooks
    BY Zenon
  <2>1. batch[k] \in Seq(Effect)
    BY Zenon, <1>1 DEF TypeOK
  <2>2. batch[k][i] \in Effect
    BY <2>1
  <2> QED
    BY Zenon, <2>2 DEF Effect
<1>9. TokensIssued'
  <2>1. held'.gen <= lastGen'
    <3>1. held \in Token /\ held.gen <= lastGen
      BY Zenon, <1>1 DEF TokensIssued, TypeOK
    <3>2. NoToken.gen <= lastGen'
      BY <1>5
    <3> QED
      BY Zenon, <1>6, <3>1, <3>2
  <2>2. \A h \in Hooks : slot'[h].gen <= lastGen' /\ queued'[h].gen <= lastGen'
    <3>1. \A h \in Hooks : /\ slot[h] \in Token /\ slot[h].gen <= lastGen
                           /\ queued[h] \in Token /\ queued[h].gen <= lastGen
      BY Zenon, <1>1 DEF TokensIssued, TypeOK
    <3> QED
      BY Zenon, <1>6, <3>1
  <2>3. ASSUME NEW k \in Lanes, NEW i \in 1..Len(batch'[k])
        PROVE  batch'[k][i].tok.gen <= lastGen'
    BY Zenon, <1>1, <1>2, <1>4, <1>6, <1>8 DEF TokensIssued
  <2> QED
    BY Zenon, <1>3, <2>1, <2>2, <2>3 DEF TokensIssued
<1>10. OwnersPast'
  <2>1. act' <= lastAct'
    BY <1>1, <1>5 DEF OwnersPast
  <2>2. ASSUME NEW h \in Hooks PROVE coord'[h].act <= lastAct' /\ coord'[h].seq <= seq'
    BY <1>3, <1>5
  <2> QED
    BY Zenon, <2>1, <2>2 DEF OwnersPast
<1>11. RestingInv'
  BY <1>1, <1>2, TimerConstants DEF RestingInv
<1>12. EffectsInv'
  <2> SUFFICES ASSUME NEW k \in Lanes, NEW i \in 1..Len(batch'[k])
               PROVE  /\ batch'[k][i].op = "Arm" => k \in ArmLanes[batch'[k][i].hook]
                      /\ batch'[k][i].op = "Cancel" /\ batch'[k][i].tok # NoToken
                            => batch'[k][i].tok # coord'[batch'[k][i].hook]
    BY Zenon DEF EffectsInv
  <2>1. CASE k = l
    <3>1. batch'[k] = b /\ i \in 1..Len(b)
      BY Zenon, <1>2, <2>1
    <3>2. /\ b[i].op = "Arm" => l \in ArmLanes[b[i].hook]
          /\ b[i].op = "Cancel" /\ b[i].tok # NoToken => b[i].tok # coord'[b[i].hook]
      BY Zenon, <1>4, <3>1
    <3> QED
      BY Zenon, <2>1, <3>1, <3>2
  <2>2. CASE k # l
    <3>1. batch'[k] = batch[k] /\ i \in 1..Len(batch[k])
      BY Zenon, <1>2, <2>2
    <3>2. batch[k][i].tok.gen <= lastGen
      BY Zenon, <1>1, <3>1 DEF TokensIssued
    <3>3. /\ batch[k][i].op = "Arm" => k \in ArmLanes[batch[k][i].hook]
          /\ batch[k][i].op = "Cancel" /\ batch[k][i].tok # NoToken
                => batch[k][i].tok # coord[batch[k][i].hook]
      BY Zenon, <1>1, <3>1 DEF EffectsInv
    <3>4. batch[k][i].tok \in Token /\ batch[k][i].hook \in Hooks
      BY Zenon, <1>8, <3>1
    <3> QED
      BY Zenon, <1>3, <1>7, <3>1, <3>2, <3>3, <3>4
  <2> QED
    BY Zenon, <2>1, <2>2
<1>13. ArmingInv'
  <2> SUFFICES ASSUME NEW h \in Hooks, SingleArmer(h)
               PROVE  /\ \A k \in Lanes : Arming(k, h)' => coord'[h] \in {Head(batch'[k]).tok, NoToken}
                      /\ coord'[h] # NoToken
                         /\ (queued'[h] = coord'[h] \/ (workHook' = h /\ held' = coord'[h]))
                            => slot'[h] \in {NoToken, coord'[h]}
    BY Zenon DEF ArmingInv, Head1, SingleArmer
  <2>1. ASSUME NEW k \in Lanes, Arming(k, h)'
        PROVE  coord'[h] \in {Head(batch'[k]).tok, NoToken}
    <3>1. k # l
      BY <1>2, <2>1 DEF Arming, Critical
    <3>2. batch'[k] = batch[k] /\ Arming(k, h)
      BY Zenon, <1>2, <2>1, <3>1 DEF Arming, Head1
    <3>3. coord[h] \in {Head(batch[k]).tok, NoToken}
      BY Zenon, <1>1, <3>2 DEF ArmingInv, Head1
    <3>4. ~Fresh(h)
      BY Zenon, <1>1, <3>1, <3>2, ArmerMay, OneArmer
    <3> QED
      BY Zenon, <1>3, <3>2, <3>3, <3>4
  <2>2. ASSUME coord'[h] # NoToken,
               queued'[h] = coord'[h] \/ (workHook' = h /\ held' = coord'[h])
        PROVE  slot'[h] \in {NoToken, coord'[h]}
    <3>1. queued[h] \in Token /\ queued[h].gen <= lastGen /\ held \in Token
          /\ held.gen <= lastGen
      BY Zenon, <1>1 DEF TokensIssued, TypeOK
    <3>2. ~Fresh(h)
      BY Zenon, <1>7, <2>2, <3>1
    <3>3. coord'[h] = coord[h]
      BY Zenon, <1>3, <2>2, <3>2
    <3> QED
      BY Zenon, <1>1, <2>2, <3>3 DEF ArmingInv
  <2> QED
    BY Zenon, <2>1, <2>2
<1>14. ArmedTimerNotLost'
  <2> SUFFICES ASSUME NEW h \in Hooks, SingleArmer(h), IsCurrent(h, coord[h])'
               PROVE  InFlight(h, coord[h])'
    BY Zenon DEF ArmedTimerNotLost, SingleArmer
  <2>1. coord'[h] # NoToken /\ act' = act /\ seq' = seq
    BY Zenon DEF IsCurrent
  <2>2. CASE Fresh(h)
    BY Zenon, <1>2, <2>2 DEF InFlight
  <2>3. CASE coord'[h] = coord[h]
    <3>1. IsCurrent(h, coord[h])
      BY Zenon, <2>1, <2>3 DEF IsCurrent, OwnerSequence
    <3>2. InFlight(h, coord[h])
      BY Zenon, <1>1, <3>1 DEF ArmedTimerNotLost
    <3>3. ASSUME NEW k \in Lanes, NEW i \in 1..Len(batch[k]),
                 batch[k][i] = [op |-> "Arm", hook |-> h, tok |-> coord[h]]
          PROVE  InFlight(h, coord[h])'
      <4>1. k # l
        BY <1>2
      <4>2. batch'[k] = batch[k]
        BY Zenon, <1>2, <4>1
      <4> QED
        BY Zenon, <2>3, <3>3, <4>2 DEF InFlight
    <3>4. ASSUME slot[h] = coord[h] \/ queued[h] = coord[h] \/ (workHook = h /\ held = coord[h])
          PROVE  InFlight(h, coord[h])'
      BY Zenon, <2>1, <2>3, <3>4 DEF InFlight
    <3> QED
      BY Zenon, <3>2, <3>3, <3>4 DEF InFlight
  <2> QED
    BY Zenon, <1>3, <2>1, <2>2, <2>3
<1> QED
  BY Zenon, <1>9, <1>10, <1>11, <1>12, <1>13, <1>14 DEF LossInv


(* Before the first request. *)
LEMMA NothingIssued ==
  ASSUME TypeOK, TokensIssued, OwnersPast, NEW l \in Lanes
  PROVE  Issued(l, <<>>, coord, lastGen)
<1>1. lastGen <= lastGen /\ Len(<<>>) = 0 /\ 1..0 = {}
  BY DEF TypeOK
<1> QED
  BY Zenon, <1>1 DEF Issued, TokensIssued, OwnersPast

(* After the only request of an event. *)
LEMMA OneIssued ==
  ASSUME TypeOK, TokensIssued, OwnersPast, NEW l \in Lanes,
         NEW r \in {"Arm", "Cancel"} \X Hooks, r[1] = "Arm" => l \in ArmLanes[r[2]],
         OneRequest(l, r)
  PROVE  LET b == <<FinalizeEffect(r, coord, lastGen)>>
         IN  /\ b \in Seq(Effect) /\ batch' = [batch EXCEPT ![l] = b]
             /\ Issued(l, b, coord', lastGen')
<1>1. coord \in [Hooks -> Token] /\ lastGen \in Nat /\ <<>> \in Seq(Effect)
  BY DEF TypeOK
<1>2. FinalizeEffect(r, coord, lastGen) \in Effect
  BY Zenon, <1>1, FinalizeType
<1>3. Append(<<>>, FinalizeEffect(r, coord, lastGen)) = <<FinalizeEffect(r, coord, lastGen)>>
      /\ <<FinalizeEffect(r, coord, lastGen)>> \in Seq(Effect)
  BY <1>2
<1>4. Issued(l, Append(<<>>, FinalizeEffect(r, coord, lastGen)),
             FinalizeCoord(r, coord, lastGen), FinalizeGen(r, lastGen))
  BY Zenon, <1>1, NothingIssued, RequestIssued
<1> QED
  BY Zenon, <1>3, <1>4 DEF OneRequest

(* A batch of two effects. *)
LEMMA PairFacts ==
  ASSUME NEW S, NEW e \in S, NEW f \in S
  PROVE  Append(Append(<<>>, e), f) = <<e, f>> /\ <<e, f>> \in Seq(S)
<1>1. Append(<<>>, e) = <<e>> /\ <<e>> \in Seq(S)
  OBVIOUS
<1>2. Append(<<e>>, f) \in Seq(S) /\ Len(Append(<<e>>, f)) = 2
      /\ Append(<<e>>, f)[1] = e /\ Append(<<e>>, f)[2] = f
  BY <1>1
<1>3. <<e, f>> \in Seq(S) /\ Len(<<e, f>>) = 2 /\ <<e, f>>[1] = e /\ <<e, f>>[2] = f
  OBVIOUS
<1>4. ASSUME NEW p \in Seq(S), NEW q \in Seq(S), Len(p) = 2, Len(q) = 2,
             p[1] = q[1], p[2] = q[2]
      PROVE  p = q
  <2>1. p \in [1..2 -> S] /\ q \in [1..2 -> S]
    BY <1>4
  <2>2. \A i \in 1..2 : p[i] = q[i]
    BY <1>4
  <2> QED
    BY <2>1, <2>2
<1> QED
  BY Zenon, <1>1, <1>2, <1>3, <1>4

(* After the two requests of an event. *)
LEMMA TwoIssued ==
  ASSUME TypeOK, TokensIssued, OwnersPast, NEW l \in Lanes,
         NEW r \in {"Arm", "Cancel"} \X Hooks, r[1] = "Arm" => l \in ArmLanes[r[2]],
         NEW s \in {"Arm", "Cancel"} \X Hooks, s[1] = "Arm" => l \in ArmLanes[s[2]],
         TwoRequests(l, r, s)
  PROVE  LET b == <<FinalizeEffect(r, coord, lastGen),
                    FinalizeEffect(s, FinalizeCoord(r, coord, lastGen),
                                   FinalizeGen(r, lastGen))>>
         IN  /\ b \in Seq(Effect) /\ batch' = [batch EXCEPT ![l] = b]
             /\ Issued(l, b, coord', lastGen')
<1> DEFINE e == FinalizeEffect(r, coord, lastGen)
           c == FinalizeCoord(r, coord, lastGen)
           g == FinalizeGen(r, lastGen)
           f == FinalizeEffect(s, c, g)
<1>1. coord \in [Hooks -> Token] /\ lastGen \in Nat /\ <<>> \in Seq(Effect)
  BY DEF TypeOK
<1>2. e \in Effect /\ c \in [Hooks -> Token] /\ g \in Nat
  BY Zenon, <1>1, FinalizeType
<1>3. Issued(l, Append(<<>>, e), c, g)
  BY Zenon, <1>1, NothingIssued, RequestIssued
<1>4. coord' = FinalizeCoord(s, c, g) /\ lastGen' = FinalizeGen(s, g)
      /\ batch' = [batch EXCEPT ![l] = <<e, f>>]
  BY Zenon DEF TwoRequests
<1> HIDE DEF e, c, g
<1>5. f \in Effect
  BY Zenon, <1>2, FinalizeType
<1>6. Append(<<>>, e) \in Seq(Effect)
  BY <1>2
<1>7. Issued(l, Append(Append(<<>>, e), f), FinalizeCoord(s, c, g), FinalizeGen(s, g))
  BY Zenon, <1>2, <1>3, <1>6, RequestIssued
<1> HIDE DEF f
<1>8. Append(Append(<<>>, e), f) = <<e, f>> /\ <<e, f>> \in Seq(Effect)
  BY Zenon, <1>2, <1>5, PairFacts
<1> QED
  BY Zenon, <1>4, <1>7, <1>8 DEF e, f, c, g

(* A teardown takes every token out of the coordinator. *)
LEMMA TeardownIssued ==
  ASSUME TypeOK, TokensIssued, NEW l \in Lanes, NEW b \in Seq(Effect),
         \A i \in 1..Len(b) : b[i].op = "Cancel" /\ b[i].tok.gen <= lastGen,
         coord' = [h \in Hooks |-> NoToken], lastGen' = lastGen
  PROVE  Issued(l, b, coord', lastGen')
<1>1. /\ \A h \in Hooks : coord'[h] = NoToken
      /\ \A i \in 1..Len(b) : b[i] \in Effect
  BY DEF TypeOK
<1>2. \A i \in 1..Len(b) : b[i].hook \in Hooks
  BY Zenon, <1>1, EffectHook
<1>3. 0 <= lastGen /\ 0 <= lastAct /\ 0 <= seq /\ lastGen <= lastGen
      /\ NoToken.gen = 0 /\ NoToken.act = 0 /\ NoToken.seq = 0
  BY DEF TypeOK, NoToken
<1>4. "Arm" # "Cancel"
  OBVIOUS
<1> QED
  BY Zenon, <1>1, <1>2, <1>3, <1>4 DEF Issued

(* The cancels of a teardown carry the coordinator's tokens. *)
LEMMA CancelEveryHookGen ==
  ASSUME NEW c \in [Hooks -> Token], NEW g \in Nat, \A h \in Hooks : c[h].gen <= g
  PROVE  \A i \in 1..Len(CancelEveryHook(c)) :
           /\ CancelEveryHook(c)[i].op = "Cancel"
           /\ CancelEveryHook(c)[i].tok.gen <= g
<1>1. \A i \in 1..Len(HookOrder) : HookOrder[i] \in Hooks
  BY TimerConstants
<1>2. Len(HookOrder) \in Nat
  BY TimerConstants
<1>3. Len(CancelEveryHook(c)) = Len(HookOrder)
  BY <1>2 DEF CancelEveryHook
<1>4. ASSUME NEW i \in 1..Len(HookOrder)
      PROVE  CancelEveryHook(c)[i] = [op |-> "Cancel", hook |-> HookOrder[i],
                                      tok |-> c[HookOrder[i]]]
  BY Zenon DEF CancelEveryHook
<1>5. ASSUME NEW i \in 1..Len(HookOrder)
      PROVE  CancelEveryHook(c)[i].op = "Cancel" /\ CancelEveryHook(c)[i].tok.gen <= g
  <2>1. HookOrder[i] \in Hooks
    BY Zenon, <1>1
  <2>2. c[HookOrder[i]].gen <= g
    BY Zenon, <2>1
  <2>3. CancelEveryHook(c)[i] = [op |-> "Cancel", hook |-> HookOrder[i],
                                 tok |-> c[HookOrder[i]]]
    BY Zenon, <1>4
  <2> QED
    BY <2>2, <2>3
<1> QED
  BY Zenon, <1>3, <1>5


(* An event of the peer loses no armed timer. *)
LEMMA EventsKeep ==
  ASSUME Inv, LossInv, TypeOK', NEW l \in Lanes,
         PeerEvent(l) \/ EnterActivationError(l)
  PROVE  LossInv'
<1>1. TypeOK /\ TokensIssued /\ OwnersPast
  BY Zenon DEF Inv, LossInv
<1>3. coord' \in [Hooks -> Token] /\ lastGen' \in Nat /\ seq' \in Nat
  BY Zenon DEF TypeOK
<1>4. CASE PeerEvent(l)
  <2>1. /\ pc[l] = "idle" /\ l # TimerLane /\ pc' = [pc EXCEPT ![l] = "run"]
        /\ slot' = slot /\ queued' = queued /\ workHook' = workHook /\ lastAct' = lastAct
        /\ act' = act /\ seq' = seq /\ held' = held
    BY Zenon, <1>4 DEF PeerEvent, schedVars, workVars
  <2>2. \E b \in Seq(Effect) : batch' = [batch EXCEPT ![l] = b]
                               /\ Issued(l, b, coord', lastGen')
    <3>1. CASE \E r \in Requests(l) : OneRequest(l, r)
      <4>1. PICK r \in Requests(l) : OneRequest(l, r)
        BY Zenon, <3>1
      <4>2. r \in {"Arm", "Cancel"} \X Hooks /\ (r[1] = "Arm" => l \in ArmLanes[r[2]])
        BY Zenon DEF Requests
      <4> QED
        BY Zenon, <1>1, <4>1, <4>2, OneIssued
    <3>2. CASE \E r, s \in Requests(l) : TwoRequests(l, r, s)
      <4>1. PICK r \in Requests(l), s \in Requests(l) : TwoRequests(l, r, s)
        BY Zenon, <3>2
      <4>2. r \in {"Arm", "Cancel"} \X Hooks /\ (r[1] = "Arm" => l \in ArmLanes[r[2]])
            /\ s \in {"Arm", "Cancel"} \X Hooks /\ (s[1] = "Arm" => l \in ArmLanes[s[2]])
        BY Zenon DEF Requests
      <4> QED
        BY Zenon, <1>1, <4>1, <4>2, TwoIssued
    <3> QED
      BY Zenon, <1>4, <3>1, <3>2 DEF PeerEvent
  <2> QED
    BY Zenon, <1>3, <2>1, <2>2, HandlerKeeps
<1>5. CASE EnterActivationError(l)
  <2>1. /\ pc[l] = "idle" /\ l # TimerLane /\ pc' = [pc EXCEPT ![l] = "run"]
        /\ slot' = slot /\ queued' = queued /\ workHook' = workHook /\ lastAct' = lastAct
        /\ act' = act /\ held' = held /\ lastGen' = lastGen
        /\ coord' = [h \in Hooks |-> NoToken]
        /\ batch' = [batch EXCEPT ![l] = CancelEveryHook(coord)]
    BY Zenon, <1>5 DEF EnterActivationError, schedVars, workVars
  <2>2. CancelEveryHook(coord) \in Seq(Effect)
        /\ \A i \in 1..Len(CancelEveryHook(coord)) :
             CancelEveryHook(coord)[i].op = "Cancel"
             /\ CancelEveryHook(coord)[i].tok.gen <= lastGen
    BY Zenon, <1>1, CancelEveryHookType, CancelEveryHookGen DEF TypeOK, TokensIssued
  <2>3. Issued(l, CancelEveryHook(coord), coord', lastGen')
    BY Zenon, <1>1, <2>1, <2>2, TeardownIssued
  <2>4. \A h \in Hooks : coord'[h] = NoToken
    BY Zenon, <2>1
  <2> QED
    BY Zenon, <1>3, <2>1, <2>2, <2>3, <2>4, HandlerKeeps
<1> QED
  BY Zenon, <1>4, <1>5

(* A deactivation loses no armed timer. *)
LEMMA DeactivateKeeps ==
  ASSUME Inv, LossInv, TypeOK', Deactivate
  PROVE  LossInv'
<1>1. TypeOK /\ TokensIssued /\ OwnersPast
  BY Zenon DEF Inv, LossInv
<1>3. coord' \in [Hooks -> Token] /\ lastGen' \in Nat /\ seq' \in Nat
  BY Zenon DEF TypeOK
<1> DEFINE b == CancelEveryHook(coord)
<1>4. /\ pc[CommandLane] = "idle" /\ pc' = [pc EXCEPT ![CommandLane] = "run"]
      /\ slot' = slot /\ queued' = queued /\ workHook' = workHook /\ lastAct' = lastAct
      /\ act' = 0 /\ held' = held /\ lastGen' = lastGen
      /\ coord' = [h \in Hooks |-> NoToken]
      /\ batch' = [batch EXCEPT ![CommandLane] = b]
  BY Zenon DEF Deactivate, schedVars, workVars
<1>5. b \in Seq(Effect)
      /\ \A i \in 1..Len(b) : b[i].op = "Cancel" /\ b[i].tok.gen <= lastGen
  BY Zenon, <1>1, CancelEveryHookType, CancelEveryHookGen DEF TypeOK, TokensIssued
<1> HIDE DEF b
<1>6. CommandLane \in Lanes /\ CommandLane # TimerLane
  BY TimerConstants
<1>7. Issued(CommandLane, b, coord', lastGen')
  BY Zenon, <1>1, <1>4, <1>5, <1>6, TeardownIssued
<1>8. \A h \in Hooks : coord'[h] = NoToken
  BY Zenon, <1>4
<1> QED
  BY Zenon, <1>3, <1>4, <1>5, <1>6, <1>7, <1>8, HandlerKeeps

(* The cancels of a teardown after the cancel of the expired token. *)
LEMMA OwnThenEvery ==
  ASSUME NEW e \in Effect, e.op = "Cancel", NEW g \in Nat, e.tok.gen <= g,
         NEW q \in Seq(Effect), \A i \in 1..Len(q) : q[i].op = "Cancel" /\ q[i].tok.gen <= g
  PROVE  /\ <<e>> \o q \in Seq(Effect)
         /\ \A i \in 1..Len(<<e>> \o q) :
              (<<e>> \o q)[i].op = "Cancel" /\ (<<e>> \o q)[i].tok.gen <= g
<1>1. <<e>> \in Seq(Effect) /\ Len(<<e>>) = 1 /\ <<e>>[1] = e /\ Len(q) \in Nat
  OBVIOUS
<1>2. /\ <<e>> \o q \in Seq(Effect) /\ Len(<<e>> \o q) = 1 + Len(q)
      /\ (<<e>> \o q)[1] = e
      /\ \A i \in 2..(1 + Len(q)) : (<<e>> \o q)[i] = q[i - 1] /\ i - 1 \in 1..Len(q)
  BY <1>1
<1>3. \A i \in 1..(1 + Len(q)) : i = 1 \/ i \in 2..(1 + Len(q))
  BY <1>1
<1> QED
  BY Zenon, <1>2, <1>3

(* An expiry that is handled was current; its token is given up, whatever  *)
(* the hook's policy asks for next.                                        *)
LEMMA DeliverKeeps ==
  ASSUME Inv, LossInv, TypeOK', DeliverExpiry
  PROVE  LossInv'
<1> DEFINE own == <<"Cancel", workHook>>
<1>1. TypeOK /\ TokensIssued /\ OwnersPast /\ WorkInv
  BY Zenon DEF Inv, LossInv
<1>3. coord' \in [Hooks -> Token] /\ lastGen' \in Nat /\ seq' \in Nat
      /\ coord \in [Hooks -> Token] /\ lastGen \in Nat
  BY Zenon, <1>1 DEF TypeOK
<1>4. /\ pc[TimerLane] = "deliver" /\ pc' = [pc EXCEPT ![TimerLane] = "run"]
      /\ slot' = slot /\ queued' = queued /\ workHook' = workHook /\ lastAct' = lastAct
      /\ act' = act /\ held' = NoToken /\ held = coord[workHook] /\ held # NoToken
      /\ \/ /\ \/ OneRequest(TimerLane, own)
               \/ \E s \in Requests(TimerLane) : TwoRequests(TimerLane, own, s)
            /\ seq' = seq
         \/ /\ coord' = [h \in Hooks |-> NoToken] /\ lastGen' = lastGen
            /\ batch' = [batch EXCEPT ![TimerLane] =
                  <<FinalizeEffect(own, coord, lastGen)>>
                  \o CancelEveryHook(FinalizeCoord(own, coord, lastGen))]
  BY Zenon DEF DeliverExpiry, schedVars, workVars, IsCurrent
<1>5. TimerLane \in Lanes
  BY TimerConstants
<1>6. workHook \in Hooks
  BY Zenon, <1>1, <1>4 DEF WorkInv, TypeOK
<1>7. own \in {"Arm", "Cancel"} \X Hooks /\ own[1] = "Cancel" /\ own[2] = workHook
      /\ own[1] # "Arm"
  BY <1>6
<1> HIDE DEF own
<1>8. FinalizeEffect(own, coord, lastGen) \in Effect
      /\ FinalizeCoord(own, coord, lastGen) \in [Hooks -> Token]
  BY Zenon, <1>1, <1>3, <1>7, FinalizeType
<1>9. FinalizeEffect(own, coord, lastGen)
        = [op |-> "Cancel", hook |-> workHook, tok |-> held]
  BY Zenon, <1>4, <1>7 DEF FinalizeEffect, FinalizeToken
<1>10. \E b \in Seq(Effect) :
         /\ batch' = [batch EXCEPT ![TimerLane] = b]
         /\ Issued(TimerLane, b, coord', lastGen')
         /\ Len(b) \in Nat \ {0} /\ b[1] = FinalizeEffect(own, coord, lastGen)
         /\ (act' = act /\ seq' = seq) \/ \A h \in Hooks : coord'[h] = NoToken
  <2>1. CASE OneRequest(TimerLane, own) /\ seq' = seq
    <3> DEFINE b == <<FinalizeEffect(own, coord, lastGen)>>
    <3>1. Len(b) \in Nat \ {0} /\ b[1] = FinalizeEffect(own, coord, lastGen)
      OBVIOUS
    <3>2. b \in Seq(Effect) /\ batch' = [batch EXCEPT ![TimerLane] = b]
          /\ Issued(TimerLane, b, coord', lastGen')
      BY Zenon, <1>1, <1>5, <1>7, <2>1, OneIssued
    <3> HIDE DEF b
    <3> QED
      BY Zenon, <1>4, <2>1, <3>1, <3>2
  <2>2. CASE (\E s \in Requests(TimerLane) : TwoRequests(TimerLane, own, s)) /\ seq' = seq
    <3>1. PICK s \in Requests(TimerLane) : TwoRequests(TimerLane, own, s)
      BY Zenon, <2>2
    <3> DEFINE b == <<FinalizeEffect(own, coord, lastGen),
                      FinalizeEffect(s, FinalizeCoord(own, coord, lastGen),
                                     FinalizeGen(own, lastGen))>>
    <3>2. s \in {"Arm", "Cancel"} \X Hooks /\ (s[1] = "Arm" => TimerLane \in ArmLanes[s[2]])
      BY Zenon DEF Requests
    <3>3. b \in Seq(Effect) /\ batch' = [batch EXCEPT ![TimerLane] = b]
          /\ Issued(TimerLane, b, coord', lastGen')
      BY Zenon, <1>1, <1>5, <1>7, <3>1, <3>2, TwoIssued
    <3>4. Len(b) \in Nat \ {0} /\ b[1] = FinalizeEffect(own, coord, lastGen)
      OBVIOUS
    <3> HIDE DEF b
    <3> QED
      BY Zenon, <1>4, <2>2, <3>3, <3>4
  <2>3. CASE /\ coord' = [h \in Hooks |-> NoToken] /\ lastGen' = lastGen
             /\ batch' = [batch EXCEPT ![TimerLane] =
                   <<FinalizeEffect(own, coord, lastGen)>>
                   \o CancelEveryHook(FinalizeCoord(own, coord, lastGen))]
    <3> DEFINE e == FinalizeEffect(own, coord, lastGen)
               d == FinalizeCoord(own, coord, lastGen)
               q == CancelEveryHook(d)
    <3>1. e.op = "Cancel" /\ e.tok = held /\ held.gen <= lastGen
      BY <1>1, <1>9 DEF TokensIssued
    <3>2. \A h \in Hooks : d[h].gen <= lastGen
      <4>1. \A h \in Hooks : d[h] \in {NoToken, coord[h]}
        BY <1>3, <1>7 DEF FinalizeCoord
      <4>2. NoToken.gen <= lastGen
        BY <1>3 DEF NoToken
      <4> QED
        BY Zenon, <1>1, <4>1, <4>2 DEF TokensIssued
    <3> HIDE DEF e, d
    <3>3. q \in Seq(Effect)
          /\ \A i \in 1..Len(q) : q[i].op = "Cancel" /\ q[i].tok.gen <= lastGen
      BY Zenon, <1>3, <1>8, <3>2, CancelEveryHookType, CancelEveryHookGen DEF d
    <3> HIDE DEF q
    <3>4. /\ <<e>> \o q \in Seq(Effect)
          /\ \A i \in 1..Len(<<e>> \o q) :
               (<<e>> \o q)[i].op = "Cancel" /\ (<<e>> \o q)[i].tok.gen <= lastGen
      <4>1. e \in Effect /\ e.tok.gen <= lastGen
        BY Zenon, <1>8, <3>1 DEF e
      <4> QED
        BY Zenon, <1>3, <3>1, <3>3, <4>1, OwnThenEvery
    <3>5. Issued(TimerLane, <<e>> \o q, coord', lastGen')
      BY Zenon, <1>1, <1>5, <2>3, <3>4, TeardownIssued
    <3>6. Len(<<e>> \o q) \in Nat \ {0} /\ (<<e>> \o q)[1] = e
      BY <3>3
    <3>7. \A h \in Hooks : coord'[h] = NoToken
      BY Zenon, <2>3
    <3> QED
      BY Zenon, <2>3, <3>4, <3>5, <3>6, <3>7 DEF e, q, d
  <2> QED
    BY Zenon, <1>4, <2>1, <2>2, <2>3
<1>11. PICK b \in Seq(Effect) :
         /\ batch' = [batch EXCEPT ![TimerLane] = b]
         /\ Issued(TimerLane, b, coord', lastGen')
         /\ Len(b) \in Nat \ {0} /\ b[1] = FinalizeEffect(own, coord, lastGen)
         /\ (act' = act /\ seq' = seq) \/ \A h \in Hooks : coord'[h] = NoToken
  BY Zenon, <1>10
<1>12. coord'[workHook] # held
  <2>1. 1 \in 1..Len(b) /\ b[1].op = "Cancel" /\ b[1].hook = workHook /\ b[1].tok = held
    BY <1>9, <1>11
  <2> QED
    BY Zenon, <1>4, <1>11, <2>1 DEF Issued
<1> QED
  BY Zenon, <1>3, <1>4, <1>5, <1>11, <1>12, HandlerKeeps


(* What removing the head of a batch leaves. *)
LEMMA TailFrom ==
  ASSUME NEW S, NEW q \in Seq(S), q # <<>>
  PROVE  \A i \in 1..Len(Tail(q)) : i + 1 \in 1..Len(q) /\ Tail(q)[i] = q[i + 1]
  OBVIOUS

Working(l) == pc[l] \in Critical \union {"lock"}

(* Lane l goes on with the effect it is executing. *)
Advances(l) ==
    /\ batch' = batch /\ slot' = slot /\ Working(l)'
    /\ \/ Working(l)
       \/ Head1(l).op = "Arm" => IsCurrent(Head1(l).hook, Head1(l).tok)

(* Lane l writes the token it arms into the schedule. *)
Writes(l) ==
    /\ batch' = batch /\ Working(l) /\ Working(l)' /\ Head1(l).op = "Arm"
    /\ slot' = [slot EXCEPT ![Head1(l).hook] = Head1(l).tok]

(* Lane l is done with an effect: a stale arm, one that is in the schedule *)
(* or a cancel.                                                            *)
Passes(l) ==
    /\ batch[l] # <<>> /\ batch' = [batch EXCEPT ![l] = Tail(batch[l])]
    /\ pc'[l] = "run"
    /\ Head1(l).op = "Arm" =>
          /\ slot' = slot
          /\ IsCurrent(Head1(l).hook, Head1(l).tok) => slot[Head1(l).hook] = Head1(l).tok
    /\ \/ slot' = slot
       \/ /\ Head1(l).op = "Cancel" /\ Head1(l).tok # NoToken
          /\ slot[Head1(l).hook] = Head1(l).tok
          /\ slot' = [slot EXCEPT ![Head1(l).hook] = NoToken]

(* The steps of the effect executor are of these kinds. *)
LEMMA ExecuteShape ==
  ASSUME Inv, NEW l \in Lanes, Execute(l)
  PROVE  /\ UNCHANGED <<act, lastAct, seq, lastGen, coord, held, queued, workHook>>
         /\ pc[l] \notin {"idle", "take", "deliver"}
         /\ \A k \in Lanes : k # l => pc'[k] = pc[k] /\ batch'[k] = batch[k]
         /\ \/ Advances(l) \/ Writes(l) \/ Passes(l)
            \/ /\ batch' = batch /\ slot' = slot /\ pc'[l] = "idle"
               /\ batch[l] = <<>> /\ l # TimerLane
<1>1. TypeOK /\ HeadInv /\ OwnerKnows
  BY Zenon DEF Inv
<1>2. pc \in [Lanes -> {"idle", "take", "deliver", "run", "lock", "lookup",
                        "delete", "sync", "write", "start"}]
      /\ batch \in [Lanes -> Seq(Effect)]
  BY Zenon, <1>1 DEF TypeOK
<1>3. CASE Revalidate(l)
  <2>1. CASE \/ Head1(l).op = "Arm" /\ IsCurrent(Head1(l).hook, Head1(l).tok)
             \/ Head1(l).op = "Cancel" /\ Head1(l).tok # NoToken
    BY <1>2, <1>3, <2>1
    DEF Revalidate, Goto, peerVars, schedVars, workVars, Advances, Working
  <2>2. CASE ~(\/ Head1(l).op = "Arm" /\ IsCurrent(Head1(l).hook, Head1(l).tok)
               \/ Head1(l).op = "Cancel" /\ Head1(l).tok # NoToken)
    BY <1>2, <1>3, <2>2
    DEF Revalidate, Drop, peerVars, schedVars, workVars, Passes
  <2> QED
    BY Zenon, <2>1, <2>2
<1>4. CASE Lock(l)
  BY Zenon, <1>2, <1>4
  DEF Lock, Goto, peerVars, schedVars, workVars, Advances, Working, Critical
<1>5. CASE LookUp(l)
  <2>1. Head1(l).op = "Cancel"
    BY Zenon, <1>1, <1>5 DEF HeadInv, LookUp, Critical
  <2>2. CASE slot[Head1(l).hook] = Head1(l).tok
    BY <1>2, <1>5, <2>2
    DEF LookUp, Goto, peerVars, schedVars, workVars, Advances, Working, Critical
  <2>3. CASE slot[Head1(l).hook] # Head1(l).tok
    <3>1. batch[l] # <<>>
      BY <1>1, <1>5 DEF HeadInv, LookUp, Critical
    <3> QED
      BY <1>2, <1>5, <2>1, <2>3, <3>1
      DEF LookUp, Drop, peerVars, schedVars, workVars, Passes
  <2> QED
    BY Zenon, <2>2, <2>3
<1>6. CASE TimerDelete(l) \/ TimerSync(l)
  BY <1>2, <1>6
  DEF TimerDelete, TimerSync, Goto, peerVars, schedVars, workVars, Advances, Working,
      Critical
<1>7. CASE WriteSlot(l)
  <2>1. CASE Head1(l).op = "Arm"
    BY <1>2, <1>7, <2>1
    DEF WriteSlot, Goto, peerVars, schedVars, workVars, Writes, Working, Critical
  <2>2. CASE Head1(l).op = "Cancel"
    <3>1. batch[l] # <<>> /\ Head1(l).tok # NoToken
      BY <1>1, <1>7 DEF HeadInv, WriteSlot, Critical
    <3> QED
      BY Zenon, <1>2, <1>7, <2>2, <3>1
      DEF WriteSlot, Drop, peerVars, schedVars, workVars, Passes
  <2> QED
    BY Zenon, <1>7, <2>1, <2>2 DEF WriteSlot
<1>8. CASE ModTimer(l)
  <2>1. batch[l] # <<>> /\ Head1(l).op = "Arm" /\ slot[Head1(l).hook] = Head1(l).tok
    BY Zenon, <1>1, <1>8 DEF HeadInv, OwnerKnows, ModTimer, Critical
  <2> QED
    BY Zenon, <1>2, <1>8, <2>1
    DEF ModTimer, Drop, peerVars, schedVars, workVars, Passes
<1>9. CASE Return(l)
  BY <1>2, <1>9
  DEF Return, Goto, peerVars, schedVars, workVars
<1> QED
  BY Zenon, <1>3, <1>4, <1>5, <1>6, <1>7, <1>8, <1>9 DEF Execute

(* The effects a lane has left were there before. *)
LEMMA EffectsRemain ==
  ASSUME TypeOK, NEW l \in Lanes, batch' = batch \/ Passes(l), NEW k \in Lanes
  PROVE  \A i \in 1..Len(batch'[k]) :
           \E j \in 1..Len(batch[k]) : batch'[k][i] = batch[k][j]
<1>1. CASE batch'[k] = batch[k]
  BY Zenon, <1>1
<1>2. CASE k = l /\ Passes(l)
  <2>1. batch[k] \in Seq(Effect) /\ batch[k] # <<>> /\ batch'[k] = Tail(batch[k])
    BY Zenon, <1>2 DEF Passes, TypeOK
  <2> QED
    BY Zenon, <2>1, TailFrom
<1> QED
  BY Zenon, <1>1, <1>2 DEF Passes, TypeOK


(* The effect executor loses no armed timer: it drops an arm only when the *)
(* token is stale or in the schedule, a cancel never has the coordinator's *)
(* token, and what the only arming lane writes over a slot is that token.  *)
LEMMA ExecuteKeeps ==
  ASSUME Inv, LossInv, TypeOK', NEW l \in Lanes, Execute(l)
  PROVE  LossInv'
<1>1. TypeOK /\ HeadInv /\ TokensIssued /\ OwnersPast /\ RestingInv /\ EffectsInv
      /\ ArmingInv /\ ArmedTimerNotLost
  BY Zenon DEF Inv, LossInv
<1>2. /\ act' = act /\ lastAct' = lastAct /\ seq' = seq /\ lastGen' = lastGen
      /\ coord' = coord /\ held' = held /\ queued' = queued /\ workHook' = workHook
      /\ pc[l] \notin {"idle", "take", "deliver"}
      /\ \A k \in Lanes : k # l => pc'[k] = pc[k] /\ batch'[k] = batch[k]
      /\ \/ Advances(l) \/ Writes(l) \/ Passes(l)
         \/ /\ batch' = batch /\ slot' = slot /\ pc'[l] = "idle"
            /\ batch[l] = <<>> /\ l # TimerLane
  BY Zenon, ExecuteShape
<1>3. ASSUME NEW k \in Lanes, NEW i \in 1..Len(batch'[k])
      PROVE  \E j \in 1..Len(batch[k]) : batch'[k][i] = batch[k][j]
  BY Zenon, <1>1, <1>2, EffectsRemain DEF Advances, Writes
<1>4. ASSUME NEW k \in Lanes, batch[k] # <<>>
      PROVE  Head1(k) = batch[k][1] /\ 1 \in 1..Len(batch[k]) /\ Head1(k) \in Effect
  <2>1. batch[k] \in Seq(Effect)
    BY Zenon, <1>1 DEF TypeOK
  <2> QED
    BY <1>4, <2>1 DEF Head1
<1>5. Working(l) => batch[l] # <<>>
  BY Zenon, <1>1 DEF HeadInv, Working
<1>6. ASSUME NEW h \in Hooks
      PROVE  \/ slot'[h] \in {slot[h], NoToken}
             \/ Writes(l) /\ Head1(l).hook = h /\ slot'[h] = Head1(l).tok
  <2>1. slot \in [Hooks -> Token]
    BY Zenon, <1>1 DEF TypeOK
  <2>2. CASE Writes(l)
    BY <2>1, <2>2 DEF Writes
  <2>3. CASE Passes(l)
    BY Zenon, <2>1, <2>3 DEF Passes
  <2> QED
    BY Zenon, <1>2, <2>2, <2>3 DEF Advances
<1>7. TokensIssued'
  <2>1. ASSUME NEW h \in Hooks PROVE slot'[h].gen <= lastGen
    <3>1. NoToken.gen <= lastGen
      BY <1>1 DEF NoToken, TypeOK
    <3>2. slot[h].gen <= lastGen
      BY Zenon, <1>1 DEF TokensIssued
    <3>3. Writes(l) => Head1(l).tok.gen <= lastGen
      BY Zenon, <1>1, <1>4, <1>5 DEF TokensIssued, Writes
    <3> QED
      BY Zenon, <1>6, <3>1, <3>2, <3>3
  <2>2. ASSUME NEW k \in Lanes, NEW i \in 1..Len(batch'[k])
        PROVE  batch'[k][i].tok.gen <= lastGen
    BY Zenon, <1>1, <1>3 DEF TokensIssued
  <2> QED
    BY Zenon, <1>1, <1>2, <2>1, <2>2 DEF TokensIssued
<1>8. OwnersPast'
  BY Zenon, <1>1, <1>2 DEF OwnersPast
<1>9. RestingInv'
  <2>1. ASSUME NEW k \in Lanes, pc'[k] \in {"idle", "take", "deliver"}
        PROVE  batch'[k] = <<>>
    <3>1. CASE k # l
      BY Zenon, <1>1, <1>2, <2>1, <3>1 DEF RestingInv
    <3>2. CASE k = l
      <4>1. ~Working(l)' /\ pc'[l] # "run"
        BY <2>1, <3>2 DEF Working, Critical
      <4> QED
        BY Zenon, <1>2, <3>2, <4>1 DEF Advances, Writes, Passes
    <3> QED
      BY Zenon, <3>1, <3>2
  <2>2. pc'[TimerLane] # "deliver" => held' = NoToken
    BY Zenon, <1>1, <1>2, TimerConstants DEF RestingInv
  <2> QED
    BY Zenon, <2>1, <2>2 DEF RestingInv
<1>10. EffectsInv'
  <2> SUFFICES ASSUME NEW k \in Lanes, NEW i \in 1..Len(batch'[k])
               PROVE  /\ batch'[k][i].op = "Arm" => k \in ArmLanes[batch'[k][i].hook]
                      /\ batch'[k][i].op = "Cancel" /\ batch'[k][i].tok # NoToken
                            => batch'[k][i].tok # coord[batch'[k][i].hook]
    BY Zenon, <1>2 DEF EffectsInv
  <2>1. PICK j \in 1..Len(batch[k]) : batch'[k][i] = batch[k][j]
    BY Zenon, <1>3
  <2> QED
    BY Zenon, <1>1, <2>1 DEF EffectsInv
<1>11. ArmingInv'
  <2> SUFFICES ASSUME NEW h \in Hooks, SingleArmer(h)
               PROVE  /\ \A k \in Lanes : Arming(k, h)' => coord[h] \in {Head(batch'[k]).tok, NoToken}
                      /\ coord[h] # NoToken
                         /\ (queued[h] = coord[h] \/ (workHook = h /\ held = coord[h]))
                            => slot'[h] \in {NoToken, coord[h]}
    BY Zenon, <1>2 DEF ArmingInv, Head1, SingleArmer
  <2>1. ASSUME NEW k \in Lanes, Arming(k, h)
        PROVE  coord[h] \in {Head(batch[k]).tok, NoToken}
    BY Zenon, <1>1, <2>1 DEF ArmingInv, Head1
  <2>2. ASSUME NEW k \in Lanes, Arming(k, h)'
        PROVE  coord[h] \in {Head(batch'[k]).tok, NoToken}
    <3>1. CASE k # l
      <4>1. batch'[k] = batch[k] /\ Arming(k, h)
        BY Zenon, <1>2, <2>2, <3>1 DEF Arming, Head1
      <4> QED
        BY Zenon, <2>1, <4>1
    <3>2. CASE k = l
      <4>1. Working(l)' /\ pc'[l] # "run" /\ pc'[l] # "idle"
        BY <2>2, <3>2 DEF Arming, Working, Critical
      <4>2. batch' = batch /\ (Advances(l) \/ Writes(l))
        BY Zenon, <1>2, <4>1 DEF Advances, Writes, Passes
      <4>3. Head1(l).op = "Arm" /\ Head1(l).hook = h
        BY Zenon, <2>2, <3>2, <4>2 DEF Arming, Head1
      <4>4. CASE Working(l)
        BY Zenon, <2>1, <3>2, <4>2, <4>3, <4>4 DEF Arming, Working
      <4>5. CASE ~Working(l)
        BY Zenon, <3>2, <4>2, <4>3, <4>5 DEF Advances, Writes, IsCurrent, Head1
      <4> QED
        BY Zenon, <4>4, <4>5
    <3> QED
      BY Zenon, <3>1, <3>2
  <2>3. ASSUME coord[h] # NoToken,
               queued[h] = coord[h] \/ (workHook = h /\ held = coord[h])
        PROVE  slot'[h] \in {NoToken, coord[h]}
    <3>1. slot[h] \in {NoToken, coord[h]}
      BY Zenon, <1>1, <2>3 DEF ArmingInv
    <3>2. Writes(l) /\ Head1(l).hook = h => coord[h] = Head1(l).tok
      BY Zenon, <2>1, <2>3 DEF Writes, Working, Arming, Head1
    <3> QED
      BY Zenon, <1>6, <3>1, <3>2
  <2> QED
    BY Zenon, <2>2, <2>3
<1>12. ArmedTimerNotLost'
  <2> SUFFICES ASSUME NEW h \in Hooks, SingleArmer(h), IsCurrent(h, coord[h])
               PROVE  InFlight(h, coord[h])'
    BY Zenon, <1>2 DEF ArmedTimerNotLost, SingleArmer, IsCurrent, OwnerSequence
  <2>1. InFlight(h, coord[h]) /\ coord[h] # NoToken
    BY Zenon, <1>1 DEF ArmedTimerNotLost, IsCurrent
  <2>2. ASSUME queued[h] = coord[h] \/ (workHook = h /\ held = coord[h])
        PROVE  InFlight(h, coord[h])'
    BY Zenon, <1>2, <2>2 DEF InFlight
  <2>3. ASSUME slot[h] = coord[h]
        PROVE  InFlight(h, coord[h])'
    <3>1. slot'[h] = coord[h]
      <4>1. CASE Writes(l)
        <5>1. Head1(l).hook = h => coord[h] = Head1(l).tok
          BY Zenon, <1>1, <2>1, <4>1 DEF ArmingInv, Writes, Working, Arming
        <5> QED
          BY Zenon, <1>1, <2>3, <4>1, <5>1 DEF Writes, TypeOK
      <4>2. CASE Passes(l)
        <5>1. Head1(l).op = "Cancel" /\ Head1(l).tok # NoToken
                => Head1(l).tok # coord[Head1(l).hook]
          BY Zenon, <1>1, <1>4, <4>2 DEF EffectsInv, Passes
        <5> QED
          BY <1>1, <2>3, <4>2, <5>1 DEF Passes, TypeOK
      <4> QED
        BY Zenon, <1>2, <2>3, <4>1, <4>2 DEF Advances
    <3> QED
      BY Zenon, <1>2, <3>1 DEF InFlight
  <2>4. ASSUME NEW k \in Lanes, NEW i \in 1..Len(batch[k]),
               batch[k][i] = [op |-> "Arm", hook |-> h, tok |-> coord[h]]
        PROVE  InFlight(h, coord[h])'
    <3>1. CASE batch'[k] = batch[k]
      BY Zenon, <1>2, <2>4, <3>1 DEF InFlight
    <3>2. CASE k = l /\ Passes(l)
      <4>1. batch[k] \in Seq(Effect) /\ batch[k] # <<>> /\ batch'[k] = Tail(batch[k])
        BY Zenon, <1>1, <3>2 DEF Passes, TypeOK
      <4>2. Head1(k) = batch[k][1]
        BY Zenon, <1>4, <4>1
      <4>3. CASE i = 1
        <5>1. Head1(l) = [op |-> "Arm", hook |-> h, tok |-> coord[h]]
          BY Zenon, <2>4, <3>2, <4>2, <4>3
        <5>2. Head1(l).op = "Arm" /\ Head1(l).hook = h /\ Head1(l).tok = coord[h]
          BY Zenon, <5>1, EffectFields
        <5> QED
          BY Zenon, <1>2, <3>2, <5>2 DEF Passes, InFlight
      <4>4. CASE i # 1
        <5>1. i \in 2..Len(batch[k])
          BY <4>1, <4>4
        <5>2. i - 1 \in 1..Len(batch'[k]) /\ batch'[k][i - 1] = batch[k][i]
          BY Zenon, <4>1, <5>1, TailFacts
        <5> QED
          BY Zenon, <1>2, <2>4, <5>2 DEF InFlight
      <4> QED
        BY Zenon, <4>3, <4>4
    <3> QED
      BY Zenon, <1>2, <3>1, <3>2 DEF Advances, Writes
  <2> QED
    BY Zenon, <2>1, <2>2, <2>3, <2>4 DEF InFlight
<1> QED
  BY Zenon, <1>7, <1>8, <1>9, <1>10, <1>11, <1>12 DEF LossInv


(* A step that leaves the coordinator, the effects and the schedule alone. *)
LEMMA OthersKeep ==
  ASSUME Inv, LossInv, UNCHANGED <<act, lastAct, seq, lastGen, coord, batch, slot, queued>>,
         \/ UNCHANGED <<pc, held, workHook>>
         \/ /\ \A l \in Lanes : l # TimerLane => pc'[l] = pc[l]
            /\ pc'[TimerLane] # "deliver" /\ batch[TimerLane] = <<>> /\ held' = NoToken
            /\ ~Working(TimerLane)'
            /\ \A h \in Hooks : workHook = h /\ IsCurrent(h, held) => held' = held
  PROVE  LossInv'
<1>1. TypeOK /\ TokensIssued /\ OwnersPast /\ RestingInv /\ EffectsInv
      /\ ArmingInv /\ ArmedTimerNotLost
  BY Zenon DEF Inv, LossInv
<1>2. held' \in {held, NoToken} /\ NoToken.gen <= lastGen
  BY <1>1 DEF NoToken, TypeOK
<1>3. TokensIssued'
  BY Zenon, <1>1, <1>2 DEF TokensIssued
<1>4. OwnersPast' /\ EffectsInv'
  BY Zenon, <1>1 DEF OwnersPast, EffectsInv
<1>5. RestingInv'
  BY Zenon, <1>1, TimerConstants DEF RestingInv
<1>6. ArmingInv'
  <2> SUFFICES ASSUME NEW h \in Hooks, SingleArmer(h)
               PROVE  /\ \A k \in Lanes : Arming(k, h)' => coord[h] \in {Head1(k).tok, NoToken}
                      /\ coord[h] # NoToken
                         /\ (queued[h] = coord[h] \/ (workHook' = h /\ held' = coord[h]))
                            => slot[h] \in {NoToken, coord[h]}
    BY Zenon DEF ArmingInv, Head1, SingleArmer
  <2>1. ASSUME NEW k \in Lanes, Arming(k, h)' PROVE Arming(k, h)
    BY Zenon, <2>1 DEF Arming, Working, Head1
  <2> QED
    BY Zenon, <1>1, <2>1 DEF ArmingInv
<1>7. ArmedTimerNotLost'
  BY Zenon, <1>1 DEF ArmedTimerNotLost, SingleArmer, IsCurrent, OwnerSequence, InFlight
<1> QED
  BY Zenon, <1>3, <1>4, <1>5, <1>6, <1>7 DEF LossInv

(* A new activation or handshake sequence makes tokens stale; it makes     *)
(* none current.                                                           *)
LEMMA OwnersKeep ==
  ASSUME Inv, LossInv, TypeOK', Activate \/ \E l \in Lanes : BeginRetry(l)
  PROVE  LossInv'
<1>1. TypeOK /\ TokensIssued /\ OwnersPast /\ RestingInv /\ EffectsInv
      /\ ArmingInv /\ ArmedTimerNotLost
  BY Zenon DEF Inv, LossInv
<1>2. UNCHANGED <<lastGen, coord, batch, pc, held, slot, queued, workHook>>
  BY Zenon DEF Activate, BeginRetry, schedVars, workVars
<1>3. TokensIssued' /\ RestingInv' /\ EffectsInv'
  BY Zenon, <1>1, <1>2 DEF TokensIssued, RestingInv, EffectsInv
<1>4. ArmingInv'
  BY Zenon, <1>1, <1>2 DEF ArmingInv, Arming, Head1, SingleArmer
<1>5. \/ act' = lastAct + 1 /\ lastAct' = lastAct + 1 /\ seq' = seq
      \/ act' = act /\ lastAct' = lastAct /\ seq' = seq + 1
  BY Zenon DEF Activate, BeginRetry
<1>6. \A h \in Hooks : coord[h].act \in Nat /\ coord[h].seq \in Nat
  BY Zenon, <1>1 DEF TypeOK, Token
<1>7. act \in Nat /\ lastAct \in Nat /\ seq \in Nat
  BY Zenon, <1>1 DEF TypeOK
<1>8. OwnersPast'
  <2>1. act' <= lastAct'
    BY <1>1, <1>5, <1>7 DEF OwnersPast
  <2>2. ASSUME NEW h \in Hooks PROVE coord[h].act <= lastAct' /\ coord[h].seq <= seq'
    <3>1. coord[h].act <= lastAct /\ coord[h].seq <= seq
      BY Zenon, <1>1 DEF OwnersPast
    <3> QED
      BY <1>5, <1>6, <1>7, <3>1
  <2> QED
    BY Zenon, <1>2, <2>1, <2>2 DEF OwnersPast
<1>9. ArmedTimerNotLost'
  <2> SUFFICES ASSUME NEW h \in Hooks, SingleArmer(h), IsCurrent(h, coord[h])'
               PROVE  InFlight(h, coord[h])
    BY Zenon, <1>2 DEF ArmedTimerNotLost, SingleArmer, InFlight
  <2>1. coord[h] # NoToken /\ coord[h].act = act'
        /\ coord[h].seq = IF h \in SequencedHooks THEN seq' ELSE 0
    BY Zenon, <1>2 DEF IsCurrent, OwnerSequence
  <2>2. coord[h].act <= lastAct /\ coord[h].seq <= seq
    BY Zenon, <1>1 DEF OwnersPast
  <2>3. act' = act /\ coord[h].seq = OwnerSequence(h)
    BY <1>5, <1>6, <1>7, <2>1, <2>2 DEF OwnerSequence
  <2> QED
    BY Zenon, <1>1, <2>1, <2>3 DEF ArmedTimerNotLost, IsCurrent
<1> QED
  BY Zenon, <1>3, <1>4, <1>8, <1>9 DEF LossInv

(* CaptureExpiration moves the armed token on; a delivery that it replaces *)
(* was for the same token or for none the coordinator has.                 *)
LEMMA CaptureKeeps ==
  ASSUME Inv, LossInv, Capture
  PROVE  LossInv'
<1>1. TypeOK /\ CallbackInv /\ TokensIssued /\ OwnersPast /\ RestingInv /\ EffectsInv
      /\ ArmingInv /\ ArmedTimerNotLost
  BY Zenon DEF Inv, LossInv
<1>2. /\ UNCHANGED <<act, lastAct, seq, lastGen, coord, batch, pc, held, workHook>>
      /\ cb.stage = "capture"
      /\ \/ UNCHANGED <<slot, queued>>
         \/ /\ slot[cb.hook] # NoToken
            /\ queued' = [queued EXCEPT ![cb.hook] = slot[cb.hook]]
            /\ slot' = [slot EXCEPT ![cb.hook] = NoToken]
  BY Zenon DEF Capture, peerVars, workVars
<1>3. cb.hook \in Hooks
  BY Zenon, <1>1, <1>2 DEF CallbackInv
<1>4. CASE UNCHANGED <<slot, queued>>
  BY Zenon, <1>2, <1>4, OthersKeep
<1>5. CASE /\ slot[cb.hook] # NoToken
           /\ queued' = [queued EXCEPT ![cb.hook] = slot[cb.hook]]
           /\ slot' = [slot EXCEPT ![cb.hook] = NoToken]
  <2>1. ASSUME NEW h \in Hooks
        PROVE  \/ h # cb.hook /\ slot'[h] = slot[h] /\ queued'[h] = queued[h]
               \/ h = cb.hook /\ slot'[h] = NoToken /\ queued'[h] = slot[h]
                  /\ slot[h] # NoToken
    BY Zenon, <1>1, <1>5 DEF TypeOK
  <2>2. NoToken.gen <= lastGen
    BY <1>1 DEF NoToken, TypeOK
  <2>3. TokensIssued'
    BY Zenon, <1>1, <1>2, <2>1, <2>2 DEF TokensIssued
  <2>4. OwnersPast' /\ EffectsInv' /\ RestingInv'
    BY Zenon, <1>1, <1>2 DEF OwnersPast, EffectsInv, RestingInv
  <2>5. ArmingInv'
    <3>1. \A h \in Hooks, l \in Lanes : Arming(l, h)' <=> Arming(l, h)
      BY Zenon, <1>2 DEF Arming, Head1
    <3> QED
      BY Zenon, <1>1, <1>2, <2>1, <3>1 DEF ArmingInv, SingleArmer, Head1
  <2>6. ArmedTimerNotLost'
    <3> SUFFICES ASSUME NEW h \in Hooks, SingleArmer(h), IsCurrent(h, coord[h])
                 PROVE  InFlight(h, coord[h])'
      BY Zenon, <1>2 DEF ArmedTimerNotLost, SingleArmer, IsCurrent, OwnerSequence
    <3>1. InFlight(h, coord[h]) /\ coord[h] # NoToken
      BY Zenon, <1>1 DEF ArmedTimerNotLost, IsCurrent
    <3>2. queued[h] = coord[h] => slot[h] \in {NoToken, coord[h]}
      BY Zenon, <1>1, <3>1 DEF ArmingInv
    <3> QED
      BY Zenon, <1>2, <2>1, <3>1, <3>2 DEF InFlight
  <2> QED
    BY Zenon, <2>3, <2>4, <2>5, <2>6 DEF LossInv
<1> QED
  BY Zenon, <1>2, <1>4, <1>5

(* Taking a delivery moves its token to the timer lane, which held none.   *)
LEMMA TakeKeeps ==
  ASSUME Inv, LossInv, TakeDelivery
  PROVE  LossInv'
<1>1. TypeOK /\ WorkInv /\ TokensIssued /\ OwnersPast /\ RestingInv /\ EffectsInv
      /\ ArmingInv /\ ArmedTimerNotLost
  BY Zenon DEF Inv, LossInv
<1>2. /\ UNCHANGED <<act, lastAct, seq, lastGen, coord, batch, slot, workHook>>
      /\ pc[TimerLane] = "take" /\ held' = queued[workHook]
      /\ queued' = [queued EXCEPT ![workHook] = NoToken]
      /\ pc' = [pc EXCEPT ![TimerLane] =
                  IF queued[workHook] = NoToken THEN "run" ELSE "deliver"]
  BY Zenon DEF TakeDelivery, peerVars, schedVars, workVars
<1>3. workHook \in Hooks
  BY Zenon, <1>1, <1>2 DEF WorkInv, TypeOK
<1>4. held = NoToken /\ TimerLane \in Lanes /\ batch[TimerLane] = <<>>
  BY Zenon, <1>1, <1>2, TimerConstants DEF RestingInv
<1>5. /\ \A l \in Lanes : l # TimerLane => pc'[l] = pc[l]
      /\ pc'[TimerLane] = IF queued[workHook] = NoToken THEN "run" ELSE "deliver"
  BY Zenon, <1>1, <1>2, <1>4 DEF TypeOK
<1>6. ASSUME NEW h \in Hooks
      PROVE  \/ h # workHook /\ queued'[h] = queued[h]
             \/ h = workHook /\ queued'[h] = NoToken /\ held' = queued[h]
  BY Zenon, <1>1, <1>2 DEF TypeOK
<1>7. NoToken.gen <= lastGen
  BY <1>1 DEF NoToken, TypeOK
<1>8. TokensIssued'
  BY Zenon, <1>1, <1>2, <1>3, <1>6, <1>7 DEF TokensIssued
<1>9. OwnersPast' /\ EffectsInv'
  BY Zenon, <1>1, <1>2 DEF OwnersPast, EffectsInv
<1>10. RestingInv'
  BY Zenon, <1>1, <1>2, <1>4, <1>5 DEF RestingInv
<1>11. ArmingInv'
  <2>1. ASSUME NEW h \in Hooks, NEW l \in Lanes, Arming(l, h)' PROVE Arming(l, h)
    <3>1. l # TimerLane
      BY Zenon, <1>5, <2>1 DEF Arming, Critical
    <3> QED
      BY Zenon, <1>2, <1>5, <2>1, <3>1 DEF Arming, Head1
  <2> QED
    BY Zenon, <1>1, <1>2, <1>6, <2>1 DEF ArmingInv, SingleArmer, Head1
<1>12. ArmedTimerNotLost'
  <2> SUFFICES ASSUME NEW h \in Hooks, SingleArmer(h), IsCurrent(h, coord[h])
               PROVE  InFlight(h, coord[h])'
    BY Zenon, <1>2 DEF ArmedTimerNotLost, SingleArmer, IsCurrent, OwnerSequence
  <2>1. InFlight(h, coord[h]) /\ coord[h] # NoToken
    BY Zenon, <1>1 DEF ArmedTimerNotLost, IsCurrent
  <2> QED
    BY Zenon, <1>2, <1>4, <1>6, <2>1 DEF InFlight
<1> QED
  BY Zenon, <1>8, <1>9, <1>10, <1>11, <1>12 DEF LossInv

(* The rest of the timer thread and of the timer workqueue. *)
LEMMA WorkKeeps ==
  ASSUME Inv, LossInv,
         \/ \E h \in Hooks : Expire(h)
         \/ QueueTimerWork \/ CallbackReturn \/ Dequeue \/ IgnoreStaleExpiry \/ FinishWork
         \/ UNCHANGED vars
  PROVE  LossInv'
<1>1. TypeOK /\ RestingInv
  BY Zenon DEF Inv, LossInv
<1>2. TimerLane \in Lanes
  BY TimerConstants
<1>3. pc \in [Lanes -> {"idle", "take", "deliver", "run", "lock", "lookup",
                        "delete", "sync", "write", "start"}]
  BY Zenon, <1>1 DEF TypeOK
<1>4. CASE (\E h \in Hooks : Expire(h)) \/ QueueTimerWork \/ CallbackReturn \/ UNCHANGED vars
  <2>1. UNCHANGED <<act, lastAct, seq, lastGen, coord, batch, slot, queued, pc, held, workHook>>
    BY Zenon, <1>4 DEF Expire, QueueTimerWork, CallbackReturn, vars, peerVars, schedVars, workVars
  <2> QED
    BY Zenon, <2>1, OthersKeep
<1>5. CASE Dequeue \/ IgnoreStaleExpiry \/ FinishWork
  <2>1. UNCHANGED <<act, lastAct, seq, lastGen, coord, batch, slot, queued>>
    BY Zenon, <1>5 DEF Dequeue, IgnoreStaleExpiry, FinishWork, Goto, peerVars, schedVars, workVars
  <2>2. /\ \A l \in Lanes : l # TimerLane => pc'[l] = pc[l]
        /\ pc'[TimerLane] \in {"take", "run", "idle"}
    BY Zenon, <1>2, <1>3, <1>5 DEF Dequeue, IgnoreStaleExpiry, FinishWork, Goto
  <2>3. pc'[TimerLane] # "deliver" /\ ~Working(TimerLane)'
    BY <2>2 DEF Working, Critical
  <2>4. batch[TimerLane] = <<>>
    BY Zenon, <1>1, <1>2, <1>5 DEF RestingInv, Dequeue, IgnoreStaleExpiry, FinishWork
  <2>5. held' = NoToken /\ \A h \in Hooks : workHook = h /\ IsCurrent(h, held) => held' = held
    <3>1. CASE Dequeue \/ FinishWork
      <4>1. held' = held /\ pc[TimerLane] # "deliver"
        BY <3>1 DEF Dequeue, FinishWork
      <4> QED
        BY Zenon, <1>1, <4>1 DEF RestingInv
    <3>2. CASE IgnoreStaleExpiry
      BY Zenon, <3>2 DEF IgnoreStaleExpiry
    <3> QED
      BY Zenon, <1>5, <3>1, <3>2
  <2> QED
    BY Zenon, <2>1, <2>2, <2>3, <2>4, <2>5, OthersKeep
<1> QED
  BY Zenon, <1>4, <1>5


-----------------------------------------------------------------------------
(* The inductive invariant holds throughout. *)
THEOREM Invariance == Spec => []Inv
  BY InitInv, NextInv, PTL DEF Spec

(* Coordinator, schedule, timers, batches and queues keep their types,     *)
(* whatever the lanes do.                                                  *)
THEOREM TypeCorrect == Spec => []TypeOK
<1>1. Inv => TypeOK
  BY Zenon DEF Inv
<1> QED
  BY Invariance, <1>1, PTL

(* timer_delete_sync before TimerSchedule::Arm is enough: the callback of  *)
(* an expired timer never captures the token of a later arm.               *)
THEOREM ExpiryCapture == Spec => []ExpiryCapturesOwnArm
<1>1. Inv => ExpiryCapturesOwnArm
  BY DEF Inv
<1> QED
  BY Invariance, <1>1, PTL

(* A slot of TimerSchedule is never left armed without a timer behind it.  *)
THEOREM SlotBacking == Spec => []SlotIsBacked
<1>1. Inv => SlotIsBacked
  BY DEF Inv
<1> QED
  BY Invariance, <1>1, PTL

(* The single rerun of a running work item is enough: no captured expiry   *)
(* is left without a run of RunTimerWork to take it.                       *)
THEOREM NoDeliveryLost == Spec => []QueuedHasWork
<1>1. Inv => QueuedHasWork
  BY Zenon DEF Inv
<1> QED
  BY Invariance, <1>1, PTL

(* CancelProtocolTimer(token) stops the timer and clears the slot of no    *)
(* other token, however late it is executed.                               *)
THEOREM CancelIsPrecise == Spec => CancelKeepsNewer
<1>1. ASSUME Inv, [Next]_vars,
             NEW l \in Lanes, pc[l] \in {"delete", "write"}, Head1(l).op = "Cancel",
             NEW h \in Hooks, cb' = cb
      PROVE  /\ timer'[h] = NoToken => timer[h] \in {NoToken, Head1(l).tok}
             /\ slot'[h] = NoToken => slot[h] \in {NoToken, Head1(l).tok}
  <2>1. \A k \in Lanes : k # l => pc[k] \notin Critical
    BY Zenon, <1>1 DEF Inv, OwnerInv, Critical
  <2>2. slot[Head1(l).hook] \in {Head1(l).tok, NoToken}
    BY <1>1 DEF Inv, OwnerKnows
  <2>3. timer[h] # NoToken => slot[h] = timer[h]
    BY Zenon, <1>1 DEF Inv, TimerInv
  <2>4. h = Head1(l).hook \/ (timer'[h] = timer[h] /\ slot'[h] = slot[h])
    <3>1. \A g \in Hooks : ~Expire(g)
      BY <1>1 DEF Expire, Inv, TypeOK
    <3>2. ~Capture
      BY Zenon, <1>1 DEF Capture, Inv, TypeOK
    <3>3. CASE QueueTimerWork \/ CallbackReturn \/ UNCHANGED vars
      BY Zenon, <3>3 DEF QueueTimerWork, CallbackReturn, vars, schedVars
    <3>4. CASE \/ Activate \/ Deactivate \/ TimerWork
               \/ \E k \in Lanes : PeerEvent(k) \/ BeginRetry(k) \/ EnterActivationError(k)
      BY Zenon, <1>1, <3>4, QuietActions DEF TimerWork, Inv, schedVars
    <3>5. ASSUME NEW k \in Lanes, Execute(k) PROVE <2>4!:
      <4>1. CASE k = l
        BY Zenon, <1>1, <3>5, <4>1 DEF Execute, Revalidate, Lock, LookUp, TimerDelete, TimerSync,
           WriteSlot, ModTimer, Return, Inv, TypeOK, schedVars
      <4>2. CASE k # l
        BY Zenon, <2>1, <3>5, <4>2 DEF Execute, Revalidate, Lock, LookUp, TimerDelete, TimerSync,
           WriteSlot, ModTimer, Return, Critical, schedVars
      <4> QED
        BY <4>1, <4>2
    <3> QED
      BY Zenon, <1>1, <3>1, <3>2, <3>3, <3>4, <3>5 DEF Next, TimerThread
  <2> QED
    BY Zenon, <2>2, <2>3, <2>4
<1>2. Inv /\ [Next]_vars => [CancelDisarmsOwn]_vars
  BY Zenon, <1>1 DEF CancelDisarmsOwn
<1> QED
  BY Invariance, <1>2, PTL DEF Spec, CancelKeepsNewer


(* Every step keeps what the loss argument needs. *)
LEMMA NextLossInv == Inv /\ Inv' /\ LossInv /\ [Next]_vars => LossInv'
<1> SUFFICES ASSUME Inv, Inv', LossInv, [Next]_vars PROVE LossInv'
  BY Zenon
<1>1. TypeOK'
  BY Zenon DEF Inv
<1>2. CASE Activate \/ \E l \in Lanes : BeginRetry(l)
  BY Zenon, <1>1, <1>2, OwnersKeep
<1>3. CASE Deactivate
  BY Zenon, <1>1, <1>3, DeactivateKeeps
<1>4. CASE \E l \in Lanes : PeerEvent(l) \/ EnterActivationError(l)
  BY Zenon, <1>1, <1>4, EventsKeep
<1>5. CASE \E l \in Lanes : Execute(l)
  BY Zenon, <1>1, <1>5, ExecuteKeeps
<1>6. CASE Capture
  BY Zenon, <1>6, CaptureKeeps
<1>7. CASE TakeDelivery
  BY Zenon, <1>7, TakeKeeps
<1>8. CASE DeliverExpiry
  BY Zenon, <1>1, <1>8, DeliverKeeps
<1>9. CASE \/ \E h \in Hooks : Expire(h)
           \/ QueueTimerWork \/ CallbackReturn \/ Dequeue \/ IgnoreStaleExpiry
           \/ FinishWork \/ UNCHANGED vars
  BY Zenon, <1>9, WorkKeeps
<1> QED
  BY Zenon, <1>2, <1>3, <1>4, <1>5, <1>6, <1>7, <1>8, <1>9
  DEF Next, TimerThread, TimerWork

(* Nothing is armed at first. *)
LEMMA InitLossInv == Init => LossInv
<1> SUFFICES ASSUME Init PROVE LossInv
  OBVIOUS
<1>1. /\ act = 0 /\ lastAct = 0 /\ seq = 0 /\ lastGen = 0 /\ held = NoToken
      /\ \A h \in Hooks : coord[h] = NoToken /\ slot[h] = NoToken /\ queued[h] = NoToken
      /\ \A l \in Lanes : batch[l] = <<>> /\ pc[l] = "idle"
  BY Zenon DEF Init
<1>2. NoToken.gen = 0 /\ NoToken.act = 0 /\ NoToken.seq = 0 /\ 0 <= 0
      /\ Len(<<>>) = 0 /\ 1..0 = {}
  BY DEF NoToken
<1>3. TokensIssued /\ OwnersPast /\ RestingInv /\ EffectsInv
  BY Zenon, <1>1, <1>2 DEF TokensIssued, OwnersPast, RestingInv, EffectsInv
<1>4. ArmingInv
  <2>1. \A l \in Lanes, h \in Hooks : ~Arming(l, h)
    BY <1>1 DEF Arming, Critical
  <2> QED
    BY Zenon, <1>1, <2>1 DEF ArmingInv
<1>5. ArmedTimerNotLost
  BY Zenon, <1>1 DEF ArmedTimerNotLost, IsCurrent
<1> QED
  BY Zenon, <1>3, <1>4, <1>5 DEF LossInv

(* A timer the peer believes to be armed is never lost between the peer,   *)
(* the executor's re-check, TimerScheduler, the timer thread and the timer *)
(* workqueue, for every hook that a single lane arms: whatever cancels,    *)
(* expiries, retries and activations come in between, its token is in an   *)
(* unexecuted Arm, in the schedule or on its way back.                     *)
THEOREM ArmedTimersStay == Spec => []ArmedTimerNotLost
<1>1. LossInv => ArmedTimerNotLost
  BY Zenon DEF LossInv
<1> QED
  BY Invariance, InitLossInv, NextLossInv, <1>1, PTL DEF Spec
=============================================================================
