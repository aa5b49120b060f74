--------------------------- MODULE WorkQueueProofs ---------------------------
(***************************************************************************)
(* Safety of the ordered workqueue for every set of items, every set of    *)
(* callers and every capacity.                                             *)
(***************************************************************************)
EXTENDS WorkQueue, FiniteSetTheorems, TLAPS

\* A queued item has no rerun reserved, not even a dropped one.
QueuedNotRerun == \A i \in 1..Len(queue) : rerun[queue[i].work] = 0

\* Only the running item has a rerun reserved.
RerunIsRunning == ~Stopping => \A w \in Works : rerun[w] # 0 => running.work = w

\* Every ticket is accounted for: its run has ended, is in progress, is
\* queued, or is the reserved rerun.
TicketsHeld ==
  ~Stopping => \A t \in 1..issued :
    \/ t \in finished
    \/ t = running.ticket
    \/ \E i \in 1..Len(queue) : queue[i].ticket = t
    \/ \E w \in Works : rerun[w] = t

\* After a stop the count may keep a dropped rerun, never less.
PendingCovers == Len(queue) + Reserved <= pending

FlushDebts ==
  \A c \in Callers :
    /\ flush[c].debt \subseteq 1..issued
    /\ ~Stopping /\ flush[c].st = "returned" => flush[c].debt \subseteq finished

IInv ==
  /\ TypeOK
  /\ QueuedNotRerun
  /\ RerunIsRunning
  /\ TicketsHeld
  /\ PendingIsExact
  /\ PendingCovers
  /\ SleepIsJustified
  /\ FlushDebts

\* EnqueueWorkLocked: what appending at the tail does.
LEMMA AppendFacts ==
  ASSUME NEW S, NEW q \in Seq(S), NEW e \in S
  PROVE /\ Append(q, e) \in Seq(S)
        /\ Len(Append(q, e)) = Len(q) + 1
        /\ \A i \in 1..Len(q) : Append(q, e)[i] = q[i]
        /\ Append(q, e)[Len(q) + 1] = e
  OBVIOUS

\* DequeueWorkLocked: what taking the head leaves.
LEMMA TailFacts ==
  ASSUME NEW S, NEW q \in Seq(S), q # <<>>
  PROVE /\ Head(q) \in S /\ Head(q) = q[1]
        /\ Tail(q) \in Seq(S)
        /\ Len(q) \in Nat \ {0}
        /\ Len(Tail(q)) = Len(q) - 1
        /\ \A i \in 1..Len(Tail(q)) : Tail(q)[i] = q[i + 1]
  OBVIOUS

\* What classify_queue_work_request has established when it accepts.
LEMMA Accepted ==
  ASSUME IInv, NEW w \in Works, Classify(w) \in {"queued", "rerun_queued"}
  PROVE /\ ~Stopping /\ ~IsQueued(w) /\ rerun[w] = 0 /\ pending < Capacity
        /\ (Classify(w) = "rerun_queued") <=> (running.work = w)
  BY QueueConstants DEF IInv, TypeOK, Classify

\* A queue fresh from alloc_ordered_workqueue satisfies the invariant.
LEMMA InitIInv == Init => IInv
<1> SUFFICES ASSUME Init PROVE IInv OBVIOUS
<1>1. TypeOK
  <2>1. queue \in Seq(Entry) /\ running \in Entry \union {Nothing}
    BY DEF Init
  <2>2. flush \in [Callers -> [st : {"idle", "waiting", "returned"}, debt : SUBSET Nat]]
    BY Zenon DEF Init
  <2>3. rerun \in [Works -> Nat] /\ pending \in 0..Capacity /\ issued \in Nat
        /\ finished \subseteq Nat /\ stage \in {"live", "stopping", "exited"}
    BY QueueConstants DEF Init
  <2>4. rejected \in BOOLEAN /\ asleep \subseteq Callers \union {Worker}
    BY Zenon DEF Init
  <2> QED
    BY <2>1, <2>2, <2>3, <2>4 DEF TypeOK
<1>2. Len(queue) = 0 /\ Reserved = 0 /\ issued = 0
  BY DEF Init, Reserved
<1>3. QueuedNotRerun /\ RerunIsRunning /\ TicketsHeld
  BY <1>2 DEF Init, QueuedNotRerun, RerunIsRunning, TicketsHeld
<1>4. PendingIsExact /\ PendingCovers
  BY <1>2 DEF Init, PendingIsExact, PendingCovers
<1>5. FlushDebts
  BY DEF Init, FlushDebts
<1>6. SleepIsJustified
  BY DEF Init, SleepIsJustified
<1> QED
  BY <1>1, <1>3, <1>4, <1>5, <1>6 DEF IInv

\* queue_work of an item that is neither queued nor running.
LEMMA QueueNewKeeps ==
  ASSUME IInv, NEW w \in Works, QueueNew(w)
  PROVE IInv'
<1> DEFINE e == [work |-> w, ticket |-> issued + 1]
<1>1. e \in Entry /\ queue \in Seq(Entry)
  BY DEF IInv, TypeOK, Entry
<1>2. /\ queue' \in Seq(Entry) /\ Len(queue') = Len(queue) + 1
      /\ \A i \in 1..Len(queue) : queue'[i] = queue[i]
      /\ queue'[Len(queue) + 1] = e
  BY <1>1, AppendFacts DEF QueueNew
<1>3. ~Stopping /\ rerun[w] = 0 /\ pending < Capacity
  BY Zenon, Accepted DEF QueueNew
<1>4. Len(queue) \in Nat
  BY <1>1
<1> HIDE DEF e
<1>11. asleep' \subseteq Callers \union {Worker}
  BY Zenon DEF IInv, TypeOK, QueueNew, Signal
<1>5. TypeOK'
  BY <1>2, <1>3, <1>11, QueueConstants DEF IInv, TypeOK, QueueNew
<1>12. SleepIsJustified'
  <2>1. queue' # <<>>
    BY <1>2, <1>4
  <2>2. Worker \notin asleep'
    <3>1. CASE Worker \notin asleep
      BY <3>1 DEF QueueNew, Signal
    <3>2. CASE Worker \in asleep
      <4>1. asleep \intersect Callers = {}
        BY Zenon, <3>2 DEF IInv, SleepIsJustified
      <4>2. asleep = {Worker}
        BY Zenon, <4>1, <3>2 DEF IInv, TypeOK
      <4> QED
        BY Zenon, <4>2 DEF QueueNew, Signal
    <3> QED
      BY Zenon, <3>1, <3>2
  <2> QED
    BY <2>1, <2>2 DEF SleepIsJustified
<1>6. QueuedNotRerun'
  BY <1>2, <1>3, <1>4 DEF IInv, QueuedNotRerun, QueueNew, e
<1>7. RerunIsRunning'
  BY DEF IInv, RerunIsRunning, QueueNew, Stopping
<1>8. TicketsHeld'
  <2> SUFFICES ASSUME NEW t \in 1..issued'
               PROVE \/ t \in finished \/ t = running.ticket
                     \/ \E i \in 1..Len(queue') : queue'[i].ticket = t
                     \/ \E v \in Works : rerun[v] = t
    BY Zenon DEF TicketsHeld, QueueNew
  <2>1. CASE t = issued + 1
    BY <2>1, <1>2, <1>4 DEF e
  <2>2. CASE t \in 1..issued
    <3>1. \/ t \in finished \/ t = running.ticket
          \/ \E i \in 1..Len(queue) : queue[i].ticket = t
          \/ \E v \in Works : rerun[v] = t
      BY Zenon, <2>2, <1>3 DEF IInv, TicketsHeld
    <3>2. 1..Len(queue) \subseteq 1..Len(queue')
      BY <1>2, <1>4
    <3> QED
      BY Zenon, <3>1, <3>2, <1>2
  <2> QED
    BY <2>1, <2>2 DEF QueueNew, IInv, TypeOK
<1>9. PendingIsExact' /\ PendingCovers'
  BY <1>2, <1>3, <1>4 DEF IInv, TypeOK, PendingIsExact, PendingCovers, Reserved, QueueNew, Stopping
<1>10. FlushDebts'
  BY DEF IInv, TypeOK, FlushDebts, QueueNew, Stopping
<1> QED
  BY <1>5, <1>6, <1>7, <1>8, <1>9, <1>10, <1>12 DEF IInv

\* queue_work of the running item reserves its rerun.
LEMMA QueueRerunKeeps ==
  ASSUME IInv, NEW w \in Works, QueueRerun(w)
  PROVE IInv'
<1>1. ~Stopping /\ ~IsQueued(w) /\ rerun[w] = 0 /\ pending < Capacity
      /\ running.work = w
  BY Zenon, Accepted DEF QueueRerun
<1>2. rerun' \in [Works -> Nat] /\ rerun'[w] = issued + 1
      /\ \A v \in Works : v # w => rerun'[v] = rerun[v]
  BY DEF IInv, TypeOK, QueueRerun
<1>3. TypeOK'
  BY <1>1, <1>2, QueueConstants DEF IInv, TypeOK, QueueRerun
<1>4. QueuedNotRerun'
  BY <1>1, <1>2 DEF IInv, TypeOK, QueuedNotRerun, QueueRerun, IsQueued, Entry
<1>5. RerunIsRunning'
  BY <1>1, <1>2 DEF IInv, RerunIsRunning, QueueRerun, Stopping
<1>6. TicketsHeld'
  <2> SUFFICES ASSUME NEW t \in 1..issued'
               PROVE \/ t \in finished \/ t = running.ticket
                     \/ \E i \in 1..Len(queue) : queue[i].ticket = t
                     \/ \E v \in Works : rerun'[v] = t
    BY Zenon DEF TicketsHeld, QueueRerun
  <2>1. CASE t = issued + 1
    BY Zenon, <2>1, <1>2
  <2>2. CASE t \in 1..issued
    BY <2>2, <1>1, <1>2 DEF IInv, TicketsHeld
  <2> QED
    BY <2>1, <2>2 DEF QueueRerun, IInv, TypeOK
<1>7. running # Nothing
  BY <1>1, QueueConstants DEF Nothing
<1>8. Reserved = 0 /\ Reserved' = 1
  BY <1>1, <1>2, <1>7 DEF Reserved, QueueRerun, IInv, TypeOK
<1>9. PendingIsExact' /\ PendingCovers'
  <2>1. Len(queue) \in Nat /\ queue' = queue /\ pending' = pending + 1 /\ pending \in Nat
    BY QueueConstants DEF IInv, TypeOK, QueueRerun
  <2>2. pending = Len(queue) + 0
    BY Zenon, <1>1, <1>8 DEF IInv, PendingIsExact
  <2> QED
    BY <2>1, <2>2, <1>8 DEF PendingIsExact, PendingCovers
<1>10. FlushDebts'
  BY DEF IInv, TypeOK, FlushDebts, QueueRerun, Stopping
<1>11. SleepIsJustified'
  BY DEF IInv, SleepIsJustified, QueueRerun
<1> QED
  BY Zenon, <1>3, <1>4, <1>5, <1>6, <1>9, <1>10, <1>11 DEF IInv

\* The worker takes the head of the queue.
LEMMA DequeueKeeps ==
  ASSUME IInv, Dequeue
  PROVE IInv'
<1>1. queue \in Seq(Entry) /\ queue # <<>>
  BY DEF IInv, TypeOK, Dequeue
<1>2. /\ running' \in Entry /\ running' = queue[1]
      /\ queue' \in Seq(Entry) /\ Len(queue) \in Nat \ {0}
      /\ Len(queue') = Len(queue) - 1
      /\ \A i \in 1..Len(queue') : queue'[i] = queue[i + 1]
  BY <1>1, TailFacts DEF Dequeue
<1>3. Reserved = 0
  BY DEF Reserved, Dequeue
<1>4. rerun[running'.work] = 0 /\ Reserved' = 0
  BY <1>2 DEF IInv, QueuedNotRerun, Reserved, Dequeue
<1>5. pending \in 1..Capacity
  BY <1>2, <1>3 DEF IInv, TypeOK, PendingCovers
<1>6. TypeOK'
  BY <1>2, <1>5, QueueConstants DEF IInv, TypeOK, Dequeue
<1>7. QueuedNotRerun'
  BY <1>2 DEF IInv, QueuedNotRerun, Dequeue
<1>8. RerunIsRunning'
  BY Zenon, QueueConstants DEF IInv, RerunIsRunning, Dequeue, Stopping, Nothing
<1>9. TicketsHeld'
  <2> SUFFICES ASSUME ~Stopping, NEW t \in 1..issued,
                      t \notin finished, \A v \in Works : rerun[v] # t
               PROVE \/ t = running'.ticket
                     \/ \E i \in 1..Len(queue') : queue'[i].ticket = t
    BY Zenon DEF TicketsHeld, Dequeue, Stopping
  <2>1. PICK i \in 1..Len(queue) : queue[i].ticket = t
    BY DEF IInv, TypeOK, TicketsHeld, Dequeue, Nothing
  <2>2. CASE i = 1
    BY Zenon, <2>1, <2>2, <1>2
  <2>3. CASE i # 1
    <3>1. i - 1 \in 1..Len(queue') /\ queue'[i - 1] = queue[i]
      BY <2>3, <1>2
    <3> QED
      BY Zenon, <3>1, <2>1
  <2> QED
    BY Zenon, <2>2, <2>3
<1>10. PendingIsExact' /\ PendingCovers'
  <2>1. pending' = pending - 1 /\ (Stopping' <=> Stopping)
    BY DEF Dequeue, Stopping
  <2>2. (~Stopping => pending = Len(queue) + 0) /\ Len(queue) + 0 <= pending
    BY <1>3 DEF IInv, PendingIsExact, PendingCovers
  <2> QED
    BY <2>1, <2>2, <1>2, <1>4, <1>5 DEF PendingIsExact, PendingCovers
<1>11. FlushDebts'
  BY Zenon DEF IInv, FlushDebts, Dequeue, Stopping
<1>12. running' # Nothing
  BY <1>2, QueueConstants DEF Entry, Nothing
<1>13. SleepIsJustified'
  BY <1>12 DEF SleepIsJustified, Dequeue
<1> QED
  BY <1>6, <1>7, <1>8, <1>9, <1>10, <1>11, <1>13 DEF IInv

\* The worker ends a run and requeues a reserved rerun.
LEMMA FinishWorkKeeps ==
  ASSUME IInv, FinishWork
  PROVE IInv'
<1> DEFINE w == running.work
           e == [work |-> w, ticket |-> rerun[w]]
<1>1. running \in Entry /\ w \in Works /\ running # Nothing /\ running' = Nothing
  BY DEF IInv, TypeOK, FinishWork, Entry
<1>2. queue \in Seq(Entry) /\ Len(queue) \in Nat /\ rerun \in [Works -> Nat]
      /\ pending' = pending /\ pending \in Nat /\ (Stopping' <=> Stopping)
  BY QueueConstants DEF IInv, TypeOK, FinishWork, Stopping
<1>3. Reserved' = 0
  BY <1>1 DEF Reserved
<1>6. asleep' = {} /\ SleepIsJustified'
  BY DEF FinishWork, Broadcast, SleepIsJustified
<1>4. CASE rerun[w] # 0 /\ ~Stopping
  <2>1. e \in Entry
    BY <1>1, <1>2, <1>4 DEF Entry
  <2>2. /\ queue' \in Seq(Entry) /\ Len(queue') = Len(queue) + 1
        /\ \A i \in 1..Len(queue) : queue'[i] = queue[i]
        /\ queue'[Len(queue) + 1] = e
    BY <2>1, <1>2, <1>4, AppendFacts DEF FinishWork
  <2>3. /\ rerun' \in [Works -> Nat] /\ rerun'[w] = 0
        /\ \A v \in Works : v # w => rerun'[v] = rerun[v]
    BY Zenon, <1>1, <1>2, <1>4 DEF FinishWork
  <2>4. TypeOK'
    BY Zenon, <2>2, <2>3, <1>1, <1>6 DEF IInv, TypeOK, FinishWork, Entry
  <2>5. QueuedNotRerun'
    <3> SUFFICES ASSUME NEW i \in 1..Len(queue') PROVE rerun'[queue'[i].work] = 0
      BY Zenon DEF QueuedNotRerun
    <3>1. CASE i = Len(queue) + 1
      BY <3>1, <2>2, <2>3
    <3>2. CASE i \in 1..Len(queue)
      <4>1. queue[i] \in Entry
        BY <3>2, <1>2
      <4>2. queue[i].work \in Works
        BY <4>1 DEF Entry
      <4>3. rerun[queue[i].work] = 0
        BY Zenon, <3>2 DEF IInv, QueuedNotRerun
      <4> QED
        BY <4>2, <4>3, <3>2, <2>2, <2>3
    <3> QED
      BY <3>1, <3>2, <2>2, <1>2
  <2>6. RerunIsRunning'
    BY <1>1, <1>4, <2>3 DEF IInv, RerunIsRunning
  <2>7. TicketsHeld'
    <3> SUFFICES ASSUME NEW t \in 1..issued, t \notin finished,
                        t # running.ticket, \A v \in Works : rerun'[v] # t
                 PROVE \E i \in 1..Len(queue') : queue'[i].ticket = t
      BY Zenon DEF TicketsHeld, FinishWork
    <3>1. CASE rerun[w] = t
      BY <3>1, <2>2, <1>2
    <3>2. CASE rerun[w] # t
      <4>1. \A v \in Works : rerun[v] # t
        BY <3>2, <2>3
      <4>2. PICK i \in 1..Len(queue) : queue[i].ticket = t
        BY Zenon, <4>1, <1>4 DEF IInv, TicketsHeld
      <4> QED
        BY <4>2, <2>2, <1>2
    <3> QED
      BY <3>1, <3>2
  <2>8. pending = Len(queue) + 1
    <3>1. Reserved = 1
      BY Zenon, <1>1, <1>4 DEF Reserved
    <3> QED
      BY <3>1, <1>4 DEF IInv, PendingIsExact
  <2>9. PendingIsExact' /\ PendingCovers'
    BY <2>2, <2>8, <1>2, <1>3 DEF PendingIsExact, PendingCovers
  <2>10. FlushDebts'
    BY Zenon, <1>2 DEF IInv, FlushDebts, FinishWork
  <2> QED
    BY <2>4, <2>5, <2>6, <2>7, <2>9, <2>10, <1>6 DEF IInv
<1>5. CASE ~(rerun[w] # 0 /\ ~Stopping)
  <2>1. queue' = queue /\ rerun' = rerun
    BY <1>5 DEF FinishWork
  <2>2. TypeOK'
    BY Zenon, <2>1, <1>1, <1>6 DEF IInv, TypeOK, FinishWork, Entry
  <2>3. QueuedNotRerun'
    BY <2>1 DEF IInv, QueuedNotRerun
  <2>4. RerunIsRunning'
    BY <2>1, <1>1, <1>2, <1>5 DEF IInv, RerunIsRunning
  <2>5. TicketsHeld'
    BY <2>1, <1>2 DEF IInv, TicketsHeld, FinishWork
  <2>6. Reserved \in {0, 1} /\ (~Stopping => Reserved = 0)
    BY Zenon, <1>5 DEF Reserved
  <2>7. (~Stopping => pending = Len(queue) + Reserved) /\ Len(queue) + Reserved <= pending
    BY Zenon DEF IInv, PendingIsExact, PendingCovers
  <2>8. PendingIsExact' /\ PendingCovers'
    BY <2>1, <2>6, <2>7, <1>2, <1>3 DEF PendingIsExact, PendingCovers
  <2>9. FlushDebts'
    BY Zenon, <1>2 DEF IInv, FlushDebts, FinishWork
  <2> QED
    BY Zenon, <2>2, <2>3, <2>4, <2>5, <2>8, <2>9, <1>6 DEF IInv
<1> QED
  BY <1>4, <1>5

\* When nothing is queued or running, every ticket's run has ended.
LEMMA QuiescentMeansDone ==
  ASSUME IInv, Quiescent, ~Stopping
  PROVE 1..issued \subseteq finished
<1>1. Len(queue) = 0 /\ running.ticket = 0 /\ running.work = NoWork
  BY DEF Quiescent, Nothing
<1>2. \A w \in Works : rerun[w] = 0
  BY Zenon, <1>1, QueueConstants DEF IInv, RerunIsRunning
<1> QED
  BY <1>1, <1>2 DEF IInv, TicketsHeld, TypeOK

\* flush_workqueue begins to wait, or returns.
LEMMA FlushKeeps ==
  ASSUME IInv, NEW c \in Callers, FlushBegin(c) \/ FlushReturn(c)
  PROVE IInv'
<1>1. flush \in [Callers -> [st : {"idle", "waiting", "returned"}, debt : SUBSET Nat]]
      /\ issued \in Nat /\ (Stopping' <=> Stopping)
  BY Zenon DEF IInv, TypeOK, FlushBegin, FlushReturn, Stopping
<1>2. UNCHANGED <<queue, running, rerun, pending, stage, asleep, issued, finished,
                 rejected>>
  BY Zenon DEF FlushBegin, FlushReturn
<1>3. /\ flush' \in [Callers -> [st : {"idle", "waiting", "returned"}, debt : SUBSET Nat]]
      /\ \A d \in Callers : d # c => flush'[d] = flush[d]
      /\ flush'[c].debt \subseteq 1..issued
      /\ (~Stopping /\ flush'[c].st = "returned" => flush'[c].debt \subseteq finished)
  <2>1. CASE FlushBegin(c)
    BY <2>1, <1>1 DEF FlushBegin
  <2>2. CASE FlushReturn(c)
    <3>1. ~Stopping => 1..issued \subseteq finished
      BY <2>2, QuiescentMeansDone DEF FlushReturn
    <3>2. flush[c].debt \subseteq 1..issued
      BY DEF IInv, FlushDebts
    <3> QED
      BY <3>1, <3>2, <2>2, <1>1 DEF FlushReturn
  <2> QED
    BY Zenon, <2>1, <2>2
<1>4. TypeOK'
  BY Zenon, <1>2, <1>3 DEF IInv, TypeOK
<1>5. FlushDebts'
  <2> SUFFICES ASSUME NEW d \in Callers
               PROVE /\ flush'[d].debt \subseteq 1..issued
                     /\ ~Stopping /\ flush'[d].st = "returned" =>
                          flush'[d].debt \subseteq finished
    BY Zenon, <1>1, <1>2 DEF FlushDebts
  <2>1. CASE d = c
    BY Zenon, <2>1, <1>3
  <2>2. CASE d # c
    BY <2>2, <1>3 DEF IInv, FlushDebts
  <2> QED
    BY <2>1, <2>2
<1>6. (QueuedNotRerun /\ RerunIsRunning /\ TicketsHeld /\ PendingIsExact /\ PendingCovers
       /\ SleepIsJustified)'
  BY Zenon, <1>2 DEF IInv, QueuedNotRerun, RerunIsRunning, TicketsHeld, PendingIsExact,
     PendingCovers, SleepIsJustified, Reserved, Stopping
<1> QED
  BY Zenon, <1>4, <1>5, <1>6 DEF IInv

\* The steps that move a thread to or from sleep, the stage or the rejection
\* flag, and nothing else.
LEMMA StageKeeps ==
  ASSUME IInv,
         UNCHANGED <<queue, running, rerun, pending, flush, issued, finished>>,
         stage' \in {"live", "stopping", "exited"},
         rejected' \in BOOLEAN, Stopping => Stopping',
         asleep' \subseteq Callers \union {Worker}, SleepIsJustified'
  PROVE IInv'
<1>1. TypeOK'
  BY DEF IInv, TypeOK
<1>2. (QueuedNotRerun /\ RerunIsRunning /\ TicketsHeld)'
  BY Zenon DEF IInv, QueuedNotRerun, RerunIsRunning, TicketsHeld
<1>3. (PendingIsExact /\ PendingCovers)'
  BY Zenon DEF IInv, PendingIsExact, PendingCovers, Reserved
<1>4. FlushDebts'
  BY DEF IInv, FlushDebts
<1> QED
  BY <1>1, <1>2, <1>3, <1>4 DEF IInv

\* The worker goes to sleep: no caller sleeps, for there is nothing to run.
LEMMA WorkerWaitKeeps ==
  ASSUME IInv, WorkerWait
  PROVE IInv'
<1>1. rejected' \in BOOLEAN
  BY DEF IInv, TypeOK, WorkerWait
<1>2. asleep' \subseteq Callers \union {Worker}
  BY Zenon DEF IInv, TypeOK, WorkerWait
<1>3. SleepIsJustified'
  BY QueueConstants DEF IInv, SleepIsJustified, WorkerWait
<1> QED
  BY Zenon, <1>1, <1>2, <1>3, StageKeeps DEF WorkerWait, Stopping, IInv, TypeOK

\* A flushing caller goes to sleep: the worker is awake, for there is
\* something to run.
LEMMA FlushWaitKeeps ==
  ASSUME IInv, NEW c \in Callers, FlushWait(c)
  PROVE IInv'
<1>1. rejected' \in BOOLEAN
  BY DEF IInv, TypeOK, FlushWait
<1>2. asleep' \subseteq Callers \union {Worker}
  BY Zenon DEF IInv, TypeOK, FlushWait
<1>3. SleepIsJustified'
  BY QueueConstants DEF IInv, SleepIsJustified, FlushWait, Quiescent
<1> QED
  BY Zenon, <1>1, <1>2, <1>3, StageKeeps DEF FlushWait, Stopping, IInv, TypeOK

\* The inductive invariant holds in every reachable state.
THEOREM Invariance == Spec => []IInv
<1>1. IInv /\ [Next]_vars => IInv'
  <2> SUFFICES ASSUME IInv, [Next]_vars PROVE IInv' OBVIOUS
  <2>1. CASE Dequeue
    BY <2>1, DequeueKeeps
  <2>2. CASE FinishWork
    BY Zenon, <2>2, FinishWorkKeeps
  <2>3. CASE WorkerExit \/ (\E c \in Callers : DestroyStop(c))
    <3>1. rejected' \in BOOLEAN
      BY Zenon, <2>3 DEF WorkerExit, DestroyStop, IInv, TypeOK
    <3>2. asleep' \subseteq Callers \union {Worker}
      BY <2>3 DEF WorkerExit, DestroyStop, Broadcast, IInv, TypeOK
    <3>3. SleepIsJustified'
      BY Zenon, <2>3 DEF WorkerExit, DestroyStop, Broadcast, IInv, SleepIsJustified
    <3> QED
      BY <3>1, <3>2, <3>3, <2>3, StageKeeps DEF WorkerExit, DestroyStop, Stopping
  <2>4. CASE \E w \in Works : QueueNew(w)
    BY <2>4, QueueNewKeeps
  <2>5. CASE \E w \in Works : QueueRerun(w)
    BY <2>5, QueueRerunKeeps
  <2>6. CASE \E w \in Works : QueueRefused(w)
    <3>1. rejected' \in BOOLEAN
      BY <2>6 DEF QueueRefused
    <3>2. asleep' \subseteq Callers \union {Worker}
      BY <2>6 DEF QueueRefused, IInv, TypeOK
    <3>3. SleepIsJustified'
      BY Zenon, <2>6 DEF QueueRefused, IInv, SleepIsJustified
    <3> QED
      BY Zenon, <3>1, <3>2, <3>3, <2>6, StageKeeps DEF QueueRefused, Stopping, IInv, TypeOK
  <2>7. CASE \E c \in Callers : FlushBegin(c) \/ FlushReturn(c)
    BY <2>7, FlushKeeps
  <2>8. CASE UNCHANGED vars
    <3>1. rejected' \in BOOLEAN
      BY <2>8 DEF vars, IInv, TypeOK
    <3>2. asleep' \subseteq Callers \union {Worker}
      BY <2>8 DEF vars, IInv, TypeOK
    <3>3. SleepIsJustified'
      BY <2>8 DEF vars, IInv, SleepIsJustified
    <3> QED
      BY Zenon, <3>1, <3>2, <3>3, <2>8, StageKeeps DEF vars, Stopping, IInv, TypeOK
  <2>9. CASE WorkerWait
    BY <2>9, WorkerWaitKeeps
  <2>10. CASE \E c \in Callers : FlushWait(c)
    BY Zenon, <2>10, FlushWaitKeeps
  <2> QED
    BY <2>1, <2>2, <2>3, <2>4, <2>5, <2>6, <2>7, <2>8, <2>9, <2>10
    DEF Next, WorkerStep, Flush
<1> QED
  BY <1>1, InitIInv, PTL DEF Spec

\* The types hold; in particular pending_count never leaves 0..Capacity.
THEOREM TypeCorrect == Spec => []TypeOK
<1>1. IInv => TypeOK
  BY Zenon DEF IInv
<1> QED
  BY <1>1, Invariance, PTL

\* pending_count is the number of queued items plus the reserved rerun.
THEOREM PendingExact == Spec => []PendingIsExact
<1>1. IInv => PendingIsExact
  BY Zenon DEF IInv
<1> QED
  BY <1>1, Invariance, PTL

\* A returned flush_workqueue has waited for every run requested before it.
THEOREM FlushBarrier == Spec => []FlushIsBarrier
<1>1. IInv => FlushIsBarrier
  BY Zenon DEF IInv, FlushDebts, FlushIsBarrier
<1> QED
  BY <1>1, Invariance, PTL

\* A thread asleep on the condition variable of the queue has reason to be:
\* the worker's wake-up never goes to a flushing caller.
THEOREM NoLostWakeUp == Spec => []SleepIsJustified
<1>1. IInv => SleepIsJustified
  BY DEF IInv
<1> QED
  BY <1>1, Invariance, PTL

\* No item is in the queue twice.
OnceQueued == \A i, j \in 1..Len(queue) : queue[i].work = queue[j].work => i = j

\* An item enters the queue when it is in no entry: queue_work looks for it, and
\* a requeued rerun was reserved while its item was running.
LEMMA OnceQueuedKeeps ==
  ASSUME IInv, OnceQueued, [Next]_vars
  PROVE OnceQueued'
<1>1. queue \in Seq(Entry) /\ Len(queue) \in Nat
  BY DEF IInv, TypeOK
<1>2. ASSUME NEW e \in Entry, queue' = Append(queue, e),
             \A i \in 1..Len(queue) : queue[i].work # e.work
      PROVE OnceQueued'
  <2>1. /\ Len(queue') = Len(queue) + 1 /\ queue'[Len(queue) + 1] = e
        /\ \A i \in 1..Len(queue) : queue'[i] = queue[i]
    BY <1>1, <1>2, AppendFacts
  <2> QED
    BY <1>1, <1>2, <2>1 DEF OnceQueued
<1>3. CASE \E w \in Works : QueueNew(w)
  <2>1. PICK w \in Works : QueueNew(w)
    BY <1>3
  <2> DEFINE e == [work |-> w, ticket |-> issued + 1]
  <2>2. e \in Entry /\ e.work = w
    BY DEF IInv, TypeOK, Entry
  <2>3. \A i \in 1..Len(queue) : queue[i].work # w
    BY <2>1, Accepted DEF QueueNew, IsQueued
  <2> QED
    BY Zenon, <1>2, <2>1, <2>2, <2>3 DEF QueueNew
<1>4. CASE FinishWork
  <2> DEFINE w == running.work
             e == [work |-> w, ticket |-> rerun[w]]
  <2>1. CASE rerun[w] # 0 /\ ~Stopping
    <3>1. running \in Entry /\ e \in Entry /\ e.work = w
      BY Zenon, <1>4, <2>1 DEF FinishWork, IInv, TypeOK, Entry
    <3>2. \A i \in 1..Len(queue) : queue[i].work # w
      BY Zenon, <2>1 DEF IInv, QueuedNotRerun
    <3> QED
      BY <1>2, <1>4, <2>1, <3>1, <3>2 DEF FinishWork
  <2>2. CASE ~(rerun[w] # 0 /\ ~Stopping)
    BY <1>4, <2>2 DEF FinishWork, OnceQueued
  <2> QED
    BY <2>1, <2>2
<1>5. CASE Dequeue
  <2>1. /\ Len(queue') = Len(queue) - 1
        /\ \A i \in 1..Len(queue') : queue'[i] = queue[i + 1]
    BY Zenon, <1>1, <1>5, TailFacts DEF Dequeue
  <2> QED
    BY <1>1, <2>1 DEF OnceQueued
<1>6. CASE UNCHANGED queue
  BY <1>6 DEF OnceQueued
<1> QED
  BY <1>3, <1>4, <1>5, <1>6
  DEF Next, vars, WorkerStep, Flush, QueueRerun, QueueRefused, WorkerWait, WorkerExit,
      FlushBegin, FlushWait, FlushReturn, DestroyStop

\* Counting the entries counts the items.
LEMMA QueuedItems ==
  ASSUME IInv, OnceQueued
  PROVE LET items == {queue[i].work : i \in 1..Len(queue)} IN
        /\ items \subseteq Works /\ \A v \in items : IsQueued(v)
        /\ IsFiniteSet(items) /\ Cardinality(items) = Len(queue)
<1> DEFINE items == {queue[i].work : i \in 1..Len(queue)}
           f == [i \in 1..Len(queue) |-> queue[i].work]
<1>1. queue \in Seq(Entry) /\ Len(queue) \in Nat
  BY DEF IInv, TypeOK
<1>2. \A i \in 1..Len(queue) : queue[i].work \in Works
  <2>1. \A i \in 1..Len(queue) : queue[i] \in Entry
    BY <1>1
  <2> QED
    BY Zenon, <2>1 DEF Entry
<1>3. f \in Surjection(1..Len(queue), items) /\ f \in Injection(1..Len(queue), items)
  BY Zenon DEF OnceQueued, Surjection, Injection, IsInjective
<1>4. IsFiniteSet(1..Len(queue)) /\ Cardinality(1..Len(queue)) = Len(queue)
  <2> DEFINE n == Len(queue)
  <2> HIDE DEF n
  <2>1. n \in Nat
    BY Zenon, <1>1 DEF n
  <2>2. IsFiniteSet(1..n) /\ Cardinality(1..n) = n
    BY <2>1, FS_Interval
  <2> QED
    BY Zenon, <2>2 DEF n
<1>5. IsFiniteSet(items) /\ Cardinality(items) = Len(queue)
  BY <1>3, <1>4, FS_Surjection
<1> QED
  BY Zenon, <1>2, <1>5 DEF IsQueued

\* When a request finds the queue full, the items waiting fill it.
LEMMA FullMeansFull ==
  ASSUME IInv, OnceQueued
  PROVE RefusalIsFull
<1> SUFFICES ASSUME NEW w \in Works, Classify(w) = "capacity_exhausted"
             PROVE \E others \in SUBSET (Works \ {w}) :
                     /\ Cardinality(others) = Capacity
                     /\ \A v \in others : IsQueued(v) \/ rerun[v] # 0
  BY DEF RefusalIsFull
<1> DEFINE items == {queue[i].work : i \in 1..Len(queue)}
<1>1. ~Stopping /\ ~IsQueued(w) /\ rerun[w] = 0 /\ ~(pending < Capacity)
  BY QueueConstants DEF IInv, TypeOK, Classify
<1>2. Len(queue) + Reserved = Capacity /\ Len(queue) \in Nat
  BY <1>1, QueueConstants DEF IInv, TypeOK, PendingIsExact, Reserved
<1>3. /\ items \subseteq Works /\ \A v \in items : IsQueued(v)
      /\ IsFiniteSet(items) /\ Cardinality(items) = Len(queue)
  BY Zenon, QueuedItems
<1>4. items \subseteq Works \ {w}
  BY Zenon, <1>1, <1>3
<1>5. \A v \in Works : rerun[v] # 0 => v \notin items
  BY DEF IInv, QueuedNotRerun
<1> HIDE DEF items
<1>6. CASE Reserved = 0
  <2>1. Cardinality(items) = Capacity
    BY <1>2, <1>3, <1>6
  <2> QED
    BY Zenon, <1>3, <1>4, <2>1
<1>7. CASE Reserved # 0
  <2> DEFINE r == running.work
             others == items \union {r}
  <2>1. running # Nothing /\ rerun[r] # 0 /\ Reserved = 1
    BY Zenon, <1>7 DEF Reserved
  <2>2. r \in Works /\ r # w
    BY <1>1, <2>1 DEF IInv, TypeOK, Entry
  <2>3. r \notin items
    BY <1>5, <2>1, <2>2
  <2>4. Cardinality(others) = Len(queue) + 1
    BY Zenon, <1>3, <2>3, FS_AddElement
  <2>5. others \in SUBSET (Works \ {w}) /\ \A v \in others : IsQueued(v) \/ rerun[v] # 0
    BY Zenon, <1>3, <1>4, <2>1, <2>2
  <2> QED
    BY Zenon, <1>2, <2>1, <2>4, <2>5
<1> QED
  BY Zenon, <1>6, <1>7

\* queue_work answers capacity_exhausted only when as many other items wait as
\* the queue has slots.
THEOREM RefusalNeedsFullQueue == Spec => []RefusalIsFull
<1>1. Init => OnceQueued
  BY DEF Init, OnceQueued
<1>2. IInv /\ OnceQueued /\ [Next]_vars => OnceQueued'
  BY OnceQueuedKeeps
<1>3. IInv /\ OnceQueued => RefusalIsFull
  BY Zenon, FullMeansFull
<1> QED
  BY <1>1, <1>2, <1>3, Invariance, PTL DEF Spec
=============================================================================
