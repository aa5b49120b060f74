------------------------------ MODULE WorkQueue ------------------------------
(***************************************************************************)
(* An ordered workqueue (platform/horizon/work.cpp): a bounded queue of    *)
(* work items, one worker thread that runs them outside the queue mutex,   *)
(* and callers that request runs, flush, or destroy the queue.  Every      *)
(* lane of the daemon is one of these.                                     *)
(*                                                                         *)
(* A request that is accepted and not coalesced is given a ticket; the     *)
(* tickets are history only, to say which runs are still owed.             *)
(***************************************************************************)
EXTENDS Naturals, Sequences, FiniteSets

CONSTANTS Works,       \* the work items that share the queue
          NoWork,
          Worker,      \* the worker thread
          Callers,     \* threads that flush, one of which may destroy
          Capacity,    \* pending_capacity
          MaxTickets   \* bound on accepted requests

ASSUME QueueConstants ==
  /\ NoWork \notin Works
  /\ Worker \notin Callers
  /\ Capacity \in Nat \ {0}
  /\ MaxTickets \in Nat

VARIABLES queue,     \* head .. tail
          running,   \* the item whose func the worker is in
          rerun,     \* WorkInternal::rerun, as the ticket it stands for
          pending,   \* pending_count
          stage,     \* how far destroy_workqueue has come
          flush,     \* flush_workqueue of each caller
          asleep,    \* threads waiting on the condition variable
          issued, finished,   \* tickets handed out, tickets whose run ended
          rejected   \* some request met capacity_exhausted

vars == <<queue, running, rerun, pending, stage, flush, asleep, issued, finished,
          rejected>>

Entry == [work : Works, ticket : Nat \ {0}]
Nothing == [work |-> NoWork, ticket |-> 0]

(* Types of the workqueue; pending_count never exceeds pending_capacity.   *)
TypeOK ==
  /\ queue \in Seq(Entry)
  /\ running \in Entry \union {Nothing}
  /\ rerun \in [Works -> Nat]
  /\ pending \in 0..Capacity
  /\ stage \in {"live", "stopping", "exited"}
  /\ flush \in [Callers -> [st : {"idle", "waiting", "returned"}, debt : SUBSET Nat]]
  /\ asleep \subseteq Callers \union {Worker}
  /\ issued \in Nat
  /\ finished \subseteq Nat
  /\ rejected \in BOOLEAN

Init ==
  /\ queue = <<>>
  /\ running = Nothing
  /\ rerun = [w \in Works |-> 0]
  /\ pending = 0
  /\ stage = "live"
  /\ flush = [c \in Callers |-> [st |-> "idle", debt |-> {}]]
  /\ asleep = {}
  /\ issued = 0
  /\ finished = {}
  /\ rejected = FALSE

Stopping == stage \in {"stopping", "exited"}

IsQueued(w) == \E i \in 1..Len(queue) : queue[i].work = w

\* cv.Signal wakes some one waiting thread, the worker or a flushing caller;
\* cv.Broadcast wakes them all.
Signal == IF asleep = {} THEN asleep' = {} ELSE \E t \in asleep : asleep' = asleep \ {t}
Broadcast == asleep' = {}

\* classify_queue_work_request
Classify(w) ==
  CASE Stopping -> "unavailable"
    [] ~Stopping /\ (IsQueued(w) \/ rerun[w] # 0) -> "already_pending"
    [] OTHER -> IF pending >= Capacity THEN "capacity_exhausted"
                ELSE IF running.work = w THEN "rerun_queued" ELSE "queued"

QueueNew(w) ==
  /\ issued < MaxTickets
  /\ Classify(w) = "queued"
  /\ queue' = Append(queue, [work |-> w, ticket |-> issued + 1])
  /\ pending' = pending + 1
  /\ issued' = issued + 1
  /\ Signal
  /\ UNCHANGED <<running, rerun, stage, flush, finished, rejected>>

QueueRerun(w) ==
  /\ issued < MaxTickets
  /\ Classify(w) = "rerun_queued"
  /\ rerun' = [rerun EXCEPT ![w] = issued + 1]
  /\ pending' = pending + 1
  /\ issued' = issued + 1
  /\ UNCHANGED <<queue, running, stage, flush, asleep, finished, rejected>>

\* "already_pending" and "unavailable" only count statistics.
QueueRefused(w) ==
  /\ Classify(w) = "capacity_exhausted"
  /\ rejected' = TRUE
  /\ UNCHANGED <<queue, running, rerun, pending, stage, flush, asleep, issued,
                 finished>>

\* The worker finds nothing to do and waits on the condition variable.
WorkerWait ==
  /\ Worker \notin asleep /\ running = Nothing
  /\ queue = <<>> /\ ~Stopping
  /\ asleep' = asleep \union {Worker}
  /\ UNCHANGED <<queue, running, rerun, pending, stage, flush, issued, finished,
                 rejected>>

\* The worker takes the head and releases the mutex ...
Dequeue ==
  /\ Worker \notin asleep /\ running = Nothing
  /\ queue # <<>>
  /\ running' = Head(queue)
  /\ queue' = Tail(queue)
  /\ pending' = pending - 1
  /\ UNCHANGED <<rerun, stage, flush, asleep, issued, finished, rejected>>

\* Mutant: a flushing caller is not woken, and may take the worker's signal.
FinishWorkSignals ==
  /\ running # Nothing
  /\ LET w == running.work
         again == rerun[w] # 0 /\ ~Stopping
     IN /\ queue' = IF again
                    THEN Append(queue, [work |-> w, ticket |-> rerun[w]]) ELSE queue
        /\ rerun' = IF again THEN [rerun EXCEPT ![w] = 0] ELSE rerun
  /\ running' = Nothing
  /\ finished' = finished \union {running.ticket}
  /\ UNCHANGED <<pending, stage, flush, asleep, issued, rejected>>

\* ... and, func done and the mutex taken again, requeues a rerun in the
\* room that was reserved for it, and wakes whoever waits.
FinishWork ==
  /\ running # Nothing
  /\ LET w == running.work
         again == rerun[w] # 0 /\ ~Stopping
     IN /\ queue' = IF again
                    THEN Append(queue, [work |-> w, ticket |-> rerun[w]]) ELSE queue
        /\ rerun' = IF again THEN [rerun EXCEPT ![w] = 0] ELSE rerun
  /\ running' = Nothing
  /\ Broadcast
  /\ finished' = finished \union {running.ticket}
  /\ UNCHANGED <<pending, stage, flush, issued, rejected>>

WorkerExit ==
  /\ Worker \notin asleep
  /\ stage = "stopping" /\ running = Nothing /\ queue = <<>>
  /\ stage' = "exited"
  /\ UNCHANGED <<queue, running, rerun, pending, flush, asleep, issued, finished,
                 rejected>>

\* Mutant: only the queue is looked at.
QuiescentIgnoresRunning == queue = <<>>

\* head == nullptr && active_count == 0
Quiescent == queue = <<>> /\ running = Nothing

FlushBegin(c) ==
  /\ flush[c].st # "waiting"
  /\ flush' = [flush EXCEPT ![c] = [st |-> "waiting",
                                    debt |-> (1..issued) \ finished]]
  /\ UNCHANGED <<queue, running, rerun, pending, stage, asleep, issued, finished,
                 rejected>>

FlushWait(c) ==
  /\ flush[c].st = "waiting" /\ c \notin asleep
  /\ ~Quiescent
  /\ asleep' = asleep \union {c}
  /\ UNCHANGED <<queue, running, rerun, pending, stage, flush, issued, finished,
                 rejected>>

FlushReturn(c) ==
  /\ flush[c].st = "waiting" /\ c \notin asleep
  /\ Quiescent
  /\ flush' = [flush EXCEPT ![c].st = "returned"]
  /\ UNCHANGED <<queue, running, rerun, pending, stage, asleep, issued, finished,
                 rejected>>

\* destroy_workqueue: the caller's flush has returned; it takes the mutex
\* again and stops the worker.
DestroyStop(c) ==
  /\ stage = "live" /\ flush[c].st = "returned"
  /\ stage' = "stopping"
  /\ Broadcast
  /\ UNCHANGED <<queue, running, rerun, pending, flush, issued, finished, rejected>>

WorkerStep == WorkerWait \/ Dequeue \/ FinishWork \/ WorkerExit

Flush(c) == FlushWait(c) \/ FlushReturn(c)

Next ==
  \/ WorkerStep
  \/ \E w \in Works : QueueNew(w) \/ QueueRerun(w) \/ QueueRefused(w)
  \/ \E c \in Callers : FlushBegin(c) \/ Flush(c) \/ DestroyStop(c)

Spec == Init /\ [][Next]_vars

\* The threads run and every work function returns.
FairSpec ==
  Spec /\ WF_vars(WorkerStep) /\ \A c \in Callers : WF_vars(Flush(c))

-----------------------------------------------------------------------------
Reserved == IF running # Nothing /\ rerun[running.work] # 0 THEN 1 ELSE 0

\* pending_count counts the queued items and the one reserved rerun, through
\* the reservation at the request and the unreserved requeue, so the limit
\* is neither exceeded nor slowly eaten up.
PendingIsExact == ~Stopping => pending = Len(queue) + Reserved

\* flush_workqueue is a barrier: when it returns, every run requested before
\* the flush began has ended, one requested while its item was running
\* included.  The tunnel commands queue an adapter operation, flush, and
\* then read its result without looking further.
FlushIsBarrier ==
  ~Stopping => \A c \in Callers :
    flush[c].st = "returned" => flush[c].debt \subseteq finished

\* Whoever sleeps on the shared condition variable still has reason to: the
\* worker because there is nothing to run, a flushing caller because there
\* is.  So the two never sleep at once, and the single cv.Signal of
\* queue_work cannot wake a flushing caller in place of the worker.
SleepIsJustified ==
  /\ Worker \in asleep => queue = <<>> /\ running = Nothing
  /\ asleep \intersect Callers # {} => queue # <<>> \/ running # Nothing

\* queue_work refuses for want of room only when as many other items as the
\* lane has slots are waiting: reruns and coalesced requests never hold more
\* than their one slot.  So a lane with a slot for each of its items accepts
\* every request; the transmit lane aborts the process if it is refused, the
\* others lose the wake-up.
RefusalIsFull ==
  \A w \in Works : Classify(w) = "capacity_exhausted" =>
    \E others \in SUBSET (Works \ {w}) :
      /\ Cardinality(others) = Capacity
      /\ \A v \in others : IsQueued(v) \/ rerun[v] # 0

\* Every accepted request is followed by a run of its item that ends, unless
\* the queue is destroyed first: although queue_work signals one thread only
\* and flushing callers wait on the same condition variable, no wake-up of
\* the worker goes astray.
AcceptedRuns ==
  \A t \in 1..MaxTickets : (t <= issued) ~> (t \in finished \/ Stopping)

\* A flush returns, unless the queue is destroyed first, once no more work is
\* requested (the model's requests are bounded).
FlushReturns ==
  \A c \in Callers :
    (flush[c].st = "waiting") ~> (flush[c].st = "returned" \/ Stopping)
=============================================================================
