----------------------------- MODULE MitmRuntime -----------------------------
(***************************************************************************)
(* The threads of the BSD MITM sysmodule: the main thread that starts and  *)
(* stops the parts in order (main.cpp), the one bsd:s server thread with   *)
(* its socket commands (bsd_mitm_server.cpp, bsd_mitm_service.cpp), the    *)
(* flow worker that owns every tunnel handle (tunnel_flow_worker.cpp) and  *)
(* the discovery controller both use (tunnel_discovery_service.cpp).  The  *)
(* tunnel service is the environment, as FlowService describes it: it      *)
(* stages datagrams, reports completions, closes flows, and may go down    *)
(* and come back.  A step is one locked section, one call of the tunnel    *)
(* service, or a stretch of one thread that no other thread observes.      *)
(***************************************************************************)
EXTENDS MitmFlows

CONSTANTS Owners, Owner,     \* bsd:s sessions; the session of a socket
          TrackedSlots,      \* entries of m_sockets
          CompletionQueue,   \* completions it holds for a client
          MaxSends           \* bound on the sends of one flow

VARIABLES main,  \* the main thread
          srv,   \* the bsd:s server thread and the command it runs
          sess, sock,  \* sessions and their socket states
          op,    \* the Operation the server thread waits for
          wk,    \* the worker thread
          tb,    \* the worker's flow table
          root,  \* its root session: closed, open, or dead
          ev,    \* wake and stop events, control signals
          disc,  \* the discovery controller
          tun    \* the tunnel service

vars == <<main, srv, sess, sock, op, wk, tb, root, ev, disc, tun>>

Min2(a, b) == IF a < b THEN a ELSE b

NoSock == [route |-> "none", udp |-> FALSE]
NoOp == [st |-> "none", type |-> "none", s |-> "none", o |-> "none", fits |-> TRUE,
         events |-> {}, timeout |-> "zero", late |-> FALSE, res |-> "none"]
NoTunFlow == [open |-> FALSE, waiter |-> FALSE, q |-> <<>>, sig |-> FALSE,
              last |-> 0]
IdleServer == [pc |-> "idle", cmd |-> "none", s |-> "none", o |-> "none"]
IdleWorker == [pc |-> "none", todo |-> {}, s |-> "none", n |-> 0,
               disp |-> <<>>, progress |-> FALSE]

Init ==
  /\ main = "worker"
  /\ srv = [IdleServer EXCEPT !.pc = "none"]
  /\ sess = [o \in Owners |-> FALSE]
  /\ sock = [s \in Sockets |-> NoSock]
  /\ op = NoOp
  /\ wk = IdleWorker
  /\ tb = NoFlows
  /\ root = "closed"
  /\ ev = [wake |-> FALSE, stop |-> FALSE, halt |-> FALSE, inv |-> FALSE, req |-> FALSE,
           srvstop |-> FALSE]
  /\ disc = InitDiscovery
  /\ tun = [s \in Sockets |-> NoTunFlow]

-----------------------------------------------------------------------------
\* Main: start the worker, discovery, the bsd:s server and the control server;
\* wait for the Shutdown command; stop them.

MainStartWorker ==
  /\ main = "worker" /\ main' = "discovery"
  /\ wk' = [wk EXCEPT !.pc = "top"]
  /\ UNCHANGED <<srv, sess, sock, op, tb, root, ev, disc, tun>>

MainStartDiscovery ==
  /\ main = "discovery" /\ main' = "probe"
  /\ disc' = RequestForTraffic([disc EXCEPT !.started = TRUE], disc.due)
  /\ UNCHANGED <<srv, sess, sock, op, wk, tb, root, ev, tun>>

MainProbe ==
  /\ main = "probe" /\ main' = "signal"
  /\ ev' = [ev EXCEPT !.req = TRUE]
  /\ UNCHANGED <<srv, sess, sock, op, wk, tb, root, disc, tun>>

MainSignal ==
  /\ main = "signal" /\ main' = "bsd"
  /\ ev' = [ev EXCEPT !.wake = TRUE]
  /\ UNCHANGED <<srv, sess, sock, op, wk, tb, root, disc, tun>>

\* StartBsdMitmServer, then StartControlServer.  The first may fail, and the
\* second is still tried; when that fails, Main stops what runs.  A server that
\* is stopped has its stop event signalled and is joined.
Stopping(running) ==
  IF running THEN main' = "joinbsd" /\ ev' = [ev EXCEPT !.srvstop = TRUE]
  ELSE main' = "stopdiscovery" /\ UNCHANGED ev

MainStartServers ==
  /\ main = "bsd"
  /\ \E running, control \in BOOLEAN :
       /\ srv' = IF running THEN IdleServer ELSE srv
       /\ IF control THEN main' = "serving" /\ UNCHANGED ev ELSE Stopping(running)
  /\ UNCHANGED <<sess, sock, op, wk, tb, root, disc, tun>>

\* ControlService::Shutdown wakes the main thread, which joins the control
\* server and stops the bsd:s server.
Shutdown ==
  /\ main = "serving" /\ Stopping(srv.pc # "none")
  /\ UNCHANGED <<srv, sess, sock, op, wk, tb, root, disc, tun>>

MainJoinBsd ==
  /\ main = "joinbsd" /\ srv.pc = "exited" /\ main' = "stopdiscovery"
  /\ UNCHANGED <<srv, sess, sock, op, wk, tb, root, ev, disc, tun>>

MainStopDiscovery ==
  /\ main = "stopdiscovery" /\ main' = "stopworker"
  /\ disc' = InitDiscovery
  /\ UNCHANGED <<srv, sess, sock, op, wk, tb, root, ev, tun>>

\* Stop: the flag under the mutex, then both events.
\* Mutant: the events are not signalled.
MainStopWorkerQuiet ==
  /\ main = "stopworker" /\ main' = "joinworker"
  /\ ev' = [ev EXCEPT !.stop = TRUE]
  /\ UNCHANGED <<srv, sess, sock, op, wk, tb, root, disc, tun>>
MainStopWorker ==
  /\ main = "stopworker" /\ main' = "joinworker"
  /\ ev' = [ev EXCEPT !.stop = TRUE, !.halt = TRUE, !.wake = TRUE]
  /\ UNCHANGED <<srv, sess, sock, op, wk, tb, root, disc, tun>>

MainJoinWorker ==
  /\ main = "joinworker" /\ wk.pc = "exited" /\ main' = "done"
  /\ UNCHANGED <<srv, sess, sock, op, wk, tb, root, ev, disc, tun>>

\* Nothing is left to do: the process exits, or a poll without a timeout waits
\* for a datagram that does not come.
Terminated ==
  main = "done" \/ (wk.pc = "sleep" /\ op.st = "poll" /\ op.timeout = "none")
Stutter == Terminated /\ UNCHANGED vars

MainSteps ==
  \/ MainStartWorker \/ MainStartDiscovery \/ MainProbe \/ MainSignal \/ MainStartServers
  \/ MainJoinBsd \/ MainStopDiscovery
  \/ MainStopWorker \/ MainJoinWorker

-----------------------------------------------------------------------------
\* The bsd:s server thread.  It serves every session, one command at a time,
\* and blocks in EnqueueAndWait; so at most one Operation is outstanding, and
\* the worker runs for as long as this thread does.

Idle == srv.pc = "idle" /\ ~ev.srvstop
Quiet == UNCHANGED <<main, wk, tb, root, tun>>
Route(s) == sock[s].route
Tracked(o) == {s \in Sockets : Owner[s] = o /\ Route(s) \notin {"none", "untracked"}}

\* A command that hands the worker an Operation of this type.
Call(cmd, s, o, fields) ==
  /\ srv' = [pc |-> "enqueue", cmd |-> cmd, s |-> s, o |-> o]
  /\ op' = [fields EXCEPT !.st = "new", !.s = s, !.o = o]

\* ShouldMitm admits the session.
NewSession(o) ==
  /\ Idle /\ ~sess[o] /\ sess' = [sess EXCEPT ![o] = TRUE]
  /\ UNCHANGED <<srv, sock, op, ev, disc>> /\ Quiet

\* The upstream service made the descriptor; it is tracked while there is room.
Socket(s, udp) ==
  /\ Idle /\ sess[Owner[s]] /\ Route(s) = "none"
  /\ sock' = [sock EXCEPT ![s] =
       [route |-> IF Cardinality(Tracked(Owner[s])) < TrackedSlots THEN "Created"
                  ELSE "untracked",
        udp |-> udp]]
  /\ UNCHANGED <<srv, sess, op, ev, disc>> /\ Quiet

\* Connect of an eligible socket: the discovery request, then the Open.
ConnectTunnel(s) ==
  /\ Idle /\ Route(s) = "Created" /\ sock[s].udp
  /\ sock' = [sock EXCEPT ![s].route = AdvanceBsdSocketRoute(@, "BeginTunnelOpen")]
  /\ \E now \in {disc.due, TRUE} :
       /\ disc' = RequestForTraffic(disc, now)
       /\ srv' = [pc |-> IF disc' # disc THEN "request" ELSE "enqueue",
                  cmd |-> "Connect", s |-> s, o |-> Owner[s]]
  /\ op' = [NoOp EXCEPT !.st = "new", !.type = "Open", !.s = s, !.o = Owner[s]]
  /\ UNCHANGED <<sess, ev>> /\ Quiet

RequestDiscoveryAttempt ==
  /\ srv.pc = "request"
  /\ ev' = [ev EXCEPT !.req = TRUE] /\ srv' = [srv EXCEPT !.pc = "rsignal"]
  /\ UNCHANGED <<sess, sock, op, disc>> /\ Quiet

SignalDiscovery ==
  /\ srv.pc = "rsignal"
  /\ ev' = [ev EXCEPT !.wake = TRUE] /\ srv' = [srv EXCEPT !.pc = "enqueue"]
  /\ UNCHANGED <<sess, sock, op, disc>> /\ Quiet

\* Connect of any other socket the upstream service may connect: not IPv4 UDP,
\* already direct, untracked, or an address that does not decode.
ConnectUpstream(s) ==
  /\ Idle /\ CanForwardToUpstreamBsd(Route(s))
  /\ \E r \in {Route(s), AdvanceBsdSocketRoute(Route(s), "DirectConnected")} :
       sock' = [sock EXCEPT ![s].route = r]
  /\ UNCHANGED <<srv, sess, op, ev, disc>> /\ Quiet

\* A command on the descriptors in D that the upstream service answers: one that
\* looks at the route, where the route allows it, or one the interface does not
\* declare.  It leaves no trace here.
Forward(D) ==
  /\ Idle /\ \A s \in D : Route(s) # "none"
  /\ \/ \E s \in D : PollAnswer(Route(s), {Route(d) : d \in D}, Cardinality(D) = 1) = "upstream"
     \/ \E s \in D, supported \in BOOLEAN :
          /\ D = {s}
          /\ "upstream" \in Range(Answers(Route(s), supported))
  /\ UNCHANGED <<srv, sess, sock, op, ev, disc>> /\ Quiet

\* Send, Recv and RecvFrom, Poll, and Close of a tunneled socket.
Send(s, fits) ==
  /\ Idle /\ SendAnswer(Route(s), TRUE) = "worker" /\ tb.flows[s].sends < MaxSends
  /\ Call("Send", s, Owner[s], [NoOp EXCEPT !.type = "Send", !.fits = fits])
  /\ UNCHANGED <<sess, sock, ev, disc>> /\ Quiet

Recv(s) ==
  /\ Idle /\ "worker" \in {RecvAnswer(Route(s), TRUE), RecvFromAnswer(Route(s), TRUE)}
  /\ Call("Recv", s, Owner[s], [NoOp EXCEPT !.type = "Receive"])
  /\ UNCHANGED <<sess, sock, ev, disc>> /\ Quiet

Poll(s, events, timeout) ==
  /\ Idle /\ Route(s) # "none" /\ PollAnswer(Route(s), {Route(s)}, TRUE) = "worker"
  /\ Call("Poll", s, Owner[s],
          [NoOp EXCEPT !.type = "Poll", !.events = events, !.timeout = timeout])
  /\ UNCHANGED <<sess, sock, ev, disc>> /\ Quiet

\* Whatever the route was, the upstream service closes the descriptor too.
Close(s) ==
  /\ Idle /\ Route(s) # "none"
  /\ IF UsesTunnelFlow(Route(s))
     THEN Call("Close", s, Owner[s], [NoOp EXCEPT !.type = "Close"]) /\ UNCHANGED sock
     ELSE sock' = [sock EXCEPT ![s] = NoSock] /\ UNCHANGED <<srv, op>>
  /\ UNCHANGED <<sess, ev, disc>> /\ Quiet

\* ~BsdMitmService.
Release(o) ==
  /\ Idle /\ sess[o]
  /\ Call("Release", "none", o, [NoOp EXCEPT !.type = "CloseOwner"])
  /\ UNCHANGED <<sess, sock, ev, disc>> /\ Quiet

\* EnqueueAndWait: the operation under the mutex, then the wake event.
EnqueueOperation ==
  /\ srv.pc = "enqueue"
  /\ op' = [op EXCEPT !.st = "queued"] /\ srv' = [srv EXCEPT !.pc = "signal"]
  /\ UNCHANGED <<sess, sock, ev, disc>> /\ Quiet

SignalOperation ==
  /\ srv.pc = "signal"
  /\ ev' = [ev EXCEPT !.wake = TRUE] /\ srv' = [srv EXCEPT !.pc = "wait"]
  /\ UNCHANGED <<sess, sock, op, disc>> /\ Quiet

\* The rest of a command, when its operation is complete.
Return(routes) ==
  /\ srv' = IdleServer /\ op' = NoOp /\ sock' = routes
Advance(e) == [sock EXCEPT ![srv.s].route = AdvanceBsdSocketRoute(@, e)]

\* Mutant: the flow is not closed when the anchor connect fails.
ResumeConnectLeaves ==
  /\ srv.cmd = "Connect"
  /\ CASE op.res = "Opened" -> Return(Advance("TunnelOpened")) \/ Return(Advance("TunnelFailed"))
       [] op.res \in {"RouteNotCovered", "TunnelUnavailable"} ->
            \/ Return(Advance("TunnelBypassed"))
            \/ Return([Advance("TunnelBypassed") EXCEPT
                         ![srv.s].route = AdvanceBsdSocketRoute(@, "DirectConnected")])
       [] op.res = "BlockedByPolicy" -> Return(Advance("TunnelBypassed"))
       [] OTHER -> Return(Advance("TunnelFailed"))
  /\ UNCHANGED sess
ResumeConnect ==
  /\ srv.cmd = "Connect"
  /\ CASE op.res = "Opened" ->
            \/ Return(Advance("TunnelOpened"))
            \/ /\ Call("Abandon", srv.s, srv.o, [NoOp EXCEPT !.type = "Close"])
               /\ UNCHANGED sock
       [] op.res \in {"RouteNotCovered", "TunnelUnavailable"} ->
            \/ Return(Advance("TunnelBypassed"))
            \/ Return([Advance("TunnelBypassed") EXCEPT
                         ![srv.s].route = AdvanceBsdSocketRoute(@, "DirectConnected")])
       [] op.res = "BlockedByPolicy" -> Return(Advance("TunnelBypassed"))
       [] OTHER -> Return(Advance("TunnelFailed"))
  /\ UNCHANGED sess

\* The anchor connect or the local endpoint failed, and the flow was closed.
ResumeAbandon == srv.cmd = "Abandon" /\ Return(Advance("TunnelFailed")) /\ UNCHANGED sess
ResumeClose ==
  srv.cmd = "Close" /\ Return([sock EXCEPT ![srv.s] = NoSock]) /\ UNCHANGED sess
ResumeRelease ==
  /\ srv.cmd = "Release"
  /\ Return([s \in Sockets |-> IF Owner[s] = srv.o THEN NoSock ELSE sock[s]])
  /\ sess' = [sess EXCEPT ![srv.o] = FALSE]
ResumeData == srv.cmd \in {"Send", "Recv", "Poll"} /\ Return(sock) /\ UNCHANGED sess

Resume ==
  /\ srv.pc = "wait" /\ op.st = "done"
  /\ ResumeConnect \/ ResumeAbandon \/ ResumeClose \/ ResumeRelease \/ ResumeData
  /\ UNCHANGED <<ev, disc>> /\ Quiet

\* LoopProcess returns between two commands.
ServerExit ==
  /\ srv.pc = "idle" /\ ev.srvstop /\ srv' = [srv EXCEPT !.pc = "exited"]
  /\ UNCHANGED <<sess, sock, op, ev, disc>> /\ Quiet

Commands ==
  \/ \E o \in Owners :
       \/ NewSession(o) \/ Release(o)
       \/ \E D \in SUBSET {s \in Sockets : Owner[s] = o} : D # {} /\ Forward(D)
  \/ \E s \in Sockets :
       \/ \E udp \in BOOLEAN : Socket(s, udp)
       \/ ConnectTunnel(s) \/ ConnectUpstream(s)
       \/ \E fits \in BOOLEAN : Send(s, fits)
       \/ Recv(s) \/ Close(s)
       \/ \E e \in {{"in"}, {"out"}}, t \in {"zero", "finite", "none"} : Poll(s, e, t)
ServerSteps ==
  \/ RequestDiscoveryAttempt \/ SignalDiscovery \/ EnqueueOperation \/ SignalOperation
  \/ Resume \/ ServerExit

-----------------------------------------------------------------------------
\* The worker: Run.  Calls of a client that is not "open" fail in CMIF.

At(pc) == wk.pc = pc
Goto(pc) == wk' = [wk EXCEPT !.pc = pc]
Worker == UNCHANGED <<main, srv, sess, sock>>

\* What is left of the tunnel service's side of the flows when the worker's
\* client sessions close.
Drop(S) == [s \in Sockets |-> IF s \in S THEN NoTunFlow ELSE tun[s]]

\* ReportTunnelClientFailure.
Report(e) == IF disc.started THEN [e EXCEPT !.inv = TRUE, !.wake = TRUE] ELSE e

Complete(res) == op' = [NoOp EXCEPT !.st = "done", !.res = res]

\* IsStopRequested: on the way out everything outstanding is completed.
WorkerExit ==
  /\ At("top") /\ ev.stop /\ Goto("exited")
  /\ IF op.st \in {"queued", "poll"} THEN Complete("Closed") ELSE UNCHANGED op
  /\ tb' = ResetFlows(tb, Sockets) /\ root' = "closed" /\ tun' = Drop(Sockets)
  /\ UNCHANGED <<ev, disc>> /\ Worker

\* ProcessControlSignals, before the drain and before every operation: the
\* invalidation, then discovery with HasService, the root session and its
\* capabilities.  Only this thread raises the invalidation.
Control(discover, invalidate) ==
  /\ (At("top") /\ ~ev.stop) \/ At("again")
  /\ wk' = IF At("top") THEN [wk EXCEPT !.pc = "drain", !.todo = Sockets]
           ELSE [wk EXCEPT !.pc = "pop"]
  /\ ev' = [ev EXCEPT !.inv = FALSE, !.req = FALSE]
  /\ IF invalidate \/ discover
     THEN tb' = ResetFlows(tb, Sockets) /\ tun' = Drop(Sockets) ELSE UNCHANGED <<tb, tun>>
  /\ UNCHANGED <<op>> /\ Worker

Attempted == ev.req /\ disc.state = "DiscoveryPending"

\* Mutant: a discovery that finds no service is not reported as failed.
ProcessControlSignalsSilent ==
  /\ Control(Attempted, ev.inv)
  /\ IF Attempted
     THEN (root' = "open" /\ disc' = CompleteSuccess(disc)) \/ (root' = "closed" /\ UNCHANGED disc)
     ELSE root' = (IF ev.inv THEN "closed" ELSE root) /\ UNCHANGED disc
ProcessControlSignals ==
  /\ Control(Attempted, ev.inv)
  /\ IF Attempted
     THEN \/ root' = "open" /\ disc' = CompleteSuccess(disc)
          \/ root' = "closed" /\ disc' = CompleteFailure(disc)
     ELSE root' = (IF ev.inv THEN "closed" ELSE root) /\ UNCHANGED disc

\* DrainAllCompletions: one ReceiveCompletions of a flow, then its records.
Drainable(s) == tb.flows[s].occ /\ ~tb.flows[s].closed /\ tb.flows[s].client # "none"

\* The call fails in CMIF, as it must when the service is gone, or its answer
\* does not validate.
DrainFail(s) ==
  /\ At("drain") /\ s \in wk.todo /\ Drainable(s)
  /\ wk' = [wk EXCEPT !.todo = @ \ {s}]
  /\ tb' = CloseSubmission(tb, s)
  /\ disc' = InvalidateReadyClient(disc) /\ ev' = Report(ev)
  /\ UNCHANGED <<op, root, tun>> /\ Worker

\* A flow closed by one of its records is not drained again.
DrainReceive(s) ==
  /\ At("drain") /\ s \in wk.todo /\ Drainable(s)
  /\ tb.flows[s].client = "open"
  /\ IF tun[s].q = <<>> THEN wk' = [wk EXCEPT !.todo = @ \ {s}] ELSE UNCHANGED wk
  /\ tb' = FoldLeft(LAMBDA t, r : ApplyCompletion(t, s, r), tb, tun[s].q)
  /\ tun' = [tun EXCEPT ![s].q = <<>>, ![s].sig = FALSE]
  /\ UNCHANGED <<op, root, ev, disc>> /\ Worker

\* CompletePendingPolls.
PollGone(s) == ~tb.flows[s].occ \/ tb.flows[s].closed

\* Mutant: the deadline is not looked at.
PollResultEndless ==
  CASE PollGone(op.s) -> "Closed"
    [] ~PollGone(op.s) /\ Revents(tb, op.s, op.events) # {} -> "Opened"
    [] OTHER -> "none"
PollResult ==
  CASE PollGone(op.s) -> "Closed"
    [] ~PollGone(op.s) /\ Revents(tb, op.s, op.events) # {} -> "Opened"
    [] OTHER -> IF op.late THEN "WouldBlock" ELSE "none"

CompletePendingPolls ==
  IF op.st = "poll" /\ PollResult # "none" THEN Complete(PollResult) ELSE UNCHANGED op

DrainDone ==
  /\ At("drain") /\ \A s \in wk.todo : ~Drainable(s)
  /\ wk' = [wk EXCEPT !.pc = "again", !.todo = {}, !.s = "none"]
  /\ CompletePendingPolls
  /\ UNCHANGED <<tb, root, ev, disc, tun>> /\ Worker

-----------------------------------------------------------------------------
\* Dispatch of the operation at the head of the queue; then control signals
\* again and the next one, until the queue is empty.

Pop(type) == At("pop") /\ op.st = "queued" /\ op.type = type
Again == Goto("again")
FlowOpen(s) == tb.flows[s].occ /\ ~tb.flows[s].closed

NothingQueued ==
  /\ At("pop") /\ op.st # "queued"
  /\ wk' = [wk EXCEPT !.pc = "submit", !.todo = Sockets, !.progress = FALSE]
  /\ UNCHANGED <<op, tb, root, ev, disc, tun>> /\ Worker

\* close_matching: CloseFlow of the socket's flow, or of all of the session.
DispatchClose ==
  /\ Pop("Close") \/ Pop("CloseOwner")
  /\ LET S == IF op.type = "Close" THEN {op.s} ELSE {s \in Sockets : Owner[s] = op.o}
     IN tb' = ResetFlows(tb, S) /\ tun' = Drop(S)
  /\ Complete("Closed") /\ Again
  /\ UNCHANGED <<root, ev, disc>> /\ Worker

\* An Open that reaches no client: an existing entry, no ready root, a full table.
DispatchOpenLocal ==
  /\ Pop("Open") /\ Again
  /\ \/ tb.flows[op.s].occ
     \/ disc.state # "Ready" \/ root = "closed" \/ Cardinality(Occupied(tb)) = MaximumSockets
  /\ CASE tb.flows[op.s].occ ->
            Complete(IF tb.flows[op.s].closed THEN "SocketError" ELSE "Opened")
            /\ UNCHANGED <<disc, ev>>
       [] ~tb.flows[op.s].occ /\ disc.state # "Ready" ->
            Complete("TunnelUnavailable") /\ UNCHANGED <<disc, ev>>
       [] ~tb.flows[op.s].occ /\ disc.state = "Ready" /\ root = "closed" ->
            /\ Complete("TunnelUnavailable")
            /\ disc' = InvalidateReadyClient(disc) /\ ev' = Report(ev)
       [] OTHER -> Complete("SocketError") /\ UNCHANGED <<disc, ev>>
  /\ UNCHANGED <<tb, root, tun>> /\ Worker

CanReach ==
  /\ Pop("Open") /\ ~tb.flows[op.s].occ /\ disc.state = "Ready" /\ root # "closed"
  /\ Cardinality(Occupied(tb)) < MaximumSockets

\* OpenTunnelClient, OpenConnectedUdpFlow or GetCompletionEvent fails in CMIF.
DispatchOpenFails ==
  /\ CanReach /\ Again
  /\ \/ Complete("TunnelUnavailable")
     \/ root = "open" /\ Complete("SocketError")
  /\ disc' = InvalidateReadyClient(disc) /\ ev' = Report(ev)
  /\ UNCHANGED <<tb, root, tun>> /\ Worker

\* The service refuses: MapOpenStatus.
DispatchOpenRefused ==
  /\ CanReach /\ root = "open" /\ Again
  /\ \E r \in {"RouteNotCovered", "TunnelUnavailable", "BlockedByPolicy", "SocketError"} :
       Complete(r)
  /\ UNCHANGED <<tb, root, ev, disc, tun>> /\ Worker

DispatchOpened ==
  /\ CanReach /\ root = "open" /\ Again /\ Complete("Opened")
  /\ tb' = [tb EXCEPT !.flows[op.s] =
              [NoFlow EXCEPT !.occ = TRUE, !.client = "open", !.event = TRUE]]
  /\ tun' = [tun EXCEPT ![op.s] = [NoTunFlow EXCEPT !.open = TRUE]]
  /\ UNCHANGED <<root, ev, disc>> /\ Worker

\* Send, Poll, Receive without an open flow.
DispatchClosed ==
  /\ Pop("Send") \/ Pop("Poll") \/ Pop("Receive")
  /\ ~FlowOpen(op.s) /\ Complete("Closed") /\ Again
  /\ UNCHANGED <<tb, root, ev, disc, tun>> /\ Worker

DispatchSendOp ==
  /\ Pop("Send") /\ FlowOpen(op.s) /\ Again
  /\ tb' = DispatchSend(tb, op.s, op.fits)
  /\ Complete(IF ~op.fits THEN "MessageTooLarge"
              ELSE IF Accepts(tb, op.s, op.fits) THEN "Opened" ELSE "WouldBlock")
  /\ UNCHANGED <<root, ev, disc, tun>> /\ Worker

DispatchPoll ==
  /\ Pop("Poll") /\ FlowOpen(op.s) /\ Again
  /\ CASE Revents(tb, op.s, op.events) # {} -> Complete("Opened")
       [] OTHER -> IF op.timeout = "zero" THEN Complete("WouldBlock")
                   ELSE op' = [op EXCEPT !.st = "poll"]
  /\ UNCHANGED <<tb, root, ev, disc, tun>> /\ Worker

DispatchReceive ==
  /\ Pop("Receive") /\ FlowOpen(op.s) /\ Again
  /\ IF HeldInbound(tb.flows[op.s]) = {} THEN Complete("WouldBlock") /\ UNCHANGED tb
     ELSE Complete("Opened") /\ tb' = TakeInbound(tb, op.s)
  /\ UNCHANGED <<root, ev, disc, tun>> /\ Worker

-----------------------------------------------------------------------------
\* SubmitQueuedDatagrams: passes over the flows while one makes progress.

Submittable == {s \in wk.todo : tb.flows[s].occ /\ CanSubmit(tb.flows[s])}

SubmitBegin(s) ==
  /\ At("submit") /\ s \in Submittable
  /\ wk' = [wk EXCEPT !.pc = "batch", !.s = s, !.disp = <<>>, !.todo = @ \ {s},
                      !.n = Min2(Len(tb.flows[s].out), BatchEntries)]
  /\ UNCHANGED <<op, tb, root, ev, disc, tun>> /\ Worker

SubmitPassAgain ==
  /\ At("submit") /\ Submittable = {} /\ wk.progress
  /\ wk' = [wk EXCEPT !.todo = Sockets, !.progress = FALSE]
  /\ UNCHANGED <<op, tb, root, ev, disc, tun>> /\ Worker

\* Nothing more to submit: CompletePendingPolls, and WaitForWorkerActivity
\* clears the wake event.
SubmitDone ==
  /\ At("submit") /\ Submittable = {} /\ ~wk.progress
  /\ wk' = [wk EXCEPT !.pc = "check", !.todo = {}]
  /\ CompletePendingPolls /\ ev' = [ev EXCEPT !.wake = FALSE]
  /\ UNCHANGED <<tb, root, disc, tun>> /\ Worker

\* What SendTunnelUdpDatagram answers.  All flows share the staging queue, and the
\* adapter in front of it has limits of its own, so whether there is room is left
\* open; the protocol or the adapter may be unavailable while the flow stays open.
TunSend(f, d) ==
  IF f.open THEN {[f |-> [f EXCEPT !.waiter = FALSE, !.last = d], status |-> "Success"],
                  [f |-> [f EXCEPT !.waiter = TRUE], status |-> "QueueFull"],
                  [f |-> f, status |-> "TransportUnavailable"]}
  ELSE {[f |-> f, status |-> "FlowClosed"]}

\* DispatchUdpDatagramBatch calls it once per descriptor, and each call takes the
\* daemon's state mutex for itself.
BatchEntry ==
  /\ At("batch") /\ Len(wk.disp) < wk.n /\ tb.flows[wk.s].client = "open"
  /\ \E r \in TunSend(tun[wk.s], tb.flows[wk.s].out[Len(wk.disp) + 1]) :
     /\ tun' = [tun EXCEPT ![wk.s] = r.f]
     /\ wk' = [wk EXCEPT !.disp = Append(@, r.status)]
  /\ UNCHANGED <<op, tb, root, ev, disc>> /\ Worker

\* The call fails in CMIF, as it must when the service is gone.
BatchFails ==
  /\ At("batch")
  /\ wk' = [wk EXCEPT !.pc = "submit", !.s = "none", !.n = 0, !.disp = <<>>]
  /\ tb' = CloseSubmission(tb, wk.s)
  /\ disc' = InvalidateReadyClient(disc) /\ ev' = Report(ev)
  /\ UNCHANGED <<op, root, tun>> /\ Worker

\* The dispositions: an accepted prefix, then QueueFull; anything else is terminal.
AcceptedPrefix(d) == Max({k \in 0..Len(d) : \A i \in 1..k : d[i] = "Success"})
Terminal(d) == \E i \in (AcceptedPrefix(d) + 1)..Len(d) : d[i] # "QueueFull"

BatchDone ==
  /\ At("batch") /\ Len(wk.disp) = wk.n /\ tb.flows[wk.s].client = "open"
  /\ LET k == AcceptedPrefix(wk.disp)
         t == RetireQueuedOutboundPrefix(tb, wk.s, k)
     IN /\ wk' = [wk EXCEPT !.pc = "submit", !.s = "none", !.n = 0, !.disp = <<>>,
                            !.progress = @ \/ k # 0]
        /\ tb' = CASE Terminal(wk.disp) -> CloseSubmission(t, wk.s)
                   [] OTHER -> IF k < wk.n THEN [t EXCEPT !.flows[wk.s].writable = FALSE]
                               ELSE t
  /\ UNCHANGED <<op, root, ev, disc, tun>> /\ Worker

-----------------------------------------------------------------------------
\* The second look of WaitForWorkerActivity, and the wait.

\* Mutant: the second look is left out.
CheckActivityBlind ==
  /\ At("check") /\ Goto("sleep")
  /\ UNCHANGED <<op, tb, root, ev, disc, tun>> /\ Worker
CheckActivity ==
  /\ At("check")
  /\ Goto(IF op.st = "queued" \/ ev.req \/ ev.inv THEN "top" ELSE "sleep")
  /\ UNCHANGED <<op, tb, root, ev, disc, tun>> /\ Worker

Signalled ==
  \/ ev.wake \/ ev.halt \/ op.late
  \/ \E s \in Sockets : tb.flows[s].occ /\ tb.flows[s].event /\ tun[s].sig

WakeUp ==
  /\ At("sleep") /\ Signalled /\ Goto("top")
  /\ UNCHANGED <<op, tb, root, ev, disc, tun>> /\ Worker

WorkerSteps ==
  \/ WorkerExit \/ ProcessControlSignals
  \/ \E s \in Sockets : DrainFail(s) \/ DrainReceive(s) \/ SubmitBegin(s)
  \/ DrainDone \/ NothingQueued
  \/ DispatchClose \/ DispatchOpenLocal \/ DispatchOpenFails \/ DispatchOpenRefused
  \/ DispatchOpened \/ DispatchClosed \/ DispatchSendOp \/ DispatchPoll \/ DispatchReceive
  \/ SubmitPassAgain \/ SubmitDone \/ BatchEntry \/ BatchFails \/ BatchDone
  \/ CheckActivity \/ WakeUp

-----------------------------------------------------------------------------
\* Time and the tunnel service.

Outside == UNCHANGED <<main, srv, sess, sock, wk>>

\* The deadline of a pending poll.
DeadlinePasses ==
  /\ op.st = "poll" /\ op.timeout = "finite" /\ ~op.late
  /\ op' = [op EXCEPT !.late = TRUE]
  /\ UNCHANGED <<tb, root, ev, disc, tun>> /\ Outside

Serving(s) == tun[s].open
Notify(f, r) == [f EXCEPT !.q = Append(@, r), !.sig = TRUE]

\* A datagram, of any flow, leaves the daemon's staging queue: a waiting client is
\* told once.
TunRetire(s) ==
  /\ Serving(s) /\ tun[s].waiter
  /\ tun' = [tun EXCEPT ![s] = Notify([@ EXCEPT !.waiter = FALSE], "writable")]
  /\ UNCHANGED <<op, tb, root, ev, disc>> /\ Outside

TunInbound(s) ==
  /\ Serving(s) /\ Len(tun[s].q) < CompletionQueue
  /\ tun' = [tun EXCEPT ![s] = Notify(@, "in")]
  /\ UNCHANGED <<op, tb, root, ev, disc>> /\ Outside

\* The peer or the policy of the flow goes away; a closed flow's waiter is read no
\* more.
TunClose(s) ==
  /\ Serving(s)
  /\ tun' = [tun EXCEPT ![s] = Notify([@ EXCEPT !.open = FALSE, !.waiter = FALSE], "closed")]
  /\ UNCHANGED <<op, tb, root, ev, disc>> /\ Outside

\* The daemon exits, with a last signal of the completion events or without; it
\* may be back when discovery looks for it.
TunDown ==
  /\ root' = IF root = "open" THEN "dead" ELSE root
  /\ tb' = [tb EXCEPT !.flows = [s \in Sockets |->
              IF @[s].client = "open" THEN [@[s] EXCEPT !.client = "dead"] ELSE @[s]]]
  /\ \E orderly \in BOOLEAN :
       tun' = [s \in Sockets |->
         [NoTunFlow EXCEPT !.sig = tun[s].sig \/ (orderly /\ tb.flows[s].event)]]
  /\ UNCHANGED <<op, ev, disc>> /\ Outside

TunSteps ==
  \/ TunDown
  \/ \E s \in Sockets : TunRetire(s) \/ TunInbound(s) \/ TunClose(s)

Next ==
  \/ MainSteps \/ Shutdown \/ Stutter \/ Commands \/ ServerSteps \/ WorkerSteps
  \/ DeadlinePasses \/ TunSteps

Spec == Init /\ [][Next]_vars

\* The scheduler runs every thread that can run, and time passes.
FairSpec ==
  Spec /\ WF_vars(MainSteps) /\ WF_vars(ServerSteps) /\ WF_vars(WorkerSteps)
       /\ WF_vars(DeadlinePasses)

-----------------------------------------------------------------------------
\* Types of the threads' state, and the capacities of queues and tables.
TypeOK ==
  /\ main \in {"worker", "discovery", "probe", "signal", "bsd", "serving", "joinbsd",
               "stopdiscovery", "stopworker", "joinworker", "done"}
  /\ srv.pc \in {"none", "idle", "request", "rsignal", "enqueue", "signal", "wait", "exited"}
  /\ op.st \in {"none", "new", "queued", "poll", "done"}
  /\ root \in {"closed", "open", "dead"}
  /\ disc.state \in {"Bypass", "DiscoveryPending", "Ready"}
  /\ \A s \in Sockets : /\ sock[s].route \in {"none", "untracked", "Created", "OpeningTunnel",
                                              "Direct", "Tunneled", "Failed"}
                        /\ Len(tb.flows[s].out) <= OutboundPerSocket
  /\ \A o \in Owners : Cardinality(Tracked(o)) <= TrackedSlots
  /\ Cardinality(Occupied(tb)) <= MaximumSockets /\ tb.pool \in 0..OutboundPool

\* The worker is never left asleep with something to do: no queued operation,
\* no control signal, no completion to drain, no datagram it could submit, no
\* pending poll it could answer (WaitForWorkerActivity and the order of Run).
SleepIsJustified ==
  At("sleep") /\ ~Signalled /\ srv.pc \notin {"signal", "rsignal"} /\ main # "signal" =>
    /\ op.st # "queued" /\ ~ev.req /\ ~ev.inv
    /\ \A s \in Sockets : tb.flows[s].occ /\ tb.flows[s].client = "open" =>
         ~CanSubmit(tb.flows[s]) /\ (tb.flows[s].closed \/ tun[s].q = <<>>)
    /\ op.st = "poll" => PollResult = "none"

\* The outbound pool counts exactly the queued datagrams of the flows.
PoolBalances == tb.pool = MapThenSumSet(LAMBDA s : Len(tb.flows[s].out), Sockets)

\* Datagrams reach the tunnel service in the order of the sends and at most
\* once: outside a batch call everything queued is newer than what it accepted.
SubmittedInOrder ==
  \A s \in Sockets : LET q == tb.flows[s].out IN
    /\ \A i, j \in 1..Len(q) : i < j => q[i] < q[j]
    /\ (q # <<>> /\ ~(At("batch") /\ wk.s = s)) => Head(q) > tun[s].last

\* A flow whose sends are blocked has been promised a Writable record, or will
\* be told that it is closed: no flow waits for a record nobody owes it.
BlockedIsPromised ==
  \A s \in Sockets :
    LET f == tb.flows[s]  g == tun[s] IN
    f.occ /\ f.client = "open" /\ ~f.closed /\ ~f.writable =>
      \/ g.waiter
      \/ \E i \in 1..Len(g.q) : g.q[i] \in {"writable", "closed"}

\* A flow entry belongs to a tunneled socket, or to the one whose command is
\* under way.  So the retained descriptor and the flow never part: a socket that
\* went direct or failed has no flow, and a descriptor number used again does not
\* find an old one, which Dispatch would report as opened.
FlowIsOwned ==
  \A s \in Sockets : tb.flows[s].occ =>
    \/ UsesTunnelFlow(Route(s))
    \/ srv.s = s /\ Route(s) = "OpeningTunnel"

\* A ready discovery state means a root session, or an invalidation under way.
ReadyHasRoot == disc.state = "Ready" => root # "closed" \/ ev.inv

\* HORIZON_INTEGRATION_SPEC.md:343: a tunneled socket serves the adapter surface
\* only through the tunnel and rejects unsupported calls.  Commands the interface
\* does not declare are forwarded all the same.
UnsupportedIsRejected ==
  \A s \in Sockets, supported \in BOOLEAN :
    UsesTunnelFlow(Route(s)) => "upstream" \notin Range(Answers(Route(s), supported))

\* DrainCompletions goes on until a flow's queue is empty, so a drain can only
\* be said to end when datagrams do not arrive for ever.
TrafficPauses == <>[][\A s \in Sockets : ~TunInbound(s)]_vars

\* A discovery that was asked for comes to its end, whatever becomes of the service
\* meanwhile: RequestForTraffic asks from Bypass only, so a pending state that
\* stays would keep every later socket off the tunnel.
DiscoveryEnds ==
  TrafficPauses => ((disc.state = "DiscoveryPending") ~> (disc.state # "DiscoveryPending"))

\* Every socket command returns, other than a poll without a timeout.
Parked == srv.cmd = "Poll" /\ op.timeout = "none"
CommandReturns ==
  TrafficPauses =>
    ((srv.pc \notin {"none", "idle", "exited"} /\ ~Parked) ~> (srv.pc \in {"idle", "exited"}))

\* A shutdown runs to its end unless a poll without a timeout is outstanding.
StopsUnlessParked == TrafficPauses => ((main = "joinbsd") ~> (main = "done" \/ Parked))

\* mitm-sysmodule/README.md:29: the worker interrupts an in-progress tunneled
\* poll, so that an unbounded timeout cannot prevent the shutdown.
ShutdownCompletes == TrafficPauses => ((main = "joinbsd") ~> (main = "done"))

\* tunnel_flow_worker.cpp:767: a batch is processed in order under one staging
\* lock, so what it accepts is a prefix and the worker never has to cut a flow
\* for the sake of its order.
BatchIsPrefix ==
  \A i, j \in 1..Len(wk.disp) :
    i < j /\ wk.disp[i] = "QueueFull" => wk.disp[j] # "Success"
=============================================================================
