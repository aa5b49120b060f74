# A TLA+ model of wireguard-nx

wireguard-nx is a userspace WireGuard for Horizon: a daemon (`src/wg-sysmodule`)
that runs the protocol, a second process (`src/mitm-sysmodule`) that routes
intercepted UDP sockets into it, and user interfaces. This directory holds TLA+
modules for both processes, TLC configurations for small instances, and
proofs checked by TLAPS. `PROJECT.json` lists the runs, the source lines behind
each definition, the mutants, the hazards and the theorems.

    tlc -workers 2 -config PeerPath.cfg MCPeerRuntime
    tlapm TimerPlaneProofs.tla

## How the system works

One mutex guards the daemon's state. A thread that has an event (an IPC command,
a path observation, a resolved name, a datagram, a timer expiry, a completion)
takes it, calls the peer's handler, receives a bounded batch of *effects*
(at most eight), releases the mutex, and executes the effects itself. An effect
may end in a completion, which is another event; its effects are executed behind
the rest of the batch. Between handler and effect anything may happen, so every
effect and completion carries generations (activation, path request, socket,
datagram, timer token), and a handler ignores what no longer matches.

The daemon's threads: one IPC thread, which serves the control and the tunnel
service, one NIFM path-observation thread, one timer-manager thread, and one
worker for each ordered workqueue (resolve, submit, tx, rx, timer).

A tunneled socket of an application is a *flow* of the daemon's flow plane: a
connected UDP socket of lwIP inside the daemon, whose packets go through the
tunnel. lwIP runs on the submission lane only; the IPC thread leaves an operation
in the adapter owner's one slot, queues the lane, flushes it and takes the
result. The MITM process has four threads: main, a control server, one bsd:s
server thread that runs the socket commands, and one flow worker that owns every
tunnel handle. A socket command that concerns a flow is an operation queued for
the worker; the server thread waits for it.

## Parts

| Part | State | Operations | What is hard about it |
|---|---|---|---|
| Peer runtime: activation, path, binding | lifecycle, path, endpoint, socket, pending open | activate, deactivate, observe, resolve, open, adopt, suspend, rebind, fail | completions of an old activation, path or socket; opens in flight across a path loss |
| Peer runtime: traffic | pending datagram, staging queue, retries, keys by age | stage, send, complete, receive, retransmit, rekey, expire | what a completion finds when it arrives |
| Effect executor | a batch per thread, transmit slot | one step per effect | budgets; state changed between handler and effect |
| Receive pump | receive item, socket snapshot, rebind queue | snapshot, receive, commit, exit | exit racing a rebind |
| Path service | the NIFM request | start, stop, observe | stop joins the observation thread; identity of an observation |
| Endpoint resolver | one slot | request, resolve, deliver | a slot overwritten or dropped |
| Timer plane | tokens, slots, timers, work items | arm, cancel, expire, capture, deliver | a token checked under one lock and used under another |
| Workqueues | queue, running item, rerun, count | queue, run, flush, destroy | reruns, capacity, what a flush waits for |
| Keypairs, replay window, indices | three keypairs, counters, registry | establish, promote, zero, advance | counter boundaries, late and repeated messages |
| Cookies, rate limit | buckets, entries, secret | admit, reply, retry | reuse of entries, renewal of the secret |
| Debug probe | one probe, one timer | trigger, take, commit, answer, time out, cancel | a request held without the lock |
| Flow plane | clients, flows, tombstones, slabs, completions, policy | reserve, commit, send, deliver, drain, close | full queues, edge-triggered notification, late answers |
| Adapter owner, submission lane | one slot, tickets, flags | queue, run, take result, cancel, reset | the result read after a flush; a refused lane |
| Packet channel | owner, receive queue | claim, publish, clear | one consumer taking over from another |
| MITM worker, sockets, discovery | operations, polls, flows, routes, back-off | socket commands, batches, drain, invalidate, stop | a waiter nobody signals, back-pressure nobody lifts |

## Modules

**`TimerPlane`**. A peer handler records intent and
hands out a token (`TimerCoordinator`); a lane later executes the arm or cancel
in the steps of the code: re-check the token under the state mutex, take the
operation mutex, `timer_delete_sync` (delete, then wait for the callback), write
the slot, start the timer. The timer-manager thread pops an expired timer and
captures the slot's token; the work item delivers it. Time is abstract: a
started timer may expire at any later moment. `CancelAllProtocolTimers`
(shutdown) is left out.

**`WorkQueue`**. One ordered queue: `queue_work` with its five outcomes, the
worker that runs an item without the mutex and requeues a reserved rerun,
`flush_workqueue`, `destroy_workqueue` (a flush, then the stop), and the
condition variable that worker and flushing callers share. Tickets are history
variables that say which runs are still owed.

**`PeerHandlers`**. The handlers as functions from peer state and event to peer
state and effect batch, one operator per handler or helper.

**`PeerRuntime`**. The daemon around them: the lanes, each with its list of
effects still to execute, the path request, the resolver, the transmit slot, the
receive loop, the rebind queue, the descriptors open in the operating system.
Aborts of the code (`AMS_ABORT_UNLESS`) are steps that set `aborted`. External
calls may fail, at most `MaxFaults` times. The protocol code of the selected peer
may begin to fail too (`ProtocolFails`, counted with the faults): keys refused
when it is instantiated, or a message that does not build; every handler then
takes its error path. `SetActivePeer` is one step as it is in the code, under the
mutex.

**`NoiseKeys`**. The key state of one device as a record: handshake, the
keypairs previous, current and next, index registry and allocator, replay window
as a ring of blocks; one operator per function of `session.cpp`, `device.cpp`,
`handshake.cpp` and `data.cpp`. A session key is the identity of the transcript
it was derived from; encryption is perfect.

**`NoiseSession`**. Two such devices over a network that keeps every datagram:
it may be received never, late, out of order and again. An action is a whole
handler. `ZeroKeyMaterial` (the timer) and `Reactivate` (a new activation) lose
the key state; with it goes the time stamp of the last initiation consumed, so
`NothingTwice` speaks of initiations between two such losses.

**`HandshakeAdmission`**. `noise_handshake_admit_responder_packet`: the bucket
of all arrivals, the memory of load, the cookie a sender has to show, the
buckets of the sources in a fixed table. Times are ages in ticks, capped where
they stop to matter. `ideal` is a history variable: for every source, the bucket
it would have if no entry were ever given to another source. A source that finds
no entry is refused, as in the code. The sender retries without end; that it
gives up is modelled in `PeerHandlers`.

**`DebugProbe`**. One probe at a time, carried by the IPC thread, the submission
lane, the receive lane and the timer lane, each of which queues, arms or cancels
after it released the mutex. What the lane sent is matched with the probe by peer,
activation and action, a reply by peer and activation, a time-out by nothing.

**`FlowPlane`**, **`FlowService`**, **`TunnelDaemon`**. `FlowPlane` has the
methods of `TunnelFlowPlane` as operators on a record. `FlowService` is the
abstract specification, the service as a client sees it: the methods in any
order, no threads. `TunnelDaemon` is the daemon: the IPC thread with its tunnel
and packet commands in the locked sections of the code, the adapter owner's slot
and tickets, the submission lane with its two slots for three items, the worker
that runs an operation without the mutex, the receive lane and the timer lane
beside it. It implements `FlowService` (`ImplementsService`; the refinement
mapping gives `act` the count of activations and keeps the plane).

**`MitmFlows`**, **`MitmRuntime`**. `MitmFlows` has the worker's flow table, the
submission state, the discovery back-off and the route of a socket. `MitmRuntime`
has the threads: main with its start and shutdown, the server thread with the
socket commands, the worker with its loop (control, operations, submission in
batches, completions, polls, sleep), and the tunnel service as environment: it
stages, blocks, delivers, closes, goes down and comes back. Between them the
modules of the two processes meet at the interface `FlowService` describes.

The modules abstract each other. The peer modules treat an armed timer as an
element of the peer's set `armed` that may expire; how it comes to expire once,
with its own token, is what `TimerPlane` is about. They treat a work item as a
flag; that a request made during a run is not lost, and that only a full lane
refuses it, is what `WorkQueue` is about. They treat keys as age classes;
`NoiseSession` is about the keys. `TunnelDaemon` sees of the peer whether it is
established and how much it has staged.

`MC*` modules give the instances their constants. A definition whose comment
begins with "Mutant" is a faulty variant of the one after it; `PROJECT.json`
says which property it violates.

## Runs

| Run | Shows | Distinct states |
|---|---|---|
| `timer_plane` | with one arming lane an armed timer is never lost; an expiry captures its own token; a delayed cancel disarms only its own token; every armed timer expires, is replaced or is cancelled | 374 k |
| `work_queue` | a flush that returns is a barrier; no wake-up goes astray; accepted requests run | 157 k |
| `peer_path` | descriptors are owned once; a bound socket has a path; a pending datagram has one carrier; the receive loop covers the socket | 2.31 M |
| `peer_traffic` | a peer that is down is quiet; no plaintext is prepared twice | 1.59 M |
| `peer_live` | pending datagrams retire, suspensions end | 476 k |
| `noise_session` | no datagram, counter or initiation counts twice; the replay window is exact; a device sends only with keys its peer derived, and still holds or has superseded | 1.27 M |
| `handshake_admission` | reusing an idle entry of the rate-limit table gives no source fresh tokens; a sender that retries is admitted | 233 k |
| `debug_probe` | what came of sending a probe is recorded in the probe that asked; accepted probes settle, but for two kinds the property names | 148 k |
| `flow_service` | tuples are distinct and quarantined; slabs and occupancies agree with the queues; the event covers the queue; queued data is of the present activation; no reserved control record is dropped; a dead handle stays dead | 538 k |
| `tunnel_lane` | a waiter finds its own result; flows and PCBs agree; the daemon implements `FlowService`; every command returns | 935 k |
| `mitm_runtime` | the worker sleeps only without work; datagrams keep their order; back-pressure has been promised an end; a flow entry has its socket; a discovery ends; commands return; shutdown ends unless a poll waits for ever | 704 k |

`timer_plane_race` expects a violation. `runtime-architecture.md:59` says that
the token an arm retains prevents "delayed platform work from changing a newer
physical schedule" (`NewerScheduleKept`). The executor checks the token, releases the mutex and arms; for
a hook that two lanes arm, the older arm can be performed last.

### Further statements

The modules state more than the runs check. Each of these holds on the instance
of its component's run, and can be put into the cfg of that run: `TypeOK` in
every module, `SlotIsBacked` and `QueuedHasWork` (`TimerPlane`),
`PendingIsExact`, `RefusalIsFull` and `FlushReturns` (`WorkQueue`), `RequestIsOwned`
(`PeerRuntime`), `LookupFindsOwner` (`NoiseSession`), `PendingIsCurrent`
(`DebugProbe`), `TombstoneReserved` (`FlowService`), `ReservationStands`,
`OpenFlowHasPcb`, `PcbHasFlow` and `ReceivedIsOwned` (`TunnelDaemon`),
`PoolBalances` and `ReadyHasRoot` (`MitmRuntime`).

These state a sentence of the repository that the code does not keep; TLC shows
a counterexample with the cfg named and the property added:

| Property | cfg | The sentence |
|---|---|---|
| `BudgetsHold` | `PeerTraffic.cfg` | `runtime-architecture.md:123`, "The coordinator checks the actual count against that event budget, and all budgets fit the fixed eight-effect batch" |
| `SwitchFitsBatch` | `PeerPath.cfg` | `RUNTIME_REFACTOR.md:417`, "each maximum fits the fixed eight-effect batch": a switch of peers joins two batches |
| `ObservationIsOwn` | `PeerPath.cfg` | `RUNTIME_REFACTOR.md:134`, "Equality of every applicable identity is required; partial matches are rejected without side effects" |
| `ResolutionProceeds` | `PeerPath.cfg` | `transport-recovery.md:45`, "`Available` permits endpoint resolution, UDP opening, and normal WireGuard recovery" |
| `InputStillThere` | `TunnelLane.cfg` | the assertion at `daemon_runtime.cpp:398` that the queued packet is still there |
| `ShutdownCompletes` | `MitmRuntime.cfg` | `mitm-sysmodule/README.md:29`, "The flow worker also interrupts an in-progress tunneled `poll()` so an unbounded caller timeout cannot prevent shutdown" |
| `BatchIsPrefix` | `MitmRuntime.cfg` | the assertion at `tunnel_flow_worker.cpp:767` on the accepted part of a batch |
| `UnsupportedIsRejected` | `MitmRuntime.cfg` | `HORIZON_INTEGRATION_SPEC.md:343`, "`Tunneled` serves the defined adapter surface only through WGNX and rejects unsupported calls explicitly": commands the MITM does not declare are forwarded |
| `RetirementIsAnnounced` | `TunnelLane.cfg` | `HORIZON_INTEGRATION_SPEC.md:205`, "emits a coalesced `Writable` completion for each waiting flow whenever a staged packet retires and frees admission capacity": a datagram whose snapshot is rejected (`runtime_effect_executor.cpp:90-117`), or a queue that is cleared, retires without it |

Two statements are in no document, but a reader of the code may expect them.
They are violated too. `RetiresOwnPacket` (`PeerTraffic.cfg`): the completion of a
datagram retires the packet it was prepared from. It retires the front of the
staging queue (`outbound.cpp:263`), which may have been cleared and refilled in
between, so a packet that was never sent can go. `EveryProbeSettles`
(`DebugProbe.cfg`): every accepted probe settles. One whose work item is refused,
or whose timer the late cancel of an earlier probe takes, waits for a reply or a
switch of the peer; these are the probes `ProbeSettles` leaves out.

More observations, which the models contain and no property is about. A late
reply, or a time-out already captured, of an earlier probe of the same activation
settles the present one (`debug_probe_runner.cpp:90-115`). A rebind that completes restores the endpoint captured when it was requested
(`activation.cpp:319`). Zeroing the key material forgets the time stamp of the
last initiation consumed. Two devices that initiate at the same moment may both
end with a session in their next slot only, until one sends or initiates again.
A poll without time-out keeps the MITM's one bsd:s server thread.

### Bounds

The environment is bounded, the threads are not. In `PeerRuntime`,
`MaxActivations`, `MaxObservations`, `MaxFaults`, `MaxBumps`, `MaxPackets`,
`MaxExpiries`, `MaxReceives` and `MaxAgings` count what users, network, clock and
operating system do; each run spends them where its question lies. `peer_path`
has two peers and a switch between them, three observations (a path that comes, goes and
returns), a rebind and a fault; `peer_traffic` two packets, two expiries, two
datagrams and one ageing step (a key may age to its expiry at once), so that a
retransmission, a rekey and a second packet overlap, for one peer that is selected
and deselected; `peer_live` has a second peer whose configuration is rejected.
`StagingCapacity` 2 and `MaxSendAttempts` 2 let both limits be
reached.

`TimerPlane` has two generations (an arm and its replacement) in two
activations. `WorkQueue` has three items on two slots, the size of the
submission lane, and two callers, so that one flush can be overtaken by another.
`NoiseSession` has three handshakes from one end and two from the other, three
data packets, one loss of key material and a ring of two one-bit blocks, so that
a window moves past its ring. `HandshakeAdmission` has three sources on two
entries. `FlowService` has two flow slots and one port, so that quarantine,
quota and reuse all bite, three reservations and two activations. `TunnelDaemon`
has the two lane slots of the code for three items, one flow slot and one staged
packet; `MaxEvents` bounds what peers and network do, and how often lwIP fails to
configure. Two flows of one daemon, and an exhausted slab pool, are left to
`FlowService` and to the proofs about it. `MitmRuntime` has one socket and two
datagrams; opening and closing it is not bounded, and since flows share the
daemon's staging queue, whether the tunnel service has room is left open.

Deadlock is not checked where the bounded environment lets a system come to
rest; `flow_service`, `tunnel_lane`, `mitm_runtime` and `handshake_admission`
check it.

### Fairness

Threads keep running: weak fairness of each lane's step, of the timer-manager
thread, of a started timer's expiry, of a workqueue's worker and its flushing
callers, of the IPC thread, of the threads of the MITM process, of the clock
and of a sender's message being received. The operation mutex of
`TimerScheduler` is taken under strong fairness: the holder always releases it
and the operating system's mutex does not starve a waiter. Nothing is assumed of
users, of the network, of NIFM, of the tunnel service that the MITM process
meets, or that timers expire in `PeerRuntime`. There, fairness is written with an
explicit `Ready(l)` instead of `ENABLED`, which TLC evaluates slowly;
`Ready(l) <=> ENABLED Step(l)` holds in every state of the `peer_live` instance.

`SuspensionEnds` excludes behaviours with a failed external call: a rebind whose
open fails is not retried by the code. `StopsUnlessParked` excludes a poll
without time-out, for which `ShutdownCompletes` fails, and a tunnel service
that never pauses.

## Proofs

TLAPS proves the following for every value of the constants, from the named
assumptions of the modules alone. Each invariant that is a strengthening was
checked with TLC on the instance of its run before it was proved.

**`TimerPlaneProofs`**: all safety properties of the component
(`TypeCorrect`, `ExpiryCapture`, `SlotBacking`, `NoDeliveryLost`,
`CancelIsPrecise`, `ArmedTimersStay`). The invariant `Inv` adds who owns the
operation mutex (`OwnerInv`), that the lane inside it works on the head of its
batch (`HeadInv`), that a started timer agrees with its slot (`TimerInv`), and
what the owner has established at each step (`OwnerKnows`): from
`timer_delete_sync` on, the hook has neither a started timer nor a running
callback, so nobody else moves its slot. That an armed timer is not lost needs
`LossInv` as well: tokens come in the order of their generations, from past
activations and sequences (`TokensIssued`, `OwnersPast`), a lane at rest has no
effects left (`RestingInv`), a token being cancelled is no longer the
coordinator's (`EffectsInv`), and the token a hook's only arming lane is arming is
the coordinator's or was cancelled (`ArmingInv`).

**`WorkQueueProofs`**: all safety properties. The strengthening says that a
queued item has no rerun, that only the running item has one, and that every
ticket is finished, running, queued or reserved. The flush barrier follows: with
an empty queue and no running item there is no rerun either. `RefusalIsFull`
counts: no item is in the queue twice (`OnceQueued`), so a queue without a free
slot holds as many items as it has slots.

**`NoiseSessionProofs`**: all safety properties. `SessionInv` says that what a
device holds is backed by messages that were really made (`Backed`,
`KeysBacked`), and that indices handed out differ (`IndicesDiffer`). From it
follow `IndexFindsKeypair` and `SessionIsShared`. `HistoryInv` relates device and
history: the replay window of a keypair is the set of counters received on it
(`WindowHolds`, by lemmas on the ring: `AcceptsExactly` says which counters
`TryAdvance` takes, `AdvancedHolds` that the ring afterwards holds exactly them),
the counters sent are below the send counter (`KeypairTracks`), and a peer that
once derived a key holds it, has moved on or has lost its keys (`KeyStands`).
From it follow `NothingIsDoneTwice`, `ReplayWindowIsExact` and `PeerHoldsKey`.

**`HandshakeAdmissionProofs`**: `TypeCorrect`, and `ReuseIsFree`: an entry is
only reused when its bucket would be full again, so a source that has or finds an
entry is limited as if it had always kept one.

**`DebugProbeProofs`**: `TypeCorrect`, `NoneOutlivesItsPeer`, `OutcomeStaysOwn`.

**`FlowPlaneProofs`** has no theorem about a specification: it shows what each
method of the flow plane does to a well-formed plane (`Valid`), one lemma per
method. The walks over slots and over queues are recursive functions on an
interval; `IntervalInduction` proves what they do by induction on a set of
numbers. **`FlowServiceProofs`** concludes `TuplesStayDistinct`,
`TombstonesSuffice`, `EventIsCovering`, `DeliveryIsCurrent` and
`HandlesNeverReturn`.

**`TunnelDaemonProofs`**: `DaemonImplementsService`. The daemon's initial state
is the service's, and each step of each thread is a step of the service or leaves
the plane alone. The invariant it needs (`DaemonInv`): the plane is valid, its
policy is that of the active peer, and a send works on a handle that names a
slot. What is proved of the service therefore holds of the daemon.

Only model-checked:

- liveness (all runs): outside the prover;
- the invariants of `PeerRuntime` and `MitmRuntime`;
- `WaiterServed` and `FlowsMatchPcbs` of `TunnelDaemon`: tickets and generations
  wrap at `Generations`, so they are true of a code-sized constant and a bounded
  run and not for every constant;
- `SlabsAccounted` of `FlowService`: its total over the clients is a recursive
  function on sets, which needs induction over data;
- `ControlNotLost` of `FlowService`.

## Not modelled

Cryptography and message encodings, lwIP, libnx and Atmosphère calls (external:
they succeed or fail), configuration parsing, logging, IPC marshalling, the user
interfaces, autostart (one IPC thread issues the commands, so two stores never
overlap), the batch form of staging. In the MITM process the upstream calls are
assumed to return.

Left out of the handshake: the limit on how often initiations of one peer are
consumed (only the order of their time stamps is kept), the retry of
`AllocateIndex` after a collision, and a cookie reply that fails to build. Of the
send path: the terminal socket errors of `udp.cpp:284-296`, which the one caller
cannot meet. Two critical sections are merged where nothing can come between them
that a property tells apart: the snapshot of the receive runtime, and the start of
a resolution.

Generations other than the adapter owner's tickets are unbounded numbers. A flow's
generation has 24 bits in its handle (`tunnel_flow_plane.cpp:694`), the others
have 32 bits. `HandleNeverReturns` is therefore a statement about the first
2^24 - 1 reservations of a client: after them the code may hand out a generation
again.
