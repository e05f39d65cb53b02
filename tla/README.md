# TLA+ models of depthai-core

depthai-core is the host library for Luxonis OAK devices. A program builds a
*pipeline*, a graph of nodes that send each other messages. Some nodes run in
threads of the host process, others in the device's firmware. `build()` puts a
pair of XLink nodes wherever a connection crosses, and `DeviceBase` keeps the
link to the device alive. This directory models the part of that library whose
correctness depends on the order of steps of several threads: its queues, nodes
and pipelines, their tracing, the link and its reconnection, the remote calls,
the calibration of a running device, and the two uploaders (events, telemetry).

Every definition is translated from the C++ source; `PROJECT.json` gives the
lines for each. Paths below are relative to the root of the repository.

    tlc -workers 2 -config MessageQueue.cfg MessageQueue     # a run
    tlapm LockingQueueProofs.tla                             # the proofs

## 1. Inventory

| Part | State it keeps | Operations | What is hard about it | Modelled in |
|---|---|---|---|---|
| `LockingQueue` (`utility/LockingQueue.hpp`) | queue, maxSize, blocking, destructed, two condition variables | push, pop, consume (each waiting, timed, immediate), waitEmpty, set*, destruct | notification after unlock, reconfiguration and closing while threads are parked | `LockingQueue`, `QueueContract` |
| `MessageQueue` (`pipeline/MessageQueue.cpp`), `WaitAnyNotifier`, `BinarySemaphore` | a LockingQueue, callbacks, notifiers | send, get, close, waitAny, getAny | waiting on several queues under one lock each | `MessageQueue` |
| `Node`, `Input`, `Output` (`pipeline/Node.cpp`) | connections, connectedInputs, nodeMap | link, unlink, createOutputQueue, send, remove, stopPipeline | a link is recorded twice | `PipelineGraph` |
| `PipelineImpl`, graph part (`pipeline/Pipeline.cpp`) | nodes, isBuild, bridges | add, remove, build | build rewrites links one at a time, and may throw midway | `PipelineGraph` |
| `PipelineImpl`, life cycle; `ThreadedNode` | running, stateMtx, threads, task queue | start, run, stop, wait, destructor | stopped by the user, by failing nodes and by the destructor at once | `PipelineLifecycle` |
| `PipelineEventDispatcher`, `PipelineEventAggregation` | events, sequence numbers, rings of unfinished events | tracked events, pings, matching START and END | several threads in one dispatcher, a queue that drops | `PipelineEvents`, `CircularBuffer` |
| `PipelineStateMerge`, `PipelineStateApi` | the request under way, two half states | ask once, ask repeatedly, merge | answers that carry no request, a slot of one | `PipelineStates` |
| `CircularBuffer` (`utility/CircularBuffer.hpp`) | ring, index | add, read, iterate | wrap-around | `CircularBuffer` |
| `XLinkInHost`, `XLinkOutHost` | conn, stream, isDisconnected | run, setConnection, disconnect | parking without a predicate, state written outside the lock | `DeviceReconnect` |
| `DeviceBase`: connection | connection, watchdogRunning, isClosing, closed, threads | watchdog, monitor, init2, close | reconnecting against closing | `DeviceReconnect` |
| `DeviceBase`: remote calls | rpcStream, rpcMutex | rpcCall | timeouts, responses without numbers | `RpcClient` |
| `DeviceBase`: telemetry threads | telemetryEventStream, two flags | read events, ping, stop | a stream replaced under its reader, flags cleared without the mutex | `DeviceTelemetry` |
| Telemetry upload (`utility/Telemetry.cpp`) | queued files, flush request, pause | add, flush, post, retry, shut down | a batch posted without the mutex while events are added and dropped | `TelemetryQueue` |
| `EventsManager` | two buffers, batches with threads, cache | sendEvent, sendSnap, upload, retry, wait, destroy | four containers with a lock each, a thread per batch and snap | `EventsManager` |
| `AutoCalibration`, `DynamicCalibration` | attempt, counts; results, coverage, queue of commands | one round of recalibration against the loop that executes it | answers without numbers through queues of one, a gate between | `AutoCalibration` |
| `Sync` | frames, attempts | run | choosing which message to replace | `SyncNode` |
| `Gate` | currentCommand, counters | run | commands against messages | `GateNode` |
| `MessageDemux` | none beyond its queues | run | blocking or closed outputs | `MessageDemux` |
| `HostNode`, `InputQueue` | a Sync, a task | run | tasks run in the user's thread | planned |
| `DeviceGate`, bootloader, start-up of a device pipeline, record and replay | session, flash, files | requests and polling | stop flags, retries | planned |
| Image, geometry, calibration and tracking code, formats, archives, SLAM adapters | data | functions | floating point, I/O | out of reach |

How they interact. Every message passes through a `MessageQueue`, that is a
`LockingQueue`: a node's thread takes from its inputs, and `Output::send` pushes
into the queues connected to it, one after the other. Stopping is propagated
through the queues as well: `close()` makes get and send throw `QueueException`,
and the node's thread ends. A node that fails with another exception stops the
whole pipeline from a detached helper thread. Bridges turn a link into two
queues and an XLink stream. When the link dies both ends of it on the host park
until the device's monitor thread hands them a new connection or tells them to
give up. Configuration of the device goes through remote calls beside all this.
While a pipeline runs, its nodes' dispatchers send events to an aggregation on
either side, which answers requests for the state through a merge node.

Correctness, per part: a queue loses, repeats and reorders nothing and forgets
nobody who sleeps; waitAny misses neither message nor close; build keeps the
deliveries the user asked for; stop ends every thread exactly once; at most one
link is open, is watched, and is not opened after close; a call gets its own
response; nodes group, gate and distribute exactly the messages they should; a
measured duration is one that happened; a state is that of the request; a
calibration is applied only if it was measured; what an uploader took it
uploads, gives up or caches, once. The `hazards` of `PROJECT.json` list where
each of these could fail.


## 2. Modules

**Queues.** `QueueContract` says what a bounded queue promises: messages leave in
the order in which they were accepted, each once, and an overwriting queue drops
from the front. `LockingQueue` is the class itself. A critical section is one
step. The wait on a condition variable is a place of its own (`NotifyPop`,
`NotifyPush`, `TimeOut`, spurious wake-ups), and so is the `notify_all` the code
issues after unlocking. `accepted`, `left` and `dropped` are histories, which no
guard reads. `ImplementsContract` is the refinement. `MessageQueue` puts several
queues together, each taken at its contract, and one thread that waits on all of
them: every lock that `waitAny` and `getAny` take and give back is a step (`wpc`
is the place, `i` the queue it has come to), because the clients act in between.

**Pipelines.** `PipelineLifecycle` has a chain of host nodes, the user's thread,
and a helper thread for each node that fails. `refs` are the shared pointers to
the pipeline: who holds one decides where the destructor runs. `PipelineGraph`
has what `link`, `unlink`, `createOutputQueue`, `add` and `remove` do to the two
records of a link (`conns`, `inputs`), and `build`, whose loops make one bridge a
step and may throw. `PipelineEvents` is the dispatcher of a node's threads, the
dropping queue behind it, and the pairing of STARTs and ENDs in `CircularBuffer`.
`PipelineStates` is the request for a state, from the user through the merge
node to the aggregations of both sides and back.

**Nodes.** `SyncNode`, `GateNode` and `MessageDemux` are the three nodes whose
`run` is control rather than arithmetic. A message is what the node looks at: a
timestamp, whether the gate was open, the names in a group. `AutoCalibration`
is a conductor, the `DynamicCalibration` it commands and the gate in front of
it, over queues that hold one message.

**Device.** `DeviceReconnect` has the watchdog and monitor threads, `close` from
the user's thread, and the two host ends of XLink streams, in the order of
their lines. A link is up, stalled or down; the model decides when. `RpcClient`
is `rpcCall` over one stream. `DeviceTelemetry` is the pair of telemetry threads
across reconnections. `TelemetryQueue` and `EventsManager` are the uploaders:
threads, limits, retries, files as numbers or model values, and a server that
answers as it likes.

**Compositions.** `MCThreads`, `MCNodes`, `MCPipeline` and `MCDevice` each check several parts
in one run. In each the parts share no state, so an execution is one of a single
part, chosen at the start: interleaving them would multiply states and reach
nothing new. What does interact is composed in the module itself: producers and
consumers with a queue, nodes with helpers and the user, host nodes with monitor
and `close`, the two calibration nodes with their gate.

**Proofs** are in the eight modules named `...Proofs` (section 4). Definitions
that a comment calls "faulty variant" are used by no specification; each is the
form in which a plausible bug would put the definition after it, and
`PROJECT.json` names the property that notices.

A type invariant (`TypeOK`, `GateTypeOK`, `DemuxTypeOK`) documents the variables
of a module. Those of the modules with a state machine in section 4 are proved.

## 3. Runs

| Run | Distinct states | Properties |
|---|---|---|
| `threads` | 124 k | FifoExactlyOnce, NobodySleepsOn, ImplementsContract, OperationsReturn, StopIsComplete, DestroyedAfterUse, ShutdownEnds |
| `message_queue_any` | 1.03 M | WaitAnyIsSound, MessagesAccounted, GetAnyReturns |
| `device_reconnect` | 2.24 M | OneWatchedLink, NoStreamReuse |
| `device_reconnect_live` | 221 k | WaitersAreAnswered |
| `nodes` | 290 k | MissesNoMatch, WithinAllowance, ExactDelivery, NodesGoOn, StopEndsNodes |
| `pipeline` | 614 k | StreamsDifferUnlessRetried, BuildKeepsDelivery, BuildBridgesAll, EventsAreMeasured, AnswersAgree, StatesArrive |
| `events_manager` | 482 k | NothingVanishes, TrueMeansSettled, OneRightAnswer, WaitEnds, StopEnds |
| `auto_calibration` | 784 k | AppliedIsValidated, ResultsAreOfThisAttempt, LoadedWhenTold, RoundEnds |
| `device` | 140 k | ResponsesAccounted, LateByAbandoned, CallsAreAnswered, EventsAreKept, PostedInOrder, QueueGoesOn, TelemetryGoesOn |
| `disconnect_lost_wakeup` | 3.8 k | DisconnectedNodesThrow (violated) |
| `events_cache` | 0.9 k | FailedSnapsAreCached (violated) |
| `events_waiters` | 18 k | EveryWaitEnds (violated) |

The instances, and why they are large enough:

- `threads`, a `LockingQueue`: two producers and a consumer, sizes 0 to 2, three pushes. A
  producer can be parked while another one pushes, pops and reconfigures; size 0
  rejects everything. Three messages are what it takes to swap two behind a drop.
- `message_queue_any`: two queues of size 1, two clients, two sends. Both queues
  can change behind the waiter's back, in either order relative to its walk.
- `threads`, a `PipelineLifecycle`: two nodes, queues of size 1, one task. Both nodes can
  fail, so that two helpers and the user stop the pipeline at once, and a node
  can be blocked on either side of a queue.
- `device_reconnect`: one node of each direction, two connections and one
  attempt: a node can hold the old stream while the other has the new one, and
  a failed attempt ends in `close`. `device_reconnect_live`: three connections
  and two attempts each, so that the second loss comes while waiters of the
  first are still about.
- `nodes`: Sync with two inputs of size 2, timestamps up to 5 and threshold 2 (a
  queue can drop what would have matched); Gate with four messages, two commands
  and a control queue of 1, which overflows; MessageDemux with two outputs of
  size 1 and three groups, of which the second can block.
- `pipeline`: four nodes, one of them a subnode; three outputs, three inputs,
  two queues; seven operations of the user and five bridges, which lets `build`
  throw midway, be called again, and meet what it left. Two threads with three
  events each fill a window of 2 and overflow a queue of 3. Two users with seven
  programs of calls, callbacks that repeat and callbacks that do not, with nodes
  on the host, on the device or on both, inputs of size 2.
- `events_manager`: an event, two snaps, a waiter without and one with a
  timeout, five programs, the last with both waiters; batches of at most 2 and
  two attempts, so that a first failure is retried and a second given up.
  `NothingVanishes` follows a snap into the cache: a directory is partial until
  its last file is written, and a snap whose directory is read back before that
  is lost (that happens: section 5, `CachedSnapsSurvive`). `WaitEnds` is claimed for
  a thread that waits alone; with a second one `events_waiters` shows it false.
- `auto_calibration`: with and without a validation set, two iterations, two
  images, two failures and two rounds, so that what one round left in the queues
  meets the next. All four properties are claimed of a prompt AutoCalibration:
  it takes what is there and sends its commands before the next image period is
  over. The three invariants are then theorems, for every bound and a queue of
  at least four commands (the code's has five). The code does not guarantee
  promptness, since the period is counted from before the calibration is
  computed. Without it the properties fail: loadData may
  go on before its images are loaded (section 5, `WaitsUntilLoaded`); and with the code's five failures
  per attempt, commands nobody has read yet fill the queue in the third of three
  iterations, so that the reset before the images is dropped and
  `AppliedIsValidated` fails as well (no run has these bounds: breadth-first
  search does not reach that state in the time of a run).
- `device`: three callers and four calls, with a read timeout (the default) and
  with and without one for writing (without is the default), on a link that may
  stall or close; a telemetry queue of 3 that flushes at 2, for four events;
  three links. `CallsAreAnswered` excepts a write without a timeout on a stalled
  link that nobody closes: where the watchdog runs, it closes it
  (`DeviceReconnect`); where it is off, the caller and all behind it stay.

Deadlock is checked in `message_queue_any`, where a thread can always begin
another operation.
All other runs have systems that end (the pipeline stopped, the device closed, the program
over), so their configurations switch it off, and liveness properties say where
they must get instead.

Fairness is that of the scheduler and the library, never of the user, the device
or the link. The threads the library starts are weakly fair, and so is a thread
in the middle of a library call. A finite timeout expires. A stop that has begun
is carried out. `QueueGoesOn` also needs a server that, asked again and again, accepts or
refuses an event for good some time (SF of `postEvent("final")`), and
`RoundEnds` needs the images of a device that streams (`framePasses`,
`tickBegins`). `GroupsComplete` needs consumers behind the outputs of
MessageDemux, and `StatesArrive` aggregations that go on being updated.
`OperationsReturn` promises nothing to a producer that waits for room nobody makes.
The outputs of Sync and Gate may be full: Gate's are read while the pipeline
runs, Sync's never need be, and after a stop nobody reads any more, but the
queue behind is closed (`closeOutput`, `closeGateOutput`).

## 4. Proofs

All results hold for every value of the constants that the module's `ASSUME`
admits. tlapm checks them with Z3, Zenon and LS4 (`PTL`).

| Module | Invariant, and why it is needed | Theorems |
|---|---|---|
| `LockingQueueProofs` | `Coherent` (a thread's place, its step and its sleep agree) and `Pending` (who holds a message nobody else has). A thread may sleep on only if someone still has to notify it; without `Coherent` that someone could be in no position to. | FifoCorrect, NoLostWakeup, GrowthBounded, Refinement |
| `MessageQueueProofs` | `Registered` (the notifier is in every queue from the first look to the last) and `Looked` (whoever changed a queue that the predicate has already passed has yet to notify). For the messages `Once`, `Fresh`, `Separate` and `Complete`: each is in exactly one place. | WaitAnySound, MessagesKept |
| `PipelineLifecycleProofs` | `Exclusive` and `Done` (only the holder of stateMtx is within stop, and what it has passed stays closed); `Held` and `Joined` (who works on the pipeline holds a pointer, or is the one that destroys it and has joined what came before). | StopComplete, DestroyedLast |
| `PipelineProofs` | Graph: `Bridging` and `Linking` (a bridge leads the right way and is linked on its own side), `Remaining` (what is still to be bridged is in the loop), `Naming` (the names given are those of all bridges). | GraphStreamsDiffer, GraphBuildBridgesAll |
| | States: `SideFollows` (a configuration is under way only while the merge seeks its state), `Merges`, `Numbered`; where users only call, `Given` (no state is given out twice), and `Alone` for a single caller. | StatesAnswersAgree |
| | Events: `NumbersInv` (a number is of one thread and is started once), `QueueInv` (what is queued is not measured yet, and an event's START comes before its END); while nothing was dropped, `NothingLost`: `Window` (the ring of a source holds its last STARTs, less those measured), `PingWindow` (the last ping in its ring is the one before the first that is queued) and `EndsFind` (what an END that is queued has still to pass is measured, or will be before it). Without the last, the search could stop at a smaller number. | PipelineEventsAreMeasured |
| | CircularBuffer: lemmas about operators, no state machine. | AddSlides (adding slides the window by one), IteratorsAgree (iterator and getBuffer show the same) |
| `NodesProofs` | Sync: `Increasing` (a queue's timestamps grow, and what the node holds is older) and `NoMatchPossible` (what was replaced matches nothing held, queued or still to come). | SyncMissesNoMatch, SyncGroupsAdvance, SyncOnlySyncedSent |
| | Gate: `Covered`: what was forwarded and what the current command still allows are together within the allowance. | GateWithinAllowance |
| | MessageDemux: what an output has is what the groups up to the current one, or the one before it, had for it. | DemuxExactDelivery |
| | AutoCalibration: `Ticks`, `Starts`, `Loads` (who may be at work, and which command may be under way, at each place of the conductor), `Short` (there are fewer commands than the queue holds), `Counted`; `Fresh` (the images are newer than the calibration they are to judge, or are about to be reset). | AutoAppliedIsValidated, AutoResultsAreOfThisAttempt, AutoLoadedWhenTold |
| `DeviceReconnectProofs` | `OldLinksDown` (connections die in the order they are made), `WatchdogFollows`, `ClosingIsKnown`, `DeadBeforeNew` (the monitor reconnects only when the link is dead: a watchdog that does not run stands for a dead link); `NewToNodes` (the nodes that are still to be visited know only older connections). | DeviceOneWatchedLink, DeviceNoStreamReuse |
| `DeviceProofs` | Remote calls: `Owned`, `Latest`, `InOrder`: the holder of rpcMutex made the last request, and requests under way are consecutive. | RpcResponsesAccounted, RpcLateByAbandoned, RpcMatchUntilAbandoned |
| | Telemetry queue: `BatchRead` and `BatchPosted` (the events posted are those of the files next to them, and what will be deleted was answered), `BatchIsFront` (nothing that is queued comes before a file of the batch without being in it), `ToBePosted` (what is still to be posted comes after the last post). | QueueEventsAreKept, QueuePostedInOrder |
| `EventsManagerProofs` | `Held`: what is pending is in snapBuffer, a batch or eventBuffer, and each thread holds what its place says. `Unique`: it is in just one of them, unless it was read from the cache; else two answers could meet. `CacheInv`: the directory a batch is writing is partial unless its snap is lost, what it has still to cache is not counted as cached, and what is so counted is whole in its directory until it is read back. | EventsNothingVanishes, EventsOneRightAnswer, EventsTrueMeansSettled |

Each state machine has its type theorem as well. Besides those, `GrowthBounded`,
SyncGroupsAdvance, SyncOnlySyncedSent, `RpcMatchUntilAbandoned` and the
theorems about CircularBuffer state what no run checks; each other theorem
states a property of a run.

`Without`, which takes files out of a queue, is recursive. The prover cannot
instantiate the library's induction rules, but it knows that `<` is well-founded
on the numbers, so induction is done by the smallest counterexample
(`LeastNumber`): that such a function exists (`LeftExists`), what it returns
(`WithoutIsRest`), and that an increasing sequence is known by its elements
(`IncreasingUnique`), which is why reading, deleting and posting agree.

Only model-checked are: everything about liveness, which needs reasoning about
fairness and ENABLED that the prover does not have; `BuildKeepsDelivery`, which
compares sums of deliveries over all paths; and `DeviceTelemetry`, of which only
liveness is claimed.

## 5. Where code and documentation differ

Three runs expect a violation, and `PROJECT.json` describes them as findings:

- `disconnect_lost_wakeup`: a node that parks after `disconnectXLinkHosts`
  notified waits for ever (`XLinkOutHost.cpp:114`, `Pipeline.cpp:1266`).
- `events_cache`: the snap whose files could not be uploaded is not cached,
  since its group was moved from (`EventsManager.cpp:1052`, `EventsManager.hpp:170`).
- `events_waiters`: of two threads in `waitForPendingUploads` the one whose
  timeout is over clears the flag of both, and nobody notifies the other
  (`EventsManager.cpp:993` and `357`, `EventsManager.hpp:147`).

The following are stated in the modules, from the text quoted beside them, and
are not among the runs, because the code does not satisfy them:

| Property | What it says | Text |
|---|---|---|
| `LockingQueue!BlocksOnlyWhileBlocking` | a push does not stay blocked when the queue is switched to overwriting | `MessageQueue.hpp:549` |
| `MessageQueue!FalseMeansAllClosed` | waitAny returns false only if all queues are closed or time is over | `MessageQueue.hpp:99` |
| `MessageQueue!GetAnyLosesNothing` | a close does not make getAny lose what it had taken | `MessageQueue.hpp:108` |
| `MessageQueue!CallbacksSeeReceived` | a callback is not called for a message the queue refused | `MessageQueue.hpp:202` |
| `RpcClient!ResponsesMatch` | a call gets its own response; `LateByAbandoned` says what holds, `RpcMatchUntilAbandoned` when | comment of rpcMutex |
| `DeviceReconnect!CloseClosesConnection` | no link is open after close | `DeviceBase.hpp:1059` |
| `DeviceReconnect!CloseReturns` | close returns | `DeviceBase.hpp:1308` |
| `DeviceReconnect!StreamsAreConnected` | no stream is made without a connection | `XLinkStream.cpp:19` |
| `SyncNode!ReplacedWithinAttempts` | at most syncAttempts messages are replaced | `Sync.hpp:45` |
| `SyncNode!MaximalIntervalAccepted` | the threshold itself is accepted | `Sync.hpp:38` |
| `GateNode!ClosedGateDiscards` | what arrives at a closed gate is discarded | `Gate.hpp:38` |
| `EventsManager!CachedSnapsSurvive` | a snap that gets as far as the cache is in it; the upload thread reads and removes directories that a batch is still writing (`EventsManager.cpp:1103`) | `EventsManager.hpp:170` |
| `AutoCalibration!WaitsUntilLoaded` | loadData goes on when its images are loaded; without promptness a late result leaves a calibration loop running, whose coverage it takes for that of its image | `AutoCalibration.cpp:165` |
| `PipelineGraph!OpenStreamsDiffer` | streams differ even after a build that threw | `Pipeline.cpp:1077` |
| `PipelineGraph!LinkedOnce` | a second link of the same ports throws | `Node.hpp:299` |
| `PipelineGraph!SendsOnlyAlongConnections` | after remove nothing sends to an input it is not connected to | `Node.cpp:622` |

## 6. Not modelled, and the plan

**Within the modelled parts.** A message that is not a Buffer, which ends Sync
like a closed queue; a LoadImage that fails, which the groups of a Sync do not
cause; a cache that reads the files of a group just before the group's thread
moves them (a data race: `cacheDies` takes the files as moved once the group
runs). Copies of a queue and the typed and timed
variants of get; input and output maps that create ports on demand; starting a
pipeline twice; exceptions that end the process; packet splitting; waiting for
the gate or for crash dumps in `close`; the time synchronisation and log threads;
the replacement of the RPC client by a reconnection; the pacing of Gate, which
only delays; the groups of files in a snap and the wording of requests; the
library that computes calibrations. The note of each component says more.

**Parts left out.** Most of the implementation (about 120 000 lines) is image
processing, geometry, tracking, file and message formats, serialisation, model
archives, and nodes that hold properties for firmware. Nothing there keeps state
that several actors change, and its results are floating-point numbers or bytes.
The mapped lines are therefore a small share of the whole and a large one of the
code that synchronises threads. `RemoteConnection`, `BasaltVIO` and `RTABMap`
are adapters to other libraries.

**Next**, in this order:

1. `HostNode`: Sync's loop followed by a task in the pipeline's task queue, as a
   composition of `SyncNode` and `PipelineLifecycle`.
2. The start of a device pipeline (assets uploaded by a thread of their own),
   `DeviceGate` (a session polled by a thread), and the bootloader's requests.
3. The loops of Replay (two files in step), `CrashDump`, the running average of
   `WindowedAverageBuffer`, `StreamMessageParser`'s length checks.
4. The proof of `BuildKeepsDelivery` (the paths through a bridge stand for the
   link it replaces).
