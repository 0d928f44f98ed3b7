# cppsandbox: TLA+ models, model checks and proofs

A verification project for the C++ code in this repository: what each part
promises, TLA+ modules translated from its source, TLC runs on small instances,
and TLAPS proofs of the properties that matter most. Paths below are relative to
`src/`; `dataflow/`, `wsanet/`, `stdexio/`, `datastructs/`, `shared/` and
`tests/` stand for the directories of that name under `root/code/`.

## 1. The system

The repository is a set of static libraries and of executables that use them.

| part | state it keeps | operations | threads |
|---|---|---|---|
| `Bus` (`dataflow/message_bus`) | per-topic vectors of link ids, a map link -> {topic, index in the vector, callback}, a link counter; atomic publisher counts per topic and in total | `subscribe`, `subscribeAll`, `unsubscribe`, `publish`, `registerPublisher`, `unregisterPublisher`, four getters | any; one mutex for the subscription tables, callbacks run after it is released, the counters are separate atomics |
| `Subscriber`, `Publisher` handles | the link id / registered flag, a `weak_ptr` to the bus | subscribe/unsubscribe, register/unregister, `tryPublish`; destructors unsubscribe and unregister | the owner's |
| `Input`, `Output`, `BackpressureHandler` | an unbounded FIFO of messages and a consume count; one staged message | `initialize`, `onInputReceived`, `consume`, `isReady`; `produce`, `stage`, `consume` | the callback runs in the publisher's thread, the rest in the node's; a mutex each |
| `BaseNode`, `BaseNodeLegacy`, `Node`, `NetworkNode` | inputs, outputs, the process, a `jthread` | construct (connect and start), the run loop (`isReady`, `fire`, sleep), destroy (stop and join) | one per node |
| example nodes (`node_examples.h`, observer tests) | the next number of the generator | `fire` of generator, add, subtract, multiply, join, result | the node's |
| `TopicInspector` | statistics per topic under a mutex per topic, an initialised flag, the rendered table | `start`, `onMessagePublished`, `tick`, `getBody`, `shutDown` | publishers, its tick thread, the display thread |
| `PerceptionNode`, `HealthMonitor`, `Display`, `CollisionTracker` | handles; the heartbeat sequence number | register the bus, pulse, publish on request, print | pulse thread and main |
| `MovingAverage` | ring of the last W items, head index, fill count | `pushItem`, `getMovingAverage` | the owner's |
| `SerDes` | none | serialise a message into a byte buffer and back | - |
| `Ipc::NetworkFactory`, `NetworkPipe`, `ClientBusRelay` | one client, one handler, one bus per process, an initialised flag | `initializeClient`, `sendFromClient`, `onMessageReceived` | nodes' threads, the client's receive thread |
| `WsaNetworking::Common` | a byte stream per socket | `sendMessageFrame`, `getMessageFrame` over partial `send`/`recv` | senders (mutex per `send` call), one receiver |
| `WsaClient` | socket, result of the initialisation, receive thread | `start`, `sendServerMessage`, `openServerRecvThread`, `stopClient` | senders, receive thread, owner |
| `WsaServer` | ten client slots (socket, thread, mutex), client count, highest used slot, next slot | `start`, accept loop, receive loop per slot, `sendClientMessage`, `broadcastClientMessage`, `stopClient`, `stopServer` | accept thread, receive threads, broadcasting threads, owner |
| `stdexio::EventLoop` | handler map, stop keys, an async scope, the key-reading thread | `addEventHandler`, `registerStopKey`, the key loop, `blockUntilExited`, `cleanup` | key thread, pool, owner |
| `Profiler` (`shared`) | a first-child/next-sibling tree of scopes in a vector, the stack of open scopes, statistics per scope id | open and close a scope, start and end a frame, walk the tree | single-threaded |
| `ConsumerProducer` (`tests/test_consumer_producer`) | message queue with an active window and an overflow list; frame and semaphore counters | two producers and a consumer around one mutex and one condition variable | three |
| other tests | - | drivers of the above; an abstract-factory demo, a matrix, product-except-self | - |

How they interact: nodes own inputs and outputs; an input subscribes a callback
that appends to its queue, an output publishes; `Bus::publish` copies the
callbacks under the mutex and calls them in the publishing thread. The relay
turns a message into bytes, sends a frame to the server, the server's handler
broadcasts it to all clients, and each client's receive thread publishes it on
the process-wide bus. The inspector is one more subscriber of every topic.

What is hard: callbacks copied before an unsubscribe and called after it; nodes
and inspectors that start threads in constructors and stop them in destructors;
lock-free counters updated in several steps; slots of the server reused while a
thread of the previous connection is still running; a mutex held per `send`
and not per frame; retries on non-fatal socket errors; a spin loop that waits
for a flag only success sets; queues without a bound; a condition variable with
two kinds of waiters and `notify_one`; objects that are destroyed around threads
that still use them, in an order that the declaration of the members fixes; a
message whose size is not the number of its bytes; a `send` that blocks under the
mutex that the stop needs.

### What makes each part correct

- **Bus**: the swap-and-pop of an unsubscribe never leaves a stale index; handles
  and links correspond one to one; a publish calls exactly the handles subscribed
  at one instant, each once; a handle that has left and is in nobody's copy is
  never called again. The publisher counts are exact although they are two
  unsynchronised atomics, and the code that would repair them never runs.
- **Node graph**: no input is consumed while empty; a message published since an
  input subscribed is delivered to it once and in order; results depend on the
  streams and not on the schedule; no node stays ready for ever; which members outlive
  the threads and the publishers that use them; destruction ends.
- **TopicInspector**: ages count the ticks since the last message; the table of
  topics does not change while a thread iterates over it; a callback finds its
  topic from the end of the construction to the start of the clearing;
  destruction ends.
- **Frames, client, server**: frames arrive whole and in their sender's order,
  and the message that is received is the one that was sent; the socket library is
  not shut down under an open socket; what is received is published; a node has its
  relay when it sends; threads end when the connection does. A slot in use is not
  overwritten; the client count is that of the open sockets; a broadcast reaches
  everybody; a sound client is not cut off; the server's destructor returns.
- **EventLoop and the components around it**: a stop key ends the program, a key's
  message reaches its receivers once, and no receiver is called when it is destroyed.
- **Profiler**: times, statistics and averages belong to their scopes; the table
  is in the order of the calls.
- **Consumer/producer**: every message has one owner and is handed out in order;
  iterators and pointers stay valid as documented; one message per frame, no lost
  wakeup, and an end.

## 2. Plan

The order puts the bus first, since every other part of `dataflow` relies on it.

| step | modules | state |
|---|---|---|
| 1 | `TopicBus` (abstract), `MessageBus` (implements it), `PublisherRegistry`, their proofs | done |
| 2 | `MessageQueue`, `MessageQueueClient`, `ConsumerProducer` | done |
| 3 | `NodeGraph` over the abstract bus, with the programs of `ExampleNodes` | done |
| 4 | `WsaServer` | done |
| 5 | `MovingAverage` and `Profiler`, with a proof | done |
| 6 | `TopicInspector`, `WsaFraming`, `IpcClient`, `EventLoop` | done |
| 7 | lifecycles: the destruction of `NodeGraph`'s nodes, the relays of `IpcClient` set around running threads, `ObserverProgram` over `EventLoop` | done |
| 8 | `SerDes`, composed with `WsaFraming`; start and destruction in `WsaServer` | done |
| 9 | proofs of `MessageQueueClient`, `TopicInspector`, `WsaServer`, `IpcClient`, `NodeGraph` | done |
| 10 | proofs of `NodeGraph` (`OutputsFollowInputs`), `ConsumerProducer`, `WsaFraming` with `SerDes`, `ObserverProgram` and `Profiler`: every safety property that a run checks has a theorem | done |
| 11 | smaller steps for the longest proofs, theorems that compose components | open |

Abstract specification: `TopicBus`, the bus as its users see it; that `MessageBus`
implements it is checked and proved, and `NodeGraph` and `ObserverProgram` use the
bus as it describes it. What a reliable stream of frames promises is stated by
`FramesIntact`, `MessagesArrive` and `AllDelivered` of `WsaFraming`.

## 3. Modules and the code

Each constant, variable and action is named after the code where TLA+ allows it;
`PROJECT.json` maps every definition to its lines.

| module | code | state and actions |
|---|---|---|
| `TopicBus` | - | a set of subscribed handles and, per publisher, the handles still to be called |
| `MessageBus` | `dataflow/message_bus.{h,cpp}`, `subscriber.h` | `m_subsByTopic`, `m_allSubs`, `m_linksCreatedCount` and each handle's link id. One action per critical section: `Subscribe`, one round of `subscribeAll`, `Unsubscribe`, `Publish` (the copy of the callbacks); and `Call`, one callback after the mutex is released |
| `PublisherRegistry` | `message_bus.cpp:114-135`, `publisher.h` | the atomic counters, modulo `CounterModulus`; every atomic operation of register and unregister is an action |
| `MessageQueue`, `MessageQueueClient` | `tests/test_consumer_producer` `message_queue.h`, `message_bus` | an operator per method, from a queue to a queue; every order of calls. The vector's growth is that of MSVC or of libstdc++ |
| `ConsumerProducer` | its `main.cpp` | three threads; an action is what a thread does from the lock, or from waking up, to the next wait or unlock. `SpuriousWakeup` is external |
| `NodeGraph`, `ExampleNodes` | `base_node.h`, `node.h`, `legacy_node.h`, `node_input.h`, `node_output.h`, `node_examples.h`, the observer test | the owner constructs the nodes of a program one input at a time while the threads of earlier nodes run, and in programs of `Ending` destroys them, the last one first: stop, process, join, then the members of its inputs. A node's thread tests its inputs one after the other, consumes, computes, stages, publishes and delivers, each critical section of an input a step; every node in the repository has one output and stages in every fire, so the loop over outputs (`node.h:23`) is one round. Uses the bus as `TopicBus` describes it |
| `TopicInspector` | `topic_inspector.h` | owner (construction, destruction), publishers' callbacks, tick thread and display thread; one step per acquisition of a topic's mutex and per unlocked access of `m_stats` as a whole |
| `SerDes` | `dataflow/serdes.cpp` | no state: a message to bytes and back, bytes that nobody wrote included |
| `WsaFraming` | `wsa_common.h`, the handler of `tests/test_dataflow_server` | `sendMessage` and `readMessage` one `send()` or `recv()` at a time, with the counts converted as C++ converts them; a byte is its place in its frame, and `SerDes` says what is there. Where the code goes beyond an array, `overrun` may end the model |
| `WsaServer` | `wsa_server.{h,cpp}`, the handler of `tests/test_dataflow_server` | the slots and the three atomics, from a start that may fail to the destruction of the handler and then of the server; accept thread, a receive thread per connection, broadcasts, `stopClient`, `stopServer`, each atomic access a step; a send to a client that does not read keeps the slot's mutex |
| `IpcClient` | `wsa_client.{h,cpp}`, `wsa_endpoint.cpp`, `network_factory.cpp`, `network_pipe.cpp`, `network_node.h`, `tests/test_dataflow_ipc_node` | the process from its first relay to the destruction of its statics, with every step of `start` failing or not, the receive thread and the nodes' threads, and a server that may stop reading; the handler and the mutex go before the receive thread is joined; a network node is constructed and destroyed around its thread, a legacy one (`Legacy`) has its relay before |
| `EventLoop` | `stdexio/event_loop.h` | the owner, who is still filling the maps, the key thread, the handlers in the async scope; a library of `ObserverProgram` |
| `ObserverProgram` | `tests/test_dataflow_observer_stdexec`, `emitter_components.h`, `receiver_components.h` | `main`, the pulse thread, the threads of the pool that run the handlers, and the receivers between construction and destruction; extends `EventLoop` |
| `MovingAverage`, `Profiler` | `datastructs/movingaverage.h`, `shared/source/profiler.cpp` | the ring; the tree of scopes with its traversal, the open scopes, the statistics |

`*_proofs` modules hold the proofs, `ConsumerProducer`'s in `MessageQueueClient_proofs`,
`ObserverProgram`'s in `MessageBus_proofs`, and those of `SerDes` and `WsaFraming` in
`IpcClient_proofs`; since those modules extend two components, one of them names its
specification after itself (`ProgramSpec`, `FramingSpec`). `MC*` modules and
configurations are the instances
that TLC checks. Operators marked "Mutant" are small faults of the definition that
follows them: each property of a run is violated by one of them.

Conventions. A `fault` variable (`overrun` in `WsaFraming`) marks undefined behaviour or
an uncaught exception; the model stops there, and properties say when it may be set.
Where the builds may also go on as if nothing had happened (a destroyed mutex or
handler whose memory is still there, bytes read beyond an array), the fault is one of two
outcomes of the step, and the model has the other one as well. Atomic
accesses take effect in program order. Floating-point times are integers, ages are
ticks. A type invariant is checked as the first conjunct of one safety invariant of
its module (`TypeOK` of `MessageBus` and `PublisherRegistry` is proved instead).
`InputsInOrder` has `NoDefaultConsumed` as a conjunct too: no empty queue is consumed.

## 4. Runs

| run | what it shows | bounds, and why they suffice |
|---|---|---|
| `bus` | tables consistent (`IndexConsistent`), links owned (`LinksOwned`), refinement of `TopicBus` (`ImplementsTopicBus`) | 3 free handles, one `subscribeAll` over 2 topics, 1 publisher of 2 messages, `MaxLinks` 5: a removal moves another link, and a handle subscribes again after its id is gone |
| `registry` | `CountsExact`, `RepairsNeverRun` | 4 handles on 2 topics, counters modulo 8: three operations of one topic overlap with one of the other, and the counts cannot wrap unnoticed |
| `queue` | `OneMessagePerFrame`, `Terminates`; then `OwnedOnce`, `IteratorsStayValid`, and `OldestFirst` under the condition of section 7 | the program with its own 10 frames and with spurious wakeups; then any calls with 6 messages: the vector grows twice and has room, overflow and inactive messages at the same time |
| `server` | `NoClientOverwritten`, `CountMatchesSockets`, `BroadcastReachesAll`, `SoundClientKept`, `StopEnds` | 2 slots, 3 connections: a slot is reused while its old thread still runs, and a connection beyond the limit arrives; the server stops at any time. Two of the clients may break (`Failing`), one of them may stop reading (`Stalling`): each slot may meet either |
| `server_slots` | violation of `SlotBelowLimit`, section 7 | the same, no client stops reading |
| `graph` | `InputsInOrder`, `OutputsFollowInputs`, `NothingLeftToDo`; `DestroyedInOrder`, `DestructionEnds` | the graph of the observer test (a join, staging nodes) and a chain of legacy nodes whose last one drains; 6 numbers are three sums, a difference and a joined result, and leave incomplete groups behind. Three nodes are also destroyed, constructed with producers first, as in the test, and with consumers first. `SubNode` and `MultSumDiffNode` are defined and differ from nodes that are run by their operation and by staging only |
| `graph_test` | violation of `InputsOutliveProducers`, section 7 | the observer test alone, from its construction to its end, 2 numbers |
| `inspector` | `FoundWhileRunning`, `AgeCounts`, `TablesStable`, `ShutDownEnds` | 2 topics, 2 publishers of 2 messages, ages to 2: ticks, messages and rows overlap on one topic and on two, in every phase |
| `framing` | `FramesIntact`, `QueuedIsSent`, `MessagesArrive`, `AllDelivered` | one of three senders in every cut, or several with a call per frame; 2 frames each, a message that just fits into the array and an empty one, and from the third sender (`Wordy`) messages that do not fit; numbers of 2 bytes, an array of 22, so that the shift of the terminator and the bytes never written are the code's; a connection of 15 bytes, exactly the longest frame that fits, so there is seldom room for two; 1 interrupted call |
| `ipc_client` | `OpenMeansStartedUp`, `AllPublished`, `RelayFound`, `RecvThreadEnds`, `EndsUnlessStuck` | a legacy and a network node, 2 relays, 2 messages each way: several threads fail at once, after a failure others go on, and a send that blocks keeps the others out |
| `observer` | `CalledWhileAlive`, `EveryKeyShown`, `StopKeyEnds` | 2 handlers, a stop key and a key of no meaning, 3 keys typed: keys arrive before, during and after the registrations, and two handlers run on the 2 threads of the pool; the program with its three receivers, and with the health monitor as well |
| `profiler` | `WalkInOrder`, `StatsSound`, `AveragesLatest`, `TimesStayWithScopes` | 2 scopes opened 4 times, nested in each other and in themselves, 2 frames; times of 0, 1 and 4; a window of 2, so the ring wraps |

Bounds that stand for nothing in the code: `MaxLinks`, `MaxPublishes`,
`MaxMessages`, `MaxConnections`, `MaxNumbers`, `MaxScopes`, `MaxResets`, `MaxAge`,
`MaxFrames`, `MaxInterrupts`, `MaxSends`, `MaxReceived`, `MaxRelays`, `MaxKeys`,
`Failing`, `Stalling`.
`MaxClientCount`, `WindowSize`, `CounterModulus`, `PrependLength`, `BufferLength`,
`BroadcastLength`, `Capacity` and the number of `Workers` are parameters of the code
or its platform made small. Deadlock is checked where the code goes on for ever or
says when it is done (`registry`, `queue`); elsewhere a bound or
the program's end stops the behaviours.

### Fairness

- `ConsumerProducer`: weak fairness of each thread. A thread that is ready to
  take the mutex stays ready, and the program's end lets it be.
- `NodeGraph`: weak fairness of each node's thread, and of the owner once the program
  is ending. Threads poll, and nobody but the node removes messages from its inputs,
  so what it waits for stays there. When to construct and to end is not fair.
- `TopicInspector`: of the owner, the tick and display threads and each callback.
  Once all topics are unsubscribed only callbacks already copied compete for
  the mutexes, so no strong fairness of a mutex is needed. When to publish, to
  end the display and to destroy the inspector is not fair.
- `WsaFraming`: of each sender, which sends or fails to serialise, and of the receiver;
  room and bytes stay.
- `IpcClient`: of the owner, the receive thread and the nodes; the environment
  (stalling or losing the connection, sending to the client) is not fair.
- `WsaServer`: of the owner in the destructors, the accept thread and the thread of
  each connection. Clients, broadcasts and the decision to stop are not fair.
- A `send()` to a peer that does not read comes back only if the connection breaks, which
  nothing promises. It holds a mutex meanwhile, so `StopEnds` and `EndsUnlessStuck` have
  the condition that no send blocks for ever (`[]<>`): the other end's part, not the code's.
- `ObserverProgram`: of `main`, the key thread between two keys, the pulse thread and
  each thread of the pool, which run whatever the others do. Nobody has to type.

`MessageBus`, `PublisherRegistry`, `MessageQueueClient` and `Profiler` have safety
properties only.

## 5. Proofs

TLAPS checks every theorem from nothing but the named assumptions on constants.

- **`MessageBus_proofs`** (from `BusAssumption`: handles have topics, and two
  entries of inspectors are never the same handle). `InductiveInvariant`
  proves `IInv`, which adds two parts to the checked invariants:
  `EntriesPending`, that the handles a `subscribeAll` has not reached hold no link,
  without which the loop could link a handle twice; and `CalledOnce`, that what a
  publish has left to call names nobody twice, without which taking one callback off
  would not be the abstract step. `LinkHandle` and `UnlinkHandle` prove it for the two
  critical sections that change the tables: for the latter, the index of the moved
  link is right because vector and map agree before. From it follow `TypeCorrect`,
  `IndicesConsistent`, `HandlesOwnLinks`, `UnsubscribedStaysQuiet` and the refinement
  `TablesImplementBus`, for any topics, handles, inspectors and publishers.
- **`PublisherRegistry_proofs`** (from `RegistryAssumption`: finitely many handles,
  and a modulus that can count them). The conjunction of `TypeOK`, `CountsExact` and
  `RepairsNeverRun` is inductive: each counter is the number of handles between
  their two operations on it, the lemma `CountOf` says how that number changes with
  one handle, and a value read for a repair is positive as long as its reader counts.
- **`Profiler_proofs`** (from `WindowAssumption` and `ProfilerAssumption`). The lemmas
  `EmptyHoldsLatest` and `PushedHoldsLatest` say that a push keeps the ring's promise to
  hold the latest items, each where the next wrap-around will find it. `AveragesAreOfLatest`,
  for any scopes, times, nesting and window. The invariant is strengthened by
  `OpenNodesHaveScopes` (open nodes other than the root are nodes and know their
  scope, so a close finds where to store) and `RingsHoldTimes` (a scope without
  statistics was never measured). `LinkedKeepsIds` shows that linking a node into
  the tree changes nobody's scope. `ScopesOwnNodes`, that the innermost scopes are those
  of the open nodes in their order, is what `OwnTimesOnly` (`TimesStayWithScopes`) needs.
  `TreeInv` is what `ScopesListedInOrder` (`WalkInOrder`) needs: `TreeShape`, the vector is the
  tree in preorder (a parent is above its child, the first child comes next, a sibling after the
  whole subtree, the last child begins the last one), and `OpenPath`, the open nodes are its
  rightmost path, so the next scope is appended in the right place. `ClimbedMoves` and
  `VisitedIs` then compute the iterator. `StatisticsSound` adds `ExtremesExact`, the
  minimum and maximum are those of all times of the scope, `AveragedBetween`, they bound
  the ring's items, and `SumBetween`, so their sum is bounded; `AveragesBetweenExtremes`
  states the bounds item by item.

- **`MessageQueueClient_proofs`** (from `ClientAssumption`). `Window` orders the
  three counts and bounds them by the vector's capacity; `Owned` says that a message is
  in one place or deleted, and `Returned` where those handed out are; `InOrder` is what makes `OldestFirst` inductive: unless a
  clear has overtaken
  a commit, both vectors are in order, the overflow is in use only when the vector is
  full, and what was taken comes before the rest. The lemmas say what appending,
  joining and erasing keep of an ordered row without repetition. `FramesTakeOneMessage`
  is about `ConsumerProducer` (from `ConsumerProducerAssumption`): `GameInv` says that outside a
  critical section all messages are committed and both counters are the queue's length, whoever
  is woken; so each frame takes one message.
- **`TopicInspector_proofs`** (from `InspectorAssumption` and `NamesAssumption`). `Held`
  is mutual exclusion on a topic's mutex, `AtTopic` that a thread works on the topic
  it holds, `Full` that the table has all topics from the end of the construction to
  the clearing and that tick thread and display run only then, and `AgesKept` that a
  tick writes back the age it read, which nobody changed while it held the mutex.
- **`WsaServer_proofs`** (from `ServerAssumption`). `NextIsFree`: `m_nextClientIdx` is a
  slot without a client or one past the last, unless the accept thread has just taken it;
  `InHand`: the accept thread has a connection and a slot while it uses them, and the
  connection's own thread has not begun; `LockedIsFree`: the
  slot of a stopper between its exchange of the socket and the store has no client.
  `Counted` is `CountMatchesSockets`, with the lemma on how one slot changes the number.
  `SoundInv` is what `SoundClientKept` needs: `OwnerAsks`, the owner stops no client before
  it has asked the accept thread to stop; `SocketsServed`, a client has its thread or will
  have; `BelowMax` and `SlotsUsed`, every slot up to `m_maxClientIdx` has had a client, and
  only the accept thread is ever beyond it, by one; `StopsJustified`, whoever is about to
  stop a client has met a broken one, or the slot has changed hands or is about to.
- **`IpcClient_proofs`** (from `ClientAssumption`). `StartedOnce`: only the first relay
  starts the client, and the receive thread is joined when the handler is gone;
  `ClosedFirst`: whoever is about to clean up has closed the socket;
  `RelaysKept`: a running node lacks its relay only while the owner is at work on it.
- **`IpcClient_proofs`, the frames** (from `FramingAssumption`: finitely many senders, and
  what fits into the sender's array fits into what the server sends on and into the
  connection; and `SerDesAssumption`: the array's length is a number that the code
  can write). No message is assumed to fit: `FitInv` says that what has been sent does, since
  otherwise its sender has gone beyond its array and the model has ended.
  `QueuedInv` counts the bytes of a frame as written and the frames reported but
  missing by the interrupted calls: `QueuedFramesAreSent`. `Aligned`, until a call is
  interrupted, says of what is not yet read that it is runs of consecutive bytes of a
  frame, that a run ends where a frame does and the next begins at a first byte, and that each
  sender's frames are the ones after those delivered; the receiver's buffer is the front of it:
  `PayloadsArriveWhole`. For `MessagesReceivedAsSent`, `NumbersReadBack` says that reading
  the bytes of a number gives the number, for any width, and `MessagesReadBack` the same of a
  message written into an array of which only the parts the code writes are known; the
  terminator in the wrong place and the bytes nobody wrote do not reach what is read.
- **`MessageBus_proofs`, the observer program** (from `ProgramAssumption`, `KeysAssumption`).
  `ObserverInv`: a thread of the pool has a job as long as it publishes, and no more of
  them have a key than are pending (`JobsAreWork`); keys spawned, run and in the reader's hands
  were typed (`KeysCounted`); the loop is used between the construction of the receivers and
  their destruction (`LoopUsedInTurn`), and until then only living ones are called
  (`CalledAreAlive`). Hence `HandlersCallLiving`, and that a late call is the pulse's. `Deliveries`
  says that what a receiver was shown is the sum, over its topics, of the handlers that have
  run less those still to call it: `KeysReachReceivers`.
- **`NodeGraph_proofs`** (from `GraphAssumption`, and `ComputesNumbers`: that what a node
  computes from numbers is a number, a hypothesis of the theorems because TLC could not
  evaluate it). `StreamsInOrder` and `DestructionInOrder`, for any programs and node types, in
  whatever order they are constructed.
  `ThreadsOfBuilt` and `InputsOfBuilt` say which threads run and that each has its inputs
  until it has ended, `FreshInputs` that nothing has reached an input before it subscribes.
  `Publishing` makes the message being delivered the latest of its topic; with it, and since
  a topic has one publisher, `Stream` (a queue is a piece of the topic's log that ends at
  its end, or one before) is inductive. `Stocked` is why no operand is missing: the inputs
  a node has tested stay ready, and what is left of a fire finds its messages, by the lemma
  `UsesOfConsume` on how many consumes of an input are left. `FunctionOfStreams`
  (`OutputsFollowInputs`) adds `Computations`: by the k-th fire a node has taken k whole groups
  of each input (`Counted`), so every operand at hand, staged or published is the one that
  its place in the streams gives (`Computed`), whatever the schedule.

Recursive definitions. The induction theorems of the library take operators as parameters,
which the provers cannot instantiate. Where a proof needs what a recursive function
computes, it takes the set of the numbers for which the statement is wrong and the least of
them (`LeastOf`, from `WFMin`), or a finite set and a minimal subset of it (`MinimalSubset`). That
the function satisfies its defining equation is a lemma too (`ClimbExists`, `VisitExists`,
`SumUpToExists`, `DefinedUpTo`), since a recursive function is a `CHOOSE`. Hence the
models that proofs are about have recursive functions and no `RECURSIVE` operators.

Only model-checked, because liveness under fairness and `ENABLED` are out of the prover's
reach: `Terminates`, `StopEnds`, `NothingLeftToDo`, `DestructionEnds`, `ShutDownEnds`,
`AllDelivered`, `RecvThreadEnds`, `EndsUnlessStuck` and `StopKeyEnds`. The runs
`server_slots` and `graph_test` are counterexamples, which need no proof. Every other property of a run is
stated by a theorem.

## 6. Not modelled

- Pausing the profiler: nothing sets `sIsPaused`.
- Rates, widths and text of the inspector's table; what receivers print.
- Concurrent construction of relays: the programs construct them in one thread.
- What happens after a fault: the memory that a write beyond an array changes.
- A number read from bytes that are no prepend, after an interrupted `recv()`, may be any;
  the lengths of the frames stand for it, and no property depends on it.
- Partial sends of several senders: their frames would be mixed (section 7).
- Nodes with several outputs, or that do not stage in a fire: there are none.
- `console_frame_printer`, `malloc_tracker`, helpers, the design-pattern, matrix and
  array exercises: no state of their own that evolves. `datastructs/source/message_bus.cpp`
  is an older copy of the bus. Build files.

Assumptions of the models: a handle is used with one bus and a `weak_ptr`
that was locked keeps the bus alive through the call; handlers of the event loop
are added once per key.

## 7. What the models say about the code

Two disagreements are runs of their own:

- **`server_slots`**: `m_nextClientIdx` remembers only the slot that was freed last.
  After an accept it is one past the highest slot, also when another slot is free;
  so with the number of clients below `m_maxClientCount` it can be
  `m_maxClientCount`, which the next accept uses as an index (`wsa_server.h:149`, `:141`).
- **`graph_test`**: in an `Input`, `m_sub` is declared first (`node_input.h:129`), so the queue
  and its mutex are destroyed before the subscription ends, and a callback that was copied
  may come later still. A producer that runs on then pushes into a destroyed queue. The
  test's nodes are constructed producers first (`main.cpp:187-207`), so each consumer is
  destroyed while its producers run, in a program whose `main` goes on afterwards.

Others are stated exactly by the condition of a property that holds:

- `OldestFirst`: `message_bus.h:22` of the consumer/producer
  test says that a message is only activated by `commitAll()`, and
  `message_queue.h:83` that the oldest is retrieved. Both hold unless the inactive
  messages are cleared while others wait for their commit: the clear sets
  the count to the vector's size (line 108), and the room it makes lets a
  new message pass those in the overflow vector (line 43). The program commits
  each message before it clears.
- `FoundWhileRunning`: `onMessagePublished` takes its topic's entry with `at` (line 241).
  A callback that runs between `subscribeAll` and the filling of `m_stats`, or that
  was copied before the unsubscribe and runs after the clear, throws in the
  publisher's thread; later still it finds the mutexes destroyed.
- The inspector's display skips a topic whose mutex is busy by a row length that is
  uninitialised if that row was never written (`topic_inspector.h:180`); the model
  stops there.
- `QueuedIsSent`: a `send()` that fails without a fatal error returns -1, which is added
  to the count; for a frame not yet begun the comparison with an unsigned length ends
  the loop, and the frame is reported as queued. `readMessage` does the same, and
  may deliver a buffer nobody filled. Hence `interrupts = 0` in `FramesIntact`.
- Two threads that send frames in parts on one socket interleave them, since the mutex
  is held per `send()`: `WsaFraming` has partial sends for a single sender only.
- `AveragesLatest`: the time that creates a scope's statistics is its minimum and
  maximum and is not pushed to the moving average (`profiler.cpp:312`), so the average
  shown after a scope's first time is over nothing.
- `EndsUnlessStuck`: a node whose send failed waits for a flag nobody sets
  (`network_factory.cpp:104`) and never ends.
- `OpenMeansStartedUp`: `WSACleanup` is called by every thread that fails and by the
  destructor, more often than `WSAStartup`; but never under an open socket.
- `AllPublished`: at exit the handler is destroyed before the client, whose mutex, declared
  after the receive thread (`wsa_client.h:45-46`), is destroyed before that thread is joined.
  A last message may find the handler gone, and the loop's test or `stopClient` the mutex.
- `StopKeyEnds`: `onThreadFinished` of the event loop returns a sender that is complete
  already, so `blockUntilExited` waits for an empty scope before the key thread has
  ended, and a handler spawned later may still be in the scope when it is destroyed. The
  maps are read by the key thread while the owner fills them: a key pressed that early
  is a data race.
- `CalledWhileAlive`: the loop is destroyed before the receivers, so no handler finds
  one destroyed. The pulse thread outlives them: a pulse that has copied the callbacks
  may come late. It also starts before it has a bus, and may read the `weak_ptr` while
  `registerMessageBus` assigns it.
- `DestroyedInOrder`: a node stops and joins its thread before an input goes; but
  `m_process`, which is declared last, goes before the join (`base_node.h:143-145`), and a
  thread that tested its token before the stop calls it once more: a fault, or nothing comes
  of it, as the processes of the test keep no state. A legacy node's thread that fires while
  the base is destroyed finds the empty `fire` of the base. An input that can be called when
  it is destroyed is that of a node constructed after its producer: with consumers
  constructed first there is none.
- `RelayFound`: `setClientBusRelay` is called when the node's thread may be running, and
  the relay goes before that thread is joined; a fire at that time dereferences null.
  The legacy nodes are given theirs before.
- `StopEnds`: the mutexes of the slots are destroyed before the threads are joined, and
  in the program the handler goes before the server: a receive thread that is not done
  by then uses them, which is a fault or does what it did. In the second case the
  destructor returns with no thread left; unless a `send()` to a client that does not read
  keeps the slot's mutex, for which `stopClient` waits (`wsa_common.h:121`,
  `wsa_server.cpp:39`). `EndsUnlessStuck` says the same of the process with the nodes, whose
  `send()` blocks when the server does not read.
- `MessagesArrive`: the terminator of a serialised message is written as far from the
  payload as the message is long, not at its end (`serdes.cpp:60`), so a message
  needs about twice its head, and one that does not fit is written beyond the array. The
  assertion at line 40 does not notice: it takes `strlen` of an array that nobody wrote
  (`network_factory.cpp:96`), and where it is built in may end the program for any message.
  The last byte of the payload sent was never written; and the server broadcasts 1024
  bytes whatever it received, so it reads beyond a short message. Where the processes survive
  that, nothing shows, since what a receiver reads is bounded by the lengths inside the
  message.
