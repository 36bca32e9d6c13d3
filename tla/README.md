# A verification development for ServiceLib for Rust

ServiceLib is the Tokio runtime behind services generated by Service Architect:
typed stream graphs whose links call one another directly, through task pools or
in spawned tasks, with connectors (HTTP, gRPC, Kafka, cron, local) at both ends.
This directory holds TLA+ specifications of its parts, the TLC models that check
them on small instances, and TLAPS proofs of what matters most.  Everything is
translated from the code under `src/`; line numbers are in `PROJECT.json`.

## 1. The system

| Part | Source (under `src/src/`) | State | Operations that change it | What makes it hard |
|---|---|---|---|---|
| Task pools | `runtime/pool/{queuedpool,taskpool,prioritytaskpool,mod}.rs` | state word, command channel, pending queue, cancellation futures, executors, idle list, busy count | `add_task`, `start`, `stop`, `reload_config`, the actor loop, the executor loop | every caller, the actor and the executors interleave; a biased `select!` whose branches can be switched off; resize below the busy count; stop before start |
| Delay pool | `runtime/pool/delaypool.rs`, `operators/delay.rs` | stopped flag, task tracker, active count | `delay`, timer fires, context cancelled, `stop` | admission races stop; timer races cancellation |
| Join storage | `runtime/store/{hashmap,rotatingmap,joinstore}.rs` | map of keyed groups, group locks, expiry tasks and revisions, two rotating maps | `join_value_with`, expiry, `stop`, `rotate`, `pop_if` | group removed and recreated between two locks; stale expiry; key found in the old or the new map |
| Application | `runtime/serviceapp.rs` | lifecycle state, registries, shutdown progress | `register_*`, `start`, `stop`, servers | start, stop and a failed start overlap; a caller of stop goes away; deadlines |
| Environment | `runtime/environment/mod.rs` | pool, source, sink, store registries, published configuration, parallel tasks | `register_*`, `publish_runtime_config`, `spawn_parallel`, `drain_parallel` | admission against drain; configuration published while pools start |
| Streams and calls | `runtime/{stream,collector,common,schedule,datasource,datasink}.rs` | consumer slots, contexts, payloads, result routing | `consume`, `out`, `with_*`, routing of results | nothing shared but contexts and routers; deadline arithmetic |
| Operators | `operators/*.rs` | per operator: functions and consumers; SubStream: table of calls; Join: storage | `consume` | SubStream completion against late results and cancellation; Split and Case ordering and error aggregation |
| Kafka source | `datasource/kafka/{rdkafka,checkpoint}.rs` | assignments and their revisions, acknowledgement state, concurrency gate, tasks | poll, rebalance, `endpoint_request`, `acknowledge`, `fail`, `start`, `stop` | acknowledgement of a message of a revoked partition; lost wake-ups; stop against requests in flight |
| Local source | `datasource/localsource/custom.rs` | concurrency gate, pending requests, tasks | `endpoint_request`, `consume_result`, `start`, `stop` | as above, and a result that arrives after its request ended |
| Cron source | `datasource/cron/croner.rs` | schedule cursor, running jobs | `run_scheduler`, `dispatch`, `stop` | missed and overlapping firings, stop |
| gRPC and HTTP sources | `datasource/grpc/*.rs`, `datasource/http/axum.rs` | call table, phases of a request, response channel | request handling, `consume_result`, disconnect, `stop` | response and disconnect race; callbacks drained before a handler is dropped |
| Sinks | `datasink/**` | clients, in-flight requests, streams, delivery reports | `consume`, response handling, `stop` | half-closed streams, delivery after stop |
| Configuration | `runtime/config/*.rs`, `api/serviceapi.rs` | layered snapshot, watcher | load, validate, reload | a bad candidate must leave the last good one |
| Serialization | `runtime/serde/*.rs` | registry of serdes | `get`, `cache`, encode, decode | the registry is unlocked while a serde is made; sizes, limits and cut input |
| Telemetry, metrics, status | `runtime/{telemetry,environment/metrics,statusweb}` | registries, caches | observe, render | none that is concurrent in an interesting way |

### How the parts meet

A source hands a message with its `MessageContext` to a stream.  Each link calls
its consumer with the semantics the configuration chose: in line, through
`TaskPool`/`PriorityTaskPool` (`add_task`), or through `spawn_parallel`.  Keyed
operators keep partial groups in the join storage, Delay parks a message in the
delay pool.  Results return to the source through a `ResultRouter` keyed by
stream id.  `ServiceApp` starts sinks, pools, stores and sources in order and
stops them in phases, each phase relying on the promise of the one before
it: a pool that reports drained runs nothing any more.

## 2. Modules

| Module | Models | Kind |
|---|---|---|
| `TaskService` | what every pool promises about a callback | abstract specification |
| `KeyedMap` | a plain map with `set`, `get_or_create`, `get`, `pop`, `pop_if` | abstract specification |
| `PendingQueue` | `enum PendingQueue` as an ordered set | operators |
| `MessageContext` | cancellation and deadline of a context | operators |
| `QueuedPool` | `queuedpool.rs`: callers, actor, executors | implements `TaskService` |
| `Delay` | `delaypool.rs` and the Delay operator | implements `TaskService` |
| `JoinStorage` | `hashmap.rs`: calls, entries, expiry tasks | specification |
| `RotatingMap` | `rotatingmap.rs`: calls, rotation, rotation task | implements `KeyedMap` |
| `KafkaConsumer` | the endpoint task, lanes, rebalances and stop | specification |
| `KafkaSource` | the data source above several Kafka endpoints: start, rollback, stop | specification |
| `SourceRequest` | requests and results of local, Kafka, HTTP and the four kinds of gRPC endpoints | specification |
| `HttpSource` | start, serving and stop of the HTTP data source | specification |
| `Cron` | the scheduler, its activations, start and stop | specification |
| `StreamGraph` | wiring of the operators, call semantics of links, the drain of the graph | specification |
| `StreamMeaning` | what a graph promises of the values it is given, computed from its shape | reference definition |
| `SubStream` | one call of a callable substream | specification |
| `SinkSession` | the sessions of streaming gRPC sinks | specification |
| `SinkRequest` | one request of a unary or server streaming gRPC, HTTP or local sink | specification |
| `KafkaSink` | the Kafka producer: sends, deliveries, start and stop | specification |
| `ConfigLoader` | validity of a snapshot, its tables, the watch task | specification |
| `Serde` | encoding and decoding of every serde under limits | operators and one round trip |
| `SerdeRegistry` | the registry of serdes and its providers | specification |
| `ServiceApp` | start, stop, shutdown phases, with the work of the graph | composes sources, pools, parallel calls and sinks by what they promise |
| `RuntimeJoin`, `RuntimeCron`, `RuntimeConfig`, `RuntimeRegistry`, `RuntimeSources`, `RuntimeGraph` | one component each, instantiated under names that do not clash, with the assumption on its constants and the properties that are both checked and proved | instances shared by `MCRuntime` and the proofs |
| `QueuedPoolProofs` | the task pools | proofs |
| `TimerProofs` | the delay pool, cron | proofs |
| `StoreProofs` | the rotating map, the registry of serdes, the join storage | proofs |
| `KafkaProofs` | the Kafka endpoint, the lifecycles of the Kafka and the HTTP source | proofs |
| `SourceRequestProofs`, `SinkProofs`, `GraphProofs` | requests, sinks, graph | proofs |
| `ServiceAppProofs` | the application, the configuration loader | proofs |
| `MCRuntime`, `MCSinks` | several components side by side: each behaviour is one of one component, chosen in `Init` | models |
| other `MC*` | constants of the instances | models |

An action is a step that another task can observe: the code between two awaits,
locks or atomic operations.  Metrics, spans and log lines are left out.

* **QueuedPool.**  `start` has three atomic steps (compare-exchange, read of the
  configuration, send), `add_task` and `stop` two.  The actor is split at its
  `select!`: one action per branch, per iteration of the loops behind it, and
  for the end of the body.  A future of `FuturesUnordered` whose entry was
  dispatched resolves to `Err(Aborted)`; a value that does not match
  `Some(Ok(id))` disables the branch for the rest of that `select!`.
* **Delay.**  `Schedule` is `delay` up to the lock, `Admit` what it does under it,
  `Fire` the end of the wait, `Run` and `Finish` the callback.
* **JoinStorage.**  A call looks its entry up under the map's lock and then takes
  the entry's lock; the expiry task has an action per lock it takes.  Whether the
  callback reaches the user's function is decided by the type of the join as it is
  when the callback starts (`CanJoin`, `CanMultiJoin`); if not, it returns false.
* **RotatingMap.**  A call is one step under its shard's lock; a rotation is one
  step per shard.
* **KafkaConsumer.**  The consumer loop is split at its awaits; the rebalance
  callback, which librdkafka runs while the loop polls, at the changes of the
  native assignment, of the table of partitions and of the failure token.
  librdkafka is external: modelled from the calls the code makes.
* **SourceRequest.**  The seven kinds of endpoint differ in the gate, in when the
  stream id is given up, in the closing token and in what a dropped transport
  does; the kind is chosen in `Init`, and each has an action for what its request
  does from the gate to its end (`HttpRequest`, `UnaryRequest`, ...).  The
  table of pending requests is a plain map, as `MapIsOneMap` proves.
* **KafkaSource, HttpSource.**  The calls of `start` and `stop` are split at their
  awaits, where their context may be cancelled or they may be dropped.  What an
  endpoint's task or a request does is in `KafkaConsumer` and `SourceRequest`.
* **Cron.**  A pass over the due jobs is one step, since the loop awaits nothing in
  it; an activation triggers, waits for its result and is over.  A calendar is a
  set of instants.  At a job without a next occurrence the pass fails, after
  whichever jobs come before it; the `JoinSet` is dropped and its activations are
  aborted, each at the end of the poll it is in.
* **StreamGraph.**  A task is what Tokio polls.  It has an agenda, the deliveries
  that its nested awaits have still to make; a step is one `consume` of an operator,
  one spawn or one `add_task`.  The link's call semantics decide whether a
  delivery joins the agenda, a new task or the queue of a pool.  A source emits into
  its stream or into its error stream, with a context that may be cancelled before a
  pool is asked; a pool then rejects the value, as one does that is stopped.
* **SubStream.**  The result callback takes the gate of the call, runs the collector
  and completes the call; the caller waits for `done` or its context, then takes
  the gate itself.
* **SinkSession.**  The `OnceCell` of a stream id, the `RwLock` around its handlers,
  the receiving task and the task that closes the sending side are split at their
  awaits.  The map of sessions is a plain map, as `MapIsOneMap` proves.
* **SinkRequest, KafkaSink.**  A request runs its callbacks in order; what outlives it
  is the body of an HTTP response, and the tracked tasks that wait for a delivery.
  Values arrive at the Kafka sink whenever its endpoint is enabled, also during
  `stop`; a request remembers from which one it stems by way of delivery results.
* **ConfigLoader.**  Writes of the file and changes of the link it is read through are
  steps of the environment and leave an event; a reload merges, checks, asks the
  handler and stores, in this order.  A YAML mapping is a function from the paths of
  its leaves, on which the recursive `merge_yaml` is one set expression; a snapshot
  takes the environment over the files and is validated before its tables are built.
* **Serde.**  A serde is a record that names its type and its elements.  A byte has
  `Radix` values, so that sign bits, sizes and limits are met with small numbers.
* **SerdeRegistry.**  `get` looks up, makes and stores in three steps.
* **ServiceApp.**  A job of the shutdown outlives the call of `stop` that spawned
  it and keeps that call's context.  Sources, pools and sinks appear as places
  where work can be, and as jobs that end as their `stop` promises.  `JobCut` is the
  HTTP source's `stop`, which answers Ok when its context is cancelled.

## 3. Runs

| Run | Shows | Bounds |
|---|---|---|
| `pool_resize` | bookkeeping, order, and the executor count under reloads | FIFO, 3 tasks, counts 1 and 2, 1 reload |
| `pool_live` | the contract; callers return; accepted callbacks finish | priority pool, 2 tasks, 2 stops, 1 executor |
| `delay` | nothing early, of contexts that are alive; the contract; admitted messages finish | 4 messages: no delay, plain, cut by a deadline, out of range |
| `join_live` | calls return, groups are processed | 2 calls of two sides, one with a deadline; inner and right joins and multi joins with renewal, reloaded into one another |
| `kafka` | own assignment only; the loop ends for cause; stop ends and failures are reported | 1 partition, eager, lanes of 1, 3 rebalances, 3 messages |
| `source` | callbacks drained, ended once (but for what a local `stop` drops), exact table, no wait cycle | 2 requests under 1 id, 2 results, all seven kinds, limit 1 |
| `app` | jobs neither lost nor doubled, sinks after the graph, stops return | 2 callers, 2 pieces of work, 4 jobs |
| `runtime`: rotating map | `IsOneMap` | 2 keys of one shard, 1 value, 1 stop |
| `runtime`: join storage | `CompletedOnce`, `LiveGroupKept`, `JoinsCurrentGroup` | 3 calls, 1 key, 2 groups, renewal, reloaded between a left join with TTL 1 and an outer one with TTL 0 |
| `runtime`: graph | `Conserved`, `DrainedGraph` | 9 shapes with every operator, every call semantics, 5 tasks, 1 input, a value or an error, contexts cancelled |
| `runtime`: cron | `ActivationsApart`, `CronStopDrains` | an interval and a calendar, 3 activations, 2 stops, 2 ticks |
| `runtime`: configuration | `PublishedExact` | 9 contents of the file, 3 writes |
| `runtime`: serdes | `WireExact` | every serde, default and narrow limits, 6-valued bytes, cut at every byte |
| `runtime`: registry | `OneSerde` | 3 streams, a type with and one without a default serde |
| `runtime`: Kafka and HTTP source | `SourceStopDrains` | 2 endpoints, 2 stops; 2 requests, 2 starts |
| `sinks` | `SessionExclusive`, `BodyClosed`, `SinkStopDrains`, `CollectorOwned`, `SinkCallsReturn` | 2 callers of each sink, 2 sessions of one id, 2 stops, 2 results of a substream |
| `pool_promote` | **violated**, see section 5 | 3 tasks, 1 executor |
| `join_panic` | **violated** | 2 calls, configured TTL 0 |
| `source_gate` | **violated** | 2 Kafka requests, limit 1 |

**Bounds.**  Three tasks are the least with which one runs, one is promoted and one
is overtaken; two executor counts the least with which a busy executor is too many.
Three calls on one key let one hold an entry, one wait for it and one replace it.
Three rebalances are assign, revoke, assign again.  Two requests with one id give a
duplicate and a reuse of the id; two results give one in line below the other.
`i32::MIN` is `MinRank` (-5): only its place below the other priorities matters.  In
the graph a parallel call that spawns another is the least with which a drain meets a
call that its own batch has spawned; three activations let one overlap another beside
a second job; two sessions let a late call meet the cell after its own.  Six values
of a byte let the sign bit, a size above a limit and a size of two digits occur.
`Huge` stands for a delay that `checked_add` refuses.  The clock, rebalances,
messages, reloads, entries and workers are capped in the guards by `Max...`
constants.  `CHECK_DEADLOCK FALSE` is set because every model may come to rest when
its callers are done.

**What the instances leave out.**  `kafka` has one partition and the eager protocol;
partitions that interfere and the cooperative protocol are covered by the proofs, and
so not for `EndsAreSeen`, a liveness property.  `delay` has no message whose delay is
out of range and whose deadline is near; the proofs cover it.  `source` lets the
callbacks of gRPC endpoints emit in line under their own stream id, and not those of
the others: `NoWaitCycle` does not hold for them (section 6).  `app` has one job per
phase and leaves out the component, storage and engine phases.  `runtime` checks
safety only.  Its graphs have no cycles, its configuration no reload by a caller
(section 6).  Four properties name an exception, each a behaviour of the code that
section 6 describes: `NeverEarly` (messages whose context has ended), `EndedOnce`
(local requests dropped by `stop`), `JoinsCurrentGroup` (groups that were renewed)
and `SinkStopDrains` (the first call of `stop`, and requests that were over before
it).

**Fairness.**  Tokio polls every woken task: weak fairness of the steps of tasks
and of the parts of a call that follow its first step.  Nothing is assumed of
callers, cancellations or the transport.  User code is assumed to return where
a property needs it (`CallbacksReturn` in `QueuedPool`, the lanes of
`KafkaConsumer`, `Handler` and `CallReturns` in `SourceRequest`, the handlers of
the sinks); `pool_promote`
drops that, and `StopsReturn` of `app` does without it.  Strong fairness is
used where a fair tokio mutex serves its waiters (`JoinStorage`) and for handlers
that emit in line a finite number of times (`SourceRequest`, the sinks).  In `sinks`
the peer of a stream closes it at last, and librdkafka reports every delivery as done
or failed, as its message timeout sees to; conditions on the steps of several parts
are shared, which is the same as one for each, because only one part runs in a
behaviour.  `EndsAreSeen`
assumes that `endpoint_request` returns; `source_gate` shows a way in
which it does not, so read the two together.

## 4. Proofs

All theorems hold for every value of the constants that meets the named
assumptions of the module.  A bound (`Max...`) is such a constant: a theorem holds
for every bound, and so for behaviours of every length.

| Module | Theorem | Statement |
|---|---|---|
| `QueuedPoolProofs` | `PoolInv`, `PoolBusyIsExact` | `Spec => []Inv`, `Spec => []BusyIsExact` |
| | `PoolDispatchWithinTarget`, `PoolDispatchOrder` | the two action properties of the dispatch |
| | `PoolKeepsContract` | `Spec => KeepsContract` (refines `TaskService`) |
| `TimerProofs` | `DelayInv`, `DelayNeverEarly`, `DelayKeepsContract` | invariant, action property, refinement of `TaskService` |
| | `CronActivationsApart`, `CronStopsDrained` | `C!Spec => []ActivationsApart`, `C!Spec => CronStopDrains` |
| `StoreProofs` | `MapInv`, `MapIsOneMap` | invariant, refinement of `KeyedMap` |
| | `RegistryOneSerde` | `P!Spec => []OneSerde` |
| | `JoinCompletedOnce`, `JoinLiveGroupKept`, `JoinJoinsCurrentGroup` | the three action properties of the join storage |
| `KafkaProofs` | `KafkaInv`, `KafkaStoredInOwn`, `KafkaLoopEndsForCause`, `KafkaStoppedIsQuiet` | invariant and the three safety properties |
| | `SourcesStopDrained` | `K!Spec /\ H!Spec => []SourceStopDrains` |
| `SourceRequestProofs` | `SourceInv`, `SourceCallbacksDrained`, `SourceEndedOnce`, `SourcePendingExact`, `SourceNoWaitCycle` | invariant and the four properties of `source` |
| `ServiceAppProofs` | `AppInv`, `AppJobAlone`, `AppQuietBeforeSinks`, `AppOkMeansReleased` | invariant and the three safety properties of `app` |
| | `LoaderPublishedExact` | `L!Spec => []PublishedExact` |
| `SinkProofs` | `SinksInv`, `SinksSessionExclusive`, `SinksBodyClosed`, `SinksStopDrains`, `SinksCollectorOwned` | invariant and the four safety properties of `sinks` |
| `GraphProofs` | `GraphDrained` | `G!Spec => []DrainedGraph` |

The arguments, each with the invariant that makes it inductive:

* **Pool** (`ConstantsAssumption`, `MinRankAssumption`).  `Inv` adds to the types
  where an accepted callback is (`TasksInv`: in the queue, in one inbox, or
  started), what the channel holds (`ChanInv`: one Add per waiting caller, one
  Ready per executor that has nothing to do), which executors live (`ExecInv`)
  and that a retiring pool has nothing left (`LifeInv`).  `busy` is exact only
  together with these: a second Ready would make it wrap.  A dispatch stays within
  the target because those at work and the one that is fed are distinct executors
  of the map.  The order needs `OrderInv`: a task whose cancellation is not yet seen
  has the rank of its call, and the others are in front of it.  A promoted entry of
  the FIFO list has a rank below the head's, and one that was the head already stays.
  `PriorityAssumption`, that no priority is below `i32::MIN`, is used here only.
* **Delay** (`ConstantsAssumption`).  `Inv` ties a job to its admission, `run_at`
  to the delay or the deadline, and a returned `stop` to the absence of jobs.
* **Cron** (`CronAssumption`).  `CronInv`: an activation fired at its time and before
  the next one of its job, and under Skip its job is in `running` as long as it is
  active; nothing is active without a scheduler, but for what was aborted.  The next
  occurrence of a calendar is the least of a set, which exists by `LeastNat`.
* **Map** (`MapAssumption`).  `OneEntry` is inductive with the types; under it a
  rotation leaves `contents` unchanged and each call is one step of `KeyedMap`.
* **Registry** (`RegistryAssumption`).  `RegistryInv`: whoever has returned has the
  serde that is stored, since a store keeps the one it finds.
* **Join storage** (`JoinAssumption`).  `JoinInv`: the call that runs a callback is
  the only holder of its group, and a call that removes a group has found it
  processed, or expired with nobody in it who could renew it.  So a group is
  completed once, and a live one is removed by nobody.  `CurrentInv` adds that a call
  about to lock has the group of its key, one that is over, or one that a call has
  renewed: a renewal is the only step that brings an expired group back (section 6).
* **Kafka endpoint** (`KafkaAssumption`).  An acknowledgement is safe because a
  generation is given out once (`CountInv`) and a message whose generation is current
  comes from the native assignment (`OwnInv`).  The loop ends for cause because a lane
  it can send to ends only when its context is cancelled (`LaneInv`).  `EndInv`, that
  lanes exist only between the start and the end of the loop, gives `StoppedIsQuiet`.
* **Kafka and HTTP source** (`LifecycleAssumption`).  `SourceInv`: a call past the
  gate has the lock, a task not yet joined belongs to an endpoint that is owned, what
  a start has recorded followed by what it has left is the list of endpoints, and a
  stop that has not failed has every owned endpoint still before it.  `HttpInv`: no
  request is between its look at the tracker and its entry when the server has ended.
* **Requests** (`SourceAssumption`).  `Inv` is `RequestInv` (by where a request is:
  its id, whether it was ended, who writes), `ResultInv` (a callback runs only for a
  request that is accepted and not ended, or dropped) and `PendingExact`.  For
  `NoWaitCycle` it is strengthened by `WaitInv`, that every set of results has one
  that no member runs in line; `SourceNoWaitCycle` assumes
  `Recursive \subseteq GrpcKinds`, as the instance does (section 6).
* **Application** (`AppAssumption`, `PhasesAssumption`).  `Inv`: how far start is
  (`StartInv`); one call of stop goes through the phases at a time (`CallInv`); the
  phases behind it are completed (`ProgressInv`); a job has one operation while its
  task runs (`JobInv`); servers that ended have no requests (`ServerInv`); and what a
  finished job has closed stays empty (`GraphInv`).  The phases come in the order of
  the code, which `PhasesAssumption` states.
* **Configuration** (`LoaderAssumption`: only the watch task reloads).  `LoaderInv`:
  the last write is still to be noticed, is being read, is the candidate, or was
  published (`WrittenInv`), and the two stores of a reload agree between reloads
  (`PublishInv`).
* **Sinks** (`SinksAssumption`).  `SessionInv`: one call initialises a cell, the map
  names a session until its end (`CellInv`), and the last callbacks come after the
  calls that were admitted before (`DrainInv`).  `BodyInv`, `KafkaSinkInv` and
  `SubInv` say who has the body, what the tracker still holds, and who has the gate.
  A first stop of the Kafka sink that waits has the requests that were over before it
  as roots; what stems from one of them is in the tracker until it is collected, and
  once the tracker was empty nothing new can stem from them.
* **Graph** (`GraphAssumption`).  `GraphInv`: a task with something left to do is in a
  place that the shutdown has not passed, and a parallel one is in the registry or in
  the batch, because `spawn_parallel` registers before its caller goes on.  An empty
  registry after an awaited batch is then the end.

**Only model-checked.**  All liveness (`CallersReturn`, `AcceptedFinish`,
`AdmittedFinish`, `CallsReturn`, `TimedGroupProcessed`, `EndsAreSeen`, `StopsReturn`,
`SinkCallsReturn`), which rests on fairness and `ENABLED`.  `Conserved` and
`WireExact`: what a graph or a serde computes is given by recursion over its shape,
and the induction theorems of the library, which take the induction hypothesis as an
operator, cannot be instantiated with the provers at hand.  Where a proof above
needs an induction over numbers, it takes a least element instead.  Every other
safety property of a passing run has its theorem.

## 5. Findings

* `pool_promote` (documents and code differ): the aborted future of a dispatched
  task switches the cancellation branch off until a command or a join arrives, so
  a cancelled queued task is not promoted while callbacks run.
* `join_panic`: an entry created by a caller without TTL and locked first by one
  whose context has a deadline fails `expect("positive TTL has a deadline")`.
* `source_gate`: `acquire_concurrency` registers for the wake-up after it has read
  the gate.  A `stop` in between is missed; the request sleeps and the stop of the
  Kafka endpoint waits for it until its context ends.  The rule that the loop
  breaks is written in `grpc/nostreaming.rs:40`, about another loop.

## 6. Observations

Behaviours of the models that no run states.  For most of them no document or test
of the repository says otherwise; where one does, the entry quotes it.  Those marked
(TLC) were seen as counterexamples of a property stated for the purpose; the others
come from reading the code.

* (TLC) A reload between the read and the send of `start` is overwritten by the
  older executor count (`queuedpool.rs:388`).
* (TLC) With renewal, a group that expired during its callback and was replaced
  gets a new deadline, and a call that waits at its lock adds its value to it, not to
  the group in the map (`hashmap.rs:339`).  `JoinsCurrentGroup` excepts it.
* (TLC) After a reassignment two requests of one partition run at once, one per
  generation (`rdkafka.rs:900`).
* (TLC) Local, Kafka and HTTP: a callback emits in line under its own stream id;
  the nested result has looked the request up, the request is popped and its
  writer queues for the lock; the nested result waits for the writer, the writer for
  the callback, the callback for the nested result (`axum.rs:1027`,
  `custom.rs:485`, `rdkafka.rs:1283`).  The closing token saves gRPC from it.
* (TLC) Document and code differ on a cancelled delay: the repository's README lists
  Delay as "Deliver later or immediately on cancellation" (`src/README.md:77`), and
  the callback of a wait that a cancellation ended delivers nothing
  (`delay.rs:165`).  `NeverEarly` is about messages whose context is alive, and so
  holds of both.
* A dropped `start` leaves the service in `Starting`, where `stop` is refused
  (`serviceapp.rs:668`, `816`).  A caller of `stop` may get the `ContextCancelled`
  of the caller before it (`serviceapp.rs:856`).
* Timers of the join storage and response tasks of the sinks are in no phase of
  the shutdown (`hashmap.rs:400`); `QuietBeforeSinks` excepts them.
* The local source's `stop` drops accepted requests without `end_request`
  (`custom.rs:806`); `EndedOnce` excepts them.  HTTP's `stop` reports success when
  its context ends first (`axum.rs:228`), and its `start` stays marked as started
  when the configuration is refused (`axum.rs:178`).
* (TLC) The Kafka sink's second `stop` returns Ok at once, also when the first was
  cancelled before the flush (`datasink/kafka/rdkafka.rs:398`), whereas the
  application retries jobs that were cancelled.  `OkMeansReleased` takes a
  job's success at its word.
* A cron activation waits for its result without looking at its context
  (`croner.rs:456`), so a stop that waits for it may have no end; one whose
  `on_trigger` panics leaves its entry in the table of results.  A calendar without a
  next occurrence ends the scheduler with an error, and the activations it had
  accepted are aborted (`PassFails`); the stop after the one that reports the failure
  returns Ok, maybe beside the last poll of one of them.
* A reload by a caller beside the watch task may store the configuration of one and
  the tables of the other (`loader.rs:218`).  A change of the file between its first
  reading and the start of the watcher is not seen.
* A `set_provider` between the lookup and the store of a `get` leaves the type with
  its default serde (`registry.rs:65`).  Deserializers accept bytes after the value.
* A sink handler that emits in line to its own stream id from `begin_request` would
  wait for the cell it is itself creating; the model leaves this out.
* A failed second `set_consumer` leaves its link recorded, and two branches of a split
  into one stream share one link (`stream.rs`).  A case selector out of range panics.
* Counters of active requests are not put back when a `consume` is dropped.

## 7. Not modelled

`PROJECT.json` lists every part with its status.  Left out:

* telemetry, metrics, logging and tracing, and the status page: nothing depends on what
  they observe;
* the service API and the schema of the configuration: data types without steps;
* registration of components before `start` and the routers built from them: done
  by one thread, once;
* the channels of the gRPC connectors (`datasink/grpc/tonic.rs`) and the settings of the
  Kafka clients: what they do happens in tonic and librdkafka;
* how a cron expression gives its occurrences (the croner crate), floating point
  arithmetic, and the contents of messages, headers and spans;
* cycles of links, and flow control inside a gRPC stream;
* panics of user code, but for the `on_trigger` of cron, and memory: what a
  deserializer reserves before it has read the elements of a container.
