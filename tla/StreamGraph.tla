---------------------------- MODULE StreamGraph -----------------------------
(***************************************************************************)
(* A graph of operators: how it is wired (runtime/stream.rs,               *)
(* runtime/environment/mod.rs and the operators' make functions), and how  *)
(* values run through it over links with different call semantics          *)
(* (runtime/collector.rs), up to the drain of its shutdown.                *)
(*                                                                         *)
(* A task is what Tokio polls: a source's call, a parallel call or a pool  *)
(* task.  Its agenda is what its nested awaits have still to do, in order. *)
(* The functions of the operators are fixed: see Promised of StreamMeaning. *)
(***************************************************************************)
EXTENDS Integers, Sequences, Bags

CONSTANTS Shapes,      \* the kinds of the nodes, in the order they are made
          Semantics,   \* the call semantics the configuration may give a link
          MaxTasks,    \* bound: the tasks started
          MaxInputs    \* bound: the values the source emits

VARIABLES
  op,            \* the shape: op[n], the kind of node n
  made,          \* the number of nodes made
  phase,         \* wiring, failed, running, stopping, draining, drained
  downstream,    \* of each stream of a node made: the node it is connected to, 0 none
  graph_links,   \* what register_graph_link has recorded
  dispatch_order,\* of each split: its branches in the order they are served
  task, tasks,   \* the tasks started, and how many
  cancelled,     \* the contexts cancelled: each is that of a source's task
  parallel_tasks,\* the registry of the parallel calls' handles
  batch,         \* the handles drain_parallel has taken and awaits
  emitted,       \* what the source has emitted, per stream and value
  received,      \* what the sinks were given
  lost           \* what a pool rejected

wiring == <<op, made, downstream, graph_links, dispatch_order>>
taskVars == <<task, tasks, cancelled, parallel_tasks, batch>>
bags == <<emitted, received, lost>>
vars == <<wiring, phase, taskVars, bags>>

TaskId == 1 .. MaxTasks

\* What the make function of each kind of node asks for and creates: how many
\* sources it connects, and the ids of the output streams it makes.  The branches
\* of a split share its id, an error stream has it negated and every branch of a
\* case has one of its own.
MakeInput  == [sources |-> 0, streams |-> <<"own", "error">>]
MakeMap    == [sources |-> 1, streams |-> <<"own">>]
MakeFilter == [sources |-> 1, streams |-> <<"own">>]
MakeFlatMap == [sources |-> 1, streams |-> <<"own">>]
MakeFlatMapIterable == [sources |-> 1, streams |-> <<"own">>]
MakeKeyBy  == [sources |-> 1, streams |-> <<"own">>]
MakeMerge  == [sources |-> 2, streams |-> <<"own">>]
MakeLink   == [sources |-> 1, streams |-> <<"own">>]
MakeSplit  == [sources |-> 1, streams |-> <<"own", "own">>]
MakeProcess == [sources |-> 1, streams |-> <<"own", "error">>]
MakeCase   == [sources |-> 1, streams |-> <<"when 1", "when 2">>]
MakeSink   == [sources |-> 1, streams |-> <<"error">>]
MakeSinkWithResult == [sources |-> 1, streams |-> <<"own", "error">>]
\* The result stream of the input: set_source makes no stream.
MakeResultLink == [sources |-> 1, streams |-> <<>>]

Maker(kind) ==
  CASE kind = "map" -> MakeMap [] kind = "filter" -> MakeFilter
    [] kind = "flatmap" -> MakeFlatMap [] kind = "iterable" -> MakeFlatMapIterable
    [] kind = "keyby" -> MakeKeyBy [] kind = "merge" -> MakeMerge
    [] kind = "link" -> MakeLink [] kind = "split" -> MakeSplit
    [] kind = "process" -> MakeProcess [] kind = "case" -> MakeCase
    [] kind = "sink" -> MakeSink [] kind = "sinkResult" -> MakeSinkWithResult
    [] kind = "result" -> MakeResultLink

\* The streams a source emits on, its values and its errors.
Inputs == {<<0, i>> : i \in DOMAIN MakeInput.streams}
Outs(n) == {<<n, i>> : i \in DOMAIN Maker(op[n]).streams}

NodeId(n) == <<n, "own">>
StreamId(s) == <<s[1], (IF s \in Inputs THEN MakeInput ELSE Maker(op[s[1]])).streams[s[2]]>>

Ends == {"sink", "sinkResult", "result"}

Init ==
  /\ op \in Shapes /\ phase = "wiring" /\ made = 0
  /\ downstream = [s \in Inputs |-> 0] /\ graph_links = {}
  /\ dispatch_order = [n \in 1 .. Len(op) |-> <<1, 2>>]
  /\ task = [t \in TaskId |-> [at |-> "none", context |-> 0, agenda |-> <<>>]] /\ tasks = 0
  /\ cancelled = {} /\ parallel_tasks = {} /\ batch = {}
  /\ emitted = EmptyBag /\ received = EmptyBag /\ lost = EmptyBag
-----------------------------------------------------------------------------
(* Wiring.                                                                 *)

Semantic(s) ==
  (CHOOSE l \in graph_links : l.from = StreamId(s) /\ l.to = NodeId(downstream[s])).semantics

\* function_call_async marks a plain call as one that counts as asynchronous.
Async(s) == Semantic(s) # "call"

\* when records the link from a case to its branch; no call is made over it, and its
\* semantics are here the default.
WhenLinks(n) ==
  {[from |-> NodeId(n), to |-> StreamId(s), semantics |-> "call"] : s \in Outs(n)}

\* try_set_consumer records the link before it finds that the stream has a
\* consumer, and not if its pool does not exist.  A merge connects its sources
\* in turn, up to the first error.
TrySet(n, sources, semantics) ==
  LET Missing(i) == semantics[StreamId(sources[i])] = "nopool"
      Taken(i) == downstream[sources[i]] # 0 \/ \E j \in 1 .. i - 1 : sources[j] = sources[i]
      bad   == {i \in DOMAIN sources : Missing(i) \/ Taken(i)}
      tried == {i \in DOMAIN sources : \A j \in bad : i <= j}
      links == {[from |-> StreamId(sources[i]), to |-> NodeId(n),
                 semantics |-> semantics[StreamId(sources[i])]] : i \in {i \in tried : ~Missing(i)}}
      set   == {sources[i] : i \in tried \ bad}
  IN /\ graph_links' =
          {l \in graph_links : \A k \in links : <<l.from, l.to>> # <<k.from, k.to>>} \cup links
            \cup (IF op[n] = "case" /\ bad = {} THEN WhenLinks(n) ELSE {})
     /\ downstream' = [s \in DOMAIN downstream \cup Outs(n) |->
                         IF s \in set THEN n ELSE IF s \in DOMAIN downstream THEN downstream[s] ELSE 0]
     /\ phase' = IF bad = {} THEN phase ELSE "failed"

\* try_set_typed_consumer looks for the consumer first, and then records nothing.
TrySetTyped(n, sources, semantics) ==
  IF downstream[sources[1]] # 0
    THEN phase' = "failed" /\ UNCHANGED <<downstream, graph_links>>
    ELSE TrySet(n, sources, semantics)

\* The make of the next node, with the streams that exist as its sources.
Make ==
  LET n == made + 1 IN
  /\ phase = "wiring" /\ n <= Len(op)
  /\ \E sources \in [1 .. Maker(op[n]).sources -> DOMAIN downstream] :
       \E semantics \in [{StreamId(sources[i]) : i \in DOMAIN sources} -> Semantics] :
         IF op[n] \in {"link", "result"}
           THEN TrySetTyped(n, sources, semantics)
           ELSE TrySet(n, sources, semantics)
  /\ made' = n
  /\ UNCHANGED <<op, dispatch_order, taskVars, bags>>

\* A split serves its asynchronous branches first, otherwise in their order.
DispatchOrder(n) == IF ~Async(<<n, 1>>) /\ Async(<<n, 2>>) THEN <<2, 1>> ELSE <<1, 2>>

\* build_runtime_streams: a split needs a consumer on every branch.
Build ==
  /\ phase = "wiring" /\ made = Len(op)
  /\ LET splits == {n \in 1 .. Len(op) : op[n] = "split"} IN
       IF \E n \in splits : \E s \in Outs(n) : downstream[s] = 0
         THEN phase' = "failed" /\ UNCHANGED dispatch_order
         ELSE /\ phase' = "running"
              /\ dispatch_order' = [n \in 1 .. Len(op) |-> IF n \in splits THEN DispatchOrder(n) ELSE <<1, 2>>]
  /\ UNCHANGED <<op, made, downstream, graph_links, taskVars, bags>>
-----------------------------------------------------------------------------
(* The operators: what consume of node n emits for v, in order.            *)

Out(n, i, v) == [do |-> "emit", s |-> <<n, i>>, v |-> v]

\* Mutant: the last branch goes without.
SplitFirst(n, v) == <<Out(n, dispatch_order[n][1], v)>>
SplitStream(n, v) == [i \in 1 .. 2 |-> Out(n, dispatch_order[n][i], v)]
MapStream(n, v) == <<Out(n, 1, 1 - v)>>
FilterStream(n, v) == IF v = 1 THEN <<Out(n, 1, v)>> ELSE <<>>
\* The function of a flat map has the collector and may use it as it likes.
FlatMapStream(n, v) == <<Out(n, 1, 0), Out(n, 1, 1)>>
\* Here the function gives an iterator: v ones.
FlatMapIterableStream(n, v) == [i \in 1 .. v |-> Out(n, 1, 1)]
\* The pair of a key and the value v, under the number 2 + v.
KeyByStream(n, v) == <<Out(n, 1, 2 + v)>>
ProcessStream(n, v) == <<Out(n, IF v = 1 THEN 1 ELSE 2, v)>>
\* The branch is the selector's index.
CaseStream(n, v) == <<Out(n, v + 1, v)>>
MergeStream(n, v) == <<Out(n, 1, v)>>
LinkStream(n, v) == <<Out(n, 1, v)>>
\* The endpoint of a sink reports a 0 on the error stream; one with a result
\* stream answers a 1 there.
SinkStream(n, v) == IF v = 0 THEN <<Out(n, 1, v)>> ELSE <<>>
SinkStreamWithResult(n, v) == <<Out(n, 2 - v, v)>>
\* The result consumer has the value: nothing follows.
ResultLink(n, v) == <<>>

Calls(n, v) ==
  CASE op[n] = "sink" -> SinkStream(n, v)
    [] op[n] = "sinkResult" -> SinkStreamWithResult(n, v)
    [] op[n] = "result" -> ResultLink(n, v)
    [] op[n] = "split" -> SplitStream(n, v)
    [] op[n] = "map" -> MapStream(n, v)
    [] op[n] = "filter" -> FilterStream(n, v)
    [] op[n] = "flatmap" -> FlatMapStream(n, v)
    [] op[n] = "iterable" -> FlatMapIterableStream(n, v)
    [] op[n] = "keyby" -> KeyByStream(n, v)
    [] op[n] = "process" -> ProcessStream(n, v)
    [] op[n] = "case" -> CaseStream(n, v)
    [] op[n] = "merge" -> MergeStream(n, v)
    [] op[n] = "link" -> LinkStream(n, v)

\* A sink hands the value to its endpoint consumer, the input's result link to the
\* consumer of the results.
Receive(n, v) == received' = IF op[n] \in Ends THEN received (+) SetToBag({<<n, v>>}) ELSE received
-----------------------------------------------------------------------------
(* The tasks.                                                              *)

Start(f, at, context, agenda) ==
  /\ tasks < MaxTasks /\ tasks' = tasks + 1
  /\ task' = [f EXCEPT ![tasks + 1] = [at |-> at, context |-> context, agenda |-> agenda]]

Active(t) == task[t].agenda # <<>>

\* A source emits a value or an error into the graph, with a context of its own, and
\* waits for the call.
Emit(s, v) ==
  /\ phase = "running" /\ BagCardinality(emitted) < MaxInputs
  /\ Start(task, "source", tasks + 1, <<[do |-> "emit", s |-> s, v |-> v]>>)
  /\ emitted' = emitted (+) SetToBag({<<s, v>>})
  /\ UNCHANGED <<wiring, phase, cancelled, parallel_tasks, batch, received, lost>>

Rest(t) == [task EXCEPT ![t].agenda = Tail(@)]
Todo(t) == Head(task[t].agenda)

\* The next await of a task that runs: a consume it was started for, or an emit.
\* Without consumer an emit does nothing.
Running(t) == task[t].at \in {"source", "parallel", "pooled"} /\ Active(t)

Deliver(t) ==
  /\ Running(t)
  /\ LET s == Todo(t).s n == downstream[Todo(t).s] v == Todo(t).v IN
       /\ IF n = 0 \/ Todo(t).do = "consume" THEN TRUE ELSE Semantic(s) \in {"call", "asyncCall"}
       /\ IF n = 0 THEN task' = Rest(t) /\ UNCHANGED received
          ELSE /\ task' = [task EXCEPT ![t].agenda = Calls(n, v) \o Tail(@)]
               /\ Receive(n, v)
  /\ UNCHANGED <<wiring, phase, tasks, cancelled, parallel_tasks, batch, emitted, lost>>

Dispatched(t, kind) ==
  /\ Running(t) /\ Todo(t).do = "emit"
  /\ downstream[Todo(t).s] # 0 /\ Semantic(Todo(t).s) = kind

Work(t) == <<[Todo(t) EXCEPT !.do = "consume"]>>

\* spawn_parallel: the handle is in the registry before the caller goes on.
SpawnParallel(t) ==
  /\ Dispatched(t, "parallel") /\ Start(Rest(t), "parallel", task[t].context, Work(t))
  /\ parallel_tasks' = parallel_tasks \cup {tasks + 1}
  /\ UNCHANGED <<wiring, phase, cancelled, batch, bags>>

\* The context a task has from its source is cancelled, or its deadline passes.  Of
\* what is modelled here only a pool asks for it, so it is as good as cancelled just
\* before one does.
Cancel(t) ==
  /\ Dispatched(t, "pool") /\ task[t].context \notin cancelled
  /\ cancelled' = cancelled \cup {task[t].context}
  /\ UNCHANGED <<wiring, phase, task, tasks, parallel_tasks, batch, bags>>

\* add_task; a pool rejects when the context is cancelled or the pool stopped, and
\* the value goes no further.
AddTask(t) ==
  /\ Dispatched(t, "pool")
  /\ IF phase = "running" /\ task[t].context \notin cancelled
       THEN Start(Rest(t), "queued", task[t].context, Work(t)) /\ UNCHANGED lost
       ELSE /\ task' = Rest(t) /\ UNCHANGED tasks
            /\ lost' = lost (+) SetToBag({<<Todo(t).s, Todo(t).v>>})
  /\ UNCHANGED <<wiring, phase, cancelled, parallel_tasks, batch, emitted, received>>

\* An executor takes a task; which one is the pool's affair (QueuedPool).
PoolRuns(t) ==
  /\ task[t].at = "queued" /\ task' = [task EXCEPT ![t].at = "pooled"]
  /\ UNCHANGED <<wiring, phase, tasks, cancelled, parallel_tasks, batch, bags>>
-----------------------------------------------------------------------------
(* Shutdown, in the phases of the application.                             *)

Quiet(places) == \A t \in TaskId : task[t].at \in places => ~Active(t)

\* The sources are quiet and their stop has returned: the pools stop.
StopPools ==
  /\ phase = "running" /\ Quiet({"source"}) /\ phase' = "stopping"
  /\ UNCHANGED <<wiring, taskVars, bags>>

\* Their stop returns when what they accepted is done.
PoolsStopped ==
  /\ phase = "stopping" /\ Quiet({"queued", "pooled"}) /\ phase' = "draining"
  /\ UNCHANGED <<wiring, taskVars, bags>>

\* drain_parallel takes the registry, and is over when there was nothing in it.
DrainTake ==
  /\ phase = "draining" /\ batch = {}
  /\ batch' = parallel_tasks /\ parallel_tasks' = {}
  /\ phase' = IF parallel_tasks = {} THEN "drained" ELSE phase
  /\ UNCHANGED <<wiring, task, tasks, cancelled, bags>>

\* Mutant: one round of drain_parallel.
DrainAwaitOnce ==
  /\ phase = "draining" /\ batch # {} /\ \A t \in batch : ~Active(t)
  /\ batch' = {} /\ phase' = "drained"
  /\ UNCHANGED <<wiring, task, tasks, cancelled, parallel_tasks, bags>>

DrainAwait ==
  /\ phase = "draining" /\ batch # {} /\ \A t \in batch : ~Active(t)
  /\ batch' = {}
  /\ UNCHANGED <<wiring, phase, task, tasks, cancelled, parallel_tasks, bags>>

Next ==
  \/ Make \/ Build \/ StopPools \/ PoolsStopped \/ DrainTake \/ DrainAwait
  \/ \E s \in Inputs, v \in {0, 1} : Emit(s, v)
  \/ \E t \in TaskId : Deliver(t) \/ SpawnParallel(t) \/ Cancel(t) \/ AddTask(t) \/ PoolRuns(t)

Spec == Init /\ [][Next]_vars
-----------------------------------------------------------------------------
(* Properties.                                                             *)

\* When drain_parallel returns nothing runs in the graph, the calls that the
\* awaited ones started included.
DrainedGraph == phase = "drained" => \A t \in TaskId : ~Active(t)
=============================================================================
