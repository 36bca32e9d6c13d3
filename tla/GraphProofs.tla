---------------------------- MODULE GraphProofs -----------------------------
(***************************************************************************)
(* A theorem about the graph of operators, for every shape, every call     *)
(* semantics and every bound.                                              *)
(***************************************************************************)
EXTENDS RuntimeGraph, Sequences, TLAPS

Place == {"none", "source", "parallel", "queued", "pooled"}
TaskOf(A) == [at : Place, context : Nat, agenda : A]

\* What runs is in a place that a phase of the shutdown still waits for; a parallel
\* call that runs is in the registry or in the batch that is awaited.
Owned(t) ==
  /\ task[t].at # "none"
  /\ task[t].at = "source" => phase = "running"
  /\ task[t].at \in {"queued", "pooled"} => phase \in {"running", "stopping"}
  /\ task[t].at = "parallel" => t \in parallel_tasks \cup batch

GraphInv ==
  /\ tasks \in Nat
  /\ \E A : task \in [G!TaskId -> TaskOf(A)]
  /\ \A t \in G!TaskId : G!Active(t) => Owned(t)
  /\ phase = "drained" => parallel_tasks = {} /\ batch = {}

\* A drained graph runs nothing.
LEMMA DrainedQuiet == ASSUME GraphInv, phase = "drained", NEW t \in G!TaskId PROVE ~G!Active(t)
<1>1. PICK A : task \in [G!TaskId -> TaskOf(A)]
  BY Zenon DEF GraphInv
<1>2. task[t].at \in Place
  BY <1>1, Zenon DEF TaskOf
<1> QED
  BY <1>2 DEF GraphInv, Owned, Place

\* A task is started.
LEMMA StartStep ==
  ASSUME NEW A, NEW f \in [G!TaskId -> TaskOf(A)], tasks \in Nat, NEW at \in Place,
         NEW context \in Nat, NEW x, G!Start(f, at, context, x)
  PROVE  /\ tasks' \in Nat /\ tasks + 1 \in G!TaskId
         /\ task' \in [G!TaskId -> TaskOf(A \cup {x})]
         /\ task'[tasks + 1] = [at |-> at, context |-> context, agenda |-> x]
         /\ \A u \in G!TaskId : u # tasks + 1 => task'[u] = f[u]
<1>1. tasks' \in Nat /\ tasks + 1 \in G!TaskId
  BY GraphAssumption DEF G!Start, G!TaskId
<1>2. [at |-> at, context |-> context, agenda |-> x] \in TaskOf(A \cup {x})
  BY DEF TaskOf
<1>3. \A u \in G!TaskId : f[u] \in TaskOf(A \cup {x})
  BY DEF TaskOf
<1>4. f \in [G!TaskId -> TaskOf(A \cup {x})]
  BY <1>3, Zenon
<1> QED
  BY <1>1, <1>2, <1>4, Zenon DEF G!Start

\* A step of a task that runs, with or without a new task, which is pooled while the
\* pools accept and registered when it is parallel.
LEMMA RunningStep ==
  ASSUME GraphInv, NEW t \in G!TaskId, G!Active(t),
         tasks' \in Nat, \E A : task' \in [G!TaskId -> TaskOf(A)],
         phase' = phase, batch' = batch, parallel_tasks \subseteq parallel_tasks',
         \A u \in G!TaskId : task'[u] = task[u] \/ (u = t /\ task'[u].at = task[u].at) \/ Owned(u)'
  PROVE  GraphInv'
<1>1. phase # "drained"
  BY DrainedQuiet, Zenon
<1>2. ASSUME NEW u \in G!TaskId, G!Active(u)' PROVE Owned(u)'
  <2>1. CASE task'[u] = task[u]
    <3>1. G!Active(u)
      BY <1>2, <2>1, Zenon DEF G!Active
    <3>2. Owned(u)
      BY <3>1, Zenon DEF GraphInv
    <3> QED
      BY <2>1, <3>2, Zenon DEF Owned
  <2>2. CASE u = t /\ task'[u].at = task[u].at
    <3>1. Owned(u)
      BY <2>2, Zenon DEF GraphInv
    <3> QED
      BY <2>2, <3>1, Zenon DEF Owned
  <2> QED
    BY <2>1, <2>2, Zenon
<1> QED
  BY <1>1, <1>2, Zenon DEF GraphInv

LEMMA GraphTaskStep ==
  ASSUME GraphInv, NEW t \in G!TaskId, G!Deliver(t) \/ G!SpawnParallel(t) \/ G!AddTask(t)
  PROVE  GraphInv'
<1>1. PICK A : task \in [G!TaskId -> TaskOf(A)]
  BY Zenon DEF GraphInv
<1>2. G!Active(t) /\ tasks \in Nat /\ task[t].context \in Nat
  BY <1>1, Zenon DEF GraphInv, TaskOf, G!Deliver, G!SpawnParallel, G!AddTask, G!Dispatched, G!Running
<1> DEFINE rest == Tail(task[t].agenda)
<1>3. /\ G!Rest(t) = [task EXCEPT ![t].agenda = rest]
      /\ G!Rest(t) \in [G!TaskId -> TaskOf(A \cup {rest})]
      /\ \A u \in G!TaskId : G!Rest(t)[u].at = task[u].at /\ (u # t => G!Rest(t)[u] = task[u])
  <2>1. G!Rest(t) = [task EXCEPT ![t].agenda = rest]
    BY Zenon DEF G!Rest
  <2> QED
    BY <1>1, <2>1 DEF TaskOf
<1>4. ASSUME NEW x, task' = [task EXCEPT ![t].agenda = x], UNCHANGED <<phase, tasks, parallel_tasks, batch>>
      PROVE  GraphInv'
  <2>1. /\ task' \in [G!TaskId -> TaskOf(A \cup {x})]
        /\ \A u \in G!TaskId : task'[u].at = task[u].at /\ (u # t => task'[u] = task[u])
    BY <1>1, <1>4 DEF TaskOf
  <2> QED
    BY <1>2, <1>4, <2>1, RunningStep, Zenon
<1>5. ASSUME NEW at \in {"parallel", "queued"}, NEW context \in Nat, NEW x,
             G!Start(G!Rest(t), at, context, x),
             phase' = phase, batch' = batch, parallel_tasks \subseteq parallel_tasks',
             at = "parallel" => tasks + 1 \in parallel_tasks',
             at = "queued" => phase = "running"
      PROVE  GraphInv'
  <2>1. /\ tasks' \in Nat /\ tasks + 1 \in G!TaskId
        /\ task' \in [G!TaskId -> TaskOf((A \cup {rest}) \cup {x})]
        /\ task'[tasks + 1] = [at |-> at, context |-> context, agenda |-> x]
        /\ \A u \in G!TaskId : u # tasks + 1 => task'[u] = G!Rest(t)[u]
    <3>1. at \in Place
      BY <1>5 DEF Place
    <3> QED
      BY <1>2, <1>3, <1>5, <3>1, StartStep, Zenon
  <2>2. ASSUME NEW u \in G!TaskId, u = tasks + 1 PROVE Owned(u)'
    <3>1. task'[u].at = at
      BY <2>1, <2>2
    <3> QED
      BY <1>5, <2>2, <3>1 DEF Owned
  <2> QED
    BY <1>2, <1>3, <1>5, <2>1, <2>2, RunningStep, Zenon
<1>6. CASE G!Deliver(t)
  <2> DEFINE calls == G!Calls(downstream[G!Todo(t).s], G!Todo(t).v) \o rest
  <2>1. \/ task' = G!Rest(t)
        \/ task' = [task EXCEPT ![t].agenda = calls]
    BY <1>6, Zenon DEF G!Deliver
  <2>2. UNCHANGED <<phase, tasks, parallel_tasks, batch>>
    BY <1>6, Zenon DEF G!Deliver
  <2> HIDE DEF rest, calls
  <2> QED
    BY <1>3, <1>4, <2>1, <2>2, Zenon
<1>7. CASE G!SpawnParallel(t)
  <2>1. /\ G!Start(G!Rest(t), "parallel", task[t].context, G!Work(t))
        /\ phase' = phase /\ batch' = batch /\ parallel_tasks' = parallel_tasks \cup {tasks + 1}
    BY <1>7, Zenon DEF G!SpawnParallel
  <2> QED
    BY <1>2, <1>5, <2>1
<1>8. CASE G!AddTask(t)
  <2>1. /\ UNCHANGED <<phase, parallel_tasks, batch>>
        /\ \/ phase = "running" /\ G!Start(G!Rest(t), "queued", task[t].context, G!Work(t))
           \/ task' = G!Rest(t) /\ UNCHANGED tasks
    BY <1>8, Zenon DEF G!AddTask
  <2> HIDE DEF rest
  <2> QED
    BY <1>2, <1>3, <1>4, <1>5, <2>1, ZenonT(40)
<1> QED
  BY <1>6, <1>7, <1>8, Zenon

\* A step that leaves the tasks alone, with the phase it comes from and the one it
\* goes to, and what it does to the registry and the batch.
LEMMA GraphPhaseStep ==
  ASSUME GraphInv,
         G!Make \/ G!Build \/ G!StopPools \/ G!PoolsStopped \/ G!DrainTake \/ G!DrainAwait
  PROVE  GraphInv'
<1>1. UNCHANGED <<task, tasks>>
  BY Zenon DEF G!Make, G!Build, G!StopPools, G!PoolsStopped, G!DrainTake, G!DrainAwait, G!taskVars
<1>2. \A t \in G!TaskId : G!Active(t)' <=> G!Active(t)
  BY <1>1, Zenon DEF G!Active
<1>3. tasks' \in Nat /\ \E A : task' \in [G!TaskId -> TaskOf(A)]
  BY <1>1, Zenon DEF GraphInv
<1>4. CASE G!Make \/ G!Build
  <2>1. /\ phase = "wiring" /\ phase' \in {"wiring", "running", "failed"}
        /\ UNCHANGED <<parallel_tasks, batch>>
    <3>1. CASE G!Make
      <4>1. \E n, sources, semantics : G!TrySet(n, sources, semantics) \/ G!TrySetTyped(n, sources, semantics)
        BY <3>1, Zenon DEF G!Make
      <4>2. phase' = phase \/ phase' = "failed"
        <5>1. ASSUME NEW n, NEW sources, NEW semantics, G!TrySet(n, sources, semantics)
              PROVE  \E b : phase' = IF b THEN phase ELSE "failed"
          BY <5>1, Zenon DEF G!TrySet
        <5>2. \A n, sources, semantics : G!TrySetTyped(n, sources, semantics) =>
                 phase' = "failed" \/ G!TrySet(n, sources, semantics)
          BY Zenon DEF G!TrySetTyped
        <5> QED
          BY <4>1, <5>1, <5>2, Zenon
      <4>3. phase = "wiring" /\ UNCHANGED <<parallel_tasks, batch>>
        BY <3>1, Zenon DEF G!Make, G!taskVars
      <4> QED
        BY <4>2, <4>3, Zenon
    <3>2. CASE G!Build
      BY <3>2, Zenon DEF G!Build, G!taskVars
    <3> QED
      BY <1>4, <3>1, <3>2, Zenon
  <2> QED
    BY <1>1, <1>2, <1>3, <2>1 DEF GraphInv, Owned
<1>5. CASE G!StopPools
  <2>1. \A t \in G!TaskId : G!Active(t) => task[t].at # "source"
    BY <1>5 DEF G!StopPools, G!Quiet
  <2>2. phase = "running" /\ phase' = "stopping" /\ UNCHANGED <<parallel_tasks, batch>>
    BY <1>5 DEF G!StopPools, G!taskVars
  <2> QED
    BY <1>1, <1>2, <1>3, <2>1, <2>2 DEF GraphInv, Owned
<1>6. CASE G!PoolsStopped
  <2>1. \A t \in G!TaskId : G!Active(t) => task[t].at \notin {"queued", "pooled"}
    BY <1>6, Zenon DEF G!PoolsStopped, G!Quiet
  <2>2. phase = "stopping" /\ phase' = "draining" /\ UNCHANGED <<parallel_tasks, batch>>
    BY <1>6 DEF G!PoolsStopped, G!taskVars
  <2> QED
    BY <1>1, <1>2, <1>3, <2>1, <2>2 DEF GraphInv, Owned
<1>7. CASE G!DrainTake
  <2>1. /\ phase = "draining" /\ batch = {} /\ batch' = parallel_tasks /\ parallel_tasks' = {}
        /\ phase' = IF parallel_tasks = {} THEN "drained" ELSE phase
    BY <1>7, Zenon DEF G!DrainTake
  <2> QED
    BY <1>1, <1>2, <1>3, <2>1 DEF GraphInv, Owned
<1>8. CASE G!DrainAwait
  <2>1. /\ phase = "draining" /\ phase' = phase /\ parallel_tasks' = parallel_tasks
        /\ \A t \in batch : ~G!Active(t)
    BY <1>8, Zenon DEF G!DrainAwait
  <2> QED
    BY <1>1, <1>2, <1>3, <2>1 DEF GraphInv, Owned
<1> QED
  BY <1>4, <1>5, <1>6, <1>7, <1>8, Zenon

\* A source starts a task while the graph runs.
LEMMA GraphEmitStep == ASSUME GraphInv, NEW s, NEW v, G!Emit(s, v) PROVE GraphInv'
<1>1. PICK A : task \in [G!TaskId -> TaskOf(A)]
  BY Zenon DEF GraphInv
<1>2. tasks \in Nat /\ tasks + 1 \in Nat /\ "source" \in Place
  BY DEF GraphInv, Place
<1>3. PICK x : G!Start(task, "source", tasks + 1, x)
  BY Zenon DEF G!Emit
<1>4. /\ tasks' \in Nat /\ tasks + 1 \in G!TaskId
      /\ task' \in [G!TaskId -> TaskOf(A \cup {x})]
      /\ task'[tasks + 1] = [at |-> "source", context |-> tasks + 1, agenda |-> x]
      /\ \A u \in G!TaskId : u # tasks + 1 => task'[u] = task[u]
  BY <1>1, <1>2, <1>3, StartStep, Zenon
<1>5. phase = "running" /\ UNCHANGED <<phase, parallel_tasks, batch>>
  BY Zenon DEF G!Emit
<1>6. ASSUME NEW u \in G!TaskId, G!Active(u)' PROVE Owned(u)'
  <2>1. CASE u = tasks + 1
    <3>1. task'[u].at = "source"
      BY <1>4, <2>1
    <3> QED
      BY <1>5, <3>1 DEF Owned
  <2>2. CASE u # tasks + 1
    <3>1. task'[u] = task[u]
      BY <1>4, <2>2, Zenon
    <3>2. Owned(u)
      BY <1>6, <3>1, Zenon DEF GraphInv, G!Active
    <3> QED
      BY <1>5, <3>1, <3>2, Zenon DEF Owned
  <2> QED
    BY <2>1, <2>2, Zenon
<1> QED
  BY <1>4, <1>5, <1>6 DEF GraphInv

\* An executor takes a task that a pool has accepted.
LEMMA GraphPoolStep == ASSUME GraphInv, NEW t \in G!TaskId, G!PoolRuns(t) PROVE GraphInv'
<1>1. PICK A : task \in [G!TaskId -> TaskOf(A)]
  BY Zenon DEF GraphInv
<1>2. /\ task[t].at = "queued" /\ task' = [task EXCEPT ![t].at = "pooled"]
      /\ UNCHANGED <<phase, tasks, parallel_tasks, batch>>
  BY Zenon DEF G!PoolRuns
<1>3. /\ task' \in [G!TaskId -> TaskOf(A)]
      /\ task'[t].at = "pooled" /\ task'[t].agenda = task[t].agenda
      /\ \A u \in G!TaskId : u # t => task'[u] = task[u]
  BY <1>1, <1>2 DEF TaskOf, Place
<1>4. ASSUME NEW u \in G!TaskId, G!Active(u)' PROVE Owned(u)'
  <2>1. G!Active(u)
    BY <1>3, <1>4, Zenon DEF G!Active
  <2>2. Owned(u)
    BY <2>1, Zenon DEF GraphInv
  <2> QED
    BY <1>2, <1>3, <2>2 DEF Owned
<1> QED
  BY <1>2, <1>3, <1>4 DEF GraphInv

LEMMA GraphInvariant == G!Spec => []GraphInv
<1>1. G!Init => GraphInv
  <2> SUFFICES ASSUME G!Init PROVE GraphInv
    OBVIOUS
  <2>1. /\ task = [t \in G!TaskId |-> [at |-> "none", context |-> 0, agenda |-> <<>>]]
        /\ tasks = 0 /\ phase = "wiring"
    BY DEF G!Init
  <2>2. task \in [G!TaskId -> TaskOf({<<>>})]
    BY <2>1 DEF TaskOf, Place
  <2>3. \A t \in G!TaskId : ~G!Active(t)
    BY <2>1 DEF G!Active
  <2> QED
    BY <2>1, <2>2, <2>3 DEF GraphInv
<1>2. GraphInv /\ [G!Next]_(G!vars) => GraphInv'
  <2> SUFFICES ASSUME GraphInv, [G!Next]_(G!vars) PROVE GraphInv'
    OBVIOUS
  <2>1. CASE UNCHANGED G!vars
    <3>1. UNCHANGED <<phase, task, tasks, parallel_tasks, batch>>
      BY <2>1, Zenon DEF G!vars, G!taskVars
    <3> QED
      BY <3>1, Zenon DEF GraphInv, Owned, G!Active
  <2>2. ASSUME NEW t \in G!TaskId, G!Cancel(t) PROVE GraphInv'
    <3>1. UNCHANGED <<phase, task, tasks, parallel_tasks, batch>>
      BY <2>2, Zenon DEF G!Cancel
    <3> QED
      BY <3>1, Zenon DEF GraphInv, Owned, G!Active
  <2>3. CASE G!Next
    BY <2>2, <2>3, GraphPhaseStep, GraphEmitStep, GraphTaskStep, GraphPoolStep, Zenon DEF G!Next
  <2> QED
    BY <2>1, <2>3, Zenon
<1> QED
  BY <1>1, <1>2, PTL DEF G!Spec

\* drain_parallel returns with nothing running in the graph (environment/mod.rs).
\* Whatever still runs is in a place that the shutdown has not yet passed, and a
\* parallel call is registered before the call that starts it goes on: an empty
\* registry after an awaited batch is the end.
THEOREM GraphDrained == G!Spec => []DrainedGraph
<1>1. GraphInv => DrainedGraph
  BY DrainedQuiet, Zenon DEF DrainedGraph, G!DrainedGraph
<1> QED
  BY <1>1, GraphInvariant, PTL
=============================================================================
