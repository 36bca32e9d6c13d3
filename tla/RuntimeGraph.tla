---------------------------- MODULE RuntimeGraph ----------------------------
(* The graph of operators as a part of the runtime, with what it asks of   *)
(* its constants and what its drain promises.                              *)
EXTENDS Naturals

CONSTANTS Shapes, Semantics, MaxTasks, MaxInputs

ASSUME GraphAssumption == MaxTasks \in Nat

VARIABLES op, made, phase, downstream, graph_links, dispatch_order, task, tasks,
          cancelled, parallel_tasks, batch, emitted, received, lost

G == INSTANCE StreamGraph

graphVars == <<op, made, phase, downstream, graph_links, dispatch_order, task, tasks,
               cancelled, parallel_tasks, batch, emitted, received, lost>>

\* When drain_parallel returns nothing runs in the graph (environment/mod.rs).
DrainedGraph == G!DrainedGraph
=============================================================================
