---------------------------- MODULE MCServiceApp ----------------------------
(* Instances of ServiceApp for TLC. *)
EXTENDS ServiceApp

CONSTANTS source, pool, parallel, sink

Kinds ==
  [j \in Job |-> CASE j = source -> "source" [] j = pool -> "pool"
                   [] j = parallel -> "parallel" [] j = sink -> "sink"]

\* shutdown_phases up to the sinks.
ToSinks == <<<<source>>, <<pool>>, <<parallel>>, <<sink>>>>
=============================================================================
