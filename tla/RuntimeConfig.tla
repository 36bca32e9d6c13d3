--------------------------- MODULE RuntimeConfig ----------------------------
(* The configuration loader as a part of the runtime, with what it asks of *)
(* its constants and what it promises.  Only the watch task reloads.       *)
EXTENDS Naturals

CONSTANTS Defaults, Environment, Files, Reloader, MaxWrites, Absent

ASSUME LoaderAssumption == Reloader = {"watch"} /\ MaxWrites \in Nat

VARIABLES file, link, writes, events, watch_task, watched_target, written, reloader, published,
          runtime_config

L == INSTANCE ConfigLoader WITH None <- Absent, task <- watch_task, current <- published

configVars == <<file, link, writes, events, watch_task, watched_target, written, reloader,
                published, runtime_config>>

\* The override file as it was last left is what is published, if it passes every
\* check, and every reference in what is published resolves (loader.rs, runtime.rs).
PublishedExact == L!PublishedExact
=============================================================================
