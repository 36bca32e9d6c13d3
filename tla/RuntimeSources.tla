--------------------------- MODULE RuntimeSources ---------------------------
(* The Kafka and the HTTP source as parts of the runtime, with what they   *)
(* ask of their constants and what they promise.                           *)
CONSTANTS Endpoint, Starter, SourceStop, NoCall, Request, MaxStarts

VARIABLES endpoints, source, lifecycle, active_endpoints, consumer, source_call, called_off,
          pending, stop_failed,
          dedicated, listening, starts, server, shutdown, closed, handled, detached, stopping,
          abandoned, cut

K == INSTANCE KafkaSource WITH
       Stopper <- SourceStop, None <- NoCall, state <- source, task <- consumer,
       pc <- source_call, cancelled <- called_off, todo <- pending, failed <- stop_failed
H == INSTANCE HttpSource WITH
       started <- listening, stop <- stopping, request <- handled, cancelled <- abandoned

ASSUME LifecycleAssumption == Starter \notin SourceStop /\ NoCall \notin K!Call

kafkaVars == <<endpoints, source, lifecycle, active_endpoints, consumer, source_call, called_off,
               pending, stop_failed>>
httpVars == <<dedicated, listening, starts, server, shutdown, closed, handled, detached, stopping,
              abandoned, cut>>

\* A Kafka or HTTP source whose stop has returned Ok runs no endpoint and handles
\* no request (rdkafka.rs, axum.rs).
SourceStopDrains == K!SourceStopDrains /\ H!HttpStopDrains
=============================================================================
