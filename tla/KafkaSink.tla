----------------------------- MODULE KafkaSink ------------------------------
(***************************************************************************)
(* The Kafka sink (datasink/kafka/rdkafka.rs): the producer's start and    *)
(* stop, the requests whose handlers send a message, and the tracked tasks *)
(* that wait for a delivery and give its result to the result stream,      *)
(* which may lead back to this sink.                                       *)
(*                                                                         *)
(* Values may arrive at any time, also during stop.  A stop that was       *)
(* cancelled is called again with a fresh context.                         *)
(***************************************************************************)
EXTENDS Naturals, FiniteSets

CONSTANTS Request,      \* the requests of the sink's endpoint
          MaxStops,     \* bound: the calls of stop
          None

VARIABLES kind,
          state,        \* 0 new, 1 starting, 2 running, 3 stopped
          producer,     \* there is a producer
          enabled,      \* the endpoint's flag
          request,      \* of each request: pc, the task it was emitted by, and the
                        \* source's request it stems from
          task,         \* of each request: the task spawned by its send
          stop          \* pc of stop, its context, how often it was called, and the
                        \* requests that were over before it

vars == <<kind, state, producer, enabled, request, task, stop>>
lifeVars == <<kind, state, producer, enabled>>

Kinds == {"kafka"}

InitState ==
  /\ state = 0 /\ producer = FALSE /\ enabled = FALSE
  /\ request = [r \in Request |-> [pc |-> "idle", parent |-> None, root |-> None]]
  /\ task = [r \in Request |-> "none"]
  /\ stop = [pc |-> "none", cancelled |-> FALSE, calls |-> 0, early |-> {}]

Init == kind \in Kinds /\ InitState

At(r, l) == request' = [request EXCEPT ![r].pc = l]
TaskAt(r, l) == task' = [task EXCEPT ![r] = l]

Tracked == {r \in Request : task[r] \in {"send", "inflight", "collect"}}
InFlight == {r \in Request : task[r] = "inflight" \/ request[r].pc = "sync"}
-----------------------------------------------------------------------------
(* start.                                                                  *)

\* The compare_exchange, the endpoint's flag from the configuration, and the
\* clients.  Without an enabled endpoint there is no producer.  Errors of the
\* configuration and of the clients put the state back, those of the security
\* settings and of the metadata do not.
Start ==
  /\ state = 0
  /\ \/ enabled' = FALSE /\ state' \in {0, 2} /\ UNCHANGED producer
     \/ enabled' = TRUE /\ state' \in {0, 1} /\ UNCHANGED producer
     \/ enabled' = TRUE /\ state' = 2 /\ producer' = TRUE
  /\ UNCHANGED <<kind, request, task, stop>>
-----------------------------------------------------------------------------
(* Requests.                                                               *)

\* consume, by a source or by the result of a delivery: it only looks at the flag.
Consume(r, x) ==
  /\ request[r].pc = "idle" /\ enabled
  /\ request' = [request EXCEPT ![r] =
                   [pc |-> "handler", parent |-> x, root |-> IF x = None THEN r ELSE request[x].root]]
  /\ UNCHANGED <<lifeVars, task, stop>>

Emitted(x) == {q \in Request : request[q].parent = x /\ request[q].pc # "over"}

Arrive(r) == Consume(r, None)

EmitResult(r) == \E q \in Request : task[q] = "collect" /\ Emitted(q) = {} /\ Consume(r, q)

\* SinkMessage::send spawns a task; without a partition it only collects.
Send(r) ==
  /\ request[r].pc = "handler" /\ task[r] = "none"
  /\ TaskAt(r, "send") \/ TaskAt(r, "collect")
  /\ UNCHANGED <<lifeVars, request, stop>>

\* The data sink's send, in the spawned task: an error unless running.
TaskSend(r) ==
  /\ task[r] = "send" /\ TaskAt(r, IF state = 2 /\ producer THEN "inflight" ELSE "collect")
  /\ UNCHANGED <<lifeVars, request, stop>>

\* send_sync: the handler waits itself, in no tracked task.
SendSync(r) ==
  /\ request[r].pc = "handler" /\ state = 2 /\ producer
  /\ At(r, "sync") /\ UNCHANGED <<lifeVars, task, stop>>

\* librdkafka reports every message as delivered or failed.
Deliver(r) ==
  \/ task[r] = "inflight" /\ TaskAt(r, "collect") /\ UNCHANGED <<lifeVars, request, stop>>
  \/ request[r].pc = "sync" /\ At(r, "handler") /\ UNCHANGED <<lifeVars, task, stop>>

\* The collector has taken on_delivery's result downstream.
Collected(r) ==
  /\ task[r] = "collect" /\ Emitted(r) = {} /\ TaskAt(r, "done")
  /\ UNCHANGED <<lifeVars, request, stop>>

\* consume_message and end_request return.
EndRequest(r) ==
  /\ request[r].pc = "handler" /\ At(r, "over")
  /\ UNCHANGED <<lifeVars, task, stop>>
-----------------------------------------------------------------------------
(* stop.                                                                   *)

StopAt(l) == stop' = [stop EXCEPT !.pc = l]

\* state.swap(3), and tasks.close().
StopBegin ==
  /\ stop.pc \in {"none", "cancelled"} /\ stop.calls < MaxStops
  /\ state' = 3
  /\ stop' = [pc |-> IF state = 3 THEN "ok" ELSE "wait", cancelled |-> FALSE,
              calls |-> stop.calls + 1, early |-> {r \in Request : request[r].pc = "over"}]
  /\ UNCHANGED <<kind, producer, enabled, request, task>>

CancelStop ==
  /\ stop.pc \in {"wait", "flush"} /\ ~stop.cancelled
  /\ stop' = [stop EXCEPT !.cancelled = TRUE]
  /\ UNCHANGED <<lifeVars, request, task>>

\* Mutant: flush alone, which knows of messages and not of their results.
StopWaitNone ==
  /\ stop.pc = "wait" /\ StopAt("flush")
  /\ UNCHANGED <<lifeVars, request, task>>

\* The select! on tasks.wait() and on the context.
StopWait ==
  /\ stop.pc = "wait"
  /\ \/ Tracked = {} /\ StopAt("flush")
     \/ stop.cancelled /\ StopAt("cancelled")
  /\ UNCHANGED <<lifeVars, request, task>>

\* flush, repeated until nothing is in flight or the context is cancelled.
StopFlush ==
  /\ stop.pc = "flush"
  /\ \/ (~producer \/ InFlight = {}) /\ StopAt("ok")
     \/ producer /\ InFlight # {} /\ stop.cancelled /\ StopAt("cancelled")
  /\ UNCHANGED <<lifeVars, request, task>>

\* What is fair: stop and the tracked tasks are polled, and librdkafka reports on
\* every message.  So is EndRequest: handlers return, and do not send for ever.
StopStep == StopWait \/ StopFlush
TaskStep(r) == TaskSend(r) \/ Deliver(r) \/ Collected(r)

Next ==
  \/ Start \/ StopBegin \/ CancelStop \/ StopStep
  \/ \E r \in Request :
       Arrive(r) \/ EmitResult(r) \/ Send(r) \/ SendSync(r) \/ TaskStep(r) \/ EndRequest(r)

Spec == Init /\ [][Next]_vars
-----------------------------------------------------------------------------
(* Properties.                                                             *)

\* A first stop that returns Ok leaves nothing of what was handed in before it: of
\* the requests that were over when it was called, and of those that their results
\* led to, no delivery is in flight and no task has a result to collect.  The
\* application calls stop when all are over (ServiceApp, QuietBeforeSinks).
SinkStopDrains ==
  stop.pc = "ok" /\ stop.calls = 1 =>
    \A r \in Request : request[r].root \in stop.early => r \notin Tracked \cup InFlight

\* Every stop returns: the tasks it waits for have their deliveries reported and
\* their results collected, also those that lead back to this sink.
StopReturns == stop.pc = "wait" ~> stop.pc \in {"ok", "cancelled"}
=============================================================================
