---------------------------- MODULE KafkaSource -----------------------------
(***************************************************************************)
(* RdkafkaKafkaDataSource (datasource/kafka/rdkafka.rs): the endpoints it  *)
(* is given, a start that creates the topics and starts them one by one    *)
(* and rolls back when one fails, and calls of stop at any time.  A call   *)
(* holds the lifecycle lock, gives up when its context is cancelled, and   *)
(* may be dropped at any of its awaits.  What an endpoint's task does is   *)
(* the subject of KafkaConsumer; here it runs until it ends.               *)
(***************************************************************************)
EXTENDS Naturals, Sequences

CONSTANTS Endpoint, Starter, Stopper, None

VARIABLES endpoints,          \* as add_endpoint put them in order
          state,              \* 0 new, 1 started, 2 stopped, 3 stopping
          lifecycle,          \* the call that has the lock
          active_endpoints,
          task,               \* of each endpoint: the handle and the task behind it
          pc, cancelled,      \* of each call: where it is, its context
          todo,               \* the endpoints its loop has left
          failed              \* an endpoint's stop has failed in it

vars == <<endpoints, state, lifecycle, active_endpoints, task, pc, cancelled, todo, failed>>
ownVars == <<endpoints, active_endpoints, task>>
callVars == <<cancelled, todo, failed>>

Call == {Starter} \cup Stopper

Init ==
  /\ endpoints = <<>> /\ state = 0 /\ lifecycle = None /\ active_endpoints = <<>>
  /\ task = [e \in Endpoint |-> "none"]
  /\ pc = [c \in Call |-> "idle"] /\ cancelled = [c \in Call |-> FALSE]
  /\ todo = [c \in Call |-> <<>>] /\ failed = [c \in Call |-> FALSE]

To(c, l) == pc' = [pc EXCEPT ![c] = l]
Todo(c, s) == todo' = [todo EXCEPT ![c] = s]

\* The call returns, or is dropped, and its guard with it.
Leave(c, l) == To(c, l) /\ lifecycle' = IF lifecycle = c THEN None ELSE lifecycle

Reversed(s) == [i \in 1 .. Len(s) |-> s[Len(s) - i + 1]]

Waiting == {"gate", "topics", "starting", "stop"}

\* A start that failed with nothing done may be called again.
Begin(c) ==
  /\ pc[c] = "idle" \/ (c = Starter /\ pc[c] = "again")
  /\ To(c, "gate") /\ UNCHANGED <<state, lifecycle, ownVars, callVars>>

Cancel(c) ==
  /\ pc[c] \in Waiting /\ ~cancelled[c] /\ cancelled' = [cancelled EXCEPT ![c] = TRUE]
  /\ UNCHANGED <<state, lifecycle, ownVars, pc, todo, failed>>

Drop(c) ==
  /\ pc[c] \in Waiting /\ Leave(c, "dropped") /\ UNCHANGED <<state, ownVars, callVars>>
-----------------------------------------------------------------------------
(* Endpoints.                                                              *)

\* add_endpoint: the state is looked at under its lock, which start takes too.
AddEndpoint(e) ==
  /\ state = 0 /\ (\A i \in DOMAIN endpoints : endpoints[i] # e) /\ endpoints' = Append(endpoints, e)
  /\ UNCHANGED <<state, lifecycle, active_endpoints, task, pc, callVars>>

\* The consumer task of an endpoint ends, when it is told to or by an error of
\* its own, or panics.
TaskEnds(e) ==
  /\ task[e] = "running" /\ \E l \in {"ended", "panicked"} : task' = [task EXCEPT ![e] = l]
  /\ UNCHANGED <<endpoints, state, lifecycle, active_endpoints, pc, callVars>>
-----------------------------------------------------------------------------
(* start.                                                                  *)

\* The lock and the state, unless the context is cancelled.
StartGate(c) ==
  /\ pc[c] = "gate" /\ c = Starter
  /\ \/ cancelled[c] /\ Leave(c, "err") /\ UNCHANGED <<state, todo>>
     \/ /\ ~cancelled[c] /\ lifecycle = None
        /\ IF state = 0
           THEN state' = 1 /\ lifecycle' = c /\ To(c, "topics") /\ Todo(c, endpoints)
           ELSE Leave(c, "err") /\ UNCHANGED <<state, todo>>
  /\ UNCHANGED <<ownVars, cancelled, failed>>

\* create_topics: without a topic to create there is no client.
CreateTopics(c) ==
  /\ pc[c] = "topics"
  /\ \/ ~cancelled[c] /\ To(c, "start") /\ UNCHANGED <<state, lifecycle>>
     \/ state' = 0 /\ Leave(c, IF cancelled[c] THEN "err" ELSE "again")
  /\ UNCHANGED <<ownVars, callVars>>

\* "Ownership is recorded before each start await".
Record(c) ==
  /\ pc[c] = "start" /\ todo[c] # <<>>
  /\ active_endpoints' = Append(active_endpoints, Head(todo[c]))
  /\ To(c, "starting") /\ UNCHANGED <<endpoints, state, lifecycle, task, callVars>>

\* RdkafkaKafkaEndpoint::start spawns the task, does nothing when the endpoint is
\* disabled, or fails: then every endpoint that is owned is stopped.
EndpointStart(c) ==
  /\ pc[c] = "starting"
  /\ \/ /\ \/ task' = [task EXCEPT ![Head(todo[c])] = "running"]
           \/ UNCHANGED task
        /\ To(c, "start") /\ Todo(c, Tail(todo[c])) /\ UNCHANGED state
     \/ state' = 3 /\ To(c, "stop") /\ Todo(c, Reversed(active_endpoints)) /\ UNCHANGED task
  /\ UNCHANGED <<endpoints, lifecycle, active_endpoints, cancelled, failed>>

StartOk(c) ==
  /\ pc[c] = "start" /\ todo[c] = <<>> /\ Leave(c, "ok")
  /\ UNCHANGED <<state, ownVars, callVars>>
-----------------------------------------------------------------------------
(* stop, and the rollback of start.                                        *)

\* The select! is biased: a free lock is taken.
StopGate(c) ==
  /\ pc[c] = "gate" /\ c \in Stopper
  /\ \/ lifecycle # None /\ cancelled[c] /\ Leave(c, "err") /\ UNCHANGED <<state, todo>>
     \/ /\ lifecycle = None
        /\ IF state = 2 THEN Leave(c, "ok") /\ UNCHANGED <<state, todo>>
           ELSE state' = 3 /\ lifecycle' = c /\ To(c, "stop") /\ Todo(c, Reversed(active_endpoints))
  /\ UNCHANGED <<ownVars, cancelled, failed>>

\* The retain of stop_active_endpoints: what is not e, in its order.
Retain(s, e) ==
  LET kept[i \in 0 .. Len(s)] ==
        IF i = 0 THEN <<>> ELSE IF s[i] = e THEN kept[i - 1] ELSE Append(kept[i - 1], s[i])
  IN kept[Len(s)]

\* RdkafkaKafkaEndpoint::stop: the task is joined, or the context is cancelled.
\* Only an endpoint whose stop succeeds is given up.
EndpointStop(c) ==
  /\ pc[c] = "stop" /\ todo[c] # <<>>
  /\ LET e == Head(todo[c]) IN
     \/ /\ task[e] \in {"none", "ended"} /\ task' = [task EXCEPT ![e] = "none"]
        /\ active_endpoints' = Retain(active_endpoints, e) /\ UNCHANGED failed
     \/ /\ task[e] = "panicked" /\ task' = [task EXCEPT ![e] = "none"]
        /\ failed' = [failed EXCEPT ![c] = TRUE] /\ UNCHANGED active_endpoints
     \/ /\ task[e] = "running" /\ cancelled[c]
        /\ failed' = [failed EXCEPT ![c] = TRUE] /\ UNCHANGED <<active_endpoints, task>>
  /\ Todo(c, Tail(todo[c]))
  /\ UNCHANGED <<endpoints, state, lifecycle, pc, cancelled>>

\* Mutant: the source counts as stopped though an endpoint does not.
StopReturnsStopped(c) ==
  /\ pc[c] = "stop" /\ todo[c] = <<>>
  /\ state' = 2
  /\ Leave(c, IF c = Starter \/ failed[c] THEN "err" ELSE "ok")
  /\ UNCHANGED <<ownVars, callVars>>

\* The source is stopped when every endpoint is; a start that rolled back
\* reports the error that made it.
StopReturns(c) ==
  /\ pc[c] = "stop" /\ todo[c] = <<>>
  /\ state' = IF failed[c] THEN 3 ELSE 2
  /\ Leave(c, IF c = Starter \/ failed[c] THEN "err" ELSE "ok")
  /\ UNCHANGED <<ownVars, callVars>>

Next ==
  \/ \E e \in Endpoint : AddEndpoint(e) \/ TaskEnds(e)
  \/ \E c \in Call : Begin(c) \/ Cancel(c) \/ Drop(c)
  \/ \E c \in Stopper : StopGate(c)
  \/ StartGate(Starter) \/ CreateTopics(Starter) \/ Record(Starter) \/ EndpointStart(Starter)
  \/ StartOk(Starter)
  \/ \E c \in Call : EndpointStop(c) \/ StopReturns(c)

Spec == Init /\ [][Next]_vars
-----------------------------------------------------------------------------
(* Properties.                                                             *)

\* A stop that returns Ok leaves no endpoint running or owned, whether start was
\* over, had failed, was dropped half way or comes after it; and a start that
\* returns Ok has started every endpoint that was accepted, unless one stops.
SourceStopDrains ==
  /\ (\E c \in Stopper : pc[c] = "ok") =>
       active_endpoints = <<>> /\ \A e \in Endpoint : task[e] = "none"
  /\ pc[Starter] = "ok" /\ state = 1 => active_endpoints = endpoints
=============================================================================
