----------------------------- MODULE HttpSource -----------------------------
(***************************************************************************)
(* AxumDataSource (datasource/http/axum.rs): start, with a listener of its *)
(* own or on that of the service, the requests that the server hands to    *)
(* serve_http, and stop, which closes the tracker of requests, ends the    *)
(* server and waits for both.  What a request does is the subject of       *)
(* SourceRequest; here it is handled until it is over.                     *)
(*                                                                         *)
(* axum is external: a server that was told to shut down ends when the     *)
(* futures of its requests have.  That of the service has ended before     *)
(* the sources are stopped (ServiceApp, DrainServer).                      *)
(***************************************************************************)
EXTENDS Naturals

CONSTANTS Request, MaxStarts    \* bound: the calls of start

VARIABLES dedicated,    \* config.use_dedicated_listener
          started, starts,
          server,       \* "none", "up", "ended" or "err"
          shutdown,     \* the server's token is cancelled
          closed,       \* request_tasks is closed
          request,      \* of each request: where it is
          detached,     \* the requests whose transport is gone
          stop, cancelled, cut

vars == <<dedicated, started, starts, server, shutdown, closed, request, detached,
          stop, cancelled, cut>>
lifeVars == <<dedicated, started, starts>>
stopVars == <<stop, cancelled, cut>>

Init ==
  /\ dedicated \in BOOLEAN /\ started = FALSE /\ starts = 0
  /\ server = "none" /\ shutdown = FALSE /\ closed = FALSE
  /\ request = [r \in Request |-> "idle"] /\ detached = {}
  /\ stop = "none" /\ cancelled = FALSE /\ cut = FALSE

At(r, l) == request' = [request EXCEPT ![r] = l]

\* Without a configuration the source stays started, with no server; when the bind
\* fails start may be called again.  The application does not start a source that
\* was stopped.
Start ==
  /\ ~started /\ starts < MaxStarts /\ stop = "none" /\ starts' = starts + 1
  /\ \/ started' = TRUE /\ UNCHANGED server
     \/ dedicated /\ started' = TRUE /\ server' = "up"
     \/ dedicated /\ UNCHANGED <<started, server>>
  /\ UNCHANGED <<dedicated, shutdown, closed, request, detached, stopVars>>

\* The server of the service starts after its sources, ...
ServiceUp ==
  /\ ~dedicated /\ started /\ server = "none" /\ server' = "up"
  /\ UNCHANGED <<lifeVars, shutdown, closed, request, detached, stopVars>>

\* ... and is told to end before they are stopped.
ServiceShutdown ==
  /\ ~dedicated /\ server = "up" /\ ~shutdown /\ shutdown' = TRUE
  /\ UNCHANGED <<lifeVars, server, closed, request, detached, stopVars>>
-----------------------------------------------------------------------------
(* Requests.                                                               *)

\* The server calls serve_http, which looks at the tracker.  The check and the
\* registration are two steps.
Serve(r) ==
  /\ request[r] = "idle" /\ server = "up"
  /\ At(r, IF closed THEN "over" ELSE "open")
  /\ UNCHANGED <<lifeVars, server, shutdown, closed, detached, stopVars>>

Track(r) ==
  /\ request[r] = "open" /\ At(r, "tracked")
  /\ UNCHANGED <<lifeVars, server, shutdown, closed, detached, stopVars>>

\* The client is gone: CompleteOnDrop gives the tracked future to a task.
Disconnect(r) ==
  /\ request[r] = "tracked" /\ r \notin detached /\ detached' = detached \cup {r}
  /\ UNCHANGED <<lifeVars, server, shutdown, closed, request, stopVars>>

RequestEnds(r) ==
  /\ request[r] = "tracked" /\ At(r, "over")
  /\ UNCHANGED <<lifeVars, server, shutdown, closed, detached, stopVars>>

Tracked == {r \in Request : request[r] = "tracked"}
InTransport == {r \in Request : request[r] = "open"} \cup (Tracked \ detached)

\* with_graceful_shutdown, or an error.
ServerEnds ==
  /\ server = "up"
  /\ \/ shutdown /\ InTransport = {} /\ server' = "ended"
     \/ dedicated /\ server' = "err"
  /\ UNCHANGED <<lifeVars, shutdown, closed, request, detached, stopVars>>
-----------------------------------------------------------------------------
(* stop.                                                                   *)

\* A stop that failed is not called again.
StopBegin ==
  /\ starts > 0 /\ stop = "none" /\ (dedicated \/ server \in {"none", "ended"})
  /\ closed' = TRUE /\ shutdown' = TRUE /\ stop' = "server"
  /\ UNCHANGED <<lifeVars, server, request, detached, cancelled, cut>>

\* The server's task is taken and joined.
StopServer ==
  /\ stop = "server"
  /\ \/ server \in {"none", "ended"} /\ stop' = "requests"
     \/ server = "err" /\ stop' = "err"
  /\ server' = IF dedicated THEN "none" ELSE server
  /\ UNCHANGED <<lifeVars, shutdown, closed, request, detached, cancelled, cut>>

\* request_tasks.wait.
StopRequests ==
  /\ stop = "requests" /\ Tracked = {} /\ stop' = "ok" /\ started' = FALSE
  /\ UNCHANGED <<dedicated, starts, server, shutdown, closed, request, detached, cancelled, cut>>

Cancel ==
  /\ stop \in {"server", "requests"} /\ ~cancelled /\ cancelled' = TRUE
  /\ UNCHANGED <<lifeVars, server, shutdown, closed, request, detached, stop, cut>>

\* The other branch of the select! is Ok too: what was to be drained goes on.
StopCut ==
  /\ stop \in {"server", "requests"} /\ cancelled /\ stop' = "ok" /\ cut' = TRUE
  /\ started' = FALSE
  /\ UNCHANGED <<dedicated, starts, server, shutdown, closed, request, detached, cancelled>>

Next ==
  \/ Start \/ ServiceUp \/ ServiceShutdown \/ ServerEnds
  \/ StopBegin \/ StopServer \/ StopRequests \/ Cancel \/ StopCut
  \/ \E r \in Request : Serve(r) \/ Track(r) \/ Disconnect(r) \/ RequestEnds(r)

Spec == Init /\ [][Next]_vars
-----------------------------------------------------------------------------
(* Properties.                                                             *)

\* "Its accepted handler still has to finish before graph teardown": a stop that
\* returns Ok before its context is cancelled leaves no request being handled,
\* and none that saw the tracker open and has still to enter it.
HttpStopDrains == stop = "ok" /\ ~cut => \A r \in Request : request[r] \in {"idle", "over"}
=============================================================================
