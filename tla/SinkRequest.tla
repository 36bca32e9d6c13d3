---------------------------- MODULE SinkRequest -----------------------------
(***************************************************************************)
(* One consume of a sink without session: the unary and the server         *)
(* streaming gRPC sinks (datasink/grpc/nostreaming.rs, serverstreaming.rs),*)
(* the HTTP sink (datasink/http/reqwest.rs) and the local sink             *)
(* (datasink/localsink/custom.rs).  Requests of one endpoint share only    *)
(* counters.  The body of an HTTP response can outlive its request: the    *)
(* handler may move it to a task of its own that goes on reading.          *)
(***************************************************************************)
EXTENDS Naturals

VARIABLES kind,       \* the sink
          pc,         \* where consume is
          result,     \* the HandlerResult so far
          guard,      \* the ResponseBodyGuard is alive
          body,       \* ResponseBodyState: reader, closed, waker
          reader      \* the task that reads the body

vars == <<kind, pc, result, guard, body, reader>>

Kinds == {"unary", "server", "http", "local"}

InitState ==
  /\ pc = "idle" /\ result = "ok" /\ guard = FALSE
  /\ body = [reader |-> FALSE, closed |-> FALSE, waker |-> FALSE]
  /\ reader = "none"

Init == kind \in Kinds /\ InitState

bodyVars == <<guard, body, reader>>
-----------------------------------------------------------------------------
(* The body.                                                               *)

\* close_response_body: it drops the transport's reader and wakes the task.
CloseBody ==
  /\ body' = [reader |-> FALSE, closed |-> TRUE, waker |-> FALSE]
  /\ reader' = IF body.waker /\ reader = "parked" THEN "poll" ELSE reader

\* The guard goes with consume, when it returns and when it is dropped.
DropGuard ==
  /\ guard' = FALSE
  /\ IF guard THEN CloseBody ELSE UNCHANGED <<body, reader>>

\* The handler gives the body to another task.
Retain ==
  /\ kind = "http" /\ pc = "respond" /\ reader = "none"
  /\ reader' = "poll"
  /\ UNCHANGED <<kind, pc, result, guard, body>>

\* poll_read: an error once closed, the end without a reader, and else what
\* the transport has: bytes, the end or an error, or nothing yet.
PollRead ==
  /\ reader = "poll"
  /\ \/ /\ body.closed \/ ~body.reader
        /\ reader' = "returned" /\ UNCHANGED body
     \/ /\ ~body.closed /\ body.reader
        /\ \/ reader' = "poll" /\ body' = [body EXCEPT !.waker = FALSE]
           \/ reader' = "returned" /\ body' = [body EXCEPT !.waker = FALSE, !.reader = FALSE]
           \/ reader' = "parked" /\ body' = [body EXCEPT !.waker = TRUE]
  /\ UNCHANGED <<kind, pc, result, guard>>

\* The transport wakes the task it gave Pending to, while its reader exists.
TransportWakes ==
  /\ reader = "parked" /\ body.reader
  /\ reader' = "poll" /\ UNCHANGED <<kind, pc, result, guard, body>>

\* ResponseBody::close by the task that owns the body.
UserCloses ==
  /\ reader = "poll" /\ reader' = "returned"
  /\ body' = [reader |-> FALSE, closed |-> TRUE, waker |-> FALSE]
  /\ UNCHANGED <<kind, pc, result, guard>>
-----------------------------------------------------------------------------
(* consume.                                                                *)

Goto(l) == pc' = l

BeginRequest ==
  /\ pc = "idle"
  /\ \/ Goto("consume")
     \/ kind # "local" /\ Goto("over")     \* begin_request failed
  /\ UNCHANGED <<kind, result, bodyVars>>

\* consume_message, and the request it must have built to go on.
ConsumeMessage ==
  /\ pc = "consume"
  /\ \/ kind = "local" /\ result' \in {"ok", "error"} /\ Goto("end")
     \/ kind # "local" /\ result' = "ok" /\ Goto("call")
     \/ kind # "local" /\ result' = "error" /\ Goto("end")
  /\ UNCHANGED <<kind, bodyVars>>

\* The client's call: the response, the stream of responses, or an error.
Perform ==
  /\ pc = "call"
  /\ \/ /\ kind = "http" /\ Goto("respond") /\ guard' = TRUE
        /\ body' = [body EXCEPT !.reader = TRUE] /\ UNCHANGED <<result, reader>>
     \/ kind = "unary" /\ Goto("respond") /\ UNCHANGED <<result, bodyVars>>
     \/ kind = "server" /\ Goto("next") /\ UNCHANGED <<result, bodyVars>>
     \/ result' = "error" /\ Goto("end") /\ UNCHANGED bodyVars
  /\ UNCHANGED kind

\* responses.next(): a response, or the end or an error of the stream.
NextResponse ==
  /\ pc = "next" /\ Goto("respond") /\ UNCHANGED <<kind, result, bodyVars>>

ResponsesEnd ==
  /\ pc = "next" /\ Goto("end") /\ result' \in {"ok", "error"}
  /\ UNCHANGED <<kind, bodyVars>>

\* Mutant: the guard lives only as long as the response is handled.
HandleThenDrop ==
  /\ pc = "respond"
  /\ Goto("end") /\ result' \in {"ok", "error"}
  /\ DropGuard /\ UNCHANGED kind

\* An error of the handler ends the loop over the responses.
HandleResponse ==
  /\ pc = "respond"
  /\ \/ Goto(IF kind = "server" THEN "next" ELSE "end") /\ UNCHANGED result
     \/ Goto("end") /\ result' = "error"
  /\ UNCHANGED <<kind, bodyVars>>

\* end_request, and for a local sink the callback after it; consume returns.
EndRequest ==
  /\ pc = "end"
  /\ IF kind = "local" THEN Goto("callback") ELSE Goto("over")
  /\ DropGuard /\ UNCHANGED <<kind, result>>

SinkCallback ==
  /\ pc = "callback" /\ Goto("over") /\ UNCHANGED <<kind, result, bodyVars>>

\* The future of consume is dropped where it waits.
Abandon ==
  /\ pc \notin {"idle", "over"} /\ Goto("over")
  /\ DropGuard /\ UNCHANGED <<kind, result>>

\* consume of the four sinks.
Unary == kind = "unary" /\ (BeginRequest \/ ConsumeMessage \/ Perform \/ HandleResponse \/ EndRequest)

Server ==
  /\ kind = "server"
  /\ \/ BeginRequest \/ ConsumeMessage \/ Perform \/ NextResponse \/ ResponsesEnd
     \/ HandleResponse \/ EndRequest

Http == kind = "http" /\ (BeginRequest \/ ConsumeMessage \/ Perform \/ HandleResponse \/ EndRequest)

Local == kind = "local" /\ (BeginRequest \/ ConsumeMessage \/ EndRequest \/ SinkCallback)

Next ==
  \/ Unary \/ Server \/ Http \/ Local \/ Abandon
  \/ Retain \/ PollRead \/ TransportWakes \/ UserCloses

Spec == Init /\ [][Next]_vars
-----------------------------------------------------------------------------
(* Properties.                                                             *)

\* "The endpoint closes it after EndRequest, including bodies retained by user
\* handlers": the transport's reader is gone once consume is over, however it
\* ended, and the runtime takes it from no one while end_request still runs.
BodyClosed ==
  /\ pc = "over" => ~body.reader
  /\ pc = "end" /\ reader # "returned" => ~body.closed

\* No task that reads a body waits for ever on a request that is over.
ReaderReturns == pc = "over" /\ reader = "parked" ~> reader = "returned"
=============================================================================
