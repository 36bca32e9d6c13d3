---------------------------- MODULE SourceRequest ----------------------------
(***************************************************************************)
(* A request of a data source, from its arrival to its last handler, and   *)
(* the results the graph sends back to it.  Seven kinds of endpoint share  *)
(* the protocol: local, Kafka, HTTP, and the gRPC consumers, which read    *)
(* one message or a stream of them, and wait for a response (unary, client *)
(* streaming) or for ResultContext::done (server and bidirectional).       *)
(*                                                                         *)
(* A request begins (begin_request), enters the table of pending requests  *)
(* under its stream id, runs consume_message, waits for its answer or its  *)
(* cancellation, and ends (end_request).  A result looks its stream id up  *)
(* in the table, takes the request's lifetime lock for reading, and runs   *)
(* the callback the handler registered; the request takes that lock for    *)
(* writing before it ends.  Handlers and callbacks may emit in line, so a  *)
(* result can be handled inside the handler it will return to.             *)
(***************************************************************************)
EXTENDS Naturals, FiniteSets

CONSTANTS
  Request,    \* calls of endpoint_request, serve_http or handle
  Result,     \* calls of consume_result; one is used again when it is over
  Id,         \* stream ids: from the transport, the handler, or new_stream_id
  Kinds,      \* the kinds of endpoint an instance is about
  Limit,      \* what handler.concurrency returns; 0 is no limit
  Recursive,  \* the kinds whose callbacks may emit in line
  None

GrpcKinds == {"unary", "clientStreaming", "serverStreaming", "bidiStreaming"}
AllKinds  == {"local", "kafka", "http"} \cup GrpcKinds

ASSUME SourceAssumption ==
  /\ None \notin Request \cup Result \cup Id
  /\ Request \cap Result = {}
  /\ Kinds \subseteq AllKinds
  /\ Recursive \subseteq AllKinds
  /\ Limit \in Nat

VARIABLES
  kind,       \* the kind of endpoint
  hasResult,  \* input_stream.result_stream().is_some()
  pc,         \* where each request is
  id,         \* its stream id, None before begin_request has returned
  result,     \* what end_request is or will be told
  cancelled,  \* its MessageContext is cancelled
  dropped,    \* the transport has dropped the future of a gRPC request
  done,       \* ResultContext::done has been called
  sent,       \* the unary sender holds a response
  callback,   \* "none", "set", or "closed" once ResultContext::close ran
  closing,    \* the closing token of a gRPC request
  writing,    \* its lifetime lock is held, or waited for, by the writer
  ends,       \* how often end_request was called for it
  owner,      \* the table of pending requests
  active,     \* Concurrency::active
  stopped,    \* Concurrency::stopped; for HTTP, request_tasks is closed
  at,         \* where each result is: "idle", "got" or "call"
  target,     \* the request whose entry it holds
  by          \* the handler or callback that runs it in line

request == <<id, result, cancelled, dropped, done, sent, callback, closing,
             writing, ends>>
results == <<at, target, by>>
fixed   == <<kind, hasResult>>
vars    == <<fixed, pc, request, owner, active, stopped, results>>

Grpc     == kind \in GrpcKinds
Streams  == kind \in {"clientStreaming", "bidiStreaming"}
Responds == kind \in {"unary", "clientStreaming"}
Gated    == kind \in {"local", "kafka"}
Reserves == Grpc \/ hasResult

AtGate    == {"gate", "load", "full", "asleep"}
Accepted  == {"inbound", "consume", "eof", "wait", "close", "queue", "lock"}
InHandler == {"reject", "consume", "eof", "end"}
Over      == {"over", "gone"}

Init ==
  /\ kind \in Kinds
  /\ hasResult \in BOOLEAN
  /\ pc = [r \in Request |-> "idle"]
  /\ id = [r \in Request |-> None]
  /\ result = [r \in Request |-> "none"]
  /\ cancelled = [r \in Request |-> FALSE]
  /\ dropped = [r \in Request |-> FALSE]
  /\ done = [r \in Request |-> FALSE]
  /\ sent = [r \in Request |-> FALSE]
  /\ callback = [r \in Request |-> "none"]
  /\ closing = [r \in Request |-> FALSE]
  /\ writing = [r \in Request |-> FALSE]
  /\ ends = [r \in Request |-> 0]
  /\ owner = [i \in Id |-> None]
  /\ active = 0
  /\ stopped = FALSE
  /\ at = [q \in Result |-> "idle"]
  /\ target = [q \in Result |-> None]
  /\ by = [q \in Result |-> None]

(***************************************************************************)
(* Arrival and the concurrency gate of local and Kafka sources.            *)
(***************************************************************************)
To(r, p) == pc' = [pc EXCEPT ![r] = p]

\* changed.notify_waiters() wakes the requests that have registered, and
\* leaves nothing behind for one that is about to.
Woken(f) == [r \in Request |-> IF f[r] = "asleep" THEN "gate" ELSE f[r]]

\* An HTTP request that finds the task tracker closed is answered 503.
Arrive(r) ==
  /\ pc[r] = "idle"
  /\ To(r, CASE Gated -> "gate"
             [] kind = "http" /\ stopped -> "over"
             [] OTHER -> "begin")
  /\ UNCHANGED <<fixed, request, owner, active, stopped, results>>

GateStopped(r) ==
  /\ pc[r] = "gate"
  /\ To(r, IF stopped THEN "over" ELSE "load")
  /\ UNCHANGED <<fixed, request, owner, active, stopped, results>>

\* The load and the compare_exchange that follows it: a failed exchange goes
\* round the loop and shows nothing.
GateEnter(r) ==
  /\ pc[r] = "load"
  /\ Limit = 0 \/ active < Limit
  /\ active' = active + 1
  /\ To(r, "begin")
  /\ UNCHANGED <<fixed, request, owner, stopped, results>>

GateFull(r) ==
  /\ pc[r] = "load"
  /\ Limit # 0 /\ active >= Limit
  /\ To(r, "full")
  /\ UNCHANGED <<fixed, request, owner, active, stopped, results>>

\* Only now does notified() register the request.
GateSleep(r) ==
  /\ pc[r] = "full"
  /\ To(r, "asleep")
  /\ UNCHANGED <<fixed, request, owner, active, stopped, results>>

\* The end of the call: the guard of a gated request lets the next one in.
Leave(r, p) ==
  /\ pc' = IF Gated THEN Woken([pc EXCEPT ![r] = p]) ELSE [pc EXCEPT ![r] = p]
  /\ active' = IF Gated THEN active - 1 ELSE active

Stop ==
  /\ ~Grpc /\ ~stopped
  /\ stopped' = TRUE
  /\ pc' = Woken(pc)
  /\ UNCHANGED <<fixed, request, owner, active, results>>

(***************************************************************************)
(* begin_request, and the entry in the table.                              *)
(***************************************************************************)
\* Also an HTTP request with the wrong method or a body that cannot be read.
BeginFails(r) ==
  /\ pc[r] = "begin"
  /\ Leave(r, "over")
  /\ UNCHANGED <<fixed, request, owner, stopped, results>>

\* A gRPC request whose transport went away meanwhile is handed to the
\* cleanup of its RequestLifecycle.
BeginOk(r, i) ==
  /\ pc[r] = "begin"
  /\ Reserves => owner[i] = None
  /\ id' = [id EXCEPT ![r] = i]
  /\ owner' = IF Reserves THEN [owner EXCEPT ![i] = r] ELSE owner
  /\ To(r, CASE Grpc /\ dropped[r] -> "close"
             [] Streams /\ ~dropped[r] -> "inbound"
             [] OTHER -> "consume")
  /\ closing' = [closing EXCEPT ![r] = Grpc /\ dropped[r]]
  /\ result' = [result EXCEPT ![r] = IF Grpc /\ dropped[r] THEN "cancelled"
                                     ELSE "ok"]
  /\ UNCHANGED <<fixed, cancelled, dropped, done, sent, callback, writing,
                 ends, active, stopped, results>>

\* pending.set refuses an id in use: the request ends with that error.
BeginDuplicate(r, i) ==
  /\ pc[r] = "begin"
  /\ Reserves /\ owner[i] # None
  /\ To(r, "reject")
  /\ id' = [id EXCEPT ![r] = i]
  /\ result' = [result EXCEPT ![r] = "err"]
  /\ ends' = [ends EXCEPT ![r] = @ + 1]
  /\ UNCHANGED <<fixed, cancelled, dropped, done, sent, callback, closing,
                 writing, owner, active, stopped, results>>

\* A handler or a callback has returned from what it emitted in line.
Alone(h) == \A q \in Result : by[q] # h

RejectReturns(r) ==
  /\ pc[r] = "reject" /\ Alone(r)
  /\ Leave(r, "over")
  /\ UNCHANGED <<fixed, request, owner, stopped, results>>

(***************************************************************************)
(* The handlers up to the answer.                                          *)
(***************************************************************************)
\* A phase has ended with outcome res; a gRPC request without a transport is
\* left to its cleanup, which reports a cancellation.
Advance(r, res, p) ==
  /\ To(r, IF Grpc /\ dropped[r] THEN "close" ELSE p)
  /\ closing' = [closing EXCEPT ![r] = @ \/ (Grpc /\ dropped[r])]
  /\ result' = [result EXCEPT ![r] = IF Grpc /\ dropped[r] THEN "cancelled"
                                     ELSE res]
  /\ UNCHANGED <<fixed, id, cancelled, dropped, done, sent, callback, writing,
                 ends, owner, active, stopped, results>>

\* The next message of the request stream, its end, or its error.
Inbound(r) ==
  /\ pc[r] = "inbound"
  /\ \/ Advance(r, "ok", "consume")
     \/ Advance(r, "ok", "eof")
     \/ Advance(r, "err", "close")

AfterConsume(r, res) ==
  CASE res = "err"           -> "close"
    [] res = "ok" /\ Streams -> "inbound"
    [] res = "ok" /\ Grpc /\ ~Streams -> "eof"
    [] OTHER                 -> IF hasResult THEN "wait" ELSE "close"

ConsumeReturns(r) ==
  /\ pc[r] = "consume" /\ Alone(r)
  /\ \E res \in {"ok", "err"} : Advance(r, res, AfterConsume(r, res))

EofReturns(r) ==
  /\ pc[r] = "eof" /\ Alone(r)
  /\ Advance(r, "ok", IF hasResult THEN "wait" ELSE "close")

\* What user code does with the ResultContext and the sender it was given.
SetCallback(r) ==
  /\ pc[r] \in {"consume", "eof", "wait"} /\ callback[r] = "none"
  /\ callback' = [callback EXCEPT ![r] = "set"]
  /\ UNCHANGED <<fixed, pc, id, result, cancelled, dropped, done, sent, closing,
                 writing, ends, owner, active, stopped, results>>

Done(r) ==
  /\ pc[r] \in Accepted /\ ~done[r]
  /\ done' = [done EXCEPT ![r] = TRUE]
  /\ UNCHANGED <<fixed, pc, id, result, cancelled, dropped, sent, callback,
                 closing, writing, ends, owner, active, stopped, results>>

Send(r) ==
  /\ Responds /\ pc[r] \in Accepted /\ ~sent[r]
  /\ sent' = [sent EXCEPT ![r] = TRUE]
  /\ UNCHANGED <<fixed, pc, id, result, cancelled, dropped, done, callback,
                 closing, writing, ends, owner, active, stopped, results>>

\* UnarySender::receive prefers the response to the cancellation.
Receive(r) ==
  /\ pc[r] = "wait" /\ Responds
  /\ sent[r] \/ cancelled[r]
  /\ Advance(r, IF sent[r] THEN "ok" ELSE "err", "close")

WaitDone(r) ==
  /\ pc[r] = "wait" /\ ~Responds
  /\ done[r]
  /\ Advance(r, "ok", "close")

WaitCancelled(r) ==
  /\ pc[r] = "wait" /\ ~Responds
  /\ cancelled[r]
  /\ Advance(r, "cancelled", "close")

(***************************************************************************)
(* The end: no new results, drain the accepted ones, end_request.          *)
(***************************************************************************)
\* Mutant of Close: a request that failed is not taken out of the table.
CloseKeeps(r) ==
  /\ pc[r] = "close"
  /\ IF Grpc
     THEN closing' = [closing EXCEPT ![r] = TRUE] /\ UNCHANGED owner
     ELSE /\ owner' = IF hasResult /\ result[r] = "ok"
                      THEN [owner EXCEPT ![id[r]] = None] ELSE owner
          /\ UNCHANGED closing
  /\ To(r, "queue")
  /\ UNCHANGED <<fixed, id, result, cancelled, dropped, done, sent, callback,
                 writing, ends, active, stopped, results>>

\* gRPC closes the request and keeps its id; the others give the id up.
Close(r) ==
  /\ pc[r] = "close"
  /\ IF Grpc
     THEN closing' = [closing EXCEPT ![r] = TRUE] /\ UNCHANGED owner
     ELSE /\ owner' = IF hasResult THEN [owner EXCEPT ![id[r]] = None] ELSE owner
          /\ UNCHANGED closing
  /\ To(r, "queue")
  /\ UNCHANGED <<fixed, id, result, cancelled, dropped, done, sent, callback,
                 writing, ends, active, stopped, results>>

\* lifetime.write() takes its place in the queue of the lock.
QueueWrite(r) ==
  /\ pc[r] = "queue"
  /\ writing' = [writing EXCEPT ![r] = TRUE]
  /\ To(r, "lock")
  /\ UNCHANGED <<fixed, id, result, cancelled, dropped, done, sent, callback,
                 closing, ends, owner, active, stopped, results>>

\* The results that hold the lifetime lock of r.
Readers(r) == {q \in Result : at[q] = "call" /\ target[q] = r}

\* A wait that was cancelled counts as answered if done was called by now.
EndBegins(r) ==
  /\ pc[r] = "lock" /\ Readers(r) = {}
  /\ result' = [result EXCEPT ![r] = IF @ = "cancelled" /\ done[r] THEN "ok"
                                     ELSE @]
  /\ ends' = [ends EXCEPT ![r] = @ + 1]
  /\ To(r, "end")
  /\ UNCHANGED <<fixed, id, cancelled, dropped, done, sent, callback, closing,
                 writing, owner, active, stopped, results>>

\* The lock, the context and the answer go with the call; gRPC gives the id
\* up only now, and gRPC and HTTP refuse callbacks registered from now on.
EndReturns(r) ==
  /\ pc[r] = "end" /\ Alone(r)
  /\ writing' = [writing EXCEPT ![r] = FALSE]
  /\ cancelled' = [cancelled EXCEPT ![r] = FALSE]
  /\ dropped' = [dropped EXCEPT ![r] = FALSE]
  /\ done' = [done EXCEPT ![r] = FALSE]
  /\ sent' = [sent EXCEPT ![r] = FALSE]
  /\ result' = [result EXCEPT ![r] = "none"]
  /\ callback' = IF Gated THEN callback
                 ELSE [callback EXCEPT ![r] = "closed"]
  /\ owner' = IF Grpc /\ owner[id[r]] = r
              THEN [owner EXCEPT ![id[r]] = None] ELSE owner
  /\ Leave(r, "over")
  /\ UNCHANGED <<fixed, id, closing, ends, stopped, results>>

(***************************************************************************)
(* Cancellation, and a transport that goes away.                           *)
(***************************************************************************)
Cancel(r) ==
  /\ pc[r] \in Accepted \cup {"begin"} /\ ~cancelled[r]
  /\ cancelled' = [cancelled EXCEPT ![r] = TRUE]
  /\ UNCHANGED <<fixed, pc, id, result, dropped, done, sent, callback, closing,
                 writing, ends, owner, active, stopped, results>>

\* Mutant of Drop: finish leaves the cleanup armed.
DropArmed(r) ==
  /\ Grpc
  /\ pc[r] \in Accepted \cup {"begin", "end"} /\ ~dropped[r]
  /\ dropped' = [dropped EXCEPT ![r] = TRUE]
  /\ cancelled' = [cancelled EXCEPT ![r] = TRUE]
  /\ IF pc[r] \in {"inbound", "wait", "end"}
     THEN /\ closing' = [closing EXCEPT ![r] = TRUE]
          /\ result' = [result EXCEPT ![r] = "cancelled"]
          /\ To(r, "close")
     ELSE UNCHANGED <<closing, result, pc>>
  /\ UNCHANGED <<fixed, id, done, sent, callback, writing, ends, owner, active,
                 stopped, results>>

\* CompleteOnDrop cancels the context and moves a running handler to a task
\* of its own: for HTTP that is a cancellation.  Between its handlers a gRPC
\* request is taken over by the cleanup of its RequestLifecycle.
Drop(r) ==
  /\ Grpc
  /\ pc[r] \in Accepted \cup {"begin"} /\ ~dropped[r]
  /\ dropped' = [dropped EXCEPT ![r] = TRUE]
  /\ cancelled' = [cancelled EXCEPT ![r] = TRUE]
  /\ IF pc[r] \in {"inbound", "wait"}
     THEN /\ closing' = [closing EXCEPT ![r] = TRUE]
          /\ result' = [result EXCEPT ![r] = "cancelled"]
          /\ To(r, "close")
     ELSE UNCHANGED <<closing, result, pc>>
  /\ UNCHANGED <<fixed, id, done, sent, callback, writing, ends, owner, active,
                 stopped, results>>

\* The results that run in line below handler h.
Below(h) == {q \in Result : by[q] = h \/ (by[q] \in Result /\ by[by[q]] = h)}

\* CustomDataSource::stop drops the producer, and with it the requests the
\* producer is waiting for, wherever they are.
DropLocal(r) ==
  /\ kind = "local" /\ stopped
  /\ pc[r] \notin Over \cup {"idle"}
  /\ IF pc[r] \in AtGate THEN To(r, "gone") /\ UNCHANGED active
     ELSE Leave(r, "gone")
  /\ writing' = [writing EXCEPT ![r] = FALSE]
  /\ at' = [q \in Result |-> IF q \in Below(r) THEN "idle" ELSE at[q]]
  /\ target' = [q \in Result |-> IF q \in Below(r) THEN None ELSE target[q]]
  /\ by' = [q \in Result |-> IF q \in Below(r) THEN None ELSE by[q]]
  /\ UNCHANGED <<fixed, id, result, cancelled, dropped, done, sent, callback,
                 closing, ends, owner, stopped>>

(***************************************************************************)
(* Results.                                                                *)
(***************************************************************************)
\* Who may be running consume_result for id i: a task of the graph, or in
\* line a handler or a callback of the request that emitted under that id.
Emitters(i) ==
  {None} \cup {r \in Request : pc[r] \in InHandler /\ id[r] = i}
         \cup {q \in Result : /\ kind \in Recursive
                              /\ at[q] = "call" /\ id[target[q]] = i}

\* pending.get; a result that finds no entry is late and changes nothing.
ResultGets(q, i) ==
  /\ hasResult /\ at[q] = "idle"
  /\ owner[i] # None
  /\ \E h \in Emitters(i) \ {q} :
       /\ h # None => Alone(h)
       /\ by' = [by EXCEPT ![q] = h]
  /\ at' = [at EXCEPT ![q] = "got"]
  /\ target' = [target EXCEPT ![q] = owner[i]]
  /\ UNCHANGED <<fixed, pc, request, owner, active, stopped>>

ResultOver(q) ==
  /\ at' = [at EXCEPT ![q] = "idle"]
  /\ target' = [target EXCEPT ![q] = None]
  /\ by' = [by EXCEPT ![q] = None]

\* Mutant of StillPending: no second look at the table.
StillPendingSurely(r) == TRUE

\* What the result finds once it holds the read lock.
StillPending(r) == ~closing[r] /\ owner[id[r]] = r

\* Mutant of TurnedAway: the result only waits for the lock.
TurnedAwayNever(q) == FALSE

\* The first branch of the biased select!, of gRPC only.
TurnedAway(q) == Grpc /\ closing[target[q]]

ResultTurnedAway(q) ==
  /\ at[q] = "got" /\ TurnedAway(q)
  /\ ResultOver(q)
  /\ UNCHANGED <<fixed, pc, request, owner, active, stopped>>

\* The lock is fair: a reader waits behind a writer that waits.
ResultReads(q) ==
  /\ at[q] = "got" /\ ~writing[target[q]]
  /\ ~TurnedAway(q)
  /\ IF StillPending(target[q]) /\ callback[target[q]] = "set"
     THEN at' = [at EXCEPT ![q] = "call"] /\ UNCHANGED <<target, by>>
     ELSE ResultOver(q)
  /\ UNCHANGED <<fixed, pc, request, owner, active, stopped>>

\* A callback that answers true is removed.
CallReturns(q) ==
  /\ at[q] = "call" /\ Alone(q)
  /\ ResultOver(q)
  /\ \/ UNCHANGED callback
     \/ /\ callback[target[q]] = "set"
        /\ callback' = [callback EXCEPT ![target[q]] = "none"]
  /\ UNCHANGED <<fixed, pc, id, result, cancelled, dropped, done, sent, closing,
                 writing, ends, owner, active, stopped>>

(***************************************************************************)
(* The specification.                                                      *)
(***************************************************************************)
Gate(r) == GateStopped(r) \/ GateEnter(r) \/ GateFull(r) \/ GateSleep(r)

Begin(r) ==
  BeginFails(r) \/ RejectReturns(r) \/ \E i \in Id : BeginOk(r, i) \/ BeginDuplicate(r, i)

Await(r) == WaitDone(r) \/ WaitCancelled(r)

End(r) == Close(r) \/ QueueWrite(r) \/ EndBegins(r) \/ EndReturns(r)

\* endpoint_request, serve_http and the four handle: what each kind goes through.
LocalRequest(r) ==
  kind = "local" /\ (Gate(r) \/ Begin(r) \/ ConsumeReturns(r) \/ Await(r) \/ End(r))
KafkaRequest(r) ==
  kind = "kafka" /\ (Gate(r) \/ Begin(r) \/ ConsumeReturns(r) \/ Await(r) \/ End(r))
HttpRequest(r) ==
  kind = "http" /\ (Begin(r) \/ ConsumeReturns(r) \/ Await(r) \/ End(r))
UnaryRequest(r) ==
  /\ kind = "unary"
  /\ Begin(r) \/ ConsumeReturns(r) \/ EofReturns(r) \/ Receive(r) \/ End(r)
ClientStreamingRequest(r) ==
  /\ kind = "clientStreaming"
  /\ Begin(r) \/ Inbound(r) \/ ConsumeReturns(r) \/ EofReturns(r) \/ Receive(r) \/ End(r)
ServerStreamingRequest(r) ==
  /\ kind = "serverStreaming"
  /\ Begin(r) \/ ConsumeReturns(r) \/ EofReturns(r) \/ Await(r) \/ End(r)
BidiStreamingRequest(r) ==
  /\ kind = "bidiStreaming"
  /\ Begin(r) \/ Inbound(r) \/ ConsumeReturns(r) \/ EofReturns(r) \/ Await(r) \/ End(r)

\* consume_result, of each family.
LocalResult(q) == kind = "local" /\ (ResultReads(q) \/ CallReturns(q))
KafkaResult(q) == kind = "kafka" /\ (ResultReads(q) \/ CallReturns(q))
HttpResult(q) == kind = "http" /\ (ResultReads(q) \/ CallReturns(q))
GrpcResult(q) == Grpc /\ (ResultTurnedAway(q) \/ ResultReads(q) \/ CallReturns(q))

Environment ==
  \/ Stop
  \/ \E r \in Request :
       \/ Arrive(r) \/ SetCallback(r) \/ Done(r) \/ Send(r) \/ Cancel(r) \/ Drop(r) \/ DropLocal(r)
  \/ \E q \in Result, i \in Id : ResultGets(q, i)

Next ==
  \/ Environment
  \/ \E r \in Request :
       \/ LocalRequest(r) \/ KafkaRequest(r) \/ HttpRequest(r) \/ UnaryRequest(r)
       \/ ClientStreamingRequest(r) \/ ServerStreamingRequest(r) \/ BidiStreamingRequest(r)
  \/ \E q \in Result : LocalResult(q) \/ KafkaResult(q) \/ HttpResult(q) \/ GrpcResult(q)

Spec == Init /\ [][Next]_vars

\* Tasks are scheduled fairly.  Handlers and callbacks return after they have
\* emitted a number of times.
FairSpec ==
  /\ Spec
  /\ \A r \in Request :
       /\ WF_vars(Gate(r)) /\ SF_vars(Begin(r)) /\ SF_vars(ConsumeReturns(r) \/ EofReturns(r))
       /\ WF_vars(Await(r) \/ Receive(r)) /\ SF_vars(End(r))
  /\ \A q \in Result : /\ WF_vars(ResultTurnedAway(q) \/ ResultReads(q))
                       /\ SF_vars(CallReturns(q))

(***************************************************************************)
(* Properties.                                                             *)
(***************************************************************************)
\* No result callback runs once end_request has been called: the lifetime
\* lock drains the accepted callbacks, and a result that held the entry from
\* before is turned away.
CallbacksDrained ==
  \A q \in Result : at[q] = "call" => pc[target[q]] \notin {"end", "over"}

\* A request that began is ended exactly once, whatever is refused or cancelled
\* on the way and also when the transport drops it.  The one exception is a
\* local request that CustomDataSource::stop drops with its producer: it is
\* ended at most once.
EndedOnce ==
  \A r \in Request :
    /\ ends[r] <= 1
    /\ pc[r] \in Over /\ id[r] # None =>
         ends[r] = 1 \/ (pc[r] = "gone" /\ kind = "local" /\ stopped)

\* The table holds a request from its admission to the step that gives its
\* id up, and nothing else: no two requests work under one id, a gRPC request
\* keeps its id through end_request, and no id stays taken.
PendingExact ==
  \A r \in Request, i \in Id :
    pc[r] # "gone" /\ Reserves =>
      (owner[i] = r <=>
        /\ id[r] = i
        /\ pc[r] \in IF Grpc THEN Accepted \cup {"end"}
                     ELSE {"consume", "wait", "close"})

\* What a task that cannot go on waits for: a result for the writer of the
\* lock, the writer for the readers, a handler or callback for the results it
\* emitted in line.
WaitsFor(a) ==
  CASE a \in Result /\ at[a] = "got" /\ writing[target[a]] /\ ~TurnedAway(a)
         -> {target[a]}
    [] a \in Result /\ at[a] = "call" -> {q \in Result : by[q] = a}
    [] a \in Request /\ pc[a] = "lock" -> Readers(a)
    [] a \in Request /\ pc[a] \in InHandler -> {q \in Result : by[q] = a}
    [] OTHER -> {}

\* Nothing waits for itself: a request can always be finished, also when its
\* handlers, and for gRPC its callbacks, emit in line while it is closed,
\* cancelled or dropped.
NoWaitCycle ==
  \A S \in (SUBSET (Request \cup Result)) \ {{}} :
    \E a \in S : WaitsFor(a) \cap S = {}

\* A request at the gate of a source that was stopped leaves it.
StoppedGateEmpties ==
  \A r \in Request : stopped /\ pc[r] \in AtGate ~> pc[r] \notin AtGate
==============================================================================
