---------------------------- MODULE SinkSession -----------------------------
(***************************************************************************)
(* The sessions of a streaming gRPC sink (datasink/grpc/bidistreaming.rs   *)
(* and clientstreaming.rs).  Every consume with one stream id shares a     *)
(* OnceCell that the pending map holds under that id; its initialiser      *)
(* opens the call and spawns the task that ends the session.               *)
(*                                                                         *)
(* The calls here all have the same stream id.  The map is what            *)
(* RotatingMap is shown to be, one entry per key.  A handler may emit      *)
(* downstream in line, and the emission may come back to this sink.        *)
(***************************************************************************)
EXTENDS Naturals, FiniteSets

CONSTANTS Caller,       \* the calls of consume that may be in progress
          MaxCells,     \* bound: the cells created
          None

VARIABLES kind,         \* "bidi" or "client"
          pending,      \* the cell under the stream id, None without entry
          cell,         \* OnceCell<Option<Arc<Pending>>>
          session,      \* Pending, and the tasks of the session
          caller

vars == <<kind, pending, cell, session, caller>>

Kinds == {"bidi", "client"}
Cell == 1..MaxCells

Idle == [pc |-> "idle", cell |-> None, parent |-> None]

InitState ==
  /\ pending = None
  /\ cell = [c \in Cell |-> "unused"]
  /\ session = [c \in Cell |-> [done |-> FALSE, cancelled |-> FALSE, finished |-> FALSE,
                                task |-> "none", closer |-> "none"]]
  /\ caller = [p \in Caller |-> Idle]

Init == kind \in Kinds /\ InitState

At(p, l) == caller' = [caller EXCEPT ![p].pc = l]
TaskAt(c, l) == session' = [session EXCEPT ![c].task = l]

\* In-line emissions a handler waits for; its parent is a call or, for the
\* callbacks of a session's task, the cell.
Children(x) == {q \in Caller : caller[q].parent = x}

Readers(c) == {p \in Caller : caller[p].cell = c /\ caller[p].pc \in {"locked", "handler"}}

\* Tokio's RwLock is fair: a reader waits behind the writer that waits.
ReadFree(c) == session[c].task # "write"
-----------------------------------------------------------------------------
(* consume.                                                                *)

\* get_or_create, in a call by x: None, a handler of a call, or a task's.
Consume(p, x) ==
  /\ caller[p].pc = "idle"
  /\ IF pending # None
       THEN /\ caller' = [caller EXCEPT ![p] = [pc |-> "join", cell |-> pending, parent |-> x]]
            /\ UNCHANGED <<pending, cell>>
       ELSE \E c \in Cell :
              /\ cell[c] = "unused" /\ \A d \in 1..(c - 1) : cell[d] # "unused"
              /\ pending' = c
              /\ cell' = [cell EXCEPT ![c] = "empty"]
              /\ caller' = [caller EXCEPT ![p] = [pc |-> "join", cell |-> c, parent |-> x]]
  /\ UNCHANGED <<kind, session>>

External(p) == Consume(p, None)

\* An emission from consume_message, handle_response or end_request, which
\* wait for it.
Emit(p) ==
  \/ \E q \in Caller : caller[q].pc = "handler" /\ Children(q) = {} /\ Consume(p, q)
  \/ \E c \in Cell :
       session[c].task \in {"respond", "end"} /\ Children(c) = {} /\ Consume(p, c)

\* get_or_init: one waiter runs the initialiser.
Initialise(p) ==
  LET c == caller[p].cell IN
  /\ caller[p].pc = "join" /\ cell[c] = "empty"
  /\ cell' = [cell EXCEPT ![c] = "init"] /\ At(p, "init")
  /\ UNCHANGED <<kind, pending, session>>

\* begin_request or client_function failed; of the second end_request is told.
OpenFails(p) ==
  /\ caller[p].pc = "init"
  /\ cell' = [cell EXCEPT ![caller[p].cell] = "failed"] /\ At(p, "pop")
  /\ UNCHANGED <<kind, pending, session>>

\* The call is open.  The cell is set in the poll that spawns the tasks.
Open(p) ==
  LET c == caller[p].cell IN
  /\ caller[p].pc = "init"
  /\ cell' = [cell EXCEPT ![c] = "ready"] /\ At(p, "admit")
  /\ session' = [session EXCEPT ![c].task = IF kind = "bidi" THEN "recv" ELSE "wait",
                                ![c].closer = IF kind = "bidi" THEN "wait" ELSE "none"]
  /\ UNCHANGED <<kind, pending>>

\* The initialiser has set the cell.
Joined(p) ==
  /\ caller[p].pc = "join" /\ cell[caller[p].cell] \in {"ready", "failed"}
  /\ At(p, IF cell[caller[p].cell] = "ready" THEN "admit" ELSE "pop")
  /\ UNCHANGED <<kind, pending, cell, session>>

Return(p) == caller' = [caller EXCEPT ![p] = Idle]

\* Mutant: the entry is removed whatever cell it is.
PopAny(p) ==
  /\ caller[p].pc = "pop"
  /\ pending' = None
  /\ Return(p) /\ UNCHANGED <<kind, cell, session>>

\* pop_if removes the entry only while it is this call's cell.
PopFailed(p) ==
  /\ caller[p].pc = "pop"
  /\ pending' = IF pending = caller[p].cell THEN None ELSE pending
  /\ Return(p) /\ UNCHANGED <<kind, cell, session>>

\* Mutant: a call that waits for the lock does not look at finished.
RejectNone(p) ==
  /\ caller[p].pc = "admit" /\ session[caller[p].cell].finished /\ ReadFree(caller[p].cell)
  /\ Return(p) /\ UNCHANGED <<kind, pending, cell, session>>

\* The select! on finished and the lock, finished first: a call waits for the
\* lock only as long as the session lasts.
Reject(p) ==
  /\ caller[p].pc = "admit" /\ session[caller[p].cell].finished
  /\ Return(p) /\ UNCHANGED <<kind, pending, cell, session>>

ReadLock(p) ==
  /\ caller[p].pc = "admit" /\ ~session[caller[p].cell].finished /\ ReadFree(caller[p].cell)
  /\ At(p, "locked") /\ UNCHANGED <<kind, pending, cell, session>>

\* finished.is_cancelled() under the lock, then consume_message.
Enter(p) ==
  /\ caller[p].pc = "locked"
  /\ IF session[caller[p].cell].finished THEN Return(p) ELSE At(p, "handler")
  /\ UNCHANGED <<kind, pending, cell, session>>

\* The first of the two ends the session, a later one changes nothing.
Lasting(c) == cell[c] = "ready" /\ ~session[c].done /\ ~session[c].cancelled /\ session[c].task # "ended"

\* ResultContext::done, which the handler may hand on.
Done(c) ==
  /\ Lasting(c) /\ session' = [session EXCEPT ![c].done = TRUE]
  /\ UNCHANGED <<kind, pending, cell, caller>>

\* The context of the call that opened the session.
Cancel(c) ==
  /\ Lasting(c) /\ session' = [session EXCEPT ![c].cancelled = TRUE]
  /\ UNCHANGED <<kind, pending, cell, caller>>

\* consume_message returns; an error ends the session.
Handled(p) ==
  /\ caller[p].pc = "handler" /\ Children(p) = {}
  /\ \/ UNCHANGED session
     \/ session' = [session EXCEPT ![caller[p].cell].done = TRUE]
  /\ Return(p) /\ UNCHANGED <<kind, pending, cell>>

\* The call's future is dropped where it waits.  A OnceCell without its
\* initialiser is empty again.
Abandon(p) ==
  /\ caller[p].pc \in {"join", "init", "admit", "handler"} /\ Children(p) = {}
  /\ cell' = IF caller[p].pc = "init"
               THEN [cell EXCEPT ![caller[p].cell] = "empty"] ELSE cell
  /\ Return(p) /\ UNCHANGED <<kind, pending, session>>
-----------------------------------------------------------------------------
(* The task that ends a session.                                           *)

\* bidi: recv gives a response, the end of the stream or an error.
Respond(c) ==
  /\ session[c].task = "recv" /\ TaskAt(c, "respond")
  /\ UNCHANGED <<kind, pending, cell, caller>>

\* finished.cancel(), and then the write lock is asked for.
Finish(c, l) == session' = [session EXCEPT ![c].finished = TRUE, ![c].task = l]

PeerEnds(c) ==
  /\ session[c].task = "recv" /\ Finish(c, "write")
  /\ UNCHANGED <<kind, pending, cell, caller>>

\* handle_response returns.  In a client stream it is the last call but one.
Responded(c) ==
  /\ session[c].task = "respond" /\ Children(c) = {}
  /\ IF kind = "client" THEN TaskAt(c, "end")
     ELSE TaskAt(c, "recv") \/ Finish(c, "write")
  /\ UNCHANGED <<kind, pending, cell, caller>>

\* client: done sends close_and_recv, a cancelled context does not.
Wake(c) ==
  /\ session[c].task = "wait"
  /\ \/ session[c].done /\ Finish(c, "close")
     \/ session[c].cancelled /\ Finish(c, "write")
  /\ UNCHANGED <<kind, pending, cell, caller>>

\* The answer of close_and_recv, kept until the lock is free.
ClientClosed(c) ==
  /\ session[c].task = "close"
  /\ \/ TaskAt(c, "writeResponse") \/ TaskAt(c, "write")
  /\ UNCHANGED <<kind, pending, cell, caller>>

\* The lock is taken and dropped at once: the admitted calls have returned.
Drain(c) ==
  /\ session[c].task \in {"write", "writeResponse"} /\ Readers(c) = {}
  /\ TaskAt(c, IF session[c].task = "write" THEN "end" ELSE "respond")
  /\ UNCHANGED <<kind, pending, cell, caller>>

\* end_request returns, and the id is free.  What done and the context told the
\* session is of no use to anyone now.
EndRequest(c) ==
  /\ session[c].task = "end" /\ Children(c) = {}
  /\ session' = [session EXCEPT ![c].task = "ended", ![c].done = FALSE, ![c].cancelled = FALSE]
  /\ pending' = IF pending = c THEN None ELSE pending
  /\ UNCHANGED <<kind, cell, caller>>

\* bidi: the task that closes the sending side, woken by done, by the context
\* or by the end of the receiving task.
CloseSend(c) ==
  /\ session[c].closer = "wait"
  /\ session[c].done \/ session[c].cancelled \/ session[c].task = "ended"
  /\ session' = [session EXCEPT ![c].closer = "closed"]
  /\ UNCHANGED <<kind, pending, cell, caller>>

\* What is fair: a call that is polled, and the task of a session.  Tokio polls
\* what is woken; the lock and the OnceCell serve their waiters in order;
\* handlers return once what they emitted has, and do not emit for ever.
CallerStep(p) ==
  \/ Initialise(p) \/ OpenFails(p) \/ Open(p) \/ Joined(p) \/ PopFailed(p)
  \/ Reject(p) \/ ReadLock(p) \/ Enter(p) \/ Handled(p)

TaskStep(c) == Responded(c) \/ Wake(c) \/ ClientClosed(c) \/ Drain(c) \/ EndRequest(c)

\* The peer ends a stream whose sending side is closed.
ClosedByPeer(c) == session[c].closer = "closed" /\ PeerEnds(c)

\* consume of the two sinks, and the tasks they spawn.
BidiConsume(p) == kind = "bidi" /\ CallerStep(p)
ClientConsume(p) == kind = "client" /\ CallerStep(p)
BidiTasks(c) == kind = "bidi" /\ (Respond(c) \/ PeerEnds(c) \/ TaskStep(c) \/ CloseSend(c))
ClientFinalizer(c) == kind = "client" /\ TaskStep(c)

Next ==
  \/ \E p \in Caller :
       External(p) \/ Emit(p) \/ BidiConsume(p) \/ ClientConsume(p) \/ Abandon(p)
  \/ \E c \in Cell : Done(c) \/ Cancel(c) \/ BidiTasks(c) \/ ClientFinalizer(c)

Spec == Init /\ [][Next]_vars
-----------------------------------------------------------------------------
(* Properties.                                                             *)

\* The id belongs to one cell from its creation to the return of end_request,
\* also when a call that waited for an older cell comes to remove it late: two
\* sessions of one id are never open together.
SessionOwnsId ==
  \A c \in Cell :
    \/ cell[c] \in {"empty", "init"}
    \/ cell[c] = "ready" /\ session[c].task # "ended"
    => pending = c

\* No consume_message runs, and none begins, once the session's last callbacks
\* have begun: end_request, and in a client stream handle_response too.
SessionDrained ==
  \A c \in Cell :
    \/ session[c].task \in {"end", "ended"}
    \/ kind = "client" /\ session[c].task = "respond"
    => \A p \in Caller : ~(caller[p].cell = c /\ caller[p].pc = "handler")

\* Every consume returns, in-line emissions that come back to the same id
\* included: none waits for the lock behind a writer that waits for it.
ConsumeReturns == \A p \in Caller : caller[p].pc # "idle" ~> caller[p].pc = "idle"

\* A session whose caller is done, or whose context is cancelled, ends and
\* frees its id.
SessionsEnd ==
  \A c \in Cell :
    session[c].done \/ session[c].cancelled ~> session[c].task = "ended" /\ pending # c
=============================================================================
