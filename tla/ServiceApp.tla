----------------------------- MODULE ServiceApp -----------------------------
(***************************************************************************)
(* runtime/serviceapp.rs: start, a start that fails and one whose caller   *)
(* goes away, calls of stop one after the other and at the same time, the  *)
(* phases of the shutdown with jobs that outlive the call that began them, *)
(* and the work of the graph: requests, callbacks in the pools (the delay  *)
(* pool is one of them), parallel calls, the timers of the join storage    *)
(* and the response tasks of the sinks.  spawn_parallel and drain_parallel *)
(* are of environment/mod.rs.                                              *)
(***************************************************************************)
EXTENDS Integers, Sequences

CONSTANTS Caller,        \* who calls stop, again and again
          Starter,       \* the caller of start, which stops when it fails
          Work,          \* the work there can be at a time
          Job, Kind,     \* the jobs of the shutdown and what each stops
          Phases,        \* the jobs of each phase, as shutdown_phases lists them
          None

ASSUME AppAssumption ==
  /\ Starter \in Caller /\ None \notin Caller
  /\ Kind \in [Job -> {"source", "component", "pool", "storage", "parallel", "sink", "engine"}]
  /\ Phases \in Seq(Seq(Job))

Server == {"grpc", "http"}
Phase == 1..Len(Phases)
JobsOf(n) == {Phases[n][i] : i \in 1..Len(Phases[n])}

\* A phase with a job of kind k comes before every phase with one of kind l.
Before(k, l) ==
  \A n \in Phase : (\E j \in JobsOf(n) : Kind[j] = l) =>
                     \E m \in 1..(n - 1) : \E j \in JobsOf(m) : Kind[j] = k

\* vec![admission, runtime, vec![parallel], sinks, ...] of a graph with sources.
ASSUME PhasesAssumption ==
  Before("source", "parallel") /\ Before("pool", "parallel") /\ Before("parallel", "sink")

VARIABLES state, stage, admission,
          emitting,      \* the sources have been told to start
          server,        \* of each server: "none", "up", or how its task ended
          token,         \* grpc_shutdown and http_shutdown are cancelled
          phase, failure, completed,
          task,          \* the handle of each job
          owner,         \* the call whose context a job has, None when it is over
          running,       \* how many operations of a job are under way
          holder,        \* who has the lock of the progress
          pos,           \* the job of the phase that the holder waits for
          pc, expired,
          place,         \* where each piece of work is
          loose,         \* the work that comes from a timer or a response task
          closed,        \* the kinds that take no more work
          registry, taken

startVars == <<state, stage, admission, emitting>>
serverVars == <<server, token>>
progressVars == <<phase, failure, completed>>
jobVars == <<task, owner, running>>
callVars == <<holder, pos, pc, expired>>
graphVars == <<place, loose, closed, registry, taken>>
vars == <<startVars, serverVars, progressVars, jobVars, callVars, graphVars>>

Init ==
  /\ state = "Created" /\ stage = "none" /\ admission = FALSE /\ emitting = FALSE
  /\ server = [s \in Server |-> "none"] /\ token = FALSE
  /\ phase = 1 /\ failure = FALSE /\ completed = {}
  /\ task = [j \in Job |-> "none"] /\ owner = [j \in Job |-> None] /\ running = [j \in Job |-> 0]
  /\ holder = None /\ pos = 1 /\ pc = [c \in Caller |-> "idle"] /\ expired = {}
  /\ place = [w \in Work |-> "new"] /\ loose = {} /\ closed = {} /\ registry = {} /\ taken = {}
-----------------------------------------------------------------------------
(* start and start_graph.                                                  *)

StartBegin(adm) ==
  /\ state = "Created" /\ state' = "Starting" /\ stage' = "graph" /\ admission' = adm
  /\ UNCHANGED <<emitting, serverVars, progressVars, jobVars, callVars, graphVars>>

\* Storages, pools, components, then the sinks, then the sources.
StartGraph ==
  /\ stage = "graph" /\ stage' = "sinks"
  /\ UNCHANGED <<state, admission, emitting, serverVars, progressVars, jobVars, callVars, graphVars>>

StartSinks ==
  /\ stage = "sinks" /\ stage' = (IF admission THEN "sources" ELSE "started") /\ emitting' = admission
  /\ UNCHANGED <<state, admission, serverVars, progressVars, jobVars, callVars, graphVars>>

StartSources ==
  /\ stage = "sources" /\ stage' = "grpc"
  /\ UNCHANGED <<state, admission, emitting, serverVars, progressVars, jobVars, callVars, graphVars>>

\* Without routes there is no gRPC server.
StartGrpcServer ==
  /\ stage = "grpc" /\ stage' = "http"
  /\ \E s \in {"none", "up"} : server' = [server EXCEPT !["grpc"] = s]
  /\ UNCHANGED <<state, admission, emitting, token, progressVars, jobVars, callVars, graphVars>>

StartHttpServer ==
  /\ stage = "http" /\ stage' = "started" /\ server' = [server EXCEPT !["http"] = "up"]
  /\ UNCHANGED <<state, admission, emitting, token, progressVars, jobVars, callVars, graphVars>>

StartDone ==
  /\ stage = "started" /\ stage' = "returned" /\ state' = "Running"
  /\ UNCHANGED <<admission, emitting, serverVars, progressVars, jobVars, callVars, graphVars>>

Starting == stage \in {"graph", "sinks", "sources", "grpc", "http"}

\* A stage fails: the normal shutdown releases what has been started.
StartFails ==
  /\ Starting /\ pc[Starter] = "idle" /\ stage' = "returned" /\ state' = "Running"
  /\ pc' = [pc EXCEPT ![Starter] = "lock"]
  /\ UNCHANGED <<admission, emitting, serverVars, progressVars, jobVars, holder, pos, expired, graphVars>>

\* The future of start is dropped at one of its awaits.
StartDropped ==
  /\ Starting /\ stage' = "dropped"
  /\ UNCHANGED <<state, admission, emitting, serverVars, progressVars, jobVars, callVars, graphVars>>
-----------------------------------------------------------------------------
(* stop.                                                                   *)

Over == {"idle", "ok", "error"}

Call(c) ==
  /\ pc[c] \in Over /\ (c = Starter => stage = "returned") /\ pc' = [pc EXCEPT ![c] = "lock"]
  /\ UNCHANGED <<startVars, serverVars, progressVars, jobVars, holder, pos, expired, graphVars>>

\* The context is cancelled, or the configured timeout is over.
Expire(c) ==
  /\ pc[c] \notin Over /\ c \notin expired /\ expired' = expired \cup {c}
  /\ UNCHANGED <<startVars, serverVars, progressVars, jobVars, holder, pos, pc, graphVars>>

Lock(c) ==
  /\ pc[c] = "lock" /\ holder = None /\ holder' = c /\ pc' = [pc EXCEPT ![c] = "check"]
  /\ UNCHANGED <<startVars, serverVars, progressVars, jobVars, pos, expired, graphVars>>

\* The select! is biased: a free lock is taken.
LockGivesUp(c) ==
  /\ pc[c] = "lock" /\ holder # None /\ c \in expired /\ pc' = [pc EXCEPT ![c] = "error"]
  /\ expired' = expired \ {c}
  /\ UNCHANGED <<startVars, serverVars, progressVars, jobVars, holder, pos, graphVars>>

\* The call of the holder is over, and its guard is dropped.
Return(c, result) ==
  /\ pc' = [pc EXCEPT ![c] = result] /\ holder' = None /\ pos' = 1 /\ expired' = expired \ {c}
  /\ owner' = [j \in Job |-> IF owner[j] = c THEN None ELSE owner[j]]

Proceed(c, to) == pc' = [pc EXCEPT ![c] = to] /\ UNCHANGED <<holder, pos, expired, owner>>

\* Mutant: a shutdown that has begun is taken for one that is over.
CheckBegun(c) ==
  /\ pc[c] = "check"
  /\ \/ /\ state \in {"Stopped", "Created", "Stopping"} /\ Return(c, "ok") /\ UNCHANGED token
        /\ state' = IF state = "Created" THEN "Stopped" ELSE state
     \/ state = "Starting" /\ Return(c, "error") /\ UNCHANGED <<state, token>>
     \/ state = "Running" /\ state' = "Stopping" /\ token' = TRUE /\ Proceed(c, "grpc")
  /\ UNCHANGED <<stage, admission, emitting, server, progressVars, task, running, graphVars>>

Check(c) ==
  /\ pc[c] = "check"
  /\ \/ state \in {"Stopped", "Created"} /\ state' = "Stopped" /\ Return(c, "ok") /\ UNCHANGED token
     \/ state = "Starting" /\ Return(c, "error") /\ UNCHANGED <<state, token>>
     \/ /\ state \in {"Running", "Stopping"} /\ state' = "Stopping"
        /\ IF failure THEN Return(c, "error") /\ UNCHANGED token
           ELSE token' = TRUE /\ Proceed(c, "grpc")
  /\ UNCHANGED <<stage, admission, emitting, server, progressVars, task, running, graphVars>>

\* drain_server: a server that has ended, or was never started, is passed.
DrainServer(c, s) ==
  /\ pc[c] = s /\ server[s] # "up" /\ server' = [server EXCEPT ![s] = "none"]
  /\ IF server[s] = "err"
       THEN Return(c, "error") /\ failure' = TRUE
       ELSE Proceed(c, IF s = "grpc" THEN "http" ELSE "phase") /\ UNCHANGED failure
  /\ UNCHANGED <<startVars, token, phase, completed, task, running, graphVars>>

DrainServerGivesUp(c, s) ==
  /\ pc[c] = s /\ server[s] = "up" /\ c \in expired /\ Return(c, "error")
  /\ UNCHANGED <<startVars, serverVars, progressVars, task, running, graphVars>>

\* The top of the loop: the jobs of the phase that have no task are spawned.
NextPhase(c) ==
  /\ pc[c] = "phase" /\ phase \in Phase
  /\ IF c \in expired
       THEN Return(c, "error") /\ UNCHANGED <<task, running>>
       ELSE LET new == {j \in JobsOf(phase) : j \notin completed /\ task[j] = "none"}
            IN /\ task' = [j \in Job |-> IF j \in new THEN "spawned" ELSE task[j]]
               /\ owner' = [j \in Job |-> IF j \in new THEN c ELSE owner[j]]
               /\ running' = [j \in Job |-> IF j \in new THEN running[j] + 1 ELSE running[j]]
               /\ pc' = [pc EXCEPT ![c] = "wait"] /\ UNCHANGED <<holder, pos, expired>>
  /\ UNCHANGED <<startVars, serverVars, progressVars, graphVars>>

Waits(c, j) == pc[c] = "wait" /\ pos <= Len(Phases[phase]) /\ j = Phases[phase][pos]

\* Only a context error permits a retry.
JobError(c, j) ==
  /\ Waits(c, j) /\ task[j] \in {"ctx", "failed"}
  /\ task' = [task EXCEPT ![j] = "none"] /\ failure' = (task[j] = "failed") /\ Return(c, "error")
  /\ UNCHANGED <<startVars, serverVars, phase, completed, running, graphVars>>

JobPassed(c, j) ==
  /\ Waits(c, j) /\ (j \in completed \/ task[j] = "ok")
  /\ task' = [task EXCEPT ![j] = "none"] /\ completed' = completed \cup {j} /\ pos' = pos + 1
  /\ UNCHANGED <<startVars, serverVars, phase, failure, owner, running, holder, pc, expired, graphVars>>

\* Mutants: the task is given up with the wait; the deadline is not looked at.
JobAborted(c, j) ==
  /\ Waits(c, j) /\ task[j] \in {"spawned", "begun"} /\ c \in expired /\ Return(c, "error")
  /\ task' = [task EXCEPT ![j] = "none"]
  /\ UNCHANGED <<startVars, serverVars, progressVars, running, graphVars>>
JobNeverGivenUp(c, j) == FALSE /\ UNCHANGED vars

JobGivenUp(c, j) ==
  /\ Waits(c, j) /\ task[j] \in {"spawned", "begun"} /\ c \in expired /\ Return(c, "error")
  /\ UNCHANGED <<startVars, serverVars, progressVars, task, running, graphVars>>

PhaseDone(c) ==
  /\ pc[c] = "wait" /\ pos > Len(Phases[phase]) /\ phase' = phase + 1
  /\ pos' = 1 /\ pc' = [pc EXCEPT ![c] = "phase"]
  /\ UNCHANGED <<startVars, serverVars, failure, completed, jobVars, holder, expired, graphVars>>

StopDone(c) ==
  /\ pc[c] = "phase" /\ phase \notin Phase /\ state' = "Stopped" /\ Return(c, "ok")
  /\ UNCHANGED <<stage, admission, emitting, serverVars, progressVars, task, running, graphVars>>

\* The caller's future is dropped at an await, and the guard with it.
Drop(c) ==
  /\ \/ /\ pc[c] \in {"check", "grpc", "http", "wait"} \/ (pc[c] = "phase" /\ phase \notin Phase)
        /\ Return(c, "idle")
     \/ /\ pc[c] = "lock" /\ pc' = [pc EXCEPT ![c] = "idle"] /\ expired' = expired \ {c}
        /\ UNCHANGED <<holder, pos, owner>>
  /\ UNCHANGED <<startVars, serverVars, progressVars, task, running, graphVars>>
-----------------------------------------------------------------------------
(* The tasks that the shutdown owns.                                       *)

ServerEnds(s) ==
  /\ server[s] = "up"
  /\ \/ /\ token /\ \A w \in Work : place[w] # s
        /\ server' = [server EXCEPT ![s] = "ended"]
     \/ server' = [server EXCEPT ![s] = "err"]
  /\ UNCHANGED <<startVars, token, progressVars, jobVars, callVars, graphVars>>

\* The first poll of a job: a pool is stopped before its work is waited for.
JobBegins(j) ==
  /\ task[j] = "spawned" /\ task' = [task EXCEPT ![j] = "begun"]
  /\ closed' = IF Kind[j] = "pool" THEN closed \cup {"pool"} ELSE closed
  /\ UNCHANGED <<startVars, serverVars, progressVars, owner, running, callVars, place, loose,
                 registry, taken>>

Ends(j, result) ==
  /\ task[j] = "begun" /\ task' = [task EXCEPT ![j] = result]
  /\ running' = [running EXCEPT ![j] = @ - 1]
  /\ UNCHANGED <<startVars, serverVars, progressVars, owner, callVars, place, loose, registry, taken>>

\* The operation ends: what it stopped has no work and takes none.
JobOk(j) ==
  /\ Kind[j] # "parallel" /\ (\A w \in Work : place[w] # Kind[j]) /\ Ends(j, "ok")
  /\ closed' = closed \cup {Kind[j]}

\* A connector or a component gives up when its context is cancelled ...
JobCancelled(j) ==
  /\ Kind[j] \in {"source", "component", "sink"} /\ owner[j] \in expired \cup {None}
  /\ Ends(j, "ctx") /\ UNCHANGED closed

\* ... but the HTTP source answers Ok, and leaves its requests behind (HttpSource).
JobCut(j) ==
  /\ Kind[j] = "source" /\ owner[j] \in expired \cup {None} /\ task[j] = "begun"
  /\ task' = [task EXCEPT ![j] = "ok"] /\ running' = [running EXCEPT ![j] = @ - 1]
  /\ closed' = closed \cup {"source"} /\ loose' = loose \cup {w \in Work : place[w] = "source"}
  /\ UNCHANGED <<startVars, serverVars, progressVars, owner, callVars, place, registry, taken>>

\* ... or fails, as the telemetry engines may.
JobFails(j) ==
  /\ Kind[j] \in {"source", "component", "sink", "engine"}
  /\ Ends(j, "failed") /\ UNCHANGED closed

\* drain_parallel takes the tasks, waits for all of them, and looks again.
DrainTake(j) ==
  /\ Kind[j] = "parallel" /\ task[j] = "begun" /\ registry # {} /\ taken = {}
  /\ taken' = registry /\ registry' = {}
  /\ UNCHANGED <<startVars, serverVars, progressVars, jobVars, callVars, place, loose, closed>>

\* Mutant: it does not look again.
DrainOnce(j) == Kind[j] = "parallel" /\ taken = {} /\ Ends(j, "ok") /\ UNCHANGED closed

DrainDone(j) ==
  /\ Kind[j] = "parallel" /\ registry = {} /\ taken = {}
  /\ Ends(j, "ok") /\ UNCHANGED closed
-----------------------------------------------------------------------------
(* The work of the graph.                                                  *)

Active(w) == place[w] # "new"

\* A started source has a message, a server a request.
Admit(w) ==
  /\ place[w] = "new"
  /\ \/ emitting /\ "source" \notin closed /\ place' = [place EXCEPT ![w] = "source"]
     \/ \E s \in Server : server[s] = "up" /\ place' = [place EXCEPT ![w] = s]
  /\ UNCHANGED <<startVars, serverVars, progressVars, jobVars, callVars, loose, closed, registry, taken>>

\* Work makes other work: a callback in a pool, a parallel call, an expiry
\* timer of the join storage, a response task of a sink.
Spawn(w, v, p) ==
  /\ Active(w) /\ place[v] = "new" /\ p \notin closed
  /\ place' = [place EXCEPT ![v] = p]
  /\ loose' = IF p \in {"timer", "response"} \/ w \in loose THEN loose \cup {v} ELSE loose
  /\ registry' = IF p = "parallel" THEN registry \cup {v} ELSE registry
  /\ UNCHANGED <<startVars, serverVars, progressVars, jobVars, callVars, closed, taken>>

\* The handle of a task that has ended is awaited at once: it goes with it.
Finish(w) ==
  /\ Active(w) /\ place' = [place EXCEPT ![w] = "new"] /\ loose' = loose \ {w}
  /\ registry' = registry \ {w} /\ taken' = taken \ {w}
  /\ UNCHANGED <<startVars, serverVars, progressVars, jobVars, callVars, closed>>

Start ==
  \/ \E adm \in BOOLEAN : StartBegin(adm)
  \/ StartGraph \/ StartSinks \/ StartSources \/ StartGrpcServer \/ StartHttpServer
  \/ StartDone \/ StartFails \/ StartDropped

StopStep(c) ==
  \/ Lock(c) \/ LockGivesUp(c) \/ Check(c) \/ NextPhase(c)
  \/ \E s \in Server : DrainServer(c, s) \/ DrainServerGivesUp(c, s)
  \/ \E j \in Job : JobError(c, j) \/ JobPassed(c, j) \/ JobGivenUp(c, j)
  \/ PhaseDone(c) \/ StopDone(c)

JobStep(j) ==
  \/ JobBegins(j) \/ JobOk(j) \/ JobCancelled(j) \/ JobCut(j) \/ JobFails(j) \/ DrainTake(j) \/ DrainDone(j)

WorkStep ==
  \/ \E w \in Work : Admit(w) \/ Finish(w)
  \/ \E w, v \in Work : \E p \in {"pool", "parallel", "timer", "response"} : Spawn(w, v, p)

Next ==
  \/ Start \/ WorkStep
  \/ \E c \in Caller : Call(c) \/ Expire(c) \/ StopStep(c) \/ Drop(c)
  \/ \E s \in Server : ServerEnds(s)
  \/ \E j \in Job : JobStep(j)

Spec == Init /\ [][Next]_vars

\* Tokio polls the callers of stop, and their deadlines pass.
FairSpec == Spec /\ \A c \in Caller : WF_vars(StopStep(c)) /\ WF_vars(Expire(c))
-----------------------------------------------------------------------------
(* Properties.                                                             *)

\* "server handles and physical cleanup jobs remain owned": no call of stop,
\* whatever became of the calls before it, starts an operation that is still
\* under way.
JobAlone == \A j \in Job : running[j] <= 1

\* When the sinks are told to stop, no request, no callback in a pool and no
\* parallel call is left, but for what comes from an expiry timer of the join
\* storage, from the response task of a sink, or from an HTTP request that a stop
\* which ran out of time has left behind.
QuietBeforeSinks ==
  \A j \in Job : Kind[j] = "sink" /\ (task[j] # "none" \/ j \in completed) =>
    \A w \in Work : Active(w) => w \in loose /\ place[w] \in {"source", "timer", "response", "parallel"}

\* A stop of a service that was started reports success only when every job
\* has been completed and no server runs.
OkMeansReleased ==
  stage # "none" /\ (\E c \in Caller : pc[c] = "ok") =>
    /\ \A n \in Phase : JobsOf(n) \subseteq completed
    /\ \A s \in Server : server[s] # "up"

\* Every call of stop returns, though work of the graph may never end: its
\* deadline ends each wait, also the one for the lock.
StopsReturn == \A c \in Caller : pc[c] = "lock" ~> pc[c] \in Over
=============================================================================
