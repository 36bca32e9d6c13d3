-------------------------- MODULE ServiceAppProofs --------------------------
(***************************************************************************)
(* Theorems about ServiceApp, for every set of callers, of work and of     *)
(* jobs, and every list of phases that keeps the order of shutdown_phases; *)
(* and about the configuration it runs with, for every content of the      *)
(* files and every sequence of changes.                                    *)
(***************************************************************************)
EXTENDS ServiceApp, RuntimeConfig, TLAPS

Locked == {"check", "grpc", "http", "phase", "wait"}
Stopping == {"grpc", "http", "phase", "wait"}
Launch == {"graph", "sinks", "sources", "grpc", "http", "started", "dropped"}
Underway == {"spawned", "begun"}

CallType ==
  /\ state \in {"Created", "Starting", "Running", "Stopping", "Stopped"}
  /\ stage \in {"none", "returned"} \cup Launch
  /\ server \in [Server -> {"none", "up", "ended", "err"}]
  /\ holder \in Caller \cup {None}
  /\ pc \in [Caller -> Over \cup {"lock"} \cup Locked]
  /\ failure \in BOOLEAN

JobType ==
  /\ phase \in Nat /\ phase > 0 /\ pos \in Nat /\ completed \subseteq Job
  /\ task \in [Job -> {"none", "ok", "ctx", "failed"} \cup Underway]
  /\ running \in [Job -> Nat]

GraphType ==
  /\ place \in [Work -> {"new", "source", "pool", "parallel", "timer", "response"} \cup Server]
  /\ loose \subseteq Work

TypeOK == CallType /\ JobType /\ GraphType

\* start is under way, or has returned or failed, or was never called; the gRPC
\* server is one of the last things it starts.
StartInv ==
  /\ state = "Created" => stage = "none"
  /\ stage = "none" => state \in {"Created", "Stopped"}
  /\ stage \in Launch => state = "Starting"
  /\ stage = "returned" => state \in {"Running", "Stopping", "Stopped"}
  /\ stage \in {"none", "graph", "sinks", "sources", "grpc"} => server["grpc"] = "none"

\* One call of stop at a time goes through the servers and the phases, and none
\* after a failure; the servers it has passed are gone.
CallInv ==
  /\ \A c \in Caller : pc[c] \in Locked <=> holder = c
  /\ \A c \in Caller : pc[c] \in Stopping => state = "Stopping" /\ ~failure
  /\ \A c \in Caller : pc[c] \in {"http", "phase", "wait"} => server["grpc"] = "none"
  /\ \A c \in Caller : pc[c] \in {"phase", "wait"} => server["http"] = "none"
  /\ \A c \in Caller : pc[c] = "wait" => phase \in Phase
  /\ \A c \in Caller : pc[c] = "ok" => state = "Stopped"

\* The jobs of the phases that are over, and those of this phase that have been
\* waited for, are completed; at the end nothing is left.
ProgressInv ==
  /\ \A n \in Phase : n < phase => JobsOf(n) \subseteq completed
  /\ phase \in Phase => \A i \in 1..Len(Phases[phase]) : i < pos => Phases[phase][i] \in completed
  /\ state = "Stopped" /\ stage # "none" => phase \notin Phase /\ \A s \in Server : server[s] # "up"

\* A job has one operation while its task runs, and none after it; it is begun
\* when its phase has come.
Begun(j) == task[j] # "none" \/ j \in completed
Done(j) == task[j] = "ok" \/ j \in completed

JobInv(j) ==
  /\ running[j] = IF task[j] \in Underway THEN 1 ELSE 0
  /\ j \in completed => task[j] = "none"
  /\ Begun(j) => \E n \in Phase : n <= phase /\ j \in JobsOf(n)

\* A server that has ended well has no requests, and once a job has begun no
\* server runs.
ServerInv ==
  /\ ~failure => \A s \in Server : server[s] \in {"none", "ended"} => \A w \in Work : place[w] # s
  /\ (\E j \in Job : Begun(j)) =>
       /\ stage = "returned"
       /\ \A s \in Server : server[s] # "up" /\ \A w \in Work : place[w] # s

\* What is left when drain_parallel has been done.
Quiet ==
  \A w \in Work : Active(w) => w \in loose /\ place[w] \in {"source", "timer", "response", "parallel"}

\* Timers and responses are loose, parallel calls are registered, and what a job
\* that is done has closed stays empty.
GraphInv ==
  /\ \A w \in Work : place[w] \in {"timer", "response"} => w \in loose
  /\ \A w \in Work : place[w] = "parallel" => w \in registry \cup taken
  /\ "source" \in closed => \A w \in Work : place[w] = "source" => w \in loose
  /\ \A j \in Job : Done(j) =>
       /\ Kind[j] = "source" => "source" \in closed
       /\ Kind[j] = "pool" => "pool" \in closed /\ \A w \in Work : place[w] # "pool"
       /\ Kind[j] = "parallel" => Quiet

Inv ==
  /\ TypeOK /\ StartInv /\ CallInv /\ ProgressInv
  /\ \A j \in Job : JobInv(j)
  /\ ServerInv /\ GraphInv
-----------------------------------------------------------------------------
(* What each conjunct depends on.                                          *)

LEMMA InvParts ==
  Inv => /\ CallType /\ JobType /\ GraphType /\ StartInv /\ CallInv /\ ProgressInv
         /\ (\A j \in Job : JobInv(j)) /\ ServerInv /\ GraphInv
BY Zenon DEF Inv, TypeOK

LEMMA CallTypeFrame ==
  CallType /\ UNCHANGED <<state, stage, server, holder, pc, failure>> => CallType'
BY Zenon DEF CallType

LEMMA JobTypeFrame == JobType /\ UNCHANGED <<phase, pos, completed, task, running>> => JobType'
BY Zenon DEF JobType

LEMMA GraphTypeFrame == GraphType /\ UNCHANGED <<place, loose>> => GraphType'
BY Zenon DEF GraphType

LEMMA StartFrame == StartInv /\ UNCHANGED <<state, stage, server>> => StartInv'
BY Zenon DEF StartInv

LEMMA CallFrame ==
  CallInv /\ UNCHANGED <<state, server, holder, pc, failure, phase>> => CallInv'
BY DEF CallInv

LEMMA ProgressFrame ==
  ProgressInv /\ UNCHANGED <<state, stage, server, phase, pos, completed>> => ProgressInv'
BY Zenon DEF ProgressInv

LEMMA JobFrame ==
  (\A j \in Job : JobInv(j)) /\ UNCHANGED <<phase, completed, task, running>> => \A j \in Job : JobInv(j)'
BY Zenon DEF JobInv, Begun

LEMMA ServerFrame ==
  ServerInv /\ UNCHANGED <<stage, server, failure, completed, task, place>> => ServerInv'
BY DEF ServerInv, Begun

LEMMA GraphFrame ==
  GraphInv /\ UNCHANGED <<completed, task, place, loose, closed, registry, taken>> => GraphInv'
BY Zenon DEF GraphInv, Done, Quiet, Active

LEMMA Whole ==
  /\ CallType' /\ JobType' /\ GraphType' /\ StartInv' /\ CallInv' /\ ProgressInv'
  /\ (\A j \in Job : JobInv(j)') /\ ServerInv' /\ GraphInv'
  => Inv'
BY Zenon DEF Inv, TypeOK

LEMMA InitInv == Init => Inv
<1> SUFFICES ASSUME Init PROVE Inv
  BY Zenon
<1>1. CallType
  BY Zenon DEF Init, CallType, Over, Server
<1>2. JobType
  BY DEF Init, JobType
<1>3. GraphType
  BY Zenon DEF Init, GraphType
<1>4. StartInv
  BY Zenon DEF Init, StartInv, Launch, Server
<1>5. CallInv
  BY AppAssumption, Zenon DEF Init, CallInv, Locked, Stopping
<1>6. ProgressInv
  BY DEF Init, ProgressInv, Phase
<1>7. ASSUME NEW j \in Job PROVE JobInv(j)
  BY Zenon DEF Init, JobInv, Begun, Underway
<1>8. ServerInv
  BY Zenon DEF Init, ServerInv, Begun, Server
<1>9. GraphInv
  BY Zenon DEF Init, GraphInv, Done
<1> QED
  BY <1>1, <1>2, <1>3, <1>4, <1>5, <1>6, <1>7, <1>8, <1>9, Zenon DEF Inv, TypeOK
-----------------------------------------------------------------------------
(* start.                                                                  *)

\* Before start returns no call of stop is past its check, and no job is begun.
LEMMA Early ==
  ASSUME CallType, StartInv, CallInv, ServerInv, stage # "returned"
  PROVE  /\ \A c \in Caller : pc[c] \notin Stopping
         /\ stage \in Launch => \A c \in Caller : pc[c] # "ok"
         /\ \A j \in Job : ~Begun(j)
<1>1. state # "Stopping"
  BY Zenon DEF StartInv, CallType, Launch
<1> QED
  BY <1>1, Zenon DEF StartInv, CallInv, ServerInv
LEMMA StartStep == ASSUME Inv, Start PROVE Inv'
<1> DEFINE Rest == <<phase, failure, completed, pos, task, running, holder, place, loose, closed,
                     registry, taken>>
<1>p. /\ CallType /\ JobType /\ GraphType /\ StartInv /\ CallInv /\ ProgressInv
      /\ (\A j \in Job : JobInv(j)) /\ ServerInv /\ GraphInv
  BY InvParts, Zenon
<1>1. /\ UNCHANGED Rest /\ state' \in {"Starting", "Running"}
      /\ stage' \in Launch \cup {"returned"}
      /\ stage # "returned" /\ (stage \in Launch \/ state = "Created")
  BY <1>p, Zenon DEF Start, StartBegin, StartGraph, StartSinks, StartSources, StartGrpcServer,
     StartHttpServer, StartDone, StartFails, StartDropped, Starting, StartInv, Launch,
     progressVars, jobVars, callVars, graphVars
<1>2. server' = server
      \/ (stage = "grpc" /\ stage' = "http" /\ \E s \in {"none", "up"} : server' = [server EXCEPT !["grpc"] = s])
      \/ (stage = "http" /\ stage' = "started" /\ server' = [server EXCEPT !["http"] = "up"])
  BY Zenon DEF Start, StartBegin, StartGraph, StartSinks, StartSources, StartGrpcServer,
     StartHttpServer, StartDone, StartFails, StartDropped, serverVars
<1>3. pc' = pc \/ (pc[Starter] = "idle" /\ pc' = [pc EXCEPT ![Starter] = "lock"])
  BY Zenon DEF Start, StartBegin, StartGraph, StartSinks, StartSources, StartGrpcServer,
     StartHttpServer, StartDone, StartFails, StartDropped, callVars
<1>4. /\ \A c \in Caller : pc[c] \notin Stopping
      /\ stage \in Launch => \A c \in Caller : pc[c] # "ok"
      /\ \A j \in Job : ~Begun(j)
  BY <1>p, <1>1, Early, Zenon
<1>5. \A c \in Caller : pc[c] # "ok"
  BY <1>p, <1>1, <1>4, Zenon DEF CallInv
<1>6. server' \in [Server -> {"none", "up", "ended", "err"}]
  BY <1>p, <1>2, Zenon DEF CallType, Server
<1>7. pc' \in [Caller -> Over \cup {"lock"} \cup Locked]
  BY <1>p, <1>3, Zenon DEF CallType
<1>8. CallType'
  BY <1>p, <1>1, <1>6, <1>7, Zenon DEF CallType
<1>9. StartInv'
  <2>1. /\ stage' \in Launch => state' = "Starting"
        /\ stage' = "returned" => state' = "Running"
    BY <1>p, Zenon DEF Start, StartBegin, StartGraph, StartSinks, StartSources, StartGrpcServer,
       StartHttpServer, StartDone, StartFails, StartDropped, Starting, StartInv, Launch
  <2>2. stage' \in {"graph", "sinks", "sources", "grpc"}
          => stage \in {"none", "graph", "sinks", "sources", "grpc"} /\ UNCHANGED server
    BY <1>p, Zenon DEF Start, StartBegin, StartGraph, StartSinks, StartSources, StartGrpcServer,
       StartHttpServer, StartDone, StartFails, StartDropped, StartInv, serverVars
  <2> QED
    BY <1>p, <1>1, <2>1, <2>2, Zenon DEF StartInv, Launch
<1>10. CallInv'
  <2>1. \A c \in Caller : (pc'[c] \in Locked <=> pc[c] \in Locked) /\ pc'[c] \notin Stopping /\ pc'[c] # "ok"
    BY <1>p, <1>3, <1>4, <1>5, AppAssumption DEF CallType, Locked, Stopping
  <2>2. \A c \in Caller : pc'[c] \in Locked <=> holder' = c
    BY <1>p, <1>1, <2>1, Zenon DEF CallInv
  <2> QED
    BY <2>1, <2>2, Zenon DEF CallInv, Stopping
<1>11. ProgressInv'
  BY <1>p, <1>1, Zenon DEF ProgressInv
<1>12. ServerInv'
  <2>1. \A j \in Job : ~Begun(j)'
    BY <1>1, <1>4, Zenon DEF Begun
  <2>2. ASSUME ~failure, NEW s \in Server, server'[s] \in {"none", "ended"}, NEW w \in Work
        PROVE  place[w] # s
    <3>1. server[s] \in {"none", "ended"}
      BY <1>p, <1>2, <2>2, Zenon DEF CallType, StartInv, Server
    <3> QED
      BY <1>p, <2>2, <3>1, Zenon DEF ServerInv
  <2> QED
    BY <1>1, <2>1, <2>2, Zenon DEF ServerInv
<1> QED
  BY <1>p, <1>1, <1>8, <1>9, <1>10, <1>11, <1>12, JobTypeFrame, GraphTypeFrame, JobFrame,
     GraphFrame, Whole, Zenon
-----------------------------------------------------------------------------
(* The work of the graph.                                                  *)

\* A job whose phase has come: a job of each kind that goes before is completed.
LEMMA Earlier ==
  ASSUME JobType, ProgressInv, NEW j \in Job, JobInv(j), Begun(j), NEW k, Before(k, Kind[j])
  PROVE  \E i \in Job : Kind[i] = k /\ i \in completed
<1>1. PICK n \in Phase : n <= phase /\ j \in JobsOf(n)
  BY Zenon DEF JobInv
<1>2. PICK m \in 1..(n - 1) : \E i \in JobsOf(m) : Kind[i] = k
  BY <1>1, Zenon DEF Before
<1>3. m \in Phase /\ m < phase
  BY <1>1, <1>2 DEF Phase, JobType
<1>4. JobsOf(m) \subseteq completed
  BY <1>3, Zenon DEF ProgressInv
<1> QED
  BY <1>2, <1>4, Zenon DEF JobType

\* What holds when the parallel job has begun.
LEMMA Settled ==
  ASSUME Inv, NEW j \in Job, Begun(j), Kind[j] = "parallel"
  PROVE  /\ "source" \in closed /\ "pool" \in closed
         /\ \A w \in Work : place[w] = "source" => w \in loose
         /\ \A w \in Work : place[w] # "pool"
         /\ \A s \in Server : server[s] # "up" /\ \A w \in Work : place[w] # s
<1>p. JobType /\ ProgressInv /\ JobInv(j) /\ ServerInv /\ GraphInv
  BY InvParts, Zenon
<1>1. PICK i \in Job : Kind[i] = "source" /\ i \in completed
  BY <1>p, PhasesAssumption, Earlier, Zenon
<1>2. PICK k \in Job : Kind[k] = "pool" /\ k \in completed
  BY <1>p, PhasesAssumption, Earlier, Zenon
<1>3. Done(i) /\ Done(k)
  BY <1>1, <1>2, Zenon DEF Done
<1>4. "source" \in closed /\ "pool" \in closed /\ \A w \in Work : place[w] # "pool"
  BY <1>p, <1>1, <1>2, <1>3, Zenon DEF GraphInv
<1> QED
  BY <1>p, <1>4, Zenon DEF GraphInv, ServerInv
\* What a step of the graph leaves alone.
LEMMA GraphOnly ==
  ASSUME Inv, UNCHANGED <<startVars, serverVars, progressVars, jobVars, callVars>>,
         GraphType', ServerInv', GraphInv'
  PROVE  Inv'
<1>1. UNCHANGED <<state, stage, server, phase, failure, completed, task, running, holder, pos, pc>>
  BY Zenon DEF startVars, serverVars, progressVars, jobVars, callVars
<1> QED
  BY <1>1, InvParts, CallTypeFrame, JobTypeFrame, StartFrame, CallFrame, ProgressFrame, JobFrame, Whole, Zenon

LEMMA AdmitStep == ASSUME Inv, NEW w \in Work, Admit(w) PROVE Inv'
<1>p. GraphType /\ ServerInv /\ GraphInv /\ CallType
  BY InvParts, Zenon
<1>1. /\ UNCHANGED <<stage, server, failure, completed, task, loose, closed, registry, taken>>
      /\ UNCHANGED <<startVars, serverVars, progressVars, jobVars, callVars>>
  BY Zenon DEF Admit, startVars, serverVars, progressVars, jobVars
<1>2. PICK p \in {"source"} \cup Server :
        /\ place' = [place EXCEPT ![w] = p]
        /\ p = "source" => "source" \notin closed
        /\ p \in Server => server[p] = "up"
  BY DEF Admit, Server
<1>3. /\ GraphType'
      /\ \A v \in Work : place'[v] = IF v = w THEN p ELSE place[v]
  BY <1>p, <1>1, <1>2, Zenon DEF GraphType
<1>4. ServerInv'
  BY <1>p, <1>1, <1>2, <1>3, Zenon DEF ServerInv, Begun, Server
<1>5. GraphInv'
  <2>1. ASSUME NEW j \in Job, Done(j), Kind[j] = "parallel" PROVE FALSE
    BY <1>2, <2>1, Settled, Zenon DEF Done, Begun
  <2> QED
    BY <1>p, <1>1, <1>2, <1>3, <2>1, Zenon DEF GraphInv, Done, Server
<1> QED
  BY <1>1, <1>3, <1>4, <1>5, GraphOnly, Zenon

LEMMA SpawnStep ==
  ASSUME Inv, NEW w \in Work, NEW v \in Work, NEW p \in {"pool", "parallel", "timer", "response"},
         Spawn(w, v, p)
  PROVE  Inv'
<1>p. GraphType /\ ServerInv /\ GraphInv
  BY InvParts, Zenon
<1>1. /\ UNCHANGED <<stage, server, failure, completed, task, closed, taken>>
      /\ UNCHANGED <<startVars, serverVars, progressVars, jobVars, callVars>>
  BY Zenon DEF Spawn, startVars, serverVars, progressVars, jobVars
<1>2. /\ GraphType'
      /\ \A u \in Work : place'[u] = IF u = v THEN p ELSE place[u]
  BY <1>p, Zenon DEF GraphType, Spawn
<1>3. /\ loose \subseteq loose' /\ registry \subseteq registry' /\ p \notin closed
      /\ p \in {"timer", "response"} \/ w \in loose => v \in loose'
      /\ p = "parallel" => v \in registry'
  BY Zenon DEF Spawn
<1>4. ServerInv'
  BY <1>p, <1>1, <1>2, Zenon DEF ServerInv, Begun, Server
<1>5. ASSUME NEW j \in Job, Done(j), Kind[j] = "parallel" PROVE Quiet'
  <2>1. Quiet /\ w \in loose
    BY <1>p, <1>5, Zenon DEF GraphInv, Quiet, Spawn
  <2>2. p # "pool"
    BY <1>3, <1>5, Settled, Zenon DEF Done, Begun
  <2> QED
    BY <1>2, <1>3, <2>1, <2>2, Zenon DEF Quiet, Active
<1>6. GraphInv'
  BY <1>p, <1>1, <1>2, <1>3, <1>5, Zenon DEF GraphInv, Done
<1> QED
  BY <1>1, <1>2, <1>4, <1>6, GraphOnly, Zenon

LEMMA FinishStep == ASSUME Inv, NEW w \in Work, Finish(w) PROVE Inv'
<1>p. GraphType /\ ServerInv /\ GraphInv
  BY InvParts, Zenon
<1>1. /\ UNCHANGED <<stage, server, failure, completed, task, closed>>
      /\ UNCHANGED <<startVars, serverVars, progressVars, jobVars, callVars>>
  BY Zenon DEF Finish, startVars, serverVars, progressVars, jobVars
<1>2. /\ GraphType'
      /\ \A v \in Work : place'[v] = IF v = w THEN "new" ELSE place[v]
      /\ loose' = loose \ {w} /\ registry' = registry \ {w} /\ taken' = taken \ {w}
  BY <1>p, Zenon DEF GraphType, Finish
<1>3. ServerInv'
  BY <1>p, <1>1, <1>2, Zenon DEF ServerInv, Begun, Server
<1>4. Quiet => Quiet'
  BY <1>2, Zenon DEF Quiet, Active
<1>5. GraphInv'
  BY <1>p, <1>1, <1>2, <1>4, Zenon DEF GraphInv, Done
<1> QED
  BY <1>1, <1>2, <1>3, <1>5, GraphOnly, Zenon

LEMMA WorkSteps == ASSUME Inv, WorkStep PROVE Inv'
BY AdmitStep, SpawnStep, FinishStep, Zenon DEF WorkStep
-----------------------------------------------------------------------------
(* The tasks that the shutdown owns.                                       *)

LEMMA ServerEndsStep == ASSUME Inv, NEW s \in Server, ServerEnds(s) PROVE Inv'
<1>p. CallType /\ JobType /\ GraphType /\ StartInv /\ CallInv /\ ProgressInv
      /\ (\A j \in Job : JobInv(j)) /\ ServerInv /\ GraphInv
  BY InvParts, Zenon
<1>1. /\ UNCHANGED <<state, stage, phase, failure, completed, pos, task, running, holder, pc>>
      /\ UNCHANGED <<place, loose, closed, registry, taken>>
  BY Zenon DEF ServerEnds, startVars, progressVars, jobVars, callVars, graphVars
<1>2. PICK e \in {"ended", "err"} :
        /\ server' = [server EXCEPT ![s] = e]
        /\ e = "ended" => \A w \in Work : place[w] # s
  BY Zenon DEF ServerEnds
<1>3. /\ server[s] = "up"
      /\ server' \in [Server -> {"none", "up", "ended", "err"}]
      /\ \A t \in Server : server'[t] = IF t = s THEN e ELSE server[t]
  BY <1>p, <1>2, Zenon DEF ServerEnds, CallType
<1>4. CallType'
  BY <1>p, <1>1, <1>3, Zenon DEF CallType
<1>5. StartInv'
  BY <1>p, <1>1, <1>3, Zenon DEF StartInv, Server
<1>6. CallInv'
  BY <1>p, <1>1, <1>3, Zenon DEF CallInv, Server
<1>7. ProgressInv'
  BY <1>p, <1>1, <1>3, Zenon DEF ProgressInv
<1>8. ServerInv'
  BY <1>p, <1>1, <1>2, <1>3, Zenon DEF ServerInv, Begun
<1> QED
  BY <1>p, <1>1, <1>4, <1>5, <1>6, <1>7, <1>8, JobTypeFrame, GraphTypeFrame, JobFrame,
     GraphFrame, Whole, Zenon

\* A task goes on to t: the operation of the job stays, or ends with the task.
LEMMA TaskGoesOn ==
  ASSUME Inv, NEW j \in Job, task[j] \in Underway, NEW t \in {"ok", "ctx", "failed"} \cup Underway,
         task' = [task EXCEPT ![j] = t],
         running' = IF t \in Underway THEN running ELSE [running EXCEPT ![j] = @ - 1],
         UNCHANGED <<startVars, serverVars, progressVars, callVars, place>>, loose' \subseteq Work,
         GraphInv'
  PROVE  Inv'
<1>p. CallType /\ JobType /\ GraphType /\ StartInv /\ CallInv /\ ProgressInv
      /\ (\A i \in Job : JobInv(i)) /\ ServerInv
  BY InvParts, Zenon
<1>1. UNCHANGED <<state, stage, server, phase, failure, completed, pos, holder, pc, place>>
  BY Zenon DEF startVars, serverVars, progressVars, callVars
<1>2. \A i \in Job : task'[i] = IF i = j THEN t ELSE task[i]
  BY <1>p, Zenon DEF JobType
<1>3. running[j] = 1 /\ j \notin completed
  BY <1>p, Zenon DEF JobInv, Underway
<1>4. \A i \in Job : running'[i] = IF i = j THEN (IF t \in Underway THEN 1 ELSE 0) ELSE running[i]
  BY <1>p, <1>3 DEF JobType
<1>5. \A i \in Job : Begun(i)' <=> Begun(i)
  BY <1>1, <1>2, Zenon DEF Begun, Underway
<1>6. JobType'
  BY <1>p, <1>1, <1>4 DEF JobType
<1>7. GraphType'
  BY <1>p, <1>1, Zenon DEF GraphType
<1>8. ASSUME NEW i \in Job PROVE JobInv(i)'
  BY <1>p, <1>1, <1>2, <1>3, <1>4, <1>5 DEF JobInv
<1>9. ServerInv'
  BY <1>p, <1>1, <1>5, Zenon DEF ServerInv
<1> QED
  BY <1>p, <1>1, <1>6, <1>7, <1>8, <1>9, CallTypeFrame, StartFrame, CallFrame, ProgressFrame, Whole, Zenon
LEMMA DoneAfter ==
  ASSUME JobType, NEW j \in Job, NEW t, task' = [task EXCEPT ![j] = t], UNCHANGED completed
  PROVE  \A i \in Job : Done(i)' => Done(i) \/ (i = j /\ t = "ok")
BY Zenon DEF JobType, Done

LEMMA QuietGrows ==
  ASSUME GraphType, UNCHANGED place, loose \subseteq loose', Quiet
  PROVE  Quiet'
BY Zenon DEF Quiet, Active

LEMMA JobBeginsStep == ASSUME Inv, NEW j \in Job, JobBegins(j) PROVE Inv'
<1>p. JobType /\ GraphType /\ GraphInv
  BY InvParts, Zenon
<1>1. /\ task[j] = "spawned" /\ task' = [task EXCEPT ![j] = "begun"]
      /\ UNCHANGED <<startVars, serverVars, progressVars, callVars, completed, running, place, loose,
                     registry, taken>>
      /\ closed \subseteq closed' /\ ("source" \in closed' => "source" \in closed)
  BY Zenon DEF JobBegins, progressVars
<1>2. \A i \in Job : Done(i)' => Done(i)
  BY <1>p, <1>1, Zenon DEF JobType, Done
<1>3. Quiet => Quiet'
  BY <1>p, <1>1, QuietGrows, Zenon
<1>4. GraphInv'
  BY <1>p, <1>1, <1>2, <1>3, Zenon DEF GraphInv
<1> QED
  BY <1>p, <1>1, <1>4, TaskGoesOn, Zenon DEF Underway, GraphType

\* What Ends does, whatever the operation has done to its kind.
LEMMA EndsStep ==
  ASSUME Inv, NEW j \in Job, NEW r \in {"ok", "ctx", "failed"}, Ends(j, r), GraphInv'
  PROVE  Inv'
<1>p. GraphType
  BY InvParts, Zenon
<1>1. /\ task[j] = "begun" /\ task' = [task EXCEPT ![j] = r]
      /\ running' = [running EXCEPT ![j] = @ - 1]
      /\ UNCHANGED <<startVars, serverVars, progressVars, callVars, place, loose>>
  BY Zenon DEF Ends
<1> QED
  BY <1>p, <1>1, TaskGoesOn, Zenon DEF Underway, GraphType

LEMMA EndsFacts ==
  ASSUME Inv, NEW j \in Job, NEW r, Ends(j, r)
  PROVE  /\ UNCHANGED <<place, loose, registry, taken>>
         /\ (Quiet => Quiet') /\ Begun(j)
         /\ \A i \in Job : Done(i)' => Done(i) \/ (i = j /\ r = "ok")
<1>p. JobType /\ GraphType
  BY InvParts, Zenon
<1>1. /\ task[j] = "begun" /\ task' = [task EXCEPT ![j] = r]
      /\ UNCHANGED <<completed, place, loose, registry, taken>>
  BY Zenon DEF Ends, progressVars
<1> QED
  BY <1>p, <1>1, QuietGrows, DoneAfter, Zenon DEF Begun

LEMMA JobEndsStep ==
  ASSUME Inv, NEW j \in Job, JobOk(j) \/ JobCancelled(j) \/ JobFails(j) \/ DrainDone(j)
  PROVE  Inv'
<1>p. GraphInv /\ GraphType
  BY InvParts, Zenon
<1>1. CASE JobOk(j)
  <2>1. Ends(j, "ok") /\ closed' = closed \cup {Kind[j]} /\ Kind[j] # "parallel"
        /\ \A w \in Work : place[w] # Kind[j]
    BY <1>1, Zenon DEF JobOk
  <2>2. /\ UNCHANGED <<place, loose, registry, taken>>
        /\ (Quiet => Quiet')
        /\ \A i \in Job : Done(i)' => Done(i) \/ i = j
    BY <2>1, EndsFacts, Zenon
  <2>3. GraphInv'
    BY <1>p, <2>1, <2>2, Zenon DEF GraphInv
  <2> QED
    BY <2>1, <2>3, EndsStep, Zenon
<1>2. CASE JobCancelled(j) \/ JobFails(j)
  <2>1. PICK r \in {"ctx", "failed"} : Ends(j, r) /\ UNCHANGED closed
    BY <1>2, Zenon DEF JobCancelled, JobFails
  <2>2. /\ UNCHANGED <<place, loose, registry, taken>>
        /\ (Quiet => Quiet')
        /\ \A i \in Job : Done(i)' => Done(i)
    BY <2>1, EndsFacts, Zenon
  <2>3. GraphInv'
    BY <1>p, <2>1, <2>2, Zenon DEF GraphInv
  <2> QED
    BY <2>1, <2>3, EndsStep, Zenon
<1>3. CASE DrainDone(j)
  <2>1. Ends(j, "ok") /\ UNCHANGED closed /\ Kind[j] = "parallel" /\ registry = {} /\ taken = {}
    BY <1>3, Zenon DEF DrainDone
  <2>2. /\ UNCHANGED <<place, loose, registry, taken>>
        /\ Begun(j)
        /\ \A i \in Job : Done(i)' => Done(i) \/ i = j
    BY <2>1, EndsFacts, Zenon
  <2>3. Quiet
    <3>1. /\ \A w \in Work : place[w] = "source" => w \in loose
          /\ \A w \in Work : place[w] # "pool"
          /\ \A s \in Server : \A w \in Work : place[w] # s
      BY <2>1, <2>2, Settled, Zenon
    <3>2. \A w \in Work : place[w] # "parallel"
      BY <1>p, <2>1, Zenon DEF GraphInv
    <3> QED
      BY <1>p, <3>1, <3>2, Zenon DEF Quiet, Active, GraphInv, GraphType
  <2>4. Quiet'
    BY <1>p, <2>2, <2>3, QuietGrows, Zenon
  <2>5. GraphInv'
    BY <1>p, <2>1, <2>2, <2>4, Zenon DEF GraphInv
  <2> QED
    BY <2>1, <2>5, EndsStep, Zenon
<1> QED
  BY <1>1, <1>2, <1>3, Zenon

LEMMA JobCutStep == ASSUME Inv, NEW j \in Job, JobCut(j) PROVE Inv'
<1>p. JobType /\ GraphType /\ GraphInv
  BY InvParts, Zenon
<1>1. /\ task[j] = "begun" /\ task' = [task EXCEPT ![j] = "ok"]
      /\ running' = [running EXCEPT ![j] = @ - 1]
      /\ UNCHANGED <<startVars, serverVars, progressVars, callVars, completed, place, registry, taken>>
      /\ loose' = loose \cup {w \in Work : place[w] = "source"}
      /\ closed' = closed \cup {"source"} /\ Kind[j] = "source"
  BY Zenon DEF JobCut, progressVars
<1>2. \A i \in Job : Done(i)' => Done(i) \/ i = j
  BY <1>p, <1>1, DoneAfter, Zenon
<1>3. Quiet => Quiet'
  BY <1>p, <1>1, QuietGrows, Zenon
<1>4. GraphInv'
  BY <1>p, <1>1, <1>2, <1>3, Zenon DEF GraphInv
<1> QED
  BY <1>p, <1>1, <1>4, TaskGoesOn, Zenon DEF Underway, GraphType

LEMMA DrainTakeStep == ASSUME Inv, NEW j \in Job, DrainTake(j) PROVE Inv'
<1>p. GraphType /\ ServerInv /\ GraphInv
  BY InvParts, Zenon
<1>1. /\ UNCHANGED <<stage, server, failure, completed, task, place, loose, closed>>
      /\ UNCHANGED <<startVars, serverVars, progressVars, jobVars, callVars>>
      /\ taken = {} /\ taken' = registry
  BY Zenon DEF DrainTake, startVars, serverVars, progressVars, jobVars
<1>2. GraphType' /\ ServerInv'
  BY <1>p, <1>1, GraphTypeFrame, ServerFrame, Zenon
<1>3. GraphInv'
  BY <1>p, <1>1, Zenon DEF GraphInv, Done, Quiet, Active
<1> QED
  BY <1>1, <1>2, <1>3, GraphOnly, Zenon

LEMMA JobSteps == ASSUME Inv, NEW j \in Job, JobStep(j) PROVE Inv'
BY JobBeginsStep, JobEndsStep, JobCutStep, DrainTakeStep, Zenon DEF JobStep
-----------------------------------------------------------------------------
(* stop.                                                                   *)

\* A call that returns leaves no call with the lock.
LEMMA Returns ==
  ASSUME CallType, CallInv, NEW c \in Caller, pc[c] \in Locked, NEW r \in Over, Return(c, r),
         state = "Stopped" \/ r = "ok" => state' = "Stopped"
  PROVE  /\ CallInv' /\ holder' \in Caller \cup {None} /\ pos' = 1
         /\ pc' \in [Caller -> Over \cup {"lock"} \cup Locked]
<1>1. /\ pc' \in [Caller -> Over \cup {"lock"} \cup Locked]
      /\ \A d \in Caller : pc'[d] = IF d = c THEN r ELSE pc[d]
      /\ holder' = None /\ pos' = 1
  BY Zenon DEF Return, CallType
<1>2. \A d \in Caller : d # c => pc[d] \notin Locked
  BY Zenon DEF CallInv
<1>3. \A d \in Caller : pc'[d] \notin Locked
  BY <1>1, <1>2, Zenon DEF Over, Locked
<1>4. \A d \in Caller : pc'[d] = "ok" => state' = "Stopped"
  BY <1>1, Zenon DEF CallInv
<1> QED
  BY <1>1, <1>3, <1>4, AppAssumption, Zenon DEF CallInv, Locked, Stopping

\* The call that has the lock goes on.
LEMMA GoesOn ==
  ASSUME CallType, CallInv, NEW c \in Caller, pc[c] \in Locked, NEW to \in Stopping,
         pc' = [pc EXCEPT ![c] = to], UNCHANGED holder,
         state # "Stopped", state' = "Stopping", ~failure',
         to \in {"http", "phase", "wait"} => server'["grpc"] = "none",
         to \in {"phase", "wait"} => server'["http"] = "none",
         to = "wait" => phase' \in Phase
  PROVE  CallInv' /\ pc' \in [Caller -> Over \cup {"lock"} \cup Locked]
<1>1. /\ pc' \in [Caller -> Over \cup {"lock"} \cup Locked]
      /\ \A d \in Caller : pc'[d] = IF d = c THEN to ELSE pc[d]
  BY Zenon DEF CallType, Stopping, Locked
<1>2. holder' = c /\ \A d \in Caller : d # c => pc[d] \notin Locked /\ pc[d] # "ok"
  BY Zenon DEF CallInv
<1>3. \A d \in Caller : d # c => pc'[d] \notin Locked /\ pc'[d] \notin Stopping /\ pc'[d] # "ok"
  BY <1>1, <1>2, Zenon DEF Locked, Stopping
<1>4. pc'[c] = to /\ to \in Locked /\ to # "ok"
  BY <1>1, Zenon DEF Locked, Stopping
<1>5. \A d \in Caller : pc'[d] \in Locked <=> holder' = d
  BY <1>2, <1>3, <1>4, Zenon
<1> QED
  BY <1>1, <1>3, <1>4, <1>5, Zenon DEF CallInv, Stopping
\* A step of a call that leaves the servers, the progress and the jobs alone.
LEMMA CallOnly ==
  ASSUME Inv, UNCHANGED <<stage, server, progressVars, task, running, graphVars>>, pos' \in Nat,
         CallType', StartInv', CallInv', ProgressInv'
  PROVE  Inv'
<1>1. UNCHANGED <<stage, server, phase, failure, completed, task, running, place, loose, closed,
                  registry, taken>>
  BY Zenon DEF progressVars, graphVars
<1>2. JobType'
  BY <1>1, InvParts, Zenon DEF JobType
<1> QED
  BY <1>1, <1>2, InvParts, GraphTypeFrame, JobFrame, ServerFrame, GraphFrame, Whole, Zenon

\* A call returns without success, and has changed nothing of the shutdown.
LEMMA ReturnStep ==
  ASSUME Inv, NEW c \in Caller, pc[c] \in Locked, NEW r \in {"idle", "error"}, Return(c, r),
         UNCHANGED <<state, stage, server, progressVars, task, running, graphVars>>
  PROVE  Inv'
<1>p. CallType /\ StartInv /\ CallInv /\ ProgressInv
  BY InvParts, Zenon
<1>1. UNCHANGED <<phase, failure, completed>>
  BY Zenon DEF progressVars
<1>2. /\ CallInv' /\ holder' \in Caller \cup {None} /\ pos' = 1
      /\ pc' \in [Caller -> Over \cup {"lock"} \cup Locked]
  BY <1>p, Returns, Zenon DEF Over
<1>3. CallType'
  BY <1>p, <1>1, <1>2, Zenon DEF CallType
<1>4. StartInv'
  BY <1>p, StartFrame, Zenon
<1>5. ProgressInv'
  BY <1>p, <1>1, <1>2 DEF ProgressInv
<1> QED
  BY <1>2, <1>3, <1>4, <1>5, CallOnly, Zenon

\* A call comes, waits for the lock, gets it, or gives up without it.
LEMMA LockStep ==
  ASSUME Inv, NEW c \in Caller,
         \/ Call(c) \/ Expire(c) \/ Lock(c) \/ LockGivesUp(c)
         \/ (Drop(c) /\ pc[c] = "lock")
  PROVE  Inv'
<1>p. CallType /\ JobType /\ StartInv /\ CallInv /\ ProgressInv
  BY InvParts, Zenon
<1>1. /\ UNCHANGED <<state, stage, server, phase, failure, completed, pos, task, running>>
      /\ UNCHANGED <<progressVars, graphVars>>
  BY Zenon DEF Call, Expire, Lock, LockGivesUp, Drop, startVars, serverVars, progressVars, jobVars
<1>2. \/ /\ pc[c] \in Over \cup {"lock"} /\ UNCHANGED holder
         /\ \E r \in {"idle", "error", "lock"} : pc' = [pc EXCEPT ![c] = r]
      \/ pc[c] = "lock" /\ holder = None /\ holder' = c /\ pc' = [pc EXCEPT ![c] = "check"]
      \/ UNCHANGED <<pc, holder>>
  BY Zenon DEF Call, Expire, Lock, LockGivesUp, Drop
<1>3. CallType'
  BY <1>p, <1>1, <1>2, Zenon DEF CallType, Over, Locked
<1>4. \A d \in Caller : d # c => pc'[d] = pc[d]
  BY <1>p, <1>2, Zenon DEF CallType
<1>5. ASSUME pc[c] \in Over \cup {"lock"}, UNCHANGED holder,
             \E r \in {"idle", "error", "lock"} : pc' = [pc EXCEPT ![c] = r]
      PROVE  CallInv'
  <2>1. pc'[c] \notin Locked /\ pc'[c] \notin Stopping /\ pc'[c] # "ok" /\ pc[c] \notin Locked
    BY <1>p, <1>5, Zenon DEF CallType, Over, Locked, Stopping
  <2>2. \A d \in Caller : pc'[d] \in Locked <=> holder' = d
    BY <1>p, <1>4, <1>5, <2>1, Zenon DEF CallInv
  <2> QED
    BY <1>p, <1>1, <1>4, <2>1, <2>2, Zenon DEF CallInv, Stopping
<1>6. ASSUME pc[c] = "lock", holder = None, holder' = c, pc' = [pc EXCEPT ![c] = "check"]
      PROVE  CallInv'
  <2>1. pc'[c] = "check" /\ \A d \in Caller : pc[d] \notin Locked
    BY <1>p, <1>6, AppAssumption, Zenon DEF CallType, CallInv
  <2>2. \A d \in Caller : pc'[d] \in Locked <=> holder' = d
    BY <1>4, <1>6, <2>1, Zenon DEF Locked
  <2> QED
    BY <1>p, <1>1, <1>4, <2>1, <2>2, Zenon DEF CallInv, Stopping
<1>7. CallInv'
  BY <1>p, <1>1, <1>2, <1>5, <1>6, CallFrame, Zenon
<1> QED
  BY <1>p, <1>1, <1>3, <1>7, StartFrame, ProgressFrame, CallOnly, Zenon DEF JobType

LEMMA CheckStep == ASSUME Inv, NEW c \in Caller, Check(c) PROVE Inv'
<1>p. CallType /\ JobType /\ StartInv /\ CallInv /\ ProgressInv
  BY InvParts, Zenon
<1>1. /\ pc[c] = "check" /\ pc[c] \in Locked
      /\ UNCHANGED <<stage, server, phase, failure, completed, task, running>>
      /\ UNCHANGED <<progressVars, graphVars>>
  BY Zenon DEF Check, Locked, progressVars
<1>2. CASE state \in {"Stopped", "Created"} /\ state' = "Stopped" /\ Return(c, "ok")
  <2>1. /\ CallInv' /\ holder' \in Caller \cup {None} /\ pos' = 1
        /\ pc' \in [Caller -> Over \cup {"lock"} \cup Locked]
    BY <1>p, <1>1, <1>2, Returns, Zenon DEF Over
  <2>2. CallType'
    BY <1>p, <1>1, <1>2, <2>1, Zenon DEF CallType
  <2>3. StartInv'
    BY <1>p, <1>1, <1>2, Zenon DEF StartInv, Launch
  <2>4. ProgressInv'
    BY <1>p, <1>1, <1>2, <2>1 DEF ProgressInv, StartInv
  <2> QED
    BY <1>1, <2>1, <2>2, <2>3, <2>4, CallOnly, Zenon
<1>3. CASE state = "Starting" /\ Return(c, "error") /\ UNCHANGED state
  BY <1>1, <1>3, ReturnStep, Zenon
<1>4. CASE state \in {"Running", "Stopping"} /\ state' = "Stopping"
  <2>1. StartInv'
    BY <1>p, <1>1, <1>4, Zenon DEF StartInv, Launch
  <2>2. CASE failure /\ Return(c, "error")
    <3>1. /\ CallInv' /\ holder' \in Caller \cup {None} /\ pos' = 1
          /\ pc' \in [Caller -> Over \cup {"lock"} \cup Locked]
      BY <1>p, <1>1, <1>4, <2>2, Returns, Zenon DEF Over
    <3>2. CallType'
      BY <1>p, <1>1, <1>4, <3>1, Zenon DEF CallType
    <3>3. ProgressInv'
      BY <1>p, <1>1, <1>4, <3>1 DEF ProgressInv
    <3> QED
      BY <1>1, <2>1, <3>1, <3>2, <3>3, CallOnly, Zenon
  <2>3. CASE ~failure /\ Proceed(c, "grpc")
    <3>1. pc' = [pc EXCEPT ![c] = "grpc"] /\ UNCHANGED <<holder, pos>>
      BY <2>3, Zenon DEF Proceed
    <3>2. CallInv' /\ pc' \in [Caller -> Over \cup {"lock"} \cup Locked]
      BY <1>p, <1>1, <1>4, <2>3, <3>1, GoesOn, Zenon DEF Stopping
    <3>3. CallType'
      BY <1>p, <1>1, <1>4, <3>1, <3>2, Zenon DEF CallType
    <3>4. ProgressInv'
      BY <1>p, <1>1, <1>4, <3>1, Zenon DEF ProgressInv
    <3> QED
      BY <1>p, <1>1, <2>1, <3>1, <3>2, <3>3, <3>4, CallOnly, Zenon DEF JobType
  <2> QED
    BY <1>4, <2>2, <2>3, Zenon DEF Check
<1> QED
  BY <1>2, <1>3, <1>4, Zenon DEF Check

\* What the holder of the lock knows.
LEMMA Going ==
  ASSUME Inv, NEW c \in Caller, pc[c] \in Stopping
  PROVE  /\ pc[c] \in Locked /\ state = "Stopping" /\ stage = "returned" /\ ~failure
         /\ pc[c] \in {"http", "phase", "wait"} => server["grpc"] = "none"
         /\ pc[c] \in {"phase", "wait"} => server["http"] = "none"
         /\ pc[c] = "wait" => phase \in Phase
<1>p. CallType /\ StartInv /\ CallInv
  BY InvParts, Zenon
<1>1. state = "Stopping" /\ ~failure
  BY <1>p, Zenon DEF CallInv
<1>2. stage = "returned"
  BY <1>p, <1>1, Zenon DEF CallType, StartInv, Launch
<1> QED
  BY <1>p, <1>1, <1>2, Zenon DEF CallInv, Locked, Stopping
LEMMA DrainServerStep == ASSUME Inv, NEW c \in Caller, NEW s \in Server, DrainServer(c, s) PROVE Inv'
<1>p. CallType /\ JobType /\ GraphType /\ StartInv /\ CallInv /\ ProgressInv
      /\ (\A j \in Job : JobInv(j)) /\ ServerInv /\ GraphInv
  BY InvParts, Zenon
<1>1. pc[c] = s /\ server[s] # "up" /\ server' = [server EXCEPT ![s] = "none"]
  BY Zenon DEF DrainServer
<1>2. UNCHANGED <<state, stage, phase, completed, task, running, place, loose, closed, registry, taken>>
  BY Zenon DEF DrainServer, startVars, graphVars
<1>3. /\ pc[c] \in Locked /\ state = "Stopping" /\ stage = "returned" /\ ~failure
      /\ s = "http" => server["grpc"] = "none"
  BY <1>1, Going, Zenon DEF Server, Stopping
<1>4. /\ server' \in [Server -> {"none", "up", "ended", "err"}]
      /\ \A t \in Server : server'[t] = IF t = s THEN "none" ELSE server[t]
  BY <1>p, <1>1, Zenon DEF CallType
<1>5. /\ CallInv' /\ holder' \in Caller \cup {None} /\ pos' \in Nat /\ (pos' = 1 \/ pos' = pos)
      /\ pc' \in [Caller -> Over \cup {"lock"} \cup Locked]
      /\ failure' \in BOOLEAN /\ (~failure' => server[s] # "err")
  <2>1. CASE server[s] = "err"
    <3>1. Return(c, "error") /\ failure' = TRUE
      BY <2>1, Zenon DEF DrainServer
    <3> QED
      BY <1>p, <1>2, <1>3, <2>1, <3>1, Returns DEF Over
  <2>2. CASE server[s] # "err"
    <3>1. Proceed(c, IF s = "grpc" THEN "http" ELSE "phase") /\ ~failure' /\ UNCHANGED failure
      BY <1>3, <2>2, Zenon DEF DrainServer
    <3>2. PICK to \in {"http", "phase"} :
            /\ pc' = [pc EXCEPT ![c] = to] /\ UNCHANGED <<holder, pos>>
            /\ to = IF s = "grpc" THEN "http" ELSE "phase"
      BY <3>1, Zenon DEF Proceed
    <3>3. server'["grpc"] = "none" /\ (to = "phase" => server'["http"] = "none")
      BY <1>3, <1>4, <3>2, Zenon DEF Server
    <3>4. CallInv' /\ pc' \in [Caller -> Over \cup {"lock"} \cup Locked]
      BY <1>p, <1>2, <1>3, <3>1, <3>2, <3>3, GoesOn, Zenon DEF Stopping
    <3> QED
      BY <1>p, <2>2, <3>1, <3>2, <3>4, Zenon DEF CallType, JobType
  <2> QED
    BY <2>1, <2>2, Zenon
<1>6. CallType'
  BY <1>p, <1>2, <1>4, <1>5, Zenon DEF CallType
<1>7. JobType'
  BY <1>p, <1>2, <1>5, Zenon DEF JobType
<1>8. StartInv'
  BY <1>p, <1>2, <1>3, Zenon DEF StartInv
<1>9. ProgressInv'
  BY <1>p, <1>2, <1>3, <1>5 DEF ProgressInv
<1>10. ServerInv'
  <2>1. ~failure' => server[s] \in {"none", "ended"}
    BY <1>p, <1>1, <1>5, Zenon DEF CallType
  <2> QED
    BY <1>p, <1>2, <1>3, <1>4, <2>1, Zenon DEF ServerInv, Begun
<1> QED
  BY <1>p, <1>2, <1>5, <1>6, <1>7, <1>8, <1>9, <1>10, GraphTypeFrame, JobFrame, GraphFrame, Whole, Zenon

\* A call gives up a wait, at its deadline or because its future is dropped.
LEMMA GivesUpStep ==
  ASSUME Inv, NEW c \in Caller,
         \/ \E s \in Server : DrainServerGivesUp(c, s)
         \/ \E j \in Job : JobGivenUp(c, j)
         \/ (NextPhase(c) /\ c \in expired)
         \/ (Drop(c) /\ pc[c] # "lock")
  PROVE  Inv'
<1>1. /\ pc[c] \in Locked /\ \E r \in {"idle", "error"} : Return(c, r)
      /\ UNCHANGED <<state, stage, server, progressVars, task, running, graphVars>>
  BY Zenon DEF DrainServerGivesUp, JobGivenUp, Waits, NextPhase, Drop, Server, Locked, startVars, serverVars
<1> QED
  BY <1>1, ReturnStep, Zenon

LEMMA NextPhaseStep == ASSUME Inv, NEW c \in Caller, NextPhase(c), c \notin expired PROVE Inv'
<1> DEFINE new == {j \in JobsOf(phase) : j \notin completed /\ task[j] = "none"}
<1>p. CallType /\ JobType /\ GraphType /\ StartInv /\ CallInv /\ ProgressInv
      /\ (\A j \in Job : JobInv(j)) /\ ServerInv /\ GraphInv
  BY InvParts, Zenon
<1>1. /\ pc[c] = "phase" /\ phase \in Phase
      /\ task' = [j \in Job |-> IF j \in new THEN "spawned" ELSE task[j]]
      /\ running' = [j \in Job |-> IF j \in new THEN running[j] + 1 ELSE running[j]]
      /\ pc' = [pc EXCEPT ![c] = "wait"] /\ UNCHANGED <<holder, pos>>
  BY Zenon DEF NextPhase
<1>2. UNCHANGED <<state, stage, server, phase, failure, completed, place, loose, closed, registry, taken>>
  BY Zenon DEF NextPhase, startVars, serverVars, progressVars, graphVars
<1>3. /\ pc[c] \in Locked /\ state = "Stopping" /\ stage = "returned" /\ ~failure
      /\ server["grpc"] = "none" /\ server["http"] = "none"
  BY <1>1, Going, Zenon DEF Stopping
<1>4. \A j \in Job : task'[j] = IF j \in new THEN "spawned" ELSE task[j]
  BY <1>1, Zenon
<1>5. CallInv' /\ pc' \in [Caller -> Over \cup {"lock"} \cup Locked]
  BY <1>p, <1>1, <1>2, <1>3, GoesOn, Zenon DEF Stopping
<1>6. CallType'
  BY <1>p, <1>1, <1>2, <1>5, Zenon DEF CallType
<1>7. JobType'
  <2>1. task' \in [Job -> {"none", "ok", "ctx", "failed"} \cup Underway]
    BY <1>p, <1>1, Zenon DEF JobType, Underway
  <2>2. running' \in [Job -> Nat]
    BY <1>p, <1>1 DEF JobType
  <2> QED
    BY <1>p, <1>1, <1>2, <2>1, <2>2, Zenon DEF JobType
<1>8. ASSUME NEW j \in Job PROVE JobInv(j)'
  <2>1. CASE j \in new
    <3>1. task[j] = "none" /\ j \notin completed /\ running[j] = 0
      BY <1>p, <2>1, Zenon DEF JobInv, Underway
    <3>2. task'[j] = "spawned" /\ running'[j] = 1 /\ j \in JobsOf(phase)
      BY <1>1, <1>4, <2>1, <3>1
    <3> QED
      BY <1>p, <1>1, <1>2, <3>1, <3>2 DEF JobInv, Underway, JobType
  <2>2. CASE j \notin new
    <3>1. task'[j] = task[j] /\ running'[j] = running[j]
      BY <1>1, <2>2, Zenon
    <3> QED
      BY <1>p, <1>2, <3>1, Zenon DEF JobInv, Begun
  <2> QED
    BY <2>1, <2>2, Zenon
<1>9. ServerInv'
  BY <1>p, <1>2, <1>3, Zenon DEF ServerInv, Server
<1>10. GraphInv'
  <2>1. \A j \in Job : Done(j)' => Done(j)
    BY <1>2, <1>4, Zenon DEF Done
  <2>2. Quiet => Quiet'
    BY <1>p, <1>2, QuietGrows, Zenon
  <2> QED
    BY <1>p, <1>2, <2>1, <2>2, Zenon DEF GraphInv
<1> QED
  BY <1>p, <1>1, <1>2, <1>5, <1>6, <1>7, <1>8, <1>9, <1>10, GraphTypeFrame, StartFrame,
     ProgressFrame, Whole, Zenon

\* The handle of a job that has ended is taken.
LEMMA JobTaken ==
  ASSUME Inv, NEW j \in Job, task[j] \notin Underway, task' = [task EXCEPT ![j] = "none"],
         completed \subseteq completed', completed' \subseteq completed \cup {j},
         Done(j) \/ UNCHANGED completed, UNCHANGED <<stage, server, phase, running, graphVars>>,
         pos' \in Nat, ~failure, failure' \in BOOLEAN, CallType', StartInv', CallInv', ProgressInv'
  PROVE  Inv'
<1>p. JobType /\ GraphType /\ (\A i \in Job : JobInv(i)) /\ ServerInv /\ GraphInv
  BY InvParts, Zenon
<1>1. UNCHANGED <<place, loose, closed, registry, taken>>
  BY Zenon DEF graphVars
<1>2. \A i \in Job : task'[i] = IF i = j THEN "none" ELSE task[i]
  BY <1>p, Zenon DEF JobType
<1>3. \A i \in Job : (Begun(i)' => Begun(i)) /\ (Done(i)' => Done(i))
  BY <1>2 DEF Begun, Done
<1>4. JobType'
  BY <1>p, Zenon DEF JobType
<1>5. ASSUME NEW i \in Job PROVE JobInv(i)'
  BY <1>p, <1>2, <1>3 DEF JobInv, Underway
<1>6. ServerInv'
  BY <1>p, <1>1, <1>3, Zenon DEF ServerInv
<1>7. GraphInv'
  <2>1. Quiet => Quiet'
    BY <1>p, <1>1, QuietGrows, Zenon
  <2> QED
    BY <1>p, <1>1, <1>3, <2>1, Zenon DEF GraphInv
<1> QED
  BY <1>p, <1>1, <1>4, <1>5, <1>6, <1>7, GraphTypeFrame, Whole, Zenon

LEMMA JobErrorStep == ASSUME Inv, NEW c \in Caller, NEW j \in Job, JobError(c, j) PROVE Inv'
<1>p. CallType /\ StartInv /\ CallInv /\ ProgressInv
  BY InvParts, Zenon
<1>1. /\ pc[c] = "wait" /\ task[j] \in {"ctx", "failed"} /\ task' = [task EXCEPT ![j] = "none"]
      /\ failure' \in BOOLEAN /\ Return(c, "error")
      /\ UNCHANGED <<state, stage, server, phase, completed, running, graphVars>>
  BY Zenon DEF JobError, Waits, startVars, serverVars
<1>2. pc[c] \in Locked /\ state = "Stopping" /\ ~failure
  BY <1>1, Going, Zenon DEF Stopping
<1>3. /\ CallInv' /\ holder' \in Caller \cup {None} /\ pos' = 1
      /\ pc' \in [Caller -> Over \cup {"lock"} \cup Locked]
  BY <1>p, <1>1, <1>2, Returns, Zenon DEF Over
<1>4. CallType'
  BY <1>p, <1>1, <1>3, Zenon DEF CallType
<1>5. ProgressInv'
  BY <1>p, <1>1, <1>2, <1>3 DEF ProgressInv
<1>6. StartInv'
  BY <1>p, <1>1, StartFrame, Zenon
<1>7. task[j] \notin Underway
  BY <1>1, Zenon DEF Underway
<1> QED
  BY <1>1, <1>2, <1>3, <1>4, <1>5, <1>6, <1>7, JobTaken, Zenon

LEMMA JobPassedStep == ASSUME Inv, NEW c \in Caller, NEW j \in Job, JobPassed(c, j) PROVE Inv'
<1>p. CallType /\ JobType /\ StartInv /\ CallInv /\ ProgressInv /\ JobInv(j)
  BY InvParts, Zenon
<1>1. /\ pc[c] = "wait" /\ j = Phases[phase][pos] /\ Done(j)
      /\ task' = [task EXCEPT ![j] = "none"] /\ completed' = completed \cup {j} /\ pos' = pos + 1
      /\ UNCHANGED <<state, stage, server, phase, failure, running, holder, pc, graphVars>>
  BY Zenon DEF JobPassed, Waits, Done, startVars, serverVars
<1>2. pc[c] \in Locked /\ state = "Stopping" /\ ~failure
  BY <1>1, Going, Zenon DEF Stopping
<1>3. ProgressInv'
  <2>1. ASSUME NEW i \in 1..Len(Phases[phase]), i < pos + 1, phase \in Phase
        PROVE  Phases[phase][i] \in completed'
    <3>1. CASE i < pos
      BY <1>p, <1>1, <2>1, <3>1, Zenon DEF ProgressInv
    <3>2. CASE i = pos
      BY <1>1, <3>2, Zenon
    <3> QED
      BY <1>p, <2>1, <3>1, <3>2 DEF JobType
  <2>2. \A n \in Phase : n < phase => JobsOf(n) \subseteq completed'
    BY <1>p, <1>1, Zenon DEF ProgressInv
  <2> QED
    BY <1>1, <1>2, <2>1, <2>2, Zenon DEF ProgressInv
<1>4. task[j] \notin Underway
  BY <1>p, <1>1, Zenon DEF Underway, Done, JobInv
<1>5. CallType' /\ StartInv' /\ CallInv'
  BY <1>p, <1>1, CallTypeFrame, StartFrame, CallFrame, Zenon
<1>6. pos' \in Nat /\ failure' \in BOOLEAN
  BY <1>p, <1>1 DEF JobType, CallType
<1> QED
  BY <1>1, <1>2, <1>3, <1>4, <1>5, <1>6, JobTaken, Zenon
LEMMA PhaseDoneStep == ASSUME Inv, NEW c \in Caller, PhaseDone(c) PROVE Inv'
<1>p. CallType /\ JobType /\ GraphType /\ StartInv /\ CallInv /\ ProgressInv
      /\ (\A j \in Job : JobInv(j)) /\ ServerInv /\ GraphInv
  BY InvParts, Zenon
<1>1. /\ pc[c] = "wait" /\ pos > Len(Phases[phase]) /\ phase' = phase + 1 /\ pos' = 1
      /\ pc' = [pc EXCEPT ![c] = "phase"] /\ UNCHANGED holder
  BY Zenon DEF PhaseDone
<1>2. UNCHANGED <<state, stage, server, failure, completed, task, running, place, loose, closed,
                  registry, taken>>
  BY Zenon DEF PhaseDone, startVars, serverVars, jobVars, graphVars
<1>3. /\ pc[c] \in Locked /\ state = "Stopping" /\ ~failure /\ phase \in Phase
      /\ server["grpc"] = "none" /\ server["http"] = "none"
  BY <1>1, Going, Zenon DEF Stopping
<1>4. CallInv' /\ pc' \in [Caller -> Over \cup {"lock"} \cup Locked]
  BY <1>p, <1>1, <1>2, <1>3, GoesOn, Zenon DEF Stopping
<1>5. CallType'
  BY <1>p, <1>1, <1>2, <1>4, Zenon DEF CallType
<1>6. JobType'
  BY <1>p, <1>1, <1>2 DEF JobType
<1>7. ProgressInv'
  <2>1. JobsOf(phase) \subseteq completed
    <3>1. \A i \in 1..Len(Phases[phase]) : i < pos
      BY <1>p, <1>1, <1>3, AppAssumption DEF JobType, Phase
    <3> QED
      BY <1>p, <1>3, <3>1, Zenon DEF ProgressInv, JobsOf
  <2>2. \A n \in Phase : n < phase' => n < phase \/ n = phase
    BY <1>p, <1>1 DEF JobType, Phase
  <2>3. \A n \in Phase : n < phase' => JobsOf(n) \subseteq completed
    BY <1>p, <2>1, <2>2, Zenon DEF ProgressInv
  <2> QED
    BY <1>1, <1>2, <1>3, <2>3 DEF ProgressInv
<1>8. ASSUME NEW j \in Job PROVE JobInv(j)'
  BY <1>p, <1>1, <1>2 DEF JobInv, Begun, JobType, Phase
<1> QED
  BY <1>p, <1>2, <1>4, <1>5, <1>6, <1>7, <1>8, GraphTypeFrame, StartFrame, ServerFrame,
     GraphFrame, Whole, Zenon

LEMMA StopDoneStep == ASSUME Inv, NEW c \in Caller, StopDone(c) PROVE Inv'
<1>p. CallType /\ StartInv /\ CallInv /\ ProgressInv
  BY InvParts, Zenon
<1>1. /\ pc[c] = "phase" /\ phase \notin Phase /\ state' = "Stopped" /\ Return(c, "ok")
      /\ UNCHANGED <<stage, server, phase, failure, completed>>
      /\ UNCHANGED <<progressVars, task, running, graphVars>>
  BY Zenon DEF StopDone, serverVars, progressVars
<1>2. /\ pc[c] \in Locked /\ stage = "returned"
      /\ server["grpc"] = "none" /\ server["http"] = "none"
  BY <1>1, Going, Zenon DEF Stopping
<1>3. /\ CallInv' /\ holder' \in Caller \cup {None} /\ pos' = 1
      /\ pc' \in [Caller -> Over \cup {"lock"} \cup Locked]
  BY <1>p, <1>1, <1>2, Returns, Zenon DEF Over
<1>4. CallType'
  BY <1>p, <1>1, <1>3, Zenon DEF CallType
<1>5. StartInv'
  BY <1>p, <1>1, <1>2, Zenon DEF StartInv, Launch
<1>6. ProgressInv'
  BY <1>p, <1>1, <1>2, <1>3, Zenon DEF ProgressInv, Server
<1> QED
  BY <1>1, <1>3, <1>4, <1>5, <1>6, CallOnly, Zenon

LEMMA StopSteps ==
  ASSUME Inv, NEW c \in Caller, Call(c) \/ Expire(c) \/ StopStep(c) \/ Drop(c)
  PROVE  Inv'
<1>1. CASE Call(c) \/ Expire(c) \/ Lock(c) \/ LockGivesUp(c)
  BY <1>1, LockStep, Zenon
<1>2. CASE Drop(c)
  BY <1>2, LockStep, GivesUpStep, Zenon
<1>3. CASE NextPhase(c)
  BY <1>3, NextPhaseStep, GivesUpStep, Zenon
<1>4. CASE \E s \in Server : DrainServer(c, s) \/ DrainServerGivesUp(c, s)
  BY <1>4, DrainServerStep, GivesUpStep, Zenon
<1>5. CASE \E j \in Job : JobError(c, j) \/ JobPassed(c, j) \/ JobGivenUp(c, j)
  BY <1>5, JobErrorStep, JobPassedStep, GivesUpStep, Zenon
<1>6. CASE Check(c) \/ PhaseDone(c) \/ StopDone(c)
  BY <1>6, CheckStep, PhaseDoneStep, StopDoneStep, Zenon
<1> QED
  BY <1>1, <1>2, <1>3, <1>4, <1>5, <1>6, Zenon DEF StopStep
-----------------------------------------------------------------------------
(* The invariant, and what it gives.                                       *)

LEMMA StutterStep == ASSUME Inv, UNCHANGED vars PROVE Inv'
<1>1. UNCHANGED <<startVars, serverVars, progressVars, jobVars, callVars, place, loose, closed,
                  registry, taken>>
  BY Zenon DEF vars, graphVars
<1>2. UNCHANGED <<stage, server, failure, completed, task>>
  BY <1>1, Zenon DEF startVars, serverVars, progressVars, jobVars
<1> QED
  BY <1>1, <1>2, InvParts, GraphTypeFrame, ServerFrame, GraphFrame, GraphOnly, Zenon

\* The invariant of the service: what a call of stop that has the lock has done
\* so far is done for good, a job runs only when its phase has come, and what has
\* been closed stays empty.
THEOREM AppInv == Spec => []Inv
<1>1. Inv /\ [Next]_vars => Inv'
  BY StartStep, WorkSteps, StopSteps, ServerEndsStep, JobSteps, StutterStep, Zenon DEF Next
<1> QED
  BY <1>1, InitInv, PTL DEF Spec

\* No call of stop of serviceapp.rs starts an operation of a job that is still
\* under way: a job keeps its task until the task has ended.
THEOREM AppJobAlone == Spec => []JobAlone
<1>1. Inv => JobAlone
  BY InvParts DEF JobInv, JobAlone
<1> QED
  BY <1>1, AppInv, PTL

\* When the sinks are told to stop, all that is left of the graph is what comes
\* from a timer, from a response task or from a request that was left behind.
THEOREM AppQuietBeforeSinks == Spec => []QuietBeforeSinks
<1>1. Inv => QuietBeforeSinks
  <2> SUFFICES ASSUME Inv, NEW j \in Job, Kind[j] = "sink", Begun(j) PROVE Quiet
    BY Zenon DEF QuietBeforeSinks, Begun, Quiet
  <2>p. JobType /\ ProgressInv /\ JobInv(j) /\ GraphInv
    BY InvParts, Zenon
  <2>1. PICK i \in Job : Kind[i] = "parallel" /\ i \in completed
    BY <2>p, PhasesAssumption, Earlier, Zenon
  <2> QED
    BY <2>p, <2>1, Zenon DEF GraphInv, Done
<1> QED
  BY <1>1, AppInv, PTL

\* A call of stop that reports success on a service that was started has seen
\* every job of every phase completed, and no server is left.
THEOREM AppOkMeansReleased == Spec => []OkMeansReleased
<1>1. Inv => OkMeansReleased
  <2> SUFFICES ASSUME Inv, stage # "none", NEW c \in Caller, pc[c] = "ok"
               PROVE  /\ \A n \in Phase : JobsOf(n) \subseteq completed
                      /\ \A s \in Server : server[s] # "up"
    BY Zenon DEF OkMeansReleased
  <2>p. JobType /\ ProgressInv /\ CallInv
    BY InvParts, Zenon
  <2>1. phase \notin Phase /\ \A s \in Server : server[s] # "up"
    BY <2>p, Zenon DEF ProgressInv, CallInv
  <2>2. \A n \in Phase : n < phase
    BY <2>p, <2>1, AppAssumption DEF JobType, Phase
  <2> QED
    BY <2>p, <2>1, <2>2, Zenon DEF ProgressInv
<1> QED
  BY <1>1, AppInv, PTL
-----------------------------------------------------------------------------
(* The configuration loader.                                               *)

at == reloader["watch"].pc
candidate == reloader["watch"].candidate

Accepted(f) == L!Accepts(L!Snapshot(f))

LoaderType ==
  /\ link \in Nat /\ writes \in Nat /\ link <= writes /\ events \in Seq(BOOLEAN)
  /\ L!Watching => watched_target \in Nat /\ watched_target <= writes
  /\ reloader \in [Reloader -> [pc : {"idle", "load", "handle", "current", "runtime"},
                                candidate : Files \cup {Absent}]]
  /\ file \in Files /\ published \in Files \ {Absent}

\* An event is left that will be relevant when it is received.
Due == events # <<>> /\ (link # watched_target \/ \E i \in 1 .. Len(events) : events[i])

\* What was written last is still to be noticed, or read, or is the candidate; if
\* not, it was published or cannot be.
WrittenInv ==
  L!Watching /\ written =>
    \/ Due
    \/ at = "load"
    \/ at \in {"handle", "current", "runtime"} /\ candidate = file
    \/ at = "idle" /\ (L!Publishable(file) => published = file)

\* The two stores of a reload, with what they store.
PublishInv ==
  /\ watch_task \in {"none", "ended"} => at = "idle"
  /\ Accepted(published)
  /\ at \in {"handle", "current", "runtime"} => candidate \in Files \ {Absent} /\ Accepted(candidate)
  /\ at = "runtime" => published = candidate
  /\ at # "runtime" => runtime_config = L!RuntimeConfig(L!Snapshot(published))
  /\ \E g \in Files \ {Absent} : Accepted(g) /\ runtime_config = L!RuntimeConfig(L!Snapshot(g))

LoaderInv == LoaderType /\ WrittenInv /\ PublishInv

\* Every reference in what RuntimeConfig::new makes of an accepted configuration
\* resolves.
LEMMA Resolves ==
  ASSUME NEW c, L!Accepts(c), NEW r, r = L!RuntimeConfig(c)
  PROVE  /\ \A e \in DOMAIN r.endpoints_by_id :
              r.endpoints_by_id[e].connector \in DOMAIN r.connectors_by_id
         /\ \A p \in {l.pool : l \in r.links} \cup {r.default_call_semantics} :
              p # Absent => p \in DOMAIN r.pools_by_name
         /\ \A i \in DOMAIN r.streams_by_id :
              r.streams_by_name[r.streams_by_id[i].name] = r.streams_by_id[i]
<1>1. /\ r.endpoints_by_id = L!Index(c.endpoints, "id") /\ r.connectors_by_id = L!Index(c.connectors, "id")
      /\ r.streams_by_id = L!Index(c.streams, "id") /\ r.streams_by_name = L!Index(c.streams, "name")
      /\ r.pools_by_name = L!Pools(c) /\ r.links = L!Range(c.links)
      /\ r.default_call_semantics = c.default_call_semantics
  BY Zenon DEF L!RuntimeConfig
<1>2. ASSUME NEW list, NEW field
      PROVE  /\ \A x \in L!Range(list) : x[field] \in DOMAIN L!Index(list, field)
             /\ \A v \in DOMAIN L!Index(list, field) :
                  L!Index(list, field)[v] \in L!Range(list) /\ L!Index(list, field)[v][field] = v
  BY Zenon DEF L!Index
<1>3. ASSUME NEW e \in DOMAIN r.endpoints_by_id
      PROVE  r.endpoints_by_id[e].connector \in DOMAIN r.connectors_by_id
  <2>1. r.endpoints_by_id[e] \in L!Range(c.endpoints)
    BY <1>1, <1>2, <1>3, Zenon
  <2>2. PICK k \in L!Range(c.connectors) : k["id"] = r.endpoints_by_id[e].connector
    BY <2>1, Zenon DEF L!Accepts, L!EndpointResolves
  <2>3. k["id"] \in DOMAIN L!Index(c.connectors, "id")
    BY <1>2, <2>2, Zenon
  <2> QED
    BY <1>1, <2>2, <2>3, Zenon
<1>4. ASSUME NEW p \in {l.pool : l \in r.links} \cup {r.default_call_semantics}, p # Absent
      PROVE  p \in DOMAIN r.pools_by_name
  <2>1. p \in {l.pool : l \in L!Range(c.links)} \cup {c.default_call_semantics}
    BY <1>1, <1>4, Zenon
  <2>2. p \in L!Referenced(c)
    BY <1>4, <2>1, Zenon DEF L!Referenced
  <2>3. p \in DOMAIN L!Pools(c)
    BY <2>2, Zenon DEF L!Pools
  <2> QED
    BY <1>1, <2>3, Zenon
<1>5. ASSUME NEW i \in DOMAIN r.streams_by_id
      PROVE  r.streams_by_name[r.streams_by_id[i].name] = r.streams_by_id[i]
  <2> DEFINE x == r.streams_by_id[i]
             y == r.streams_by_name[x["name"]]
  <2>1. x \in L!Range(c.streams)
    BY <1>1, <1>2, <1>5, Zenon
  <2>2. x["name"] \in DOMAIN r.streams_by_name
    BY <1>1, <1>2, <2>1, Zenon
  <2>3. y \in L!Range(c.streams) /\ y["name"] = x["name"]
    <3> DEFINE t == L!Index(c.streams, "name")
               v == x["name"]
    <3>1. v \in DOMAIN t /\ y = t[v]
      BY <1>1, <2>2, Zenon
    <3>2. \A u \in DOMAIN t : t[u] \in L!Range(c.streams) /\ t[u]["name"] = u
      BY <1>2
    <3> HIDE DEF t, v, y
    <3>3. y \in L!Range(c.streams) /\ y["name"] = v
      BY <3>1, <3>2, Zenon
    <3> QED
      BY <3>3, Zenon DEF v
  <2>4. L!Unique(c.streams, "name")
    BY Zenon DEF L!Accepts
  <2>5. PICK m \in DOMAIN c.streams : c.streams[m] = x
    BY <2>1, Zenon DEF L!Range
  <2>6. PICK n \in DOMAIN c.streams : c.streams[n] = y
    BY <2>3, Zenon DEF L!Range
  <2> HIDE DEF x, y
  <2>7. m = n
    BY <2>3, <2>4, <2>5, <2>6, Zenon DEF L!Unique
  <2>8. y = x
    BY <2>5, <2>6, <2>7, Zenon
  <2> QED
    BY <2>8, Zenon DEF x, y
<1> QED
  BY <1>3, <1>4, <1>5, Zenon

\* A step of the directory or of the watch: the reload stays where it is.
LEMMA LoaderOutside ==
  ASSUME LoaderInv, L!Start \/ L!Stop \/ L!TaskEnds \/ \E f \in Files : L!Write(f)
  PROVE  LoaderInv'
<1>1. reloader' = reloader /\ published' = published /\ runtime_config' = runtime_config
  BY Zenon DEF L!Start, L!Stop, L!TaskEnds, L!Write, L!published
<1>2. at' = at /\ candidate' = candidate
  BY <1>1, Zenon DEF at, candidate
<1>3. PublishInv'
  <2>1. watch_task' \in {"none", "ended"} => at' = "idle"
    <3>1. ASSUME watch_task' \in {"none", "ended"}
          PROVE  watch_task \in {"none", "ended"} \/ reloader["watch"].pc = "idle"
      BY <3>1, Zenon DEF L!Start, L!Stop, L!TaskEnds, L!Write
    <3> QED
      BY <1>2, <3>1, Zenon DEF LoaderInv, PublishInv, at
  <2> QED
    BY <1>1, <1>2, <2>1, Zenon DEF LoaderInv, PublishInv, Accepted
<1>4. ASSUME NEW f \in Files, L!Write(f) PROVE LoaderInv'
  <2>1. /\ writes' = writes + 1 /\ watch_task' = watch_task /\ watched_target' = watched_target
        /\ writes \in Nat /\ link \in Nat /\ link <= writes /\ events \in Seq(BOOLEAN)
        /\ L!Watching => watched_target \in Nat /\ watched_target <= writes
    BY <1>4, Zenon DEF L!Write, LoaderInv, LoaderType
  <2>2. PICK b \in BOOLEAN :
          /\ events' = IF L!Watching THEN Append(events, b) ELSE events
          /\ \/ file' = f /\ written' = L!Watching /\ IF b THEN link' = link ELSE link' = writes'
             \/ UNCHANGED <<file, link, written>>
    BY <1>4, Zenon DEF L!Write, L!Event
  <2>3. LoaderType'
    <3>1. writes' \in Nat /\ link' \in Nat /\ link' <= writes'
      BY <2>1, <2>2
    <3>2. events' \in Seq(BOOLEAN)
      <4>1. ASSUME NEW S, NEW q \in Seq(S), NEW x \in S PROVE Append(q, x) \in Seq(S)
        OBVIOUS
      <4> QED
        BY <2>1, <2>2, <4>1, Zenon
    <3>3. L!Watching' => watched_target' \in Nat /\ watched_target' <= writes'
      BY <2>1 DEF L!Watching
    <3>4. file' \in Files
      BY <2>2, Zenon DEF LoaderInv, LoaderType
    <3> QED
      BY <1>1, <3>1, <3>2, <3>3, <3>4, Zenon DEF LoaderInv, LoaderType
  <2>4. ASSUME L!Watching
        PROVE  /\ events' # <<>> /\ (b => \E i \in 1 .. Len(events') : events'[i])
               /\ \A i \in 1 .. Len(events) : i \in 1 .. Len(events') /\ events'[i] = events[i]
    <3>1. events' = Append(events, b)
      BY <2>2, <2>4, Zenon
    <3>2. Len(events') = Len(events) + 1 /\ Len(events) \in Nat /\ events'[Len(events) + 1] = b
      BY <2>1, <3>1
    <3>3. \A i \in 1 .. Len(events) : i \in 1 .. Len(events') /\ events'[i] = events[i]
      BY <2>1, <3>1, <3>2
    <3>4. events' # <<>>
      BY <3>2
    <3>5. Len(events) + 1 \in 1 .. Len(events')
      BY <3>2
    <3> QED
      BY <3>2, <3>3, <3>4, <3>5, Zenon
  <2>5. WrittenInv'
    <3> SUFFICES ASSUME L!Watching', written' PROVE WrittenInv'
      BY Zenon DEF WrittenInv
    <3>1. L!Watching
      BY <2>1, Zenon DEF L!Watching
    <3>2. CASE file' = f /\ written' = L!Watching /\ IF b THEN link' = link ELSE link' = writes'
      <4>1. ~b => link' # watched_target'
        BY <2>1, <3>1, <3>2
      <4>2. Due'
        BY <2>4, <3>1, <4>1, Zenon DEF Due
      <4> QED
        BY <4>2, Zenon DEF WrittenInv
    <3>3. CASE UNCHANGED <<file, link, written>>
      <4>1. Due => Due'
        BY <2>1, <2>4, <3>1, <3>3, Zenon DEF Due
      <4>2. L!Publishable(file)' => L!Publishable(file)
        BY <1>1, <3>3, Zenon DEF L!Publishable
      <4> QED
        BY <1>1, <1>2, <3>1, <3>3, <4>1, <4>2, Zenon DEF LoaderInv, WrittenInv
    <3> QED
      BY <2>2, <3>2, <3>3, Zenon
  <2> QED
    BY <1>3, <2>3, <2>5, Zenon DEF LoaderInv
<1>5. ASSUME L!Start PROVE LoaderInv'
  <2>1. /\ watched_target' = link /\ events' = <<>> /\ written' = FALSE
        /\ UNCHANGED <<file, link, writes>>
    BY <1>5, Zenon DEF L!Start, L!fileVars
  <2>2. LoaderType'
    BY <1>1, <2>1 DEF LoaderInv, LoaderType
  <2> QED
    BY <1>3, <2>1, <2>2, Zenon DEF LoaderInv, WrittenInv
<1>6. ASSUME L!Stop \/ L!TaskEnds PROVE LoaderInv'
  <2>1. ~L!Watching' /\ UNCHANGED <<file, link, writes, events>>
    BY <1>6, Zenon DEF L!Stop, L!TaskEnds, L!fileVars, L!Watching
  <2>2. LoaderType'
    BY <1>1, <2>1, Zenon DEF LoaderInv, LoaderType
  <2> QED
    BY <1>3, <2>1, <2>2, Zenon DEF LoaderInv, WrittenInv
<1> QED
  BY <1>4, <1>5, <1>6, Zenon

\* A step of a reload.
LEMMA LoaderReload ==
  ASSUME LoaderInv,
         L!Begin("watch") \/ L!Load("watch") \/ L!Handle("watch") \/ L!StoreCurrent("watch")
           \/ L!StoreRuntime("watch")
  PROVE  LoaderInv'
<1> DEFINE w == "watch"
           Record == [pc : {"idle", "load", "handle", "current", "runtime"}, candidate : Files \cup {Absent}]
<1>1. /\ file' = file /\ link' = link /\ writes' = writes /\ watch_task' = watch_task /\ written' = written
      /\ (L!Watching' <=> L!Watching)
  BY Zenon DEF L!Begin, L!Load, L!Handle, L!StoreCurrent, L!StoreRuntime, L!fileVars, L!Watching
<1>2. reloader \in [Reloader -> Record] /\ w \in Reloader /\ reloader[w] \in Record
  BY LoaderAssumption, Zenon DEF LoaderInv, LoaderType
\* Where a step puts the reload.
<1>3. ASSUME NEW r \in Record, reloader' = [reloader EXCEPT ![w] = r]
      PROVE  reloader' \in [Reloader -> Record] /\ at' = r.pc /\ candidate' = r.candidate
  BY <1>2, <1>3, Zenon DEF at, candidate
<1>4. ASSUME NEW l \in {"load", "current", "runtime"}, reloader' = [reloader EXCEPT ![w].pc = l]
      PROVE  reloader' \in [Reloader -> Record] /\ at' = l /\ candidate' = candidate
  <2> DEFINE r == [reloader[w] EXCEPT !.pc = l]
  <2>1. r \in Record /\ r.pc = l /\ r.candidate = reloader[w].candidate
    BY <1>2, Zenon
  <2>2. reloader' = [reloader EXCEPT ![w] = r]
    BY <1>2, <1>4, Zenon
  <2> HIDE DEF r
  <2> QED
    BY <1>3, <2>1, <2>2, Zenon DEF candidate
<1>5. L!Idle \in Record /\ L!Idle.pc = "idle"
  BY Zenon DEF L!Idle
<1>6. ASSUME reloader' \in [Reloader -> Record], events' = events, watched_target' = watched_target,
             published' \in Files \ {Absent}
      PROVE  LoaderType' /\ (Due => Due')
  BY <1>1, <1>6, Zenon DEF LoaderInv, LoaderType, Due
<1>7. ASSUME published' = published, runtime_config' = runtime_config, at # "runtime", at' # "runtime",
             at' \in {"handle", "current"} => candidate' \in Files \ {Absent} /\ Accepted(candidate'),
             at' = "idle" \/ at # "idle" \/ watch_task \notin {"none", "ended"}
      PROVE  PublishInv'
  <2>1. watch_task' \in {"none", "ended"} => at' = "idle"
    BY <1>1, <1>7, Zenon DEF LoaderInv, PublishInv
  <2> QED
    BY <1>7, <2>1, Zenon DEF LoaderInv, PublishInv, Accepted
<1>8. published \in Files \ {Absent}
  BY Zenon DEF LoaderInv, LoaderType
<1>10. ASSUME L!Begin(w) PROVE LoaderInv'
  <2>1. /\ at = "idle" /\ watch_task \in {"run", "stopping"} /\ events # <<>>
        /\ events' = Tail(events) /\ watched_target' = link
        /\ published' = published /\ runtime_config' = runtime_config
        /\ IF L!Relevant(Head(events)) THEN reloader' = [reloader EXCEPT ![w].pc = "load"]
           ELSE reloader' = reloader
    BY <1>10, Zenon DEF L!Begin, L!At, L!published, at
  <2>2. reloader' \in [Reloader -> Record] /\ at' \in {"idle", "load"}
        /\ IF L!Relevant(Head(events)) THEN at' = "load" ELSE at' = "idle"
    <3>1. CASE L!Relevant(Head(events))
      BY <1>4, <2>1, <3>1, Zenon
    <3>2. CASE ~L!Relevant(Head(events))
      BY <1>2, <2>1, <3>2, Zenon DEF at
    <3> QED
      BY <3>1, <3>2, Zenon
  <2>3. events \in Seq(BOOLEAN) /\ Tail(events) \in Seq(BOOLEAN)
    BY <2>1 DEF LoaderInv, LoaderType
  <2>4. LoaderType'
    <3>1. L!Watching' => watched_target' \in Nat /\ watched_target' <= writes'
      BY <1>1, <2>1, Zenon DEF LoaderInv, LoaderType
    <3> QED
      BY <1>1, <2>1, <2>2, <2>3, <3>1, Zenon DEF LoaderInv, LoaderType
  <2>5. PublishInv'
    <3>1. at # "runtime" /\ at' # "runtime" /\ at' \notin {"handle", "current"}
          /\ watch_task \notin {"none", "ended"}
      BY <2>1, <2>2, Zenon
    <3> QED
      BY <1>7, <2>1, <3>1, Zenon
  <2>6. WrittenInv'
    <3>1. CASE L!Relevant(Head(events))
      BY <2>2, <3>1, Zenon DEF WrittenInv
    <3>2. CASE ~L!Relevant(Head(events))
      <4>1. ~Head(events) /\ link = watched_target
        BY <3>2, Zenon DEF L!Relevant
      <4>2. ASSUME Due PROVE Due'
        <5>1. PICK i \in 1 .. Len(events) : events[i]
          BY <4>1, <4>2, Zenon DEF Due
        <5>2. ASSUME NEW S, NEW q \in Seq(S), NEW k \in 1 .. Len(q)
              PROVE  q[k] = Head(q) \/
                       (k - 1 \in 1 .. Len(Tail(q)) /\ Tail(q)[k - 1] = q[k] /\ Tail(q) # <<>>)
          <6>1. CASE k = 1
            BY <6>1
          <6>2. CASE k # 1
            <7>1. Len(q) \in Nat /\ q # <<>>
              BY <6>2
            <7>2. Tail(q) \in Seq(S) /\ Len(Tail(q)) = Len(q) - 1
              BY <7>1
            <7>3. k - 1 \in 1 .. Len(Tail(q)) /\ Tail(q)[k - 1] = q[k]
              BY <6>2, <7>1, <7>2
            <7>4. Tail(q) # <<>>
              <8>1. Len(Tail(q)) # 0
                <9>1. ASSUME NEW n \in Nat, NEW m \in 1 .. n, m # 1
                      PROVE  n - 1 # 0
                  BY <9>1
                <9>2. Len(q) - 1 # 0
                  BY <6>2, <7>1, <9>1, Zenon
                <9> QED
                  BY <7>2, <9>2, Zenon
              <8>2. Len(<<>>) = 0
                OBVIOUS
              <8> QED
                BY <8>1, <8>2, Zenon
            <7> QED
              BY <7>3, <7>4, Zenon
          <6> QED
            BY <6>1, <6>2, Zenon
        <5>3. i - 1 \in 1 .. Len(Tail(events)) /\ Tail(events)[i - 1] = events[i] /\ Tail(events) # <<>>
          BY <2>3, <4>1, <5>1, <5>2, Zenon
        <5> QED
          BY <2>1, <5>1, <5>3, Zenon DEF Due
      <4>3. at' = "idle" /\ candidate' = candidate
        BY <2>1, <2>2, <3>2, Zenon DEF candidate
      <4>4. L!Publishable(file)' => L!Publishable(file)
        BY <1>1, <2>1, Zenon DEF L!Publishable
      <4>5. ASSUME L!Watching', written'
            PROVE  Due' \/ (at' = "idle" /\ (L!Publishable(file)' => published' = file'))
        BY <1>1, <2>1, <4>2, <4>3, <4>4, <4>5, Zenon DEF LoaderInv, WrittenInv
      <4> QED
        BY <4>5, Zenon DEF WrittenInv
    <3> QED
      BY <3>1, <3>2, Zenon
  <2> QED
    BY <2>4, <2>5, <2>6, Zenon DEF LoaderInv
<1>11. ASSUME L!Load(w) PROVE LoaderInv'
  <2> DEFINE ok == file # Absent /\ L!Accepts(L!Snapshot(file))
             r == IF ok THEN [pc |-> "handle", candidate |-> file] ELSE L!Idle
  <2>1. /\ at = "load" /\ reloader' = [reloader EXCEPT ![w] = r]
        /\ UNCHANGED <<events, watched_target, published, runtime_config>>
    BY <1>11, Zenon DEF L!Load, L!published, at
  <2>2. file \in Files
    BY Zenon DEF LoaderInv, LoaderType
  <2>3. /\ r \in Record /\ (ok => r.pc = "handle" /\ r.candidate = file) /\ (~ok => r.pc = "idle")
    BY <1>5, <2>2, Zenon
  <2> HIDE DEF r
  <2>4. /\ reloader' \in [Reloader -> Record] /\ (ok => at' = "handle" /\ candidate' = file)
        /\ (~ok => at' = "idle")
    BY <1>3, <2>1, <2>3, Zenon
  <2>5. LoaderType'
    BY <1>6, <1>8, <2>1, <2>4, Zenon
  <2>6. PublishInv'
    <3>1. at # "runtime" /\ at # "idle" /\ at' # "runtime"
      BY <2>1, <2>4, Zenon
    <3>2. at' \in {"handle", "current"} => candidate' \in Files \ {Absent} /\ Accepted(candidate')
      BY <2>2, <2>4, Zenon DEF Accepted
    <3> QED
      BY <1>7, <2>1, <3>1, <3>2, Zenon
  <2>7. ~ok => ~L!Publishable(file)'
    BY <1>1, <2>1, Zenon DEF L!Publishable
  <2>8. WrittenInv'
    BY <1>1, <2>4, <2>7, Zenon DEF WrittenInv
  <2> QED
    BY <2>5, <2>6, <2>8, Zenon DEF LoaderInv
<1>12. ASSUME L!Handle(w) PROVE LoaderInv'
  <2> DEFINE ok == L!ValidateReload(L!Snapshot(published), L!Snapshot(candidate))
  <2>1. /\ at = "handle"
        /\ reloader' = IF ok THEN [reloader EXCEPT ![w].pc = "current"] ELSE [reloader EXCEPT ![w] = L!Idle]
        /\ UNCHANGED <<events, watched_target, published, runtime_config>>
    BY <1>12, Zenon DEF L!Handle, L!At, L!published, at, candidate
  <2>2. /\ reloader' \in [Reloader -> Record] /\ (ok => at' = "current" /\ candidate' = candidate)
        /\ (~ok => at' = "idle")
    BY <1>3, <1>4, <1>5, <2>1, Zenon
  <2>3. LoaderType' /\ (Due => Due')
    BY <1>6, <1>8, <2>1, <2>2, Zenon
  <2>4. PublishInv'
    <3>1. at # "runtime" /\ at # "idle" /\ at' # "runtime"
      BY <2>1, <2>2
    <3>2. at' \in {"handle", "current"} => candidate' \in Files \ {Absent} /\ Accepted(candidate')
      BY <2>1, <2>2, Zenon DEF LoaderInv, PublishInv
    <3> QED
      BY <1>7, <2>1, <3>1, <3>2, Zenon
  <2>5. candidate = file /\ ~ok => ~L!Publishable(file)'
    BY <1>1, <2>1, Zenon DEF L!Publishable
  <2>6. ASSUME L!Watching', written' PROVE Due' \/ candidate = file
    BY <1>1, <2>1, <2>3, <2>6, Zenon DEF LoaderInv, WrittenInv
  <2>7. WrittenInv'
    BY <1>1, <2>2, <2>5, <2>6, Zenon DEF WrittenInv
  <2> QED
    BY <2>3, <2>4, <2>7, Zenon DEF LoaderInv
<1>13. ASSUME L!StoreCurrent(w) PROVE LoaderInv'
  <2>1. /\ at = "current" /\ reloader' = [reloader EXCEPT ![w].pc = "runtime"]
        /\ published' = candidate /\ UNCHANGED <<events, watched_target, runtime_config>>
    BY <1>13, Zenon DEF L!StoreCurrent, L!At, at, candidate
  <2>2. reloader' \in [Reloader -> Record] /\ at' = "runtime" /\ candidate' = candidate
    BY <1>4, <2>1, Zenon
  <2>3. candidate \in Files \ {Absent} /\ Accepted(candidate)
    BY <2>1, Zenon DEF LoaderInv, PublishInv
  <2>4. LoaderType' /\ (Due => Due')
    BY <1>6, <2>1, <2>2, <2>3, Zenon
  <2>5. watch_task' \notin {"none", "ended"}
    BY <1>1, <2>1, Zenon DEF LoaderInv, PublishInv
  <2>6. PublishInv'
    BY <2>1, <2>2, <2>3, <2>5, Zenon DEF LoaderInv, PublishInv, Accepted
  <2>7. WrittenInv'
    BY <1>1, <2>1, <2>2, <2>4, Zenon DEF LoaderInv, WrittenInv
  <2> QED
    BY <2>4, <2>6, <2>7, Zenon DEF LoaderInv
<1>14. ASSUME L!StoreRuntime(w) PROVE LoaderInv'
  <2>1. /\ at = "runtime" /\ reloader' = [reloader EXCEPT ![w] = L!Idle]
        /\ runtime_config' = L!RuntimeConfig(L!Snapshot(candidate))
        /\ UNCHANGED <<events, watched_target, published>>
    BY <1>14, Zenon DEF L!StoreRuntime, at, candidate
  <2>2. reloader' \in [Reloader -> Record] /\ at' = "idle"
    BY <1>3, <1>5, <2>1, Zenon
  <2>3. candidate = published /\ Accepted(published)
    BY <2>1, Zenon DEF LoaderInv, PublishInv
  <2>4. LoaderType' /\ (Due => Due')
    BY <1>6, <1>8, <2>1, <2>2, Zenon
  <2>5. PublishInv'
    BY <1>8, <2>1, <2>2, <2>3, Zenon DEF PublishInv, Accepted
  <2>6. WrittenInv'
    BY <1>1, <2>1, <2>2, <2>3, <2>4, Zenon DEF LoaderInv, WrittenInv
  <2> QED
    BY <2>4, <2>5, <2>6, Zenon DEF LoaderInv
<1> QED
  BY <1>10, <1>11, <1>12, <1>13, <1>14, Zenon

LEMMA LoaderStep == ASSUME LoaderInv, [L!Next]_(L!vars) PROVE LoaderInv'
<1>1. CASE UNCHANGED L!vars
  <2>1. LoaderType' /\ WrittenInv'
    BY <1>1, Zenon DEF L!vars, LoaderInv, LoaderType, WrittenInv, L!Watching, L!Publishable, Due, at, candidate
  <2>2. PublishInv'
    BY <1>1, Zenon DEF L!vars, LoaderInv, PublishInv, Accepted, at, candidate
  <2> QED
    BY <2>1, <2>2, Zenon DEF LoaderInv
<1>2. ASSUME L!Next PROVE LoaderInv'
  BY <1>2, LoaderOutside, LoaderReload, LoaderAssumption, Zenon DEF L!Next
<1> QED
  BY <1>1, <1>2, Zenon

LEMMA LoaderInit == ASSUME L!Init PROVE LoaderInv
<1>1. /\ file \in Files \ {Absent} /\ Accepted(file) /\ published = file /\ watch_task = "none"
      /\ runtime_config = L!RuntimeConfig(L!Snapshot(published)) /\ at = "idle" /\ ~written
  BY LoaderAssumption, Zenon DEF L!Init, L!Idle, at, Accepted
<1>2. reloader \in [Reloader -> [pc : {"idle", "load", "handle", "current", "runtime"},
                                 candidate : Files \cup {Absent}]]
  BY Zenon DEF L!Init, L!Idle
<1>3. link \in Nat /\ writes \in Nat /\ link <= writes /\ events \in Seq(BOOLEAN)
  BY DEF L!Init
<1>4. ~L!Watching
  BY <1>1, Zenon DEF L!Watching
<1> QED
  BY <1>1, <1>2, <1>3, <1>4, Zenon DEF LoaderInv, LoaderType, WrittenInv, PublishInv

LEMMA LoaderAlways == L!Spec => []LoaderInv
BY LoaderInit, LoaderStep, PTL DEF L!Spec

\* Whatever the order of the writes, of their events and of the steps of the reloads,
\* when the watch task has nothing left to do the override file as it was last left
\* is published, if it can be.
LEMMA LoaderLastWriteApplied == L!Spec => []L!LastWriteApplied
<1>1. LoaderInv => L!LastWriteApplied
  <2> SUFFICES ASSUME LoaderInv, L!Settled PROVE L!LastWriteApplied
    BY Zenon DEF L!LastWriteApplied
  <2>1. L!Watching /\ ~Due /\ at = "idle"
    BY LoaderAssumption, Zenon DEF L!Settled, Due, at
  <2> QED
    BY <2>1, Zenon DEF LoaderInv, WrittenInv, PublishInv, L!LastWriteApplied
<1> QED
  BY <1>1, LoaderAlways, PTL

\* What is published has passed every check of RuntimeConfig::new, and what it
\* refers to is there: also between the two stores of a reload.
LEMMA LoaderPublishedResolves == L!Spec => []L!PublishedResolves
<1>1. LoaderInv => L!PublishedResolves
  <2> SUFFICES ASSUME LoaderInv PROVE L!PublishedResolves
    BY Zenon
  <2>1. PICK g : Accepted(g) /\ runtime_config = L!RuntimeConfig(L!Snapshot(g))
    BY Zenon DEF LoaderInv, PublishInv
  <2>2. Accepted(published)
    BY Zenon DEF LoaderInv, PublishInv
  <2> QED
    BY <2>1, <2>2, Resolves, ZenonT(40) DEF Accepted, L!PublishedResolves
<1> QED
  BY <1>1, LoaderAlways, PTL

\* Both, for every sequence of configurations and of changes of the directory.
THEOREM LoaderPublishedExact == L!Spec => []PublishedExact
BY LoaderLastWriteApplied, LoaderPublishedResolves, PTL DEF PublishedExact, L!PublishedExact
=============================================================================
