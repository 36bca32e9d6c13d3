-------------------------- MODULE QueuedPoolProofs --------------------------
(***************************************************************************)
(* Theorems about QueuedPool, for every set of tasks and stop calls, every *)
(* set of executor counts and every bound.                                 *)
(***************************************************************************)
EXTENDS QueuedPool, FiniteSetTheorems, TLAPS

-----------------------------------------------------------------------------
(* What the other lemmas use.                                              *)

\* A step that leaves the accepted tasks alone keeps what is known of them.
LEMMA TasksFrame ==
  ASSUME Inv, UNCHANGED <<queue, runs, inbox, job>>,
         \A t \in Task : (call'[t] = "ok") = (call[t] = "ok")
  PROVE  TasksInv'
<1>1. /\ \A e \in queue : e.task \in Task
      /\ \A w \in Worker : job[w] # None => job[w] \in Task
  BY Zenon DEF Inv, TypeOK, ActorType, ExecutorType
<1>2. queue' = queue /\ runs' = runs /\ inbox' = inbox /\ job' = job /\ Queued' = Queued
  BY Zenon DEF Queued
<1> QED
  BY <1>1, <1>2 DEF Inv, TasksInv

\* So does one that leaves the channel and the executors alone.
LEMMA ChanFrame ==
  ASSUME UNCHANGED <<chan, call, inbox, job>>
  PROVE  Working' = Working /\ (ChanInv => ChanInv')
<1>1. chan' = chan /\ call' = call /\ inbox' = inbox /\ job' = job
  BY Zenon
<1> QED
  BY <1>1, ZenonT(40) DEF ChanInv, Working

\* A task in the queue is accepted, has not run and is in no executor.
LEMMA QueuedFacts ==
  ASSUME Inv
  PROVE  \A e \in queue : /\ call[e.task] = "ok" /\ runs[e.task] = 0
                          /\ \A w \in Worker : inbox[w] # <<e.task>>
                          /\ \A f \in queue : f.task = e.task => f = e
BY Zenon DEF Inv, TasksInv

\* An executor has a task that was accepted.
LEMMA ExecutorFacts ==
  ASSUME Inv
  PROVE  \A w \in Worker :
           /\ inbox[w] = <<>> \/ \E t \in Task : /\ inbox[w] = <<t>>
                                                 /\ call[t] = "ok" /\ runs[t] = 0
           /\ job[w] # None => call[job[w]] = "ok" /\ runs[job[w]] = 1
BY Zenon DEF Inv, TasksInv

\* A task is added, and an executor ready, once at a time.
LEMMA ChanFacts ==
  ASSUME Inv
  PROVE  /\ \A i \in 1 .. Len(chan) : \A t \in Task : chan[i] = AddCmd(t) => call[t] = "waiting"
         /\ \A i, j \in 1 .. Len(chan) :
              chan[i] = chan[j] /\ chan[i].type \in {"Add", "Ready"} => i = j
BY Zenon DEF Inv, ChanInv

\* An executor that is ready has nothing to do.
LEMMA ReadyFacts ==
  ASSUME Inv
  PROVE  \A i \in 1 .. Len(chan) : \A w \in Worker :
           chan[i] = ReadyCmd(w) => job[w] = None /\ inbox[w] = <<>>
BY Zenon DEF Inv, ChanInv

\* An accepted task that has not run is in the queue or with an executor.
LEMMA AcceptedFacts ==
  ASSUME Inv, NEW t \in Task, call[t] = "ok", runs[t] = 0
  PROVE  t \in Queued \/ \E w \in Worker : inbox[w] = <<t>>
BY Zenon DEF Inv, TasksInv

\* A task runs at most once, and only when it was accepted.
LEMMA RunsFacts ==
  ASSUME Inv
  PROVE  \A t \in Task : (call[t] # "ok" => runs[t] = 0) /\ runs[t] <= 1
BY Zenon DEF Inv, TasksInv

\* A task whose Add is in the channel waits, and is nowhere in the pool.
LEMMA WaitingFacts ==
  ASSUME Inv, NEW t \in Task, NEW i \in 1 .. Len(chan), chan[i] = AddCmd(t)
  PROVE  /\ call[t] = "waiting" /\ runs[t] = 0 /\ t \notin Queued
         /\ \A w \in Worker : inbox[w] # <<t>> /\ job[w] # t
<1>1. call[t] = "waiting"
  BY Zenon DEF Inv, ChanInv
<1>2. runs[t] = 0
  BY <1>1, RunsFacts, Zenon
<1>3. t \notin Queued
  BY <1>1, QueuedFacts, Zenon DEF Queued
<1>4. ASSUME NEW w \in Worker PROVE inbox[w] # <<t>> /\ job[w] # t
  <2>1. t # None
    BY ConstantsAssumption, Zenon
  <2>2. job[w] # t
    BY <1>1, <2>1, ExecutorFacts, Zenon
  <2>3. ASSUME inbox[w] = <<t>> PROVE FALSE
    <3>1. <<t>> # <<>>
      OBVIOUS
    <3>2. PICK u \in Task : inbox[w] = <<u>> /\ call[u] = "ok"
      BY <2>3, <3>1, ExecutorFacts, Zenon
    <3>3. <<t>> = <<u>>
      BY <2>3, <3>2, Zenon
    <3>4. t = u
      BY <3>3
    <3> QED
      BY <1>1, <3>2, <3>4, Zenon
  <2> QED
    BY <2>2, <2>3, Zenon
<1> QED
  BY <1>1, <1>2, <1>3, <1>4, Zenon

\* The command that is an Add carries a task.
LEMMA AddCommand ==
  ASSUME NEW cmd \in Command, cmd.type = "Add"
  PROVE  cmd.arg \in Task /\ cmd = AddCmd(cmd.arg)
BY DEF Command, AddCmd, StopCmd

\* The actor reads a command: the others move up.
LEMMA ReceiveStep ==
  ASSUME Inv, Actor, NEW type, Receive(type)
  PROVE  /\ pc \in {"recv", "blind"} /\ pc' = "tail" /\ UNCHANGED drained
         /\ UNCHANGED <<state, config, reloads, cancelled, starter, count, stopper>>
         /\ UNCHANGED <<job, exited, runs, inbox>>
         /\ Len(chan) \in Nat /\ Len(chan) > 0 /\ Head(chan) = chan[1]
         /\ Head(chan) \in Command /\ Head(chan).type = type
         /\ chan' \in Seq(Command) /\ Len(chan') = Len(chan) - 1
         /\ \A i \in 1 .. Len(chan') : chan'[i] = chan[i + 1]
<1>1. chan \in Seq(Command)
  BY Zenon DEF Inv, TypeOK, CallerType
<1> QED
  BY <1>1 DEF Receive, Actor, configVars, startVars

-----------------------------------------------------------------------------
(* The executors and the callers.                                          *)

\* An executor at work is neither idle nor gone, and the pool is not
\* retiring.
LEMMA AtWork ==
  ASSUME Inv, NEW w \in Worker, job[w] # None \/ inbox[w] # <<>>
  PROVE  ~retiring /\ pc # "gone" /\ ~drained /\ w \in Working
BY Zenon DEF Inv, LifeInv, Working

\* An executor takes the task in its channel.
LEMMA WorkerTakeInv ==
  ASSUME Inv, NEW w \in Worker, Executor(w), WorkerTake(w)
  PROVE  Inv'
<1>1. /\ UNCHANGED <<state, drained, config, reloads, call, cancelled, starter, count>>
      /\ UNCHANGED <<stopper, pc, queue, next_id, futs, ready, started, stopped, retiring>>
      /\ UNCHANGED <<target, executors, idle, busy, next_worker, workers, chan, exited>>
  BY Zenon DEF Executor, WorkerTake, configVars, addVars, startVars, queueVars, lifeVars, execVars
<1>2. PICK t \in Task : inbox[w] = <<t>> /\ call[t] = "ok" /\ runs[t] = 0
  BY Zenon DEF WorkerTake, Inv, TasksInv
<1>3. /\ job[w] = None
      /\ job' = [job EXCEPT ![w] = t]
      /\ inbox' = [inbox EXCEPT ![w] = <<>>]
      /\ runs' = [runs EXCEPT ![t] = 1]
  BY <1>2 DEF WorkerTake, Inv, TypeOK, ExecutorType
<1>4. None \notin Task
  BY ConstantsAssumption, Zenon
<1>5. TypeOK'
  <2>1. CallerType' /\ FlagType'
    BY <1>1, Zenon DEF Inv, TypeOK, CallerType, FlagType
  <2>2. ActorType'
    BY <1>1, Zenon DEF Inv, TypeOK, ActorType
  <2>3. ExecutorType'
    BY <1>1, <1>3 DEF Inv, TypeOK, ExecutorType
  <2> QED BY <2>1, <2>2, <2>3, Zenon DEF TypeOK
<1>6. \A v \in Worker : /\ job'[v] = IF v = w THEN t ELSE job[v]
                        /\ inbox'[v] = IF v = w THEN <<>> ELSE inbox[v]
  BY <1>3, Zenon DEF Inv, TypeOK, ExecutorType
<1>7. \A u \in Task : runs'[u] = IF u = t THEN 1 ELSE runs[u]
  BY <1>3, Zenon DEF Inv, TypeOK, ExecutorType
<1>8. Working' = Working
  BY <1>1, <1>2, <1>4, <1>6 DEF Working
<1>9. TasksInv'
  <2>1. Queued' = Queued /\ t \notin Queued /\ \A e \in queue : e.task \in Task
    BY <1>1, <1>2 DEF Queued, Inv, TasksInv, TypeOK, ActorType
  <2>2. \A v \in Worker : /\ job[v] # t
                          /\ job[v] # None => job[v] \in Task
    BY <1>2, <1>4 DEF Inv, TasksInv, TypeOK, ExecutorType
  <2>3. \A v \in Worker : v # w => inbox[v] # <<t>>
    BY <1>2 DEF Inv, TasksInv
  <2>4. \A e \in queue : e.task # t
    BY <2>1, Zenon DEF Queued
  <2> HIDE DEF Queued
  <2>5. \A u \in Task :
          /\ call'[u] = "ok" /\ runs'[u] = 0 =>
               u \in Queued' \/ \E v \in Worker : inbox'[v] = <<u>>
          /\ call'[u] # "ok" => runs'[u] = 0
          /\ runs'[u] <= 1
    BY <1>1, <1>2, <1>6, <1>7, <2>1 DEF Inv, TasksInv
  <2>6. \A e \in queue' :
          /\ call'[e.task] = "ok" /\ runs'[e.task] = 0
          /\ \A v \in Worker : inbox'[v] # <<e.task>>
          /\ \A f \in queue' : f.task = e.task => f = e
    BY <1>1, <1>2, <1>6, <1>7, <2>1, <2>4 DEF Inv, TasksInv
  <2>7. \A v \in Worker :
          /\ inbox'[v] = <<>> \/ \E u \in Task : /\ inbox'[v] = <<u>>
                                                 /\ call'[u] = "ok" /\ runs'[u] = 0
          /\ job'[v] # None => call'[job'[v]] = "ok" /\ runs'[job'[v]] = 1
    BY <1>1, <1>2, <1>6, <1>7, <2>2, <2>3 DEF Inv, TasksInv
  <2>8. \A u, v \in Worker :
          /\ inbox'[u] = inbox'[v] /\ inbox'[u] # <<>> => u = v
          /\ job'[u] = job'[v] /\ job'[u] # None => u = v
    BY <1>6, <2>2 DEF Inv, TasksInv
  <2> QED
    BY <2>5, <2>6, <2>7, <2>8, Zenon DEF TasksInv
<1>10. ChanInv'
  <2>1. inbox[w] # <<>>
    BY Zenon DEF WorkerTake
  <2> QED
    BY <1>1, <1>6, <2>1 DEF Inv, ChanInv
<1>11. ExecInv' /\ LifeInv' /\ BusyIsExact'
  BY <1>1, <1>8, Zenon DEF Inv, ExecInv, LifeInv, BusyIsExact
<1> QED
  BY <1>5, <1>9, <1>10, <1>11, Zenon DEF Inv

\* A callback returns.
LEMMA WorkerDoneInv ==
  ASSUME Inv, NEW w \in Worker, Executor(w), WorkerDone(w)
  PROVE  Inv'
<1>1. /\ UNCHANGED <<state, drained, config, reloads, call, cancelled, starter, count>>
      /\ UNCHANGED <<stopper, pc, queue, next_id, futs, ready, started, stopped, retiring>>
      /\ UNCHANGED <<target, executors, idle, busy, next_worker, workers, inbox, exited, runs>>
  BY Zenon DEF Executor, WorkerDone, configVars, addVars, startVars, queueVars, lifeVars, execVars
<1>2. /\ job[w] # None /\ inbox[w] = <<>>
      /\ \A i \in 1 .. Len(chan) : chan[i] # ReadyCmd(w)
      /\ w \in Working /\ ~retiring /\ pc # "gone"
  BY AtWork, Zenon DEF WorkerDone, Inv, ChanInv
<1>3. /\ \A v \in Worker : job'[v] = IF v = w THEN None ELSE job[v]
      /\ job' \in [Worker -> Task \cup {None}]
  BY Zenon DEF WorkerDone, Inv, TypeOK, ExecutorType
<1>4. /\ chan \in Seq(Command) /\ ReadyCmd(w) \in Command
      /\ ReadyCmd(w).type = "Ready" /\ ReadyCmd(w).arg = w
      /\ chan' = Append(chan, ReadyCmd(w))
  <2>1. ReadyCmd(w) \in Command /\ ReadyCmd(w).type = "Ready" /\ ReadyCmd(w).arg = w
    BY Zenon DEF Command, ReadyCmd
  <2> QED
    BY <1>2, <2>1, Zenon DEF WorkerDone, Send, Inv, TypeOK, CallerType
<1>5. /\ Len(chan') = Len(chan) + 1 /\ Len(chan) \in Nat
      /\ \A i \in 1 .. Len(chan) : chan'[i] = chan[i]
      /\ chan'[Len(chan) + 1] = ReadyCmd(w)
      /\ chan' \in Seq(Command)
  BY <1>4
<1>6. \A v \in Worker : ReadyCmd(v) = ReadyCmd(w) => v = w
  BY Zenon DEF ReadyCmd
<1>7. TypeOK'
  <2>1. CallerType' /\ FlagType'
    BY <1>1, <1>5, Zenon DEF Inv, TypeOK, CallerType, FlagType
  <2>2. ActorType' /\ ExecutorType'
    BY <1>1, <1>3, Zenon DEF Inv, TypeOK, ActorType, ExecutorType
  <2> QED BY <2>1, <2>2, Zenon DEF TypeOK
<1>8. Working' = Working
  <2>1. ASSUME NEW v \in Worker, v # w
        PROVE  (\E i \in 1 .. Len(chan') : chan'[i] = ReadyCmd(v))
                 <=> (\E i \in 1 .. Len(chan) : chan[i] = ReadyCmd(v))
    BY <1>5, <1>6, <2>1
  <2>2. \E i \in 1 .. Len(chan') : chan'[i] = ReadyCmd(w)
    BY <1>5
  <2> QED
    BY <1>1, <1>2, <1>3, <2>1, <2>2, Zenon DEF Working
<1>9. TasksInv'
  <2>1. Queued' = Queued
    BY <1>1, Zenon DEF Queued
  <2> HIDE DEF Queued
  <2> QED
    BY <1>1, <1>3, <2>1 DEF Inv, TasksInv
<1>10. ChanInv'
  <2>1. \A t \in Task : ReadyCmd(w) # AddCmd(t)
    BY Zenon DEF ReadyCmd, AddCmd
  <2>2. \A i \in 1 .. Len(chan') : \A t \in Task : chan'[i] = AddCmd(t) => call'[t] = "waiting"
    BY <1>1, <1>5, <2>1, ChanFacts
  <2>3. \A i \in 1 .. Len(chan') : \A v \in Worker :
          chan'[i] = ReadyCmd(v) => job'[v] = None /\ inbox'[v] = <<>>
    BY <1>1, <1>2, <1>3, <1>5, <1>6 DEF Inv, ChanInv
  <2>4. \A i, j \in 1 .. Len(chan') :
          chan'[i] = chan'[j] /\ chan'[i].type \in {"Add", "Ready"} => i = j
    BY <1>2, <1>5, ChanFacts
  <2>5. \A v \in Worker : job'[v] = None \/ inbox'[v] = <<>>
    BY <1>1, <1>3, Zenon DEF Inv, ChanInv
  <2> QED
    BY <2>2, <2>3, <2>4, <2>5, Zenon DEF ChanInv
<1>11. ExecInv' /\ LifeInv' /\ BusyIsExact'
  BY <1>1, <1>8, Zenon DEF Inv, ExecInv, LifeInv, BusyIsExact
<1> QED
  BY <1>7, <1>9, <1>10, <1>11, Zenon DEF Inv

\* An executor leaves its loop.
LEMMA WorkerExitInv ==
  ASSUME Inv, NEW w \in Worker, Executor(w), WorkerExit(w)
  PROVE  Inv'
<1>1. /\ UNCHANGED <<state, drained, config, reloads, call, cancelled, starter, count>>
      /\ UNCHANGED <<stopper, pc, queue, next_id, futs, ready, started, stopped, retiring>>
      /\ UNCHANGED <<target, executors, idle, busy, next_worker, workers, inbox, chan, job, runs>>
      /\ exited' = exited \cup {w} /\ w \notin executors /\ w \in workers
  BY Zenon DEF Executor, WorkerExit, configVars, addVars, startVars, queueVars, lifeVars, execVars
<1>2. TypeOK'
  <2>1. CallerType' /\ FlagType'
    BY <1>1, Zenon DEF Inv, TypeOK, CallerType, FlagType
  <2>2. ActorType' /\ ExecutorType'
    BY <1>1, Zenon DEF Inv, TypeOK, ActorType, ExecutorType
  <2> QED BY <2>1, <2>2, Zenon DEF TypeOK
<1>3. Working' = Working /\ TasksInv' /\ ChanInv'
  <2>1. Working' = Working /\ Queued' = Queued
    BY <1>1, Zenon DEF Working, Queued
  <2>2. TasksInv'
    BY <1>1, <2>1, Zenon DEF Inv, TasksInv
  <2>3. ChanInv'
    BY <1>1, ZenonT(40) DEF Inv, ChanInv
  <2> QED BY <2>1, <2>2, <2>3, Zenon
<1>4. ExecInv'
  BY <1>1, Zenon DEF Inv, ExecInv
<1>5. LifeInv' /\ BusyIsExact'
  BY <1>1, <1>3, Zenon DEF Inv, LifeInv, BusyIsExact
<1> QED
  BY <1>2, <1>3, <1>4, <1>5, Zenon DEF Inv

\* A command that is not an executor's Ready changes nothing about which
\* executors are at work.
LEMMA SendKeepsWorking ==
  ASSUME TypeOK, UNCHANGED <<job, inbox>>, NEW c \in Command,
         c.type # "Ready", chan' \in {chan, Append(chan, c)}
  PROVE  Working' = Working
<1> SUFFICES ASSUME NEW w \in Worker, chan' = Append(chan, c)
             PROVE  (\E i \in 1 .. Len(chan') : chan'[i] = ReadyCmd(w))
                      <=> (\E i \in 1 .. Len(chan) : chan[i] = ReadyCmd(w))
  BY Zenon DEF Working
<1>1. /\ chan \in Seq(Command) /\ Len(chan') = Len(chan) + 1
      /\ \A i \in 1 .. Len(chan) : chan'[i] = chan[i]
      /\ chan'[Len(chan) + 1] = c /\ c # ReadyCmd(w)
  BY DEF TypeOK, CallerType, ReadyCmd
<1> QED
  BY <1>1

\* What the calls have in common: they accept nothing, and send at most one
\* command, an Add only for a caller that begins to wait.
LEMMA CallerStep ==
  ASSUME Inv, Caller
  PROVE  /\ TypeOK'
         /\ (pc' = "gone") = (pc = "gone")
         /\ \A t \in Task : /\ call'[t] = "ok" => call[t] = "ok"
                            /\ call[t] \in {"waiting", "ok"} => call'[t] = call[t]
         /\ \E c \in Command :
              /\ c.type # "Ready"
              /\ chan' \in {chan, Append(chan, c)}
              /\ c.type = "Add" => call[c.arg] # "waiting" /\ call'[c.arg] = "waiting"
<1> USE ConstantsAssumption
<1> DEFINE Pc == {"off", "spawned", "poll", "recv", "blind", "tail", "gone"}
           Quiet == /\ pc' \in Pc /\ ready' \in Seq(Task)
                    /\ (pc' = "gone") = (pc = "gone")
                    /\ \A t \in Task : /\ call'[t] = "ok" => call[t] = "ok"
                                       /\ call[t] \in {"waiting", "ok"} => call'[t] = call[t]
           Sent(c) == /\ c \in Command /\ c.type # "Ready"
                      /\ chan' \in {chan, Append(chan, c)}
                      /\ c.type = "Add" => call[c.arg] # "waiting" /\ call'[c.arg] = "waiting"
           Goal == CallerType' /\ Quiet /\ \E c : Sent(c)
<1>0. /\ CallerType /\ ActorType /\ StopCmd \in Command
      /\ StopCmd.type # "Ready" /\ StopCmd.type # "Add"
  BY Zenon DEF Inv, TypeOK, Command, StopCmd
<1>1. ASSUME NEW t \in Task, AddCheck(t) PROVE Goal
  BY <1>0, <1>1, Zenon DEF AddCheck, CallerType, ActorType, configVars, startVars
<1>2. ASSUME NEW t \in Task, AddSend(t) PROVE Goal
  <2>1. AddCmd(t) \in Command /\ AddCmd(t).type = "Add" /\ AddCmd(t).arg = t
    BY Zenon DEF AddCmd, Command
  <2>2. CASE pc = "gone"
    BY <1>0, <1>2, <2>2, Zenon DEF AddSend, Send, Launch, CallerType, ActorType, configVars, startVars
  <2>3. CASE pc # "gone"
    <3>1. CallerType'
      BY <1>0, <1>2, <2>1, <2>3 DEF AddSend, Send, CallerType, configVars, startVars
    <3>2. Quiet
      BY <1>0, <1>2, <2>3, Zenon DEF AddSend, Launch, CallerType, ActorType
    <3>3. Sent(AddCmd(t))
      BY <1>0, <1>2, <2>1, <2>3, Zenon DEF AddSend, Send, CallerType
    <3> QED BY <3>1, <3>2, <3>3, Zenon
  <2> QED BY <2>2, <2>3, Zenon
<1>3. ASSUME NEW t \in Task, Cancel(t) PROVE Goal
  BY <1>0, <1>3 DEF Cancel, Wake, CallerType, ActorType, configVars, startVars
<1>4. ASSUME StartBegin PROVE Goal
  <2>1. CallerType'
    BY <1>0, <1>4 DEF StartBegin, CallerType, configVars, addVars
  <2>2. Quiet /\ Sent(StopCmd)
    BY <1>0, <1>4, Zenon DEF StartBegin, Launch, CallerType, ActorType, addVars
  <2> HIDE DEF Quiet, Sent
  <2> QED BY <2>1, <2>2, Zenon
<1>5. ASSUME StartRead PROVE Goal
  <2>1. CallerType'
    BY <1>0, <1>5, Zenon DEF StartRead, CallerType, configVars, addVars
  <2>2. Quiet /\ Sent(StopCmd)
    BY <1>0, <1>5, Zenon DEF StartRead, CallerType, ActorType, addVars
  <2> HIDE DEF Quiet, Sent
  <2> QED BY <2>1, <2>2, Zenon
<1>6. ASSUME StartSend PROVE Goal
  <2>1. StartCmd(count) \in Command /\ StartCmd(count).type = "Start"
    BY <1>0, <1>6, Zenon DEF StartSend, StartCmd, Command, CallerType
  <2>2. CallerType'
    BY <1>0, <1>6, <2>1 DEF StartSend, Send, CallerType, configVars, addVars
  <2>3. Quiet
    BY <1>0, <1>6, Zenon DEF StartSend, CallerType, ActorType, addVars
  <2>4. Sent(StartCmd(count))
    BY <1>0, <1>6, <2>1, Zenon DEF StartSend, Send, CallerType
  <2> HIDE DEF Quiet, Sent
  <2> QED BY <2>2, <2>3, <2>4, Zenon
<1>7. ASSUME NEW n \in Targets, Reload(n) PROVE Goal
  <2>1. ResizeCmd(n) \in Command /\ ResizeCmd(n).type = "Resize"
    BY Zenon DEF ResizeCmd, Command
  <2>2. CallerType'
    BY <1>0, <1>7, <2>1 DEF Reload, Send, CallerType, startVars, addVars
  <2>3. Quiet
    BY <1>0, <1>7, Zenon DEF Reload, CallerType, ActorType, addVars
  <2>4. Sent(ResizeCmd(n))
    BY <1>0, <1>7, <2>1, Zenon DEF Reload, Send, CallerType
  <2> HIDE DEF Quiet, Sent
  <2> QED BY <2>2, <2>3, <2>4, Zenon
<1>8. ASSUME NEW s \in Stopper, StopBegin(s) PROVE Goal
  BY <1>0, <1>8 DEF StopBegin, Launch, CallerType, ActorType, configVars, addVars, startVars
<1>9. ASSUME NEW s \in Stopper, StopSend(s) PROVE Goal
  <2>2. CallerType'
    BY <1>0, <1>9 DEF StopSend, Send, CallerType, startVars, addVars, configVars
  <2>3. Quiet
    BY <1>0, <1>9, Zenon DEF StopSend, CallerType, ActorType, addVars
  <2>4. Sent(StopCmd)
    BY <1>0, <1>9, Zenon DEF StopSend, Send, CallerType
  <2> HIDE DEF Quiet, Sent
  <2> QED BY <2>2, <2>3, <2>4, Zenon
<1>10. ASSUME NEW s \in Stopper, StopReturn(s) PROVE Goal
  <2>1. UNCHANGED <<state, chan, config, reloads, call, cancelled, starter, count, pc, ready>>
    BY <1>10, Zenon DEF StopReturn, configVars, addVars, startVars
  <2>2. CallerType'
    BY <1>0, <1>10, <2>1, Zenon DEF StopReturn, CallerType
  <2>3. Quiet /\ Sent(StopCmd)
    BY <1>0, <2>1, Zenon DEF ActorType
  <2> HIDE DEF Quiet, Sent
  <2> QED BY <2>2, <2>3, Zenon
<1>11. Goal
  BY <1>1, <1>2, <1>3, <1>4, <1>5, <1>6, <1>7, <1>8, <1>9, <1>10, Zenon DEF Caller
<1>12. /\ UNCHANGED <<drained, queue, next_id, futs, started, stopped, retiring, target>>
       /\ UNCHANGED <<executors, idle, busy, next_worker, workers, inbox, job, exited, runs>>
  BY Zenon DEF Caller, CallerFrame, lifeVars, execVars, workerVars
<1>13. ActorType'
  BY <1>0, <1>11, <1>12, Zenon DEF ActorType
<1>14. FlagType' /\ ExecutorType'
  BY <1>12, Zenon DEF Inv, TypeOK, FlagType, ExecutorType
<1> QED
  BY <1>11, <1>13, <1>14, Zenon DEF TypeOK

\* No call of add_task, start, stop or reload_config, and no cancellation,
\* disturbs the invariant.
LEMMA CallerInv ==
  ASSUME Inv, Caller
  PROVE  Inv'
<1>1. /\ UNCHANGED <<drained, queue, retiring, stopped, executors, idle, busy>>
      /\ UNCHANGED <<next_worker, workers, inbox, job, exited, runs>>
  BY Zenon DEF Caller, CallerFrame, lifeVars, execVars, workerVars
<1>2. PICK c \in Command :
        /\ c.type # "Ready"
        /\ chan' \in {chan, Append(chan, c)}
        /\ c.type = "Add" => call[c.arg] # "waiting" /\ call'[c.arg] = "waiting"
  BY CallerStep, Zenon
<1>3. /\ TypeOK' /\ ((pc' = "gone") = (pc = "gone"))
      /\ \A t \in Task : /\ call'[t] = "ok" => call[t] = "ok"
                         /\ call[t] \in {"waiting", "ok"} => call'[t] = call[t]
  BY CallerStep, Zenon
<1>4. Working' = Working
  BY <1>1, <1>2, SendKeepsWorking, Zenon DEF Inv
<1>5. TasksInv'
  <2>1. Queued' = Queued /\ \A e \in queue : e.task \in Task
    BY <1>1, Zenon DEF Queued, Inv, TypeOK, ActorType
  <2>2. \A t \in Task : (call'[t] = "ok") = (call[t] = "ok")
    BY <1>3, Zenon
  <2>3. \A w \in Worker : job[w] # None => job[w] \in Task
    BY Zenon DEF Inv, TypeOK, ExecutorType
  <2> HIDE DEF Queued
  <2> QED
    BY <1>1, <2>1, <2>2, <2>3, ZenonT(40) DEF Inv, TasksInv
<1>6. ChanInv'
  <2>1. chan \in Seq(Command)
    BY Zenon DEF Inv, TypeOK, CallerType
  <2>2. CASE chan' = chan
    BY <1>1, <1>3, <2>2 DEF Inv, ChanInv
  <2>3. CASE chan' = Append(chan, c)
    <3>1. /\ Len(chan') = Len(chan) + 1 /\ Len(chan) \in Nat
          /\ \A i \in 1 .. Len(chan) : chan'[i] = chan[i]
          /\ chan'[Len(chan) + 1] = c
      BY <2>1, <2>3
    <3>2. \A t \in Task : c = AddCmd(t) => call[t] # "waiting" /\ call'[t] = "waiting"
      BY <1>2 DEF AddCmd
    <3>3. \A w \in Worker : c # ReadyCmd(w)
      BY <1>2 DEF ReadyCmd
    <3>4. ASSUME NEW i \in 1 .. Len(chan), chan[i] = c PROVE c.type \notin {"Add", "Ready"}
      <4>1. ASSUME c.type = "Add" PROVE c.arg \in Task /\ c = AddCmd(c.arg)
        BY <1>2, <4>1 DEF Command, AddCmd, StopCmd
      <4> QED
        BY <1>2, <3>2, <3>4, <4>1, Zenon DEF Inv, ChanInv
    <3> QED
      BY <1>1, <1>3, <3>1, <3>2, <3>3, <3>4 DEF Inv, ChanInv
  <2> QED BY <1>2, <2>2, <2>3, Zenon
<1>7. ExecInv' /\ LifeInv' /\ BusyIsExact'
  BY <1>1, <1>3, <1>4, Zenon DEF Inv, ExecInv, LifeInv, BusyIsExact
<1> QED
  BY <1>3, <1>5, <1>6, <1>7, Zenon DEF Inv
-----------------------------------------------------------------------------
(* The actor: its timers and the commands of the callers.                  *)

\* The steps of the actor that only move it, join an executor that has left,
\* or report that the pool is drained.
LEMMA ActorMoveInv ==
  ASSUME Inv, Actor,
         \/ ActorBegin \/ PollPending \/ PollAborted \/ PollDone \/ Rewake \/ Drain
         \/ \E w \in Worker : Join(w)
  PROVE  Inv'
<1>1. /\ UNCHANGED <<state, config, reloads, cancelled, starter, count, stopper>>
      /\ UNCHANGED <<job, exited, runs>>
  BY Zenon DEF Actor, configVars, startVars
<1>2. /\ UNCHANGED <<chan, call, queue, next_id, inbox>>
      /\ UNCHANGED <<started, stopped, retiring, executors, idle, busy, next_worker>>
  BY Zenon DEF ActorBegin, Poll, PollPending, PollAborted, PollDone, Rewake, Drain, Join,
     queueVars, lifeVars, execVars
<1>3. \/ /\ pc' \in {"poll", "recv", "blind", "tail"}
         /\ pc # "gone"
         /\ UNCHANGED drained
      \/ /\ pc' = "gone" /\ pc = "gone"
         /\ drained' = TRUE
  <2>1. CASE Drain
    BY <2>1, Zenon DEF Drain
  <2>2. CASE ActorBegin \/ PollDone \/ Rewake \/ \E w \in Worker : Join(w)
    BY <2>2, Zenon DEF ActorBegin, PollDone, Rewake, Join
  <2>3. CASE PollPending \/ PollAborted
    BY <2>3, Zenon DEF Poll, PollPending, PollAborted
  <2> QED BY <2>1, <2>2, <2>3, Zenon
<1>4. /\ ready' \in Seq(Task) /\ futs' \subseteq Task /\ target' \in Targets \cup {0}
      /\ workers' \subseteq workers /\ \A w \in workers \ workers' : w \in exited
  <2>1. CASE PollPending \/ PollAborted
    <3>1. Poll /\ futs' \subseteq futs
      BY <2>1, Zenon DEF PollPending, PollAborted
    <3> QED
      BY <3>1 DEF Poll, Inv, TypeOK, ActorType, lifeVars, execVars
  <2>0. /\ ready \in Seq(Task) /\ futs \subseteq Task /\ target \in Targets \cup {0}
        /\ config \in Targets /\ workers \subseteq workers
    BY Zenon DEF Inv, TypeOK, ActorType, CallerType
  <2> USE DEF queueVars, lifeVars, execVars
  <2>2. CASE ActorBegin
    BY <2>0, <2>2, Zenon DEF ActorBegin
  <2>3. CASE PollDone \/ Rewake
    BY <2>0, <2>3, Zenon DEF PollDone, Rewake
  <2>5. CASE Drain
    BY <2>0, <2>5, Zenon DEF Drain
  <2>4. CASE \E w \in Worker : Join(w)
    BY <2>0, <2>4, Zenon DEF Join
  <2> QED BY <2>1, <2>2, <2>3, <2>5, <2>4, Zenon
<1>5. TypeOK'
  <2>1. CallerType'
    BY <1>1, <1>2, Zenon DEF Inv, TypeOK, CallerType
  <2>2. ActorType'
    BY <1>2, <1>3, <1>4, Zenon DEF Inv, TypeOK, ActorType
  <2>3. FlagType'
    BY <1>2, <1>3, Zenon DEF Inv, TypeOK, FlagType
  <2>4. ExecutorType'
    BY <1>1, <1>2, Zenon DEF Inv, TypeOK, ExecutorType
  <2> QED BY <2>1, <2>2, <2>3, <2>4, Zenon DEF TypeOK
<1>6. Working' = Working /\ TasksInv' /\ ChanInv'
  BY <1>1, <1>2, TasksFrame, ChanFrame, Zenon DEF Inv
<1>7. ExecInv'
  BY <1>1, <1>2, <1>4, Zenon DEF Inv, ExecInv
<1>8. LifeInv' /\ BusyIsExact'
  BY <1>1, <1>2, <1>3, <1>6 DEF Inv, LifeInv, BusyIsExact
<1> QED
  BY <1>5, <1>6, <1>7, <1>8, Zenon DEF Inv

\* What a promotion does: the tasks in the queue stay the same.
LEMMA PromoteKeeps ==
  ASSUME Inv, NEW e \in queue, NEW h \in queue,
         queue' = Promote(IsPriority, queue, h, e)
  PROVE  /\ queue' \subseteq [task : Task, id : Nat, rank : Int]
         /\ Queued' = Queued
         /\ queue # {}
         /\ \A f, g \in queue' : f.task = g.task => f = g
<1> DEFINE r == IF IsPriority THEN MinRank ELSE h.rank - 1
           p == [e EXCEPT !.rank = r]
           Entry == [task : Task, id : Nat, rank : Int]
<1>1. /\ queue \subseteq Entry
      /\ \A f, g \in queue : f.task = g.task => f = g
  BY Zenon DEF Inv, TypeOK, ActorType, TasksInv
<1>2. r \in Int
  BY <1>1, MinRankAssumption
<1>3. p \in Entry /\ p.task = e.task
  <2> HIDE DEF r
  <2> QED BY <1>1, <1>2, Zenon
<1>4. queue' = queue \/ queue' = (queue \ {e}) \cup {p}
  BY Zenon DEF Promote
<1> HIDE DEF p
<1> QED
  BY <1>1, <1>3, <1>4 DEF Queued

\* The actor promotes a cancelled task.
LEMMA PollCancelledInv ==
  ASSUME Inv, Actor, PollCancelled
  PROVE  Inv'
<1>1. /\ UNCHANGED <<state, config, reloads, cancelled, starter, count, stopper>>
      /\ UNCHANGED <<job, exited, runs, chan, drained, call, next_id, inbox>>
      /\ UNCHANGED <<started, stopped, retiring, target, executors, idle, busy>>
      /\ UNCHANGED <<next_worker, workers>> /\ pc = "poll" /\ pc' = "tail"
  BY Zenon DEF Actor, configVars, startVars, PollCancelled, Poll, lifeVars, execVars
<1>2. /\ ready' \in Seq(Task) /\ futs' \subseteq Task
  BY DEF PollCancelled, Poll, Inv, TypeOK, ActorType
<1>3. PICK e \in queue, h \in Front(queue) : queue' = Promote(IsPriority, queue, h, e)
  BY Zenon DEF PollCancelled
<1>4. /\ queue' \subseteq [task : Task, id : Nat, rank : Int]
      /\ Queued' = Queued /\ queue # {}
      /\ \A f, g \in queue' : f.task = g.task => f = g
  BY <1>3, PromoteKeeps, Zenon DEF Front
<1>5. TypeOK'
  <2>1. CallerType' /\ FlagType'
    BY <1>1, Zenon DEF Inv, TypeOK, CallerType, FlagType
  <2>2. ActorType'
    BY <1>1, <1>2, <1>4, Zenon DEF Inv, TypeOK, ActorType
  <2>3. ExecutorType'
    BY <1>1, Zenon DEF Inv, TypeOK, ExecutorType
  <2> QED BY <2>1, <2>2, <2>3, Zenon DEF TypeOK
<1>6. Working' = Working /\ ChanInv' /\ ExecInv'
  BY <1>1, ChanFrame, Zenon DEF Inv, ExecInv
<1>7. TasksInv'
  <2>1. \A f \in queue' : \E g \in queue : f.task = g.task
    BY <1>4 DEF Queued
  <2>2. \A f \in queue' : /\ call[f.task] = "ok" /\ runs[f.task] = 0
                          /\ \A w \in Worker : inbox[w] # <<f.task>>
    BY <2>1, QueuedFacts
  <2> HIDE DEF Queued
  <2> QED
    BY <1>1, <1>4, <2>2, Zenon DEF Inv, TasksInv
<1>8. LifeInv' /\ BusyIsExact'
  BY <1>1, <1>4, <1>6, Zenon DEF Inv, LifeInv, BusyIsExact
<1> QED
  BY <1>5, <1>6, <1>7, <1>8, Zenon DEF Inv

LEMMA ReceiveChanInv ==
  ASSUME Inv, Actor, NEW type, Receive(type),
         \A t \in Task : call'[t] = call[t] \/ Head(chan) = AddCmd(t)
  PROVE  ChanInv'
<1>1. /\ UNCHANGED <<job, inbox>>
      /\ Len(chan) \in Nat /\ Len(chan) > 0 /\ Head(chan) = chan[1]
      /\ Len(chan') = Len(chan) - 1
      /\ \A i \in 1 .. Len(chan') : chan'[i] = chan[i + 1]
  BY ReceiveStep, Zenon
<1>2. ASSUME NEW i \in 1 .. Len(chan'), NEW t \in Task, chan'[i] = AddCmd(t)
      PROVE  call'[t] = "waiting"
  <2>1. i + 1 \in 1 .. Len(chan) /\ 1 \in 1 .. Len(chan) /\ chan[i + 1] = AddCmd(t) /\ i + 1 # 1
    BY <1>1, <1>2
  <2>2. call[t] = "waiting"
    BY <2>1, ChanFacts, Zenon
  <2>3. chan[i + 1].type = "Add"
    BY <2>1 DEF AddCmd
  <2>4. chan[1] # chan[i + 1]
    BY <2>1, <2>3, ChanFacts, Zenon
  <2> QED
    BY <1>1, <2>1, <2>2, <2>4, Zenon
<1>3. \A i \in 1 .. Len(chan') : \A w \in Worker :
        chan'[i] = ReadyCmd(w) => job'[w] = None /\ inbox'[w] = <<>>
  BY <1>1, ReadyFacts
<1>4. \A i, j \in 1 .. Len(chan') :
        chan'[i] = chan'[j] /\ chan'[i].type \in {"Add", "Ready"} => i = j
  <2> SUFFICES ASSUME NEW i \in 1 .. Len(chan'), NEW j \in 1 .. Len(chan'),
                      chan'[i] = chan'[j], chan'[i].type \in {"Add", "Ready"}
               PROVE  i = j
    BY Zenon
  <2>1. /\ i + 1 \in 1 .. Len(chan) /\ j + 1 \in 1 .. Len(chan)
        /\ chan[i + 1] = chan[j + 1] /\ chan[i + 1].type \in {"Add", "Ready"}
    BY <1>1
  <2>2. i + 1 = j + 1
    BY <2>1, Zenon DEF Inv, ChanInv
  <2> QED
    BY <1>1, <2>2
<1> QED
  BY <1>1, <1>2, <1>3, <1>4, Zenon DEF Inv, ChanInv

\* A command other than Ready says nothing about the executors.
LEMMA ReceiveKeepsWorking ==
  ASSUME Inv, Actor, NEW type, Receive(type), type # "Ready"
  PROVE  Working' = Working
<1>1. /\ UNCHANGED <<job, inbox>>
      /\ Len(chan) \in Nat /\ Len(chan) > 0 /\ Head(chan) = chan[1] /\ Head(chan).type = type
      /\ Len(chan') = Len(chan) - 1
      /\ \A i \in 1 .. Len(chan') : chan'[i] = chan[i + 1]
  BY ReceiveStep, Zenon
<1>2. ASSUME NEW w \in Worker
      PROVE  (\E i \in 1 .. Len(chan') : chan'[i] = ReadyCmd(w))
               <=> (\E i \in 1 .. Len(chan) : chan[i] = ReadyCmd(w))
  <2>1. chan[1] # ReadyCmd(w)
    BY <1>1 DEF ReadyCmd
  <2>2. ASSUME NEW i \in 1 .. Len(chan), chan[i] = ReadyCmd(w)
        PROVE  \E j \in 1 .. Len(chan') : chan'[j] = ReadyCmd(w)
    <3>1. i - 1 \in 1 .. Len(chan') /\ chan'[i - 1] = chan[i]
      BY <1>1, <2>1, <2>2
    <3> QED BY <2>2, <3>1, Zenon
  <2>3. ASSUME NEW i \in 1 .. Len(chan'), chan'[i] = ReadyCmd(w)
        PROVE  \E j \in 1 .. Len(chan) : chan[j] = ReadyCmd(w)
    <3>1. i + 1 \in 1 .. Len(chan) /\ chan'[i] = chan[i + 1]
      BY <1>1
    <3> QED BY <2>3, <3>1, Zenon
  <2> QED BY <2>2, <2>3, Zenon
<1> QED
  BY <1>1, <1>2, Zenon DEF Working

\* Start, Resize and Stop.
LEMMA RecvControlInv ==
  ASSUME Inv, Actor, RecvStart \/ RecvResize \/ RecvStop
  PROVE  Inv'
<1>1. PICK type \in {"Start", "Resize", "Stop"} : Receive(type)
  BY Zenon DEF RecvStart, RecvResize, RecvStop
<1>2. /\ UNCHANGED <<call, queue, next_id, futs, ready, executors, idle, busy>>
      /\ UNCHANGED <<next_worker, workers, retiring>>
  BY Zenon DEF RecvStart, RecvResize, RecvStop, queueVars, execVars
<1>3. /\ started' \in BOOLEAN /\ stopped' \in BOOLEAN /\ (stopped => stopped')
  BY Zenon DEF RecvStart, RecvResize, RecvStop, Inv, TypeOK, FlagType
<1>4. target' \in Targets \cup {0}
  <2>1. /\ Head(chan) \in Command
        /\ Head(chan).type \in {"Start", "Resize"} => Head(chan).arg \in Targets
    BY <1>1, ReceiveStep DEF Command, StopCmd
  <2>2. target \in Targets \cup {0}
    BY Zenon DEF Inv, TypeOK, ActorType
  <2> QED
    BY <2>1, <2>2, Zenon DEF RecvStart, RecvResize, RecvStop, Receive
<1>5. /\ pc \in {"recv", "blind"} /\ pc' = "tail" /\ UNCHANGED drained
      /\ UNCHANGED <<state, config, reloads, cancelled, starter, count, stopper>>
      /\ UNCHANGED <<job, exited, runs, inbox>> /\ chan' \in Seq(Command)
  BY <1>1, ReceiveStep, Zenon
<1>6. TypeOK'
  <2>1. CallerType'
    BY <1>2, <1>5, Zenon DEF Inv, TypeOK, CallerType
  <2>2. ActorType'
    BY <1>2, <1>4, <1>5, Zenon DEF Inv, TypeOK, ActorType
  <2>3. FlagType'
    BY <1>2, <1>3, <1>5, Zenon DEF Inv, TypeOK, FlagType
  <2>4. ExecutorType'
    BY <1>5, Zenon DEF Inv, TypeOK, ExecutorType
  <2> QED BY <2>1, <2>2, <2>3, <2>4, Zenon DEF TypeOK
<1>7. Working' = Working
  BY <1>1, ReceiveKeepsWorking, Zenon
<1>8. ChanInv'
  BY <1>1, <1>2, ReceiveChanInv, Zenon
<1>9. TasksInv' /\ ExecInv'
  <2>1. TasksInv'
    BY <1>2, <1>5, TasksFrame, Zenon
  <2> QED
    BY <1>2, <1>5, <2>1, Zenon DEF Inv, ExecInv
<1>10. LifeInv' /\ BusyIsExact'
  BY <1>2, <1>3, <1>5, <1>7, Zenon DEF Inv, LifeInv, BusyIsExact
<1> QED
  BY <1>6, <1>8, <1>9, <1>10, Zenon DEF Inv

\* The actor answers an Add.
LEMMA RecvAddInv ==
  ASSUME Inv, Actor, RecvAdd
  PROVE  Inv'
<1>1. Receive("Add")
  BY Zenon DEF RecvAdd
<1>2. /\ UNCHANGED <<started, stopped, retiring, target, executors, idle, busy>>
      /\ UNCHANGED <<next_worker, workers>>
  BY Zenon DEF RecvAdd, lifeVars, execVars
<1>3. /\ pc \in {"recv", "blind"} /\ pc' = "tail" /\ UNCHANGED drained
      /\ UNCHANGED <<state, config, reloads, cancelled, starter, count, stopper>>
      /\ UNCHANGED <<job, exited, runs, inbox>> /\ chan' \in Seq(Command)
      /\ Head(chan) \in Command /\ Head(chan).type = "Add"
      /\ Len(chan) \in Nat /\ Len(chan) > 0 /\ Head(chan) = chan[1]
  BY <1>1, ReceiveStep, Zenon
<1> DEFINE t == Head(chan).arg
<1>4. t \in Task /\ Head(chan) = AddCmd(t)
  BY <1>3, AddCommand, Zenon
<1>5. call[t] = "waiting" /\ runs[t] = 0
  BY <1>3, <1>4, WaitingFacts
<1>6. /\ t \notin Queued
      /\ \A w \in Worker : inbox[w] # <<t>> /\ job[w] # t
  BY <1>3, <1>4, WaitingFacts
<1>7. PICK a \in {"ok", "stopped", "cancelled"} :
        /\ call' = [call EXCEPT ![t] = a]
        /\ a # "ok" => UNCHANGED queueVars
        /\ a = "ok" => ~stopped /\ Accept(t)
  BY Zenon DEF RecvAdd
<1>8. /\ \A u \in Task : call'[u] = IF u = t THEN a ELSE call[u]
      /\ call' \in [Task -> {"new", "checked", "waiting", "ok", "stopped", "cancelled"}]
  BY <1>4, <1>7, Zenon DEF Inv, TypeOK, CallerType
<1> HIDE DEF t
<1>9. Working' = Working
  BY <1>1, ReceiveKeepsWorking, Zenon
<1>10. ChanInv'
  BY <1>1, <1>4, <1>8, ReceiveChanInv, Zenon
<1>11. ExecInv'
  BY <1>2, <1>3, Zenon DEF Inv, ExecInv
<1>12. CASE a # "ok"
  <2>1. UNCHANGED <<queue, next_id, futs, ready>>
    BY <1>7, <1>12, Zenon DEF queueVars
  <2>2. TypeOK'
    <3>1. CallerType'
      BY <1>3, <1>8, Zenon DEF Inv, TypeOK, CallerType
    <3>2. ActorType' /\ FlagType' /\ ExecutorType'
      BY <1>2, <1>3, <2>1, Zenon DEF Inv, TypeOK, ActorType, FlagType, ExecutorType
    <3> QED BY <3>1, <3>2, Zenon DEF TypeOK
  <2>3. TasksInv'
    <3>1. \A u \in Task : (call'[u] = "ok") = (call[u] = "ok")
      BY <1>5, <1>8, <1>12, Zenon
    <3> QED
      BY <1>3, <2>1, <3>1, TasksFrame, Zenon
  <2>4. LifeInv' /\ BusyIsExact'
    BY <1>2, <1>3, <1>9, <2>1, Zenon DEF Inv, LifeInv, BusyIsExact
  <2> QED
    BY <1>10, <1>11, <2>2, <2>3, <2>4, Zenon DEF Inv
<1>13. CASE a = "ok"
  <2> DEFINE e == [task |-> t, id |-> next_id, rank |-> IF IsPriority THEN Prio[t] ELSE 0]
  <2>1. /\ queue' = queue \cup {e} /\ next_id' = next_id + 1
        /\ futs' = futs \cup {t} /\ ready' = Append(ready, t)
    BY <1>7, <1>13, Zenon DEF Accept, Push
  <2>2. e \in [task : Task, id : Nat, rank : Int] /\ e.task = t
    BY <1>4, ConstantsAssumption DEF Inv, TypeOK, ActorType
  <2> HIDE DEF e
  <2>3. TypeOK'
    <3>1. CallerType'
      BY <1>3, <1>8, Zenon DEF Inv, TypeOK, CallerType
    <3>2. ActorType'
      BY <1>2, <1>3, <1>4, <2>1, <2>2 DEF Inv, TypeOK, ActorType
    <3>3. FlagType' /\ ExecutorType'
      BY <1>2, <1>3, Zenon DEF Inv, TypeOK, FlagType, ExecutorType
    <3> QED BY <3>1, <3>2, <3>3, Zenon DEF TypeOK
  <2>4. TasksInv'
    <3>1. Queued' = Queued \cup {t} /\ \A f \in queue : f.task \in Task
      BY <2>1, <2>2, Zenon DEF Queued, Inv, TypeOK, ActorType
    <3>2. \A w \in Worker : job[w] # None => job[w] \in Task
      BY Zenon DEF Inv, TypeOK, ExecutorType
    <3>3. \A f \in queue : f.task # t
      BY <1>6, Zenon DEF Queued
    <3> HIDE DEF Queued
    <3>4. \A u \in Task :
            /\ call'[u] = "ok" /\ runs'[u] = 0 =>
                 u \in Queued' \/ \E w \in Worker : inbox'[w] = <<u>>
            /\ call'[u] # "ok" => runs'[u] = 0
            /\ runs'[u] <= 1
      BY <1>3, <1>8, <1>13, <3>1, AcceptedFacts, RunsFacts, Zenon
    <3>5. \A f \in queue' :
            /\ call'[f.task] = "ok" /\ runs'[f.task] = 0
            /\ \A w \in Worker : inbox'[w] # <<f.task>>
            /\ \A g \in queue' : g.task = f.task => g = f
      <4>1. ASSUME NEW f \in queue
            PROVE  /\ call'[f.task] = "ok" /\ runs[f.task] = 0
                   /\ \A w \in Worker : inbox[w] # <<f.task>>
                   /\ \A g \in queue' : g.task = f.task => g = f
        <5>1. call'[f.task] = "ok"
          BY <1>8, <3>1, <3>3, QueuedFacts, Zenon
        <5>2. \A g \in queue' : g.task = f.task => g = f
          BY <2>1, <2>2, <3>3, QueuedFacts, Zenon
        <5> QED
          BY <5>1, <5>2, QueuedFacts, Zenon
      <4>2. /\ call'[t] = "ok" /\ \A w \in Worker : inbox[w] # <<t>>
            /\ \A g \in queue' : g.task = t => g = e
        BY <1>4, <1>6, <1>8, <1>13, <2>1, <3>3, Zenon
      <4>3. runs' = runs /\ inbox' = inbox
        BY <1>3, Zenon
      <4>4. runs'[t] = 0
        BY <1>5, <4>3, Zenon
      <4>5. \A f \in queue' : f \in queue \/ f = e
        BY <2>1, Zenon
      <4> QED
        BY <2>2, <4>1, <4>2, <4>3, <4>4, <4>5, Zenon
    <3>6. \A w \in Worker :
            /\ inbox'[w] = <<>> \/ \E u \in Task : /\ inbox'[w] = <<u>>
                                                   /\ call'[u] = "ok" /\ runs'[u] = 0
            /\ job'[w] # None => call'[job'[w]] = "ok" /\ runs'[job'[w]] = 1
      <4>1. \A u \in Task : call[u] = "ok" => call'[u] = "ok"
        BY <1>8, <1>13, Zenon
      <4> QED
        BY <1>3, <3>2, <4>1, ExecutorFacts, Zenon
    <3> QED
      BY <1>3, <3>4, <3>5, <3>6, Zenon DEF Inv, TasksInv
  <2>5. LifeInv' /\ BusyIsExact'
    BY <1>2, <1>3, <1>7, <1>9, <1>13, Zenon DEF Inv, LifeInv, BusyIsExact
  <2> QED
    BY <1>10, <1>11, <2>3, <2>4, <2>5, Zenon DEF Inv
<1> QED
  BY <1>12, <1>13, Zenon

-----------------------------------------------------------------------------
(* The Ready of an executor and the loops at the end of an iteration of    *)
(* the actor, the steps that count executors.                              *)

\* The sets of executors are finite, so that their cardinalities are numbers.
LEMMA WorkersFinite ==
  /\ IsFiniteSet(Worker)
  /\ \A S \in SUBSET Worker : IsFiniteSet(S) /\ Cardinality(S) \in Nat
<1>1. IsFiniteSet(Worker)
  BY FS_Interval, ConstantsAssumption DEF Worker
<1> QED
  BY <1>1, FS_Subset, FS_CardinalityType

\* Counting: one executor starts or stops working.
LEMMA WorkingCount ==
  ASSUME NEW S \in SUBSET Worker, NEW w \in Worker
  PROVE  /\ w \notin S => Cardinality(S \cup {w}) = Cardinality(S) + 1
         /\ w \in S => Cardinality(S \ {w}) = Cardinality(S) - 1
         /\ Cardinality(S) = 0 <=> S = {}
BY WorkersFinite, FS_AddElement, FS_RemoveElement, FS_EmptySet, Zenon

\* An executor is ready again.
LEMMA RecvReadyInv ==
  ASSUME Inv, Actor, RecvReady
  PROVE  Inv'
<1>1. Receive("Ready")
  BY Zenon DEF RecvReady
<1>2. /\ UNCHANGED <<call, queue, next_id, futs, ready, started, stopped, retiring>>
      /\ UNCHANGED <<target, executors, next_worker, workers>>
  BY Zenon DEF RecvReady, queueVars, lifeVars
<1>3. /\ pc \in {"recv", "blind"} /\ pc' = "tail" /\ UNCHANGED drained
      /\ UNCHANGED <<state, config, reloads, cancelled, starter, count, stopper>>
      /\ UNCHANGED <<job, exited, runs, inbox>> /\ chan' \in Seq(Command)
      /\ Head(chan) \in Command /\ Head(chan).type = "Ready"
      /\ Len(chan) \in Nat /\ Len(chan) > 0 /\ Head(chan) = chan[1]
      /\ Len(chan') = Len(chan) - 1
      /\ \A i \in 1 .. Len(chan') : chan'[i] = chan[i + 1]
  BY <1>1, ReceiveStep, Zenon
<1> DEFINE w == Head(chan).arg
<1>4. w \in Worker /\ Head(chan) = ReadyCmd(w)
  BY <1>3 DEF Command, ReadyCmd, StopCmd
<1>5. busy' = busy - 1 /\ idle' = idle \cup {w}
  BY Zenon DEF RecvReady
<1>6. /\ w \in Working /\ ~retiring /\ w \in executors \ idle
      /\ job[w] = None /\ inbox[w] = <<>>
  BY <1>3, <1>4 DEF Inv, ChanInv, Working, LifeInv, BusyIsExact
<1> HIDE DEF w
<1>7. \A i \in 1 .. Len(chan') : chan'[i] # ReadyCmd(w)
  <2> SUFFICES ASSUME NEW i \in 1 .. Len(chan'), chan'[i] = ReadyCmd(w) PROVE FALSE
    BY Zenon
  <2>1. /\ i + 1 \in 1 .. Len(chan) /\ 1 \in 1 .. Len(chan) /\ i + 1 # 1
        /\ chan[i + 1] = chan[1]
    BY <1>3, <1>4
  <2> QED
    BY <1>3, <2>1, Zenon DEF Inv, ChanInv
<1>8. \A v \in Worker : v # w =>
        ((\E i \in 1 .. Len(chan') : chan'[i] = ReadyCmd(v))
           <=> (\E i \in 1 .. Len(chan) : chan[i] = ReadyCmd(v)))
  <2> SUFFICES ASSUME NEW v \in Worker, v # w
               PROVE  (\E i \in 1 .. Len(chan') : chan'[i] = ReadyCmd(v))
                        <=> (\E i \in 1 .. Len(chan) : chan[i] = ReadyCmd(v))
    BY Zenon
  <2>1. chan[1] # ReadyCmd(v)
    BY <1>3, <1>4 DEF ReadyCmd
  <2>2. ASSUME NEW i \in 1 .. Len(chan), chan[i] = ReadyCmd(v)
        PROVE  \E j \in 1 .. Len(chan') : chan'[j] = ReadyCmd(v)
    <3>1. i - 1 \in 1 .. Len(chan') /\ chan'[i - 1] = chan[i]
      BY <1>3, <2>1, <2>2
    <3> QED BY <2>2, <3>1, Zenon
  <2>3. ASSUME NEW i \in 1 .. Len(chan'), chan'[i] = ReadyCmd(v)
        PROVE  \E j \in 1 .. Len(chan) : chan[j] = ReadyCmd(v)
    <3>1. i + 1 \in 1 .. Len(chan) /\ chan'[i] = chan[i + 1]
      BY <1>3
    <3> QED BY <2>3, <3>1, Zenon
  <2> QED BY <2>2, <2>3, Zenon
<1>9. Working' = Working \ {w}
  BY <1>3, <1>6, <1>7, <1>8, Zenon DEF Working
<1>10. /\ Working \in SUBSET Worker /\ busy = Cardinality(Working)
       /\ Cardinality(Working \ {w}) = busy - 1 /\ Cardinality(Working \ {w}) \in Nat
  BY <1>4, <1>6, WorkingCount, WorkersFinite, Zenon DEF Inv, BusyIsExact, Working
<1>11. TypeOK'
  <2>1. CallerType'
    BY <1>2, <1>3, Zenon DEF Inv, TypeOK, CallerType
  <2>2. ActorType'
    <3>1. busy' \in Nat
      BY <1>5, <1>10, Zenon
    <3>2. idle' \subseteq Worker
      BY <1>4, <1>5, Zenon DEF Inv, TypeOK, ActorType
    <3> QED
      BY <1>2, <1>3, <3>1, <3>2, Zenon DEF Inv, TypeOK, ActorType
  <2>3. FlagType' /\ ExecutorType'
    BY <1>2, <1>3 DEF Inv, TypeOK, FlagType, ExecutorType
  <2> QED BY <2>1, <2>2, <2>3, Zenon DEF TypeOK
<1>12. ChanInv'
  BY <1>1, <1>2, ReceiveChanInv
<1>13. TasksInv'
  BY <1>2, <1>3, Zenon DEF Inv, TasksInv, Queued
<1>14. ExecInv'
  BY <1>2, <1>3, <1>5, <1>6 DEF Inv, ExecInv
<1>15. LifeInv'
  BY <1>2, <1>3, <1>6 DEF Inv, LifeInv
<1>16. BusyIsExact'
  BY <1>2, <1>3, <1>5, <1>6, <1>9, <1>10 DEF Inv, BusyIsExact
<1> QED
  BY <1>11, <1>12, <1>13, <1>14, <1>15, <1>16, Zenon DEF Inv

\* An idle executor is retired or a new one spawned.
LEMMA RetireSpawnInv ==
  ASSUME Inv, Actor, Spawn \/ \E w \in Worker : Retire(w)
  PROVE  Inv'
<1>1. /\ UNCHANGED <<state, config, reloads, cancelled, starter, count, stopper>>
      /\ UNCHANGED <<job, exited, runs, chan, drained, call, pc, next_id, futs>>
      /\ UNCHANGED <<started, stopped, retiring, target, queue, ready, busy, inbox>>
      /\ ~retiring
  BY Zenon DEF Actor, configVars, startVars, Spawn, Retire, Tend, lifeVars
<1>2. Working' = Working /\ TasksInv' /\ ChanInv'
  <2>1. Working' = Working /\ Queued' = Queued
    BY <1>1, Zenon DEF Working, Queued
  <2>2. TasksInv'
    BY <1>1, <2>1, Zenon DEF Inv, TasksInv
  <2>3. ChanInv'
    BY <1>1, Zenon DEF Inv, ChanInv
  <2> QED BY <2>1, <2>2, <2>3, Zenon
<1>3. CallerType' /\ FlagType' /\ ExecutorType'
  BY <1>1, Zenon DEF Inv, TypeOK, CallerType, FlagType, ExecutorType
<1>4. /\ executors' \ idle' = executors \ idle /\ executors' \cap exited = {}
      /\ ActorType' /\ ExecInv'
  <2>1. CASE Spawn
    <3>1. next_worker \in Worker /\ next_worker + 1 \in 0 .. MaxWorkers
      BY <2>1, ConstantsAssumption DEF Spawn, Worker, Inv, TypeOK, ActorType
    <3>2. next_worker \notin workers \cup exited
      BY <3>1 DEF Inv, ExecInv, Worker
    <3>3. /\ next_worker' = next_worker + 1
          /\ executors' = executors \cup {next_worker}
          /\ idle' = idle \cup {next_worker}
          /\ workers' = workers \cup {next_worker}
      BY <2>1, Zenon DEF Spawn
    <3>4. ExecInv'
      <4>1. /\ executors \subseteq Worker /\ workers \subseteq Worker /\ exited \subseteq Worker
            /\ \A v \in Worker : v < next_worker => v < next_worker + 1
        BY <3>1 DEF Worker, Inv, TypeOK, ActorType, ExecutorType
      <4> QED
        BY <1>1, <3>1, <3>2, <3>3, <4>1 DEF Inv, ExecInv, Worker
    <3>5. ActorType'
      BY <1>1, <3>1, <3>3 DEF Inv, TypeOK, ActorType
    <3> QED
      BY <3>2, <3>3, <3>4, <3>5 DEF Inv, ExecInv
  <2>2. CASE \E w \in Worker : Retire(w)
    <3>1. PICK w \in Worker : /\ w \in idle
                              /\ executors' = executors \ {w} /\ idle' = idle \ {w}
                              /\ UNCHANGED <<next_worker, workers>>
      BY <2>2, Zenon DEF Retire
    <3> QED
      BY <1>1, <3>1 DEF Inv, TypeOK, ActorType, ExecInv
  <2> QED BY <2>1, <2>2
<1>5. LifeInv' /\ BusyIsExact'
  BY <1>1, <1>2, <1>4 DEF Inv, LifeInv, BusyIsExact
<1> QED
  BY <1>2, <1>3, <1>4, <1>5 DEF Inv, TypeOK

\* The head of the queue goes to an idle executor.
LEMMA DispatchInv ==
  ASSUME Inv, Actor, NEW w \in Worker, Dispatch(w)
  PROVE  Inv'
<1>1. /\ UNCHANGED <<state, config, reloads, cancelled, starter, count, stopper>>
      /\ UNCHANGED <<job, exited, runs, chan, drained, call, pc, next_id, futs>>
      /\ UNCHANGED <<started, stopped, retiring, target, executors, next_worker, workers>>
      /\ ~retiring /\ w \in idle /\ idle' = idle \ {w} /\ busy' = busy + 1
  BY Zenon DEF Actor, configVars, startVars, Dispatch, Tend, lifeVars
<1>2. PICK e \in queue : /\ queue' = queue \ {e}
                         /\ Wake(e.task)
                         /\ inbox' = [inbox EXCEPT ![w] = Append(@, e.task)]
  BY Zenon DEF Dispatch, Feed, Front
<1>3. e.task \in Task /\ \A f \in queue : f.task \in Task
  BY Zenon DEF Inv, TypeOK, ActorType
<1>4. w \in executors /\ w \notin Working
  BY <1>1, Zenon DEF Inv, ExecInv, BusyIsExact
<1>5. /\ job[w] = None /\ inbox[w] = <<>>
      /\ \A i \in 1 .. Len(chan) : chan[i] # ReadyCmd(w)
  BY <1>4, Zenon DEF Working
<1>6. /\ inbox' \in [Worker -> Seq(Task)]
      /\ \A v \in Worker : inbox'[v] = IF v = w THEN <<e.task>> ELSE inbox[v]
  <2>1. Append(inbox[w], e.task) = <<e.task>> /\ <<e.task>> \in Seq(Task)
    BY <1>3, <1>5
  <2> QED
    BY <1>2, <2>1 DEF Inv, TypeOK, ExecutorType
<1>7. <<e.task>> # <<>>
  BY Zenon
<1>8. Working' = Working \cup {w}
  BY <1>1, <1>6, <1>7, Zenon DEF Working
<1>9. Cardinality(Working \cup {w}) = busy + 1
  BY <1>4, WorkingCount DEF Inv, BusyIsExact, Working
<1>10. TypeOK'
  <2>1. CallerType' /\ FlagType'
    BY <1>1 DEF Inv, TypeOK, CallerType, FlagType
  <2>2. ready' \in Seq(Task)
    BY <1>2, <1>3, SMTT(30) DEF Wake, Inv, TypeOK, ActorType
  <2>3. ActorType'
    BY <1>1, <1>2, <2>2 DEF Inv, TypeOK, ActorType
  <2>4. ExecutorType'
    BY <1>1, <1>6 DEF Inv, TypeOK, ExecutorType
  <2> QED BY <2>1, <2>3, <2>4 DEF TypeOK
<1>11. TasksInv'
  <2>1. Queued' \cup {e.task} = Queued
    BY <1>2 DEF Queued
  <2>2. /\ call[e.task] = "ok" /\ runs[e.task] = 0
        /\ \A v \in Worker : inbox[v] # <<e.task>>
        /\ \A f \in queue' : f.task # e.task /\ f \in queue
    BY <1>2 DEF Inv, TasksInv
  <2>3. \A t \in Task : <<t>> = <<e.task>> => t = e.task
    BY Zenon
  <2> HIDE DEF Queued
  <2>4. \A t \in Task :
          /\ call'[t] = "ok" /\ runs'[t] = 0 =>
               t \in Queued' \/ \E v \in Worker : inbox'[v] = <<t>>
          /\ call'[t] # "ok" => runs'[t] = 0
          /\ runs'[t] <= 1
    <3> SUFFICES ASSUME NEW t \in Task, call[t] = "ok", runs[t] = 0
                 PROVE  t \in Queued' \/ \E v \in Worker : inbox'[v] = <<t>>
      BY <1>1, Zenon DEF Inv, TasksInv
    <3>1. CASE t \in Queued
      BY <1>6, <2>1, <3>1
    <3>2. CASE \E v \in Worker : inbox[v] = <<t>>
      <4>1. PICK v \in Worker : inbox[v] = <<t>>
        BY <3>2, Zenon
      <4>2. v # w
        <5>1. <<t>> # <<>>
          BY Zenon
        <5> QED
          BY <1>5, <4>1, <5>1, Zenon
      <4>3. inbox'[v] = <<t>>
        BY <1>6, <4>1, <4>2, Zenon
      <4> QED
        BY <4>3, Zenon
    <3> QED BY <3>1, <3>2 DEF Inv, TasksInv
  <2>5. \A f \in queue' :
          /\ call'[f.task] = "ok" /\ runs'[f.task] = 0
          /\ \A v \in Worker : inbox'[v] # <<f.task>>
          /\ \A g \in queue' : g.task = f.task => g = f
    BY <1>1, <1>3, <1>6, <2>2, <2>3, QueuedFacts, ZenonT(40)
  <2>6. \A v \in Worker :
          /\ inbox'[v] = <<>> \/ \E t \in Task : /\ inbox'[v] = <<t>>
                                                 /\ call'[t] = "ok" /\ runs'[t] = 0
          /\ job'[v] # None => call'[job'[v]] = "ok" /\ runs'[job'[v]] = 1
    <3> SUFFICES ASSUME NEW v \in Worker
                 PROVE  inbox'[v] = <<>> \/ \E t \in Task : /\ inbox'[v] = <<t>>
                                                            /\ call[t] = "ok" /\ runs[t] = 0
      BY <1>1, ExecutorFacts, Zenon
    <3>1. CASE v = w
      <4>1. inbox'[v] = <<e.task>>
        BY <1>6, <3>1, Zenon
      <4> QED
        BY <1>3, <2>2, <4>1, Zenon
    <3>2. CASE v # w
      <4>1. inbox'[v] = inbox[v]
        BY <1>6, <3>2, Zenon
      <4> QED
        BY <4>1, ExecutorFacts, Zenon
    <3> QED
      BY <3>1, <3>2, Zenon
  <2>7. \A u, v \in Worker :
          /\ inbox'[u] = inbox'[v] /\ inbox'[u] # <<>> => u = v
          /\ job'[u] = job'[v] /\ job'[u] # None => u = v
    BY <1>1, <1>6, <2>2 DEF Inv, TasksInv
  <2> QED
    BY <2>4, <2>5, <2>6, <2>7, Zenon DEF TasksInv
<1>12. ChanInv'
  <2>1. ASSUME NEW i \in 1 .. Len(chan), NEW v \in Worker, chan[i] = ReadyCmd(v)
        PROVE  job[v] = None /\ inbox'[v] = <<>>
    BY <1>5, <1>6, <2>1, Zenon DEF Inv, ChanInv
  <2>2. \A v \in Worker : job[v] = None \/ inbox'[v] = <<>>
    BY <1>5, <1>6, Zenon DEF Inv, ChanInv
  <2> QED
    BY <1>1, <2>1, <2>2, ChanFacts, Zenon DEF ChanInv
<1>13. ExecInv'
  BY <1>1, Zenon DEF Inv, ExecInv
<1>14. LifeInv'
  BY <1>1, Zenon DEF Inv, LifeInv
<1>15. BusyIsExact'
  BY <1>1, <1>4, <1>8, <1>9 DEF Inv, BusyIsExact
<1> QED
  BY <1>10, <1>11, <1>12, <1>13, <1>14, <1>15 DEF Inv

\* The end of the loop body: the actor goes on, retires or leaves.
LEMMA TailEndInv ==
  ASSUME Inv, Actor, TailEnd
  PROVE  Inv'
<1>1. /\ UNCHANGED <<state, config, reloads, cancelled, starter, count, stopper>>
      /\ UNCHANGED <<job, exited, runs, drained, queue, next_id, futs, ready, inbox>>
      /\ UNCHANGED <<started, stopped, target, busy, next_worker, workers>>
      /\ pc = "tail" /\ ~drained
  BY Zenon DEF Actor, configVars, startVars, TailEnd, queueVars, Inv, LifeInv
<1>2. /\ retiring' \in BOOLEAN
      /\ retiring' => executors' = {} /\ idle' = {}
      /\ ~retiring' => ~retiring /\ UNCHANGED <<executors, idle>>
  BY Zenon DEF TailEnd
<1>3. retiring' => stopped /\ queue = {} /\ Working = {}
  <2>1. busy = 0 => Working = {}
    BY WorkingCount, Zenon DEF Inv, BusyIsExact, Working
  <2> QED
    BY <2>1, Zenon DEF TailEnd, Inv, LifeInv
<1>4. \/ pc' = "poll" /\ UNCHANGED <<chan, call>>
      \/ /\ pc' = "gone" /\ retiring' /\ chan' = <<>>
         /\ call' = [t \in Task |-> IF t \in Unread THEN "stopped" ELSE call[t]]
  BY Zenon DEF TailEnd, Break
<1>5. /\ \A t \in Task : (call'[t] = "ok") = (call[t] = "ok")
      /\ call' \in [Task -> {"new", "checked", "waiting", "ok", "stopped", "cancelled"}]
  <2>1. \A t \in Unread : call[t] = "waiting"
    BY Zenon DEF Unread, Inv, ChanInv
  <2>2. CASE UNCHANGED call
    BY <2>2 DEF Inv, TypeOK, CallerType
  <2>3. CASE call' = [t \in Task |-> IF t \in Unread THEN "stopped" ELSE call[t]]
    BY <2>1, <2>3 DEF Inv, TypeOK, CallerType
  <2> QED BY <1>4, <2>2, <2>3
<1>6. Working' = Working
  <2>1. CASE UNCHANGED chan
    BY <1>1, <2>1 DEF Working
  <2>2. CASE chan' = <<>> /\ retiring'
    BY <1>1, <1>3, <2>2 DEF Working
  <2> QED BY <1>4, <2>1, <2>2
<1>7. TypeOK'
  <2>0. chan' \in Seq(Command)
    <3>1. chan \in Seq(Command) /\ <<>> \in Seq(Command) /\ chan' \in {chan, <<>>}
      BY <1>4 DEF Inv, TypeOK, CallerType
    <3> QED BY <3>1, Zenon
  <2>1. CallerType'
    BY <1>1, <1>5, <2>0, Zenon DEF Inv, TypeOK, CallerType
  <2>2. ActorType'
    BY <1>1, <1>2, <1>4, Zenon DEF Inv, TypeOK, ActorType
  <2>3. FlagType' /\ ExecutorType'
    BY <1>1, <1>2 DEF Inv, TypeOK, FlagType, ExecutorType
  <2> QED BY <2>1, <2>2, <2>3, Zenon DEF TypeOK
<1>8. TasksInv'
  BY <1>1, <1>5, TasksFrame, Zenon
<1>9. ChanInv'
  BY <1>1, <1>4 DEF Inv, ChanInv
<1>10. ExecInv'
  BY <1>1, <1>2, Zenon DEF Inv, ExecInv
<1>11. LifeInv'
  BY <1>1, <1>2, <1>3, <1>4, <1>6, Zenon DEF Inv, LifeInv
<1>12. BusyIsExact'
  BY <1>1, <1>2, <1>6, Zenon DEF Inv, BusyIsExact
<1> QED
  BY <1>7, <1>8, <1>9, <1>10, <1>11, <1>12, Zenon DEF Inv
-----------------------------------------------------------------------------
(* The invariant and the contract.                                         *)

\* The pool as new() leaves it satisfies the invariant.
LEMMA InitInv == Init => Inv
<1> SUFFICES ASSUME Init PROVE Inv
  BY Zenon
<1> USE ConstantsAssumption
<1>1. TypeOK
  <2>1. CallerType
    BY DEF Init, CallerType
  <2>2. ActorType
    BY DEF Init, ActorType
  <2>3. FlagType
    BY Zenon DEF Init, FlagType
  <2>4. ExecutorType
    BY DEF Init, ExecutorType
  <2> QED
    BY <2>1, <2>2, <2>3, <2>4, Zenon DEF TypeOK
<1>2. TasksInv
  BY DEF Init, TasksInv, Queued
<1>3. ChanInv
  BY DEF Init, ChanInv
<1>4. ExecInv /\ Working = {}
  BY DEF Init, ExecInv, Working
<1>5. LifeInv /\ BusyIsExact
  BY <1>4, FS_EmptySet, Zenon DEF Init, LifeInv, BusyIsExact
<1> QED
  BY <1>1, <1>2, <1>3, <1>4, <1>5, Zenon DEF Inv

\* The invariant is inductive.
LEMMA NextInv == Inv /\ [Next]_vars => Inv'
<1> SUFFICES ASSUME Inv, [Next]_vars PROVE Inv'
  BY Zenon
<1>1. CASE Caller
  BY <1>1, CallerInv, Zenon
<1>2. CASE Actor
  <2>1. CASE \/ ActorBegin \/ PollPending \/ PollAborted \/ PollDone \/ Rewake \/ Drain
             \/ \E w \in Worker : Join(w)
    BY <1>2, <2>1, ActorMoveInv
  <2>2. CASE PollCancelled
    BY <1>2, <2>2, PollCancelledInv
  <2>3. CASE RecvAdd
    BY <1>2, <2>3, RecvAddInv
  <2>4. CASE RecvStart \/ RecvResize \/ RecvStop
    BY <1>2, <2>4, RecvControlInv
  <2>5. CASE RecvReady
    BY <1>2, <2>5, RecvReadyInv, Zenon
  <2>6. CASE Spawn \/ \E w \in Worker : Retire(w)
    BY <1>2, <2>6, RetireSpawnInv
  <2>7. ASSUME NEW w \in Worker, Dispatch(w) PROVE Inv'
    BY <1>2, <2>7, DispatchInv, Zenon
  <2>8. CASE TailEnd
    BY <1>2, <2>8, TailEndInv, Zenon
  <2> QED
    BY <1>2, <2>1, <2>2, <2>3, <2>4, <2>5, <2>6, <2>7, <2>8, Zenon DEF Actor
<1>3. ASSUME NEW w \in Worker, Executor(w) PROVE Inv'
  BY <1>3, WorkerTakeInv, WorkerDoneInv, WorkerExitInv DEF Executor
<1>4. CASE UNCHANGED vars
  <2>1. /\ UNCHANGED <<state, chan, drained, config, reloads, call, cancelled, starter, count>>
        /\ UNCHANGED <<stopper, pc, queue, next_id, futs, ready, started, stopped, retiring>>
        /\ UNCHANGED <<target, executors, idle, busy, next_worker, workers>>
        /\ UNCHANGED <<inbox, job, exited, runs>>
    BY <1>4, Zenon DEF vars, configVars, addVars, startVars, queueVars, lifeVars, execVars, workerVars
  <2>2. Working' = Working /\ TasksInv' /\ ChanInv' /\ ExecInv'
    BY <2>1, TasksFrame, ChanFrame, Zenon DEF Inv, ExecInv
  <2>3. LifeInv' /\ BusyIsExact'
    BY <2>1, <2>2, Zenon DEF Inv, LifeInv, BusyIsExact
  <2>4. TypeOK'
    BY <2>1 DEF Inv, TypeOK, CallerType, ActorType, FlagType, ExecutorType
  <2> QED BY <2>2, <2>3, <2>4 DEF Inv
<1> QED
  BY <1>1, <1>2, <1>3, <1>4, Zenon DEF Next

\* The invariant holds in every state the pool can reach.
THEOREM PoolInv == Spec => []Inv
BY InitInv, NextInv, PTL DEF Spec

\* The actor's busy counter is exact, it never wraps, and it never sends a
\* task to an executor that has left.
THEOREM PoolBusyIsExact == Spec => []BusyIsExact
<1>1. Inv => BusyIsExact
  BY Zenon DEF Inv
<1> QED
  BY <1>1, PoolInv, PTL

-----------------------------------------------------------------------------
(* The pool implements the contract of a task service.                     *)

LEMMA ProgressStays ==
  ASSUME UNCHANGED <<call, runs, job, drained>>
  PROVE  UNCHANGED <<progress, drained>>
BY Zenon DEF progress

\* A step that moves one task.
LEMMA ProgressMoves ==
  ASSUME NEW u \in Task, NEW to, progress'[u] = to,
         \A t \in Task \ {u} : progress'[t] = progress[t]
  PROVE  progress' = [progress EXCEPT ![u] = to]
<1>1. /\ progress = [t \in Task |-> progress[t]]
      /\ progress' = [t \in Task |-> progress'[t]]
  BY Zenon DEF progress
<1> QED
  BY <1>1, Zenon

LEMMA CallerRefines ==
  ASSUME Inv, Caller
  PROVE  [Contract!Next]_<<progress, drained>>
<1>1. UNCHANGED <<runs, job, drained>>
  BY Zenon DEF Caller, CallerFrame, workerVars
<1>2. ASSUME NEW t \in Task, AddCheck(t) \/ AddSend(t)
      PROVE  [Contract!Next]_<<progress, drained>>
  <2>1. /\ call[t] \in {"new", "checked"}
        /\ call'[t] \in {"checked", "waiting", "stopped", "cancelled"}
        /\ \A u \in Task \ {t} : call'[u] = call[u]
    BY <1>2, Zenon DEF AddCheck, AddSend, Inv, TypeOK, CallerType
  <2>2. /\ \A u \in Task \ {t} : progress'[u] = progress[u]
        /\ progress[t] = "new"
    BY <1>1, <2>1, Zenon DEF progress
  <2>3. CASE call'[t] \in {"checked", "waiting"}
    <3>1. progress'[t] = "new"
      BY <1>1, <2>3, Zenon DEF progress
    <3>2. progress' = progress
      BY <2>2, <3>1 DEF progress
    <3> QED
      BY <1>1, <3>2, Zenon
  <2>4. CASE call'[t] \in {"stopped", "cancelled"}
    <3>1. progress'[t] = "rejected"
      BY <1>1, <2>4, Zenon DEF progress
    <3>2. progress' = [progress EXCEPT ![t] = "rejected"]
      BY <2>2, <3>1, ProgressMoves, Zenon
    <3>3. Contract!Reject(t)
      BY <1>1, <2>2, <3>2, Zenon DEF Contract!Reject, Contract!Move
    <3> QED
      BY <3>3, Zenon DEF Contract!Next
  <2> QED BY <2>1, <2>3, <2>4, Zenon
<1>3. CASE UNCHANGED call
  BY <1>1, <1>3, ProgressStays, Zenon
<1>4. UNCHANGED call \/ \E t \in Task : AddCheck(t) \/ AddSend(t)
  BY Zenon DEF Caller, Cancel, StartBegin, StartRead, StartSend, Reload, StopBegin, StopSend,
     StopReturn, addVars
<1> QED
  BY <1>2, <1>3, <1>4, Zenon

\* The actor accepts or rejects; it reports drained when nothing is left.
LEMMA ActorRefines ==
  ASSUME Inv, Actor
  PROVE  [Contract!Next]_<<progress, drained>>
<1>1. UNCHANGED <<runs, job>>
  BY Zenon DEF Actor
<1>2. CASE RecvAdd
  <2>1. /\ UNCHANGED drained /\ pc \in {"recv", "blind"}
        /\ Head(chan) \in Command /\ Head(chan).type = "Add"
        /\ Len(chan) \in Nat /\ Len(chan) > 0 /\ Head(chan) = chan[1]
    BY <1>2, ReceiveStep, Zenon DEF RecvAdd
  <2> DEFINE t == Head(chan).arg
  <2>2. t \in Task /\ Head(chan) = AddCmd(t)
    BY <2>1, AddCommand, Zenon
  <2>3. call[t] = "waiting" /\ runs[t] = 0 /\ ~drained
    <3>1. 1 \in 1 .. Len(chan) /\ chan[1] = AddCmd(t)
      BY <2>1, <2>2
    <3>2. call[t] = "waiting" /\ runs[t] = 0
      BY <2>2, <3>1, WaitingFacts, Zenon
    <3> QED
      BY <2>1, <3>2, Zenon DEF Inv, LifeInv
  <2>4. /\ \A u \in Task \ {t} : call'[u] = call[u]
        /\ call'[t] \in {"ok", "stopped", "cancelled"}
    BY <1>2, <2>2, Zenon DEF RecvAdd, Inv, TypeOK, CallerType
  <2> HIDE DEF t
  <2>5. /\ \A u \in Task \ {t} : progress'[u] = progress[u]
        /\ progress[t] = "new"
    BY <1>1, <2>2, <2>3, <2>4 DEF progress
  <2>6. CASE call'[t] = "ok"
    <3>1. progress'[t] = "accepted"
      BY <1>1, <2>2, <2>3, <2>6 DEF progress
    <3>2. progress' = [progress EXCEPT ![t] = "accepted"]
      BY <2>2, <2>5, <3>1, ProgressMoves
    <3>3. Contract!Accept(t)
      BY <2>1, <2>3, <2>5, <3>2 DEF Contract!Accept, Contract!Move
    <3> QED
      BY <2>2, <3>3, Zenon DEF Contract!Next
  <2>7. CASE call'[t] \in {"stopped", "cancelled"}
    <3>1. progress'[t] = "rejected"
      BY <1>1, <2>2, <2>3, <2>7 DEF progress
    <3>2. progress' = [progress EXCEPT ![t] = "rejected"]
      BY <2>2, <2>5, <3>1, ProgressMoves
    <3>3. Contract!Reject(t)
      BY <2>1, <2>3, <2>5, <3>2 DEF Contract!Reject, Contract!Move
    <3> QED
      BY <2>2, <3>3 DEF Contract!Next
  <2> QED BY <2>4, <2>6, <2>7, Zenon
<1>3. CASE TailEnd
  <2>1. UNCHANGED drained
    BY <1>3, Zenon DEF TailEnd
  <2>2. CASE UNCHANGED call
    BY <1>1, <2>1, <2>2, ProgressStays, Zenon
  <2>3. CASE Break
    <3>1. /\ Unread \in SUBSET Task
          /\ \A t \in Unread : call[t] = "waiting"
          /\ call' = [t \in Task |-> IF t \in Unread THEN "stopped" ELSE call[t]]
      BY <2>3 DEF Break, Unread, Inv, ChanInv
    <3>2. /\ \A t \in Unread : progress[t] = "new"
          /\ progress' = [t \in Task |-> IF t \in Unread THEN "rejected" ELSE progress[t]]
      BY <1>1, <3>1, Zenon DEF progress
    <3>3. Contract!RejectAll(Unread)
      BY <2>1, <3>1, <3>2, Zenon DEF Contract!RejectAll
    <3> QED
      BY <3>1, <3>3, Zenon DEF Contract!Next
  <2> QED BY <1>3, <2>2, <2>3 DEF TailEnd
<1>4. CASE Drain
  <2>1. drained' = TRUE /\ UNCHANGED call /\ pc = "gone"
    BY <1>4, Zenon DEF Drain
  <2>2. queue = {} /\ Working = {}
    BY <2>1, Zenon DEF Inv, LifeInv
  <2>3. \A t \in Task : progress[t] \notin {"accepted", "running"}
    <3>1. \A w \in Worker : job[w] = None /\ inbox[w] = <<>>
      BY <2>2, Zenon DEF Working
    <3>2. ASSUME NEW t \in Task, call[t] = "ok", runs[t] = 0 PROVE FALSE
      <4>1. t \notin Queued /\ <<>> # <<t>>
        BY <2>2, Zenon DEF Queued
      <4> QED
        BY <3>1, <3>2, <4>1, AcceptedFacts, Zenon
    <3> QED
      BY <3>1, <3>2, ConstantsAssumption, Zenon DEF progress
  <2>4. progress' = progress
    BY <1>1, <2>1, Zenon DEF progress
  <2>5. Contract!Close
    BY <2>1, <2>3, <2>4, Zenon DEF Contract!Close
  <2> QED
    BY <2>5, Zenon DEF Contract!Next
<1>5. CASE UNCHANGED <<call, drained>>
  BY <1>1, <1>5, ProgressStays
<1>6. RecvAdd \/ TailEnd \/ Drain \/ UNCHANGED <<call, drained>>
  BY Zenon DEF Actor, ActorBegin, Poll, PollPending, PollAborted, PollCancelled, PollDone,
     Receive, RecvStart, RecvResize, RecvStop, RecvReady, Rewake, Join, Tend, Retire,
     Dispatch, Spawn
<1> QED
  BY <1>2, <1>3, <1>4, <1>5, <1>6, Zenon

\* An executor runs each callback it is given once.
LEMMA ExecutorRefines ==
  ASSUME Inv, NEW w \in Worker, Executor(w)
  PROVE  [Contract!Next]_<<progress, drained>>
<1>1. UNCHANGED <<call, drained>>
  BY Zenon DEF Executor, addVars
<1>2. CASE WorkerTake(w)
  <2>1. PICK t \in Task : inbox[w] = <<t>> /\ call[t] = "ok" /\ runs[t] = 0
    BY <1>2 DEF WorkerTake, Inv, TasksInv
  <2>2. /\ job[w] = None /\ ~drained
        /\ \A v \in Worker : job'[v] = IF v = w THEN t ELSE job[v]
        /\ \A u \in Task : runs'[u] = IF u = t THEN 1 ELSE runs[u]
    <3>1. Head(inbox[w]) = t /\ inbox[w] # <<>>
      BY <2>1
    <3>2. job[w] = None /\ job' = [job EXCEPT ![w] = t] /\ runs' = [runs EXCEPT ![t] = @ + 1]
      BY <1>2, <3>1, Zenon DEF WorkerTake
    <3>3. job \in [Worker -> Task \cup {None}] /\ runs \in [Task -> Nat] /\ runs[t] + 1 = 1
      BY <2>1 DEF Inv, TypeOK, ExecutorType
    <3>4. ~drained
      BY <3>1, AtWork, Zenon
    <3> QED
      BY <3>2, <3>3, <3>4, Zenon
  <2>3. /\ \A u \in Task \ {t} : progress'[u] = progress[u]
        /\ progress[t] = "accepted" /\ progress'[t] = "running"
    BY <1>1, <2>1, <2>2, ConstantsAssumption DEF progress
  <2>4. progress' = [progress EXCEPT ![t] = "running"]
    BY <2>3, ProgressMoves, Zenon
  <2>5. Contract!Run(t)
    BY <1>1, <2>2, <2>3, <2>4, Zenon DEF Contract!Run, Contract!Move
  <2> QED
    BY <2>5, Zenon DEF Contract!Next
<1>3. CASE WorkerDone(w)
  <2> DEFINE t == job[w]
  <2>1. /\ t \in Task /\ call[t] = "ok" /\ runs[t] = 1 /\ ~drained
        /\ \A v \in Worker : v # w => job[v] # t
    BY <1>3, AtWork, Zenon DEF WorkerDone, Inv, TasksInv, TypeOK, ExecutorType
  <2>2. /\ UNCHANGED runs
        /\ \A v \in Worker : job'[v] = IF v = w THEN None ELSE job[v]
    BY <1>3, Zenon DEF WorkerDone, Inv, TypeOK, ExecutorType
  <2>3. /\ \A u \in Task \ {t} : progress'[u] = progress[u]
        /\ progress[t] = "running" /\ progress'[t] = "finished"
    BY <1>1, <2>1, <2>2, ConstantsAssumption DEF progress
  <2> HIDE DEF t
  <2>4. progress' = [progress EXCEPT ![t] = "finished"]
    BY <2>1, <2>3, ProgressMoves, Zenon
  <2>5. Contract!Finish(t)
    BY <1>1, <2>1, <2>3, <2>4, Zenon DEF Contract!Finish, Contract!Move
  <2> QED
    BY <2>1, <2>5, Zenon DEF Contract!Next
<1>4. CASE WorkerExit(w)
  BY <1>1, <1>4, ProgressStays, Zenon DEF WorkerExit
<1> QED
  BY <1>2, <1>3, <1>4, Zenon DEF Executor

\* The pool implements TaskService: Ok from add_task means that the callback
\* runs exactly once, an error that it never runs, and a stop that returns
\* means that every accepted callback has returned.
THEOREM PoolKeepsContract == Spec => KeepsContract
<1>1. Init => Contract!Init
  BY Zenon DEF Init, Contract!Init, progress
<1>2. Inv /\ [Next]_vars => [Contract!Next]_<<progress, drained>>
  <2> SUFFICES ASSUME Inv, [Next]_vars
               PROVE  [Contract!Next]_<<progress, drained>>
    BY Zenon
  <2>1. CASE UNCHANGED vars
    <3>1. UNCHANGED <<call, runs, job, drained>>
      BY <2>1, Zenon DEF vars, addVars, workerVars
    <3> QED
      BY <3>1, ProgressStays, Zenon
  <2> QED
    BY <2>1, CallerRefines, ActorRefines, ExecutorRefines, Zenon DEF Next
<1> QED
  BY <1>1, <1>2, PoolInv, PTL DEF Spec, KeepsContract, Contract!Spec
-----------------------------------------------------------------------------
(* What the pool dispatches.                                               *)

\* The order of the queue told from the calls: the rank of a task whose cancellation
\* the actor has not seen is the caller's, and the others are in front of it.
OrderInv ==
  \A e \in queue :
    /\ e.id < next_id
    /\ ~IsPriority => e.rank <= 0
    /\ e.task \in futs => e.rank = IF IsPriority THEN Prio[e.task] ELSE 0
    /\ e.task \notin futs =>
         IF IsPriority THEN e.rank = MinRank
         ELSE \A f \in queue : f.task \in futs => Before(e, f)

\* Only an Add, a cancellation and a dispatch concern the queue, and only a dispatch
\* raises the counter of the busy executors.
LEMMA QueueSteps ==
  ASSUME Inv, [Next]_vars
  PROVE  \/ UNCHANGED <<queue, next_id, futs>> /\ ~(busy' > busy)
         \/ ((Actor /\ RecvAdd) \/ PollAborted \/ PollCancelled) /\ ~(busy' > busy)
         \/ \E w \in Worker : Dispatch(w)
<1>1. busy' = busy \/ busy' = busy - 1 => ~(busy' > busy)
  BY DEF Inv, TypeOK, ActorType
<1>2. CASE Caller
  BY <1>1, <1>2, Zenon DEF Caller, CallerFrame, execVars
<1>3. CASE Actor
  <2>1. CASE ActorBegin \/ PollPending \/ PollDone \/ Rewake \/ Drain \/ \E w \in Worker : Join(w)
    BY <1>1, <2>1, Zenon DEF ActorBegin, PollPending, Poll, PollDone, Rewake, Drain, Join, queueVars, execVars
  <2>2. CASE RecvStart \/ RecvResize \/ RecvStop \/ RecvReady
    BY <1>1, <2>2, Zenon DEF RecvStart, RecvResize, RecvStop, RecvReady, queueVars, execVars
  <2>3. CASE Spawn \/ TailEnd \/ \E w \in Worker : Retire(w)
    BY <1>1, <2>3, Zenon DEF Spawn, Retire, Tend, TailEnd, queueVars
  <2>4. CASE RecvAdd \/ PollAborted \/ PollCancelled
    <3>1. busy' = busy
      BY <2>4, Zenon DEF RecvAdd, PollAborted, PollCancelled, Poll, execVars
    <3> QED
      BY <1>1, <1>3, <2>4, <3>1, Zenon
  <2> QED
    BY <1>3, <2>1, <2>2, <2>3, <2>4, Zenon DEF Actor
<1>4. ASSUME NEW w \in Worker, Executor(w) PROVE UNCHANGED <<queue, next_id, futs, busy>>
  BY <1>4, Zenon DEF Executor, queueVars, execVars
<1>5. CASE UNCHANGED vars
  BY <1>1, <1>5, Zenon DEF vars, queueVars, execVars
<1> QED
  BY <1>1, <1>2, <1>3, <1>4, <1>5, Zenon DEF Next

\* What the entries of the queue are.
LEMMA EntryFacts ==
  ASSUME Inv
  PROVE  /\ next_id \in Nat
         /\ \A e \in queue : /\ e \in [task : Task, id : Nat, rank : Int]
                             /\ e.task \in Task /\ e.id \in Nat /\ e.rank \in Int
                             /\ Prio[e.task] \in Int
                             /\ \A f \in queue : f.task = e.task => f = e
<1>1. /\ next_id \in Nat /\ queue \subseteq [task : Task, id : Nat, rank : Int]
      /\ \A e, f \in queue : f.task = e.task => f = e
  BY Zenon DEF Inv, TypeOK, ActorType, TasksInv
<1>2. \A e \in queue : e.task \in Task /\ e.id \in Nat /\ e.rank \in Int
  BY <1>1
<1>3. \A t \in Task : Prio[t] \in Int
  BY ConstantsAssumption
<1> QED
  BY <1>1, <1>2, <1>3, Zenon

\* A task is accepted: its entry is the last of its rank.
LEMMA AcceptOrder == ASSUME Inv, OrderInv, Actor, RecvAdd PROVE OrderInv'
<1> DEFINE t == Head(chan).arg
<1>1. CASE UNCHANGED queueVars
  <2>1. UNCHANGED <<queue, next_id, futs>>
    BY <1>1, Zenon DEF queueVars
  <2> QED
    BY <2>1, Zenon DEF OrderInv
<1>2. CASE Accept(t)
  <2>1. t \in Task /\ t \notin Queued
    <3>1. /\ Head(chan) \in Command /\ Head(chan).type = "Add"
          /\ Len(chan) \in Nat /\ Len(chan) > 0 /\ Head(chan) = chan[1]
      BY ReceiveStep, Zenon DEF RecvAdd
    <3>2. t \in Task /\ Head(chan) = AddCmd(t)
      BY <3>1, AddCommand, Zenon
    <3> QED
      BY <3>1, <3>2, WaitingFacts
  <2> DEFINE n == [task |-> t, id |-> next_id, rank |-> IF IsPriority THEN Prio[t] ELSE 0]
  <2>2. queue' = queue \cup {n} /\ next_id' = next_id + 1 /\ futs' = futs \cup {t}
    BY <1>2, Zenon DEF Accept, Push
  <2>3. /\ n.task = t /\ n.id = next_id /\ n.rank = IF IsPriority THEN Prio[t] ELSE 0
        /\ \A e \in queue : e.task # t
    BY <2>1, Zenon DEF Queued
  <2> HIDE DEF n, t
  <2>4. ASSUME NEW e \in queue
        PROVE  /\ e.id < next_id + 1
               /\ ~IsPriority => Before(e, n)
               /\ e.task \in futs <=> e.task \in futs \cup {t}
    BY <2>3, EntryFacts DEF OrderInv, Before
  <2>5. next_id < next_id + 1
    BY EntryFacts
  <2>6. ASSUME NEW e \in queue'
        PROVE  /\ e.id < next_id'
               /\ ~IsPriority => e.rank <= 0
               /\ e.task \in futs' => e.rank = IF IsPriority THEN Prio[e.task] ELSE 0
               /\ e.task \notin futs' =>
                    IF IsPriority THEN e.rank = MinRank
                    ELSE \A f \in queue' : f.task \in futs' => Before(e, f)
    <3>1. CASE e \in queue
      BY <2>2, <2>4, <3>1, Zenon DEF OrderInv
    <3>2. CASE e = n
      BY <2>2, <2>3, <2>5, <3>2
    <3> QED
      BY <2>2, <3>1, <3>2, Zenon
  <2> QED
    BY <2>6, Zenon DEF OrderInv, Before
<1> QED
  BY <1>1, <1>2, Zenon DEF RecvAdd

\* A cancellation is seen: the entry goes in front of the others, or is the head.
LEMMA PromoteOrder == ASSUME Inv, OrderInv, PollCancelled PROVE OrderInv'
<1>1. PICK e \in queue, h \in Front(queue) :
        /\ queue' = Promote(IsPriority, queue, h, e)
        /\ futs' = futs \ {e.task} /\ next_id' = next_id
  BY Zenon DEF PollCancelled, Poll
<1>2. h \in queue /\ \A f \in queue : f = h \/ Before(h, f)
  BY <1>1, Zenon DEF Front
<1>3. \A f \in queue : f # e => f.task # e.task /\ (f.task \in futs <=> f.task \in futs')
  BY <1>1, EntryFacts, Zenon
<1>4. CASE queue' = queue /\ ~IsPriority /\ e = h
  BY <1>1, <1>2, <1>3, <1>4, Zenon DEF OrderInv, Before
<1>5. CASE ~(~IsPriority /\ e = h)
  <2> DEFINE r == IF IsPriority THEN MinRank ELSE h.rank - 1
             p == [e EXCEPT !.rank = r]
  <2>1. queue' = (queue \ {e}) \cup {p}
    BY <1>1, <1>5, Zenon DEF Promote
  <2>2. p.task = e.task /\ p.id = e.id /\ p.rank = r
    BY EntryFacts
  <2>3. r \in Int
    BY <1>2, EntryFacts, MinRankAssumption
  <2>4. ~IsPriority => r <= 0 /\ \A f \in queue : Before(p, f)
    BY <1>2, <2>2, EntryFacts DEF OrderInv, Before
  <2>5. IsPriority => r = MinRank
    OBVIOUS
  <2> HIDE DEF p, r
  <2>6. ASSUME NEW g \in queue'
        PROVE  /\ g.id < next_id'
               /\ ~IsPriority => g.rank <= 0
               /\ g.task \in futs' => g.rank = IF IsPriority THEN Prio[g.task] ELSE 0
               /\ g.task \notin futs' =>
                    IF IsPriority THEN g.rank = MinRank
                    ELSE \A f \in queue' : f.task \in futs' => Before(g, f)
    <3>1. \A f \in queue' : f.task \in futs' => f \in queue /\ f.task \in futs
      BY <1>1, <2>1, <2>2, Zenon
    <3>2. CASE g \in queue /\ g # e
      BY <1>1, <1>3, <3>1, <3>2, Zenon DEF OrderInv
    <3>3. CASE g = p
      <4>1. g.task \notin futs' /\ g.id < next_id'
        BY <1>1, <2>2, <3>3, Zenon DEF OrderInv
      <4> QED
        BY <2>2, <2>4, <2>5, <3>1, <3>3, <4>1, Zenon
    <3> QED
      BY <2>1, <3>2, <3>3, Zenon
  <2> QED
    BY <2>6, Zenon DEF OrderInv, Before
<1> QED
  BY <1>1, <1>4, <1>5, Zenon DEF Promote

LEMMA OrderStep == Inv /\ OrderInv /\ [Next]_vars => OrderInv'
<1> SUFFICES ASSUME Inv, OrderInv, [Next]_vars PROVE OrderInv'
  BY Zenon
<1>1. CASE PollAborted
  <2>1. UNCHANGED <<queue, next_id>> /\ \A e \in queue : e.task \in futs <=> e.task \in futs'
    BY <1>1, Zenon DEF PollAborted, Poll, Queued
  <2> QED
    BY <2>1, Zenon DEF OrderInv, Before
<1>2. ASSUME NEW w \in Worker, Dispatch(w) PROVE OrderInv'
  <2>1. queue' \subseteq queue /\ UNCHANGED <<next_id, futs>>
    BY <1>2, Zenon DEF Dispatch, Tend, Feed
  <2> QED
    BY <2>1, Zenon DEF OrderInv, Before
<1>3. CASE UNCHANGED <<queue, next_id, futs>>
  BY <1>3, Zenon DEF OrderInv, Before
<1> QED
  BY <1>1, <1>2, <1>3, AcceptOrder, PromoteOrder, QueueSteps, Zenon

\* A dispatch never takes the pool above the executor count it was last asked for
\* (the loop of the actor over the idle executors).  The executors at work and the
\* one that gets the task are among those of the map, of which there are as many as
\* the count.
THEOREM PoolDispatchWithinTarget == Spec => DispatchWithinTarget
<1> DEFINE Within == busy' > busy => busy' <= target
<1>1. ASSUME Inv, [Next]_vars PROVE Within
  <2> SUFFICES ASSUME NEW w \in Worker, Dispatch(w) PROVE busy' <= target
    BY <1>1, QueueSteps, Zenon
  <2>1. Cardinality(executors) = target /\ w \in idle /\ busy' = busy + 1 /\ ~retiring
    BY Zenon DEF Dispatch, Tend
  <2>2. /\ w \in executors /\ w \notin Working /\ Working \subseteq executors
        /\ executors \in SUBSET Worker /\ busy = Cardinality(Working)
    BY <1>1, <2>1, Zenon DEF Inv, ExecInv, BusyIsExact, TypeOK, ActorType
  <2>3. Cardinality(Working \cup {w}) = busy + 1
    BY <2>2, WorkingCount, Zenon DEF Working
  <2>4. Cardinality(Working \cup {w}) <= Cardinality(executors)
    <3>1. Working \cup {w} \subseteq executors /\ IsFiniteSet(executors)
      BY <2>2, WorkersFinite, Zenon
    <3> QED
      BY <3>1, FS_Subset, Zenon
  <2> QED
    BY <2>1, <2>3, <2>4, Zenon
<1> HIDE DEF Within
<1>2. Inv /\ [Next]_vars => [Within]_vars
  BY <1>1, Zenon
<1>3. Spec => [][Within]_vars
  BY <1>2, PoolInv, PTL DEF Spec
<1> QED
  BY <1>3, PTL DEF Within, DispatchWithinTarget

\* The pool dispatches first the tasks whose cancellation the actor has seen, then by
\* priority and age (PendingQueue::push, promote and pop).
THEOREM PoolDispatchOrder == Spec => DispatchOrder
<1> DEFINE Ahead(e, f) ==
             \/ e.task \notin futs
             \/ f.task \in futs /\ \/ IsPriority /\ Prio[e.task] < Prio[f.task]
                                   \/ (IsPriority => Prio[e.task] = Prio[f.task]) /\ e.id < f.id
             \/ f.task \notin futs /\ IsPriority /\ Prio[e.task] = MinRank
           Ordered == \A e \in queue \ queue', f \in queue' : busy' > busy => Ahead(e, f)
<1>1. ASSUME Inv, OrderInv, [Next]_vars PROVE Ordered
  <2> SUFFICES ASSUME NEW w \in Worker, Dispatch(w), NEW e \in queue \ queue', NEW f \in queue'
               PROVE  Ahead(e, f)
    BY <1>1, QueueSteps, Zenon
  <2>1. /\ e \in queue /\ f \in queue /\ f # e /\ Before(e, f)
    BY Zenon DEF Dispatch, Feed, Front
  <2>2. /\ e.rank \in Int /\ f.rank \in Int /\ e.id \in Nat /\ f.id \in Nat
        /\ Prio[e.task] \in Int /\ Prio[f.task] \in Int /\ MinRank <= Prio[e.task]
    BY <1>1, <2>1, EntryFacts, PriorityAssumption, Zenon
  <2>3. ~Before(f, e)
    BY <2>1, <2>2 DEF Before
  <2>4. /\ e.task \in futs => e.rank = IF IsPriority THEN Prio[e.task] ELSE 0
        /\ f.task \in futs => f.rank = IF IsPriority THEN Prio[f.task] ELSE 0
        /\ f.task \notin futs /\ IsPriority => f.rank = MinRank
        /\ f.task \notin futs /\ ~IsPriority => e.task \notin futs
    BY <1>1, <2>1, <2>3, Zenon DEF OrderInv
  <2> QED
    BY <2>1, <2>2, <2>4, MinRankAssumption DEF Before
<1>2. Init => OrderInv
  BY DEF Init, OrderInv
<1> HIDE DEF Ordered
<1>3. Inv /\ OrderInv /\ [Next]_vars => [Ordered]_vars
  BY <1>1, Zenon
<1>4. Spec => []OrderInv
  BY <1>2, OrderStep, PoolInv, PTL DEF Spec
<1>5. Spec => [][Ordered]_vars
  BY <1>3, <1>4, PoolInv, PTL DEF Spec
<1> QED
  BY <1>5, PTL DEF Ordered, Ahead, DispatchOrder
=============================================================================
