----------------------------- MODULE QueuedPool -----------------------------
(***************************************************************************)
(* The task pool behind TaskPool and PriorityTaskPool:                     *)
(* src/runtime/pool/queuedpool.rs.                                         *)
(*                                                                         *)
(* One actor task owns the queue and the executors.  Callers of add_task,  *)
(* start, stop and reload_config, and the executors themselves, talk to it *)
(* through one unbounded channel of commands.  The actor's loop is a       *)
(* biased select! followed by a tail that retires, spawns and feeds        *)
(* executors; pc says where the actor is:                                  *)
(*                                                                         *)
(*   off      launch() has not been called                                 *)
(*   spawned  the actor task exists but has not run yet                    *)
(*   poll     select!, polling the cancellation futures                    *)
(*   recv     select!, cancellations pending, polling the other branches   *)
(*   blind    select! after the cancellation branch produced a value that  *)
(*            does not match its pattern Some(Ok(id)): select! has         *)
(*            disabled the branch until the next iteration of the loop     *)
(*   tail     after the select!                                            *)
(*   gone     the loop is left and the receiver dropped                    *)
(*                                                                         *)
(* A callback that panics ends the process (pool/mod.rs run_task); the     *)
(* model ends there too and has no action for it.                          *)
(***************************************************************************)
EXTENDS PendingQueue, Sequences, FiniteSets

CONSTANTS
  Task,        \* the calls of add_task, each with its own context
  Prio,        \* Prio[t], the priority argument of the call
  Stopper,     \* the calls of stop
  IsPriority,  \* the pool's variant: QueuedPool::priority
  Targets,     \* the executor counts a configuration may ask for
  MaxReloads,  \* bound on the configuration reloads
  MaxWorkers,  \* bound on the executors ever spawned
  None         \* no callback

ASSUME ConstantsAssumption ==
  /\ Prio \in [Task -> Int]
  /\ IsPriority \in BOOLEAN
  /\ Targets \subseteq Nat \ {0}   \* resolve_executors never returns 0
  /\ Targets # {}
  /\ MaxReloads \in Nat
  /\ MaxWorkers \in Nat
  /\ None \notin Task

\* A priority is an i32.
ASSUME PriorityAssumption == \A t \in Task : MinRank <= Prio[t]

Worker == 0 .. MaxWorkers - 1

VARIABLES
  \* shared with the callers
  state,       \* AtomicU8: 0 created, 1 started, 2 stopped
  chan,        \* the command channel
  drained,     \* the watch channel callers of stop wait on
  config,      \* the executor count of the published configuration
  reloads,     \* the number of reloads so far
  \* the callers
  call,        \* call[t], the progress and the result of add_task
  cancelled,   \* the tasks whose context is cancelled
  starter,     \* progress of start
  count,       \* the executor count start has read
  stopper,     \* stopper[s], progress of stop
  \* the actor
  pc, queue, next_id,
  futs,        \* tasks with a future in cancellations (FuturesUnordered)
  ready,       \* the woken futures, in the order they will be polled
  started, stopped, retiring, target,
  executors, idle, busy, next_worker,
  workers,     \* the JoinSet: executor tasks spawned and not yet joined
  \* the executor tasks
  inbox,       \* inbox[w], the channel of executor w
  job,         \* job[w], the callback executor w is running
  exited,      \* executor tasks that have left their loop
  runs         \* runs[t], how often the callback of t was started

addVars    == <<call, cancelled>>
startVars  == <<starter, count>>
configVars == <<config, reloads>>
queueVars  == <<queue, next_id, futs, ready>>
lifeVars   == <<started, stopped, retiring, target>>
execVars   == <<executors, idle, busy, next_worker, workers>>
workerVars == <<inbox, job, exited, runs>>
vars == <<state, chan, drained, configVars, addVars, startVars, stopper, pc,
          queueVars, lifeVars, execVars, workerVars>>

\* Command::Add, Start, Resize, Stop and Ready.
AddCmd(t)    == [type |-> "Add", arg |-> t]
StartCmd(n)  == [type |-> "Start", arg |-> n]
ResizeCmd(n) == [type |-> "Resize", arg |-> n]
StopCmd      == [type |-> "Stop", arg |-> 0]
ReadyCmd(w)  == [type |-> "Ready", arg |-> w]

Queued == {e.task : e \in queue}

\* The tasks whose Add is still in the channel.
Unread == {t \in Task : \E i \in 1 .. Len(chan) : chan[i] = AddCmd(t)}

InReady(t) == \E i \in 1 .. Len(ready) : ready[i] = t

\* The waker of t's cancellation future runs.
Wake(t) == ready' = IF t \in futs /\ ~InReady(t) THEN Append(ready, t) ELSE ready

\* The receiver lives until the actor has left its loop; sending to a dropped
\* receiver fails and the command is lost.
Send(c) == chan' = IF pc = "gone" THEN chan ELSE Append(chan, c)

\* launch: the first caller spawns the actor.
Launch == pc' = IF pc = "off" THEN "spawned" ELSE pc

Init ==
  /\ state = 0 /\ chan = <<>> /\ drained = FALSE
  /\ config \in Targets /\ reloads = 0
  /\ call = [t \in Task |-> "new"] /\ cancelled = {}
  /\ starter = "new" /\ count = 0
  /\ stopper = [s \in Stopper |-> "new"]
  /\ pc = "off" /\ queue = {} /\ next_id = 0 /\ futs = {} /\ ready = <<>>
  /\ started = FALSE /\ stopped = FALSE /\ retiring = FALSE /\ target = 0
  /\ executors = {} /\ idle = {} /\ busy = 0 /\ next_worker = 0 /\ workers = {}
  /\ inbox = [w \in Worker |-> <<>>] /\ job = [w \in Worker |-> None]
  /\ exited = {} /\ runs = [t \in Task |-> 0]

-----------------------------------------------------------------------------
(* The callers.                                                            *)

\* add_task up to the channel: the two early returns.
AddCheck(t) ==
  /\ call[t] = "new"
  /\ call' = [call EXCEPT ![t] = IF t \in cancelled THEN "cancelled"
                                 ELSE IF state = 2 THEN "stopped"
                                 ELSE "checked"]
  /\ UNCHANGED <<state, chan, configVars, cancelled, startVars, stopper, pc, ready>>

\* add_task from launch on.  The caller then waits for the actor's reply.
AddSend(t) ==
  /\ call[t] = "checked"
  /\ Launch
  /\ Send(AddCmd(t))
  /\ call' = [call EXCEPT ![t] = IF pc = "gone" THEN "stopped" ELSE "waiting"]
  /\ UNCHANGED <<state, configVars, cancelled, startVars, stopper, ready>>

\* A context is cancelled, by its owner or its deadline.  The pool looks at
\* the context of a task until it is dispatched; later cancellations, which
\* only the callback sees, are left out.
Cancel(t) ==
  /\ t \notin cancelled
  /\ call[t] \in {"new", "checked", "waiting"} \/ t \in Queued
  /\ cancelled' = cancelled \cup {t}
  /\ Wake(t)
  /\ UNCHANGED <<state, chan, configVars, call, startVars, stopper, pc>>

\* start: the compare_exchange and launch.  A call that finds another state
\* returns an error and changes nothing.
StartBegin ==
  /\ starter = "new" /\ state = 0
  /\ state' = 1
  /\ starter' = "swapped"
  /\ Launch
  /\ UNCHANGED <<chan, configVars, addVars, count, stopper, ready>>

\* start: the argument self.executors() is evaluated ...
StartRead ==
  /\ starter = "swapped"
  /\ count' = config
  /\ starter' = "read"
  /\ UNCHANGED <<state, chan, configVars, addVars, stopper, pc, ready>>

\* ... and the command sent.
StartSend ==
  /\ starter = "read"
  /\ Send(StartCmd(count))
  /\ starter' = "done"
  /\ UNCHANGED <<state, configVars, addVars, count, stopper, pc, ready>>

\* publish_runtime_config followed by reload_config of this pool.
Reload(n) ==
  /\ reloads < MaxReloads
  /\ n # config
  /\ config' = n
  /\ reloads' = reloads + 1
  /\ Send(ResizeCmd(n))
  /\ UNCHANGED <<state, addVars, startVars, stopper, pc, ready>>

\* stop: subscribe, launch and swap; the first caller has a command to send.
StopBegin(s) ==
  /\ stopper[s] = "new"
  /\ Launch
  /\ state' = 2
  /\ stopper' = [stopper EXCEPT ![s] = IF state # 2 THEN "swapped" ELSE "waiting"]
  /\ UNCHANGED <<chan, configVars, addVars, startVars, ready>>

StopSend(s) ==
  /\ stopper[s] = "swapped"
  /\ Send(StopCmd)
  /\ stopper' = [stopper EXCEPT ![s] = "waiting"]
  /\ UNCHANGED <<state, configVars, addVars, startVars, pc, ready>>

\* stop returns once the pool is drained; a cancelled stop context is counted
\* and the wait goes on.
StopReturn(s) ==
  /\ stopper[s] = "waiting" /\ drained
  /\ stopper' = [stopper EXCEPT ![s] = "returned"]
  /\ UNCHANGED <<state, chan, configVars, addVars, startVars, pc, ready>>

\* What no call changes.
CallerFrame ==
  UNCHANGED <<drained, queue, next_id, futs, lifeVars, execVars, workerVars>>

Caller ==
  /\ \/ \E t \in Task : AddCheck(t) \/ AddSend(t) \/ Cancel(t)
     \/ StartBegin \/ StartRead \/ StartSend
     \/ \E n \in Targets : Reload(n)
     \/ \E s \in Stopper : StopBegin(s) \/ StopSend(s) \/ StopReturn(s)
  /\ CallerFrame

-----------------------------------------------------------------------------
(* The actor's select!: the cancellation branch.                           *)

ActorBegin ==
  /\ pc = "spawned" /\ pc' = "poll"
  /\ target' = config
  /\ UNCHANGED <<chan, drained, call, queueVars, started, stopped, retiring,
                 execVars, inbox>>

\* cancellations.next() polls the first woken future.
Poll ==
  /\ pc = "poll" /\ ready # <<>>
  /\ ready' = Tail(ready)
  /\ UNCHANGED <<chan, drained, call, next_id, lifeVars, execVars, inbox>>

\* It is pending, ...
PollPending ==
  /\ Poll
  /\ Head(ready) \in Queued \ cancelled
  /\ UNCHANGED <<pc, queue, futs>>

\* ... or its entry was dispatched and the future aborted: Some(Err(Aborted))
\* does not match Some(Ok(id)) and select! disables the branch, ...
PollAborted ==
  /\ Poll
  /\ Head(ready) \notin Queued
  /\ futs' = futs \ {Head(ready)}
  /\ pc' = "blind"
  /\ UNCHANGED queue

\* ... or the context is cancelled: the entry is promoted.
PollCancelled ==
  /\ Poll
  /\ Head(ready) \in cancelled
  /\ futs' = futs \ {Head(ready)}
  /\ \E e \in queue, h \in Front(queue) :
       /\ e.task = Head(ready)
       /\ queue' = Promote(IsPriority, queue, h, e)
  /\ pc' = "tail"

\* Nothing is ready: the next branch is polled.
PollDone ==
  /\ pc = "poll" /\ ready = <<>> /\ pc' = "recv"
  /\ UNCHANGED <<chan, drained, call, queueVars, lifeVars, execVars, inbox>>

-----------------------------------------------------------------------------
(* The actor's select!: the command and the join branches.                 *)

Receive(type) ==
  /\ pc \in {"recv", "blind"}
  /\ chan # <<>> /\ Head(chan).type = type
  /\ chan' = Tail(chan)
  /\ pc' = "tail"
  /\ UNCHANGED <<drained, inbox>>

Accept(t) ==
  /\ queue' = Push(IsPriority, queue, t, next_id, Prio[t])
  /\ next_id' = next_id + 1
  /\ futs' = futs \cup {t}
  /\ ready' = Append(ready, t)

\* Mutant of RecvAdd: an Add read after Stop is accepted.
RecvAddLate ==
  /\ Receive("Add")
  /\ LET t == Head(chan).arg IN
       /\ call' = [call EXCEPT ![t] = IF t \in cancelled THEN "cancelled" ELSE "ok"]
       /\ IF t \in cancelled THEN UNCHANGED queueVars ELSE Accept(t)
  /\ UNCHANGED <<lifeVars, execVars>>

RecvAdd ==
  /\ Receive("Add")
  /\ LET t == Head(chan).arg IN
       /\ call' = [call EXCEPT ![t] = IF stopped THEN "stopped"
                                      ELSE IF t \in cancelled THEN "cancelled"
                                      ELSE "ok"]
       /\ IF stopped \/ t \in cancelled THEN UNCHANGED queueVars ELSE Accept(t)
  /\ UNCHANGED <<lifeVars, execVars>>

RecvStart ==
  /\ Receive("Start")
  /\ started' = (started \/ ~stopped)
  /\ target' = IF stopped THEN target ELSE Head(chan).arg
  /\ UNCHANGED <<call, queueVars, stopped, retiring, execVars>>

RecvResize ==
  /\ Receive("Resize")
  /\ target' = IF stopped THEN target ELSE Head(chan).arg
  /\ UNCHANGED <<call, queueVars, started, stopped, retiring, execVars>>

\* Mutant of RecvStop: a pool stopped before its start is not started to drain.
RecvStopIdle ==
  /\ Receive("Stop")
  /\ stopped' = TRUE
  /\ UNCHANGED <<call, queueVars, started, retiring, target, execVars>>

RecvStop ==
  /\ Receive("Stop")
  /\ stopped' = TRUE /\ started' = TRUE
  /\ UNCHANGED <<call, queueVars, retiring, target, execVars>>

RecvReady ==
  /\ Receive("Ready")
  /\ busy' = busy - 1
  /\ idle' = idle \cup {Head(chan).arg}
  /\ UNCHANGED <<call, queueVars, lifeVars, executors, next_worker, workers>>

Join(w) ==
  /\ pc \in {"recv", "blind"} /\ chan = <<>>
  /\ w \in workers \cap exited
  /\ workers' = workers \ {w}
  /\ pc' = "tail"
  /\ UNCHANGED <<chan, drained, call, queueVars, lifeVars, executors, idle, busy,
                 next_worker, inbox>>

\* A cancellation wakes the waiting select!, which polls from the top again;
\* not one whose cancellation branch is disabled.
Rewake ==
  /\ pc = "recv" /\ chan = <<>> /\ workers \cap exited = {}
  /\ ready # <<>> /\ pc' = "poll"
  /\ UNCHANGED <<chan, drained, call, queueVars, lifeVars, execVars, inbox>>

-----------------------------------------------------------------------------
(* The actor's tail: the three while loops, one step per iteration, and    *)
(* the end of the loop body.                                               *)

Tend ==
  /\ pc = "tail" /\ started /\ ~retiring
  /\ UNCHANGED <<chan, drained, call, pc, next_id, futs, lifeVars>>

\* Which of the idle executors is taken makes no difference; the code keeps
\* them in a VecDeque.
Retire(w) ==
  /\ Tend
  /\ Cardinality(executors) > target /\ w \in idle
  /\ executors' = executors \ {w}
  /\ idle' = idle \ {w}
  /\ UNCHANGED <<queue, ready, busy, next_worker, workers, inbox>>

Spawn ==
  /\ Tend
  /\ Cardinality(executors) < target
  /\ next_worker < MaxWorkers
  /\ next_worker' = next_worker + 1
  /\ executors' = executors \cup {next_worker}
  /\ idle' = idle \cup {next_worker}
  /\ workers' = workers \cup {next_worker}
  /\ UNCHANGED <<queue, ready, busy, inbox>>

\* The head of the queue goes to executor w.
Feed(w) ==
  \E e \in Front(queue) :
    /\ queue' = queue \ {e}
    /\ Wake(e.task)                   \* entry.cancellation.abort()
    /\ inbox' = [inbox EXCEPT ![w] = Append(@, e.task)]

\* Mutants of Dispatch: the executor stays idle; the executors above the
\* target are used.
DispatchIdle(w) ==
  /\ Tend /\ Cardinality(executors) = target /\ w \in idle /\ Feed(w)
  /\ busy' = busy + 1
  /\ UNCHANGED <<idle, executors, next_worker, workers>>
DispatchAbove(w) ==
  /\ Tend /\ Cardinality(executors) >= target /\ w \in idle /\ Feed(w)
  /\ idle' = idle \ {w}
  /\ busy' = busy + 1
  /\ UNCHANGED <<executors, next_worker, workers>>

Dispatch(w) ==
  /\ Tend
  /\ Cardinality(executors) = target /\ w \in idle
  /\ Feed(w)
  /\ idle' = idle \ {w}
  /\ busy' = busy + 1
  /\ UNCHANGED <<executors, next_worker, workers>>

LoopsDone ==
  /\ Cardinality(executors) >= target
  /\ Cardinality(executors) > target => idle = {}
  /\ idle = {} \/ queue = {}

\* Mutant of Break: the callers whose Add was not read are not answered.
BreakSilent ==
  /\ pc' = "gone"
  /\ chan' = <<>>
  /\ UNCHANGED call

\* The receiver is dropped with the commands in it: a caller of add_task
\* whose reply is lost returns ResourceStopped.
Break ==
  /\ pc' = "gone"
  /\ chan' = <<>>
  /\ call' = [t \in Task |-> IF t \in Unread THEN "stopped" ELSE call[t]]

TailEnd ==
  /\ pc = "tail"
  /\ started /\ ~retiring => LoopsDone
  /\ retiring' = (retiring \/ (stopped /\ queue = {} /\ busy = 0))
  /\ executors' = IF retiring' THEN {} ELSE executors
  /\ idle' = IF retiring' THEN {} ELSE idle
  /\ IF retiring' /\ workers = {} THEN Break
     ELSE pc' = "poll" /\ UNCHANGED <<chan, call>>
  /\ UNCHANGED <<drained, queueVars, started, stopped, target, busy, next_worker,
                 workers, inbox>>

\* After run has returned.
Drain ==
  /\ pc = "gone" /\ ~drained
  /\ drained' = TRUE
  /\ UNCHANGED <<chan, call, pc, queueVars, lifeVars, execVars, inbox>>

Actor ==
  /\ \/ ActorBegin \/ PollPending \/ PollAborted \/ PollCancelled \/ PollDone
     \/ RecvAdd \/ RecvStart \/ RecvResize \/ RecvStop \/ RecvReady \/ Rewake
     \/ \E w \in Worker : Join(w) \/ Retire(w) \/ Dispatch(w)
     \/ Spawn \/ TailEnd \/ Drain
  /\ UNCHANGED <<state, configVars, cancelled, startVars, stopper, job, exited,
                 runs>>

-----------------------------------------------------------------------------
(* An executor task.                                                       *)

WorkerTake(w) ==
  /\ w \in workers \ exited
  /\ job[w] = None /\ inbox[w] # <<>>
  /\ job' = [job EXCEPT ![w] = Head(inbox[w])]
  /\ inbox' = [inbox EXCEPT ![w] = Tail(@)]
  /\ runs' = [runs EXCEPT ![Head(inbox[w])] = @ + 1]
  /\ UNCHANGED <<chan, exited>>

\* The callback returns and the executor reports that it is ready.
WorkerDone(w) ==
  /\ job[w] # None
  /\ job' = [job EXCEPT ![w] = None]
  /\ Send(ReadyCmd(w))
  /\ UNCHANGED <<inbox, exited, runs>>

\* The actor has dropped the sending half of the executor's channel.
WorkerExit(w) ==
  /\ w \in workers \ (exited \cup executors)
  /\ job[w] = None /\ inbox[w] = <<>>
  /\ exited' = exited \cup {w}
  /\ UNCHANGED <<chan, inbox, job, runs>>

Executor(w) ==
  /\ WorkerTake(w) \/ WorkerDone(w) \/ WorkerExit(w)
  /\ UNCHANGED <<state, drained, configVars, addVars, startVars, stopper, pc,
                 queueVars, lifeVars, execVars>>

Next == Caller \/ Actor \/ \E w \in Worker : Executor(w)

Spec == Init /\ [][Next]_vars

-----------------------------------------------------------------------------
(* Fairness.  tokio polls a woken task, so the actor and the executors     *)
(* make progress; start and stop do not await between their first step and *)
(* the command they send, so that a call that began sends it.  A callback  *)
(* is the user's: that it returns is a separate assumption.                *)

Scheduling ==
  /\ WF_vars(Actor)
  /\ \A w \in Worker : WF_vars(job[w] = None /\ Executor(w))
  /\ WF_vars((StartRead \/ StartSend) /\ CallerFrame)
  /\ \A s \in Stopper : WF_vars((StopSend(s) \/ StopReturn(s)) /\ CallerFrame)

CallbacksReturn == \A w \in Worker : WF_vars(job[w] # None /\ Executor(w))

FairSpec == Spec /\ Scheduling /\ CallbacksReturn

\* Callbacks may run for ever.
BusySpec == Spec /\ Scheduling
-----------------------------------------------------------------------------
(* Properties.                                                             *)

Command == [type : {"Add"}, arg : Task] \cup [type : {"Start", "Resize"}, arg : Targets]
             \cup {StopCmd} \cup [type : {"Ready"}, arg : Worker]

CallerType ==
  /\ state \in 0 .. 2 /\ chan \in Seq(Command)
  /\ config \in Targets /\ reloads \in 0 .. MaxReloads
  /\ call \in [Task -> {"new", "checked", "waiting", "ok", "stopped", "cancelled"}]
  /\ cancelled \subseteq Task
  /\ starter \in {"new", "swapped", "read", "done"}
  /\ count \in Targets \cup {0} /\ (starter = "read" => count # 0)
  /\ stopper \in [Stopper -> {"new", "swapped", "waiting", "returned"}]

ActorType ==
  /\ pc \in {"off", "spawned", "poll", "recv", "blind", "tail", "gone"}
  /\ queue \subseteq [task : Task, id : Nat, rank : Int] /\ next_id \in Nat
  /\ futs \subseteq Task /\ ready \in Seq(Task)
  /\ target \in Targets \cup {0}
  /\ executors \subseteq Worker /\ idle \subseteq Worker /\ workers \subseteq Worker
  /\ busy \in Nat /\ next_worker \in 0 .. MaxWorkers

FlagType ==
  /\ drained \in BOOLEAN /\ started \in BOOLEAN
  /\ stopped \in BOOLEAN /\ retiring \in BOOLEAN

ExecutorType ==
  /\ inbox \in [Worker -> Seq(Task)] /\ job \in [Worker -> Task \cup {None}]
  /\ exited \subseteq Worker /\ runs \in [Task -> Nat]

TypeOK == CallerType /\ ActorType /\ FlagType /\ ExecutorType

\* The executors at work: those with a callback, running or not yet taken,
\* or with a Ready the actor has not read.
Working == {w \in Worker : \/ job[w] # None \/ inbox[w] # <<>>
                           \/ \E i \in 1 .. Len(chan) : chan[i] = ReadyCmd(w)}

\* The actor's counter agrees with the executors: busy is the number of those
\* at work, which are the ones that are not idle, and an executor the actor
\* may send to has not left its loop, so that the send in the dispatch loop
\* cannot hit unreachable!("live executor") and busy -= 1 cannot wrap.
BusyIsExact ==
  /\ busy = Cardinality(Working)
  /\ ~retiring => Working = executors \ idle
  /\ executors \cap exited = {}

\* The bookkeeping that makes it so, as an inductive invariant.
\*   Tasks: where the callback of an accepted task is, until it has run.
TasksInv ==
  /\ \A t \in Task :
       /\ call[t] = "ok" /\ runs[t] = 0 =>
            t \in Queued \/ \E w \in Worker : inbox[w] = <<t>>
       /\ call[t] # "ok" => runs[t] = 0
  /\ \A e \in queue :
       /\ call[e.task] = "ok" /\ runs[e.task] = 0
       /\ \A w \in Worker : inbox[w] # <<e.task>>
       /\ \A f \in queue : f.task = e.task => f = e
  /\ \A w \in Worker :
       /\ inbox[w] = <<>> \/ \E t \in Task : /\ inbox[w] = <<t>>
                                             /\ call[t] = "ok" /\ runs[t] = 0
       /\ job[w] # None => call[job[w]] = "ok" /\ runs[job[w]] = 1
  /\ \A w, v \in Worker :
       /\ inbox[w] = inbox[v] /\ inbox[w] # <<>> => w = v
       /\ job[w] = job[v] /\ job[w] # None => w = v
  /\ \A t \in Task : runs[t] <= 1

\*   Channel: at most one Add of a task, which waits for the answer, and one
\*   Ready of an executor, which has nothing to do meanwhile.
ChanInv ==
  /\ \A i \in 1 .. Len(chan) :
       /\ \A t \in Task : chan[i] = AddCmd(t) => call[t] = "waiting"
       /\ \A w \in Worker : chan[i] = ReadyCmd(w) => job[w] = None /\ inbox[w] = <<>>
  /\ \A i, j \in 1 .. Len(chan) :
       chan[i] = chan[j] /\ chan[i].type \in {"Add", "Ready"} => i = j
  /\ \A w \in Worker : job[w] = None \/ inbox[w] = <<>>

\*   Executors: idle ones are in the map, those in the map are alive, and a
\*   new one has a fresh id.
ExecInv ==
  /\ idle \subseteq executors /\ executors \subseteq workers \ exited
  /\ \A w \in workers \cup exited : w < next_worker

\*   Life cycle: once retiring, nothing is left and nothing comes back.
LifeInv ==
  /\ drained => pc = "gone"
  /\ pc = "gone" => retiring
  /\ retiring => stopped /\ queue = {} /\ Working = {}

Inv == TypeOK /\ TasksInv /\ ChanInv /\ ExecInv /\ LifeInv /\ BusyIsExact

\* A dispatch never takes the pool above the executor count it was last asked
\* for, also when the count was lowered while every executor was busy.
DispatchWithinTarget == [][busy' > busy => busy' <= target]_vars

\* The order of dispatch, told from the calls and not from the queue: a task
\* whose cancellation the actor has seen goes first, and the others go by
\* priority and then by age.  In a priority pool a caller's own i32::MIN ranks
\* with the cancelled tasks.
DispatchOrder ==
  [][\A e \in queue \ queue', f \in queue' :
       busy' > busy =>
         \/ e.task \notin futs
         \/ f.task \in futs /\ \/ IsPriority /\ Prio[e.task] < Prio[f.task]
                               \/ (IsPriority => Prio[e.task] = Prio[f.task]) /\ e.id < f.id
         \/ f.task \notin futs /\ IsPriority /\ Prio[e.task] = MinRank]_vars

\* The life of each callback, as TaskService tells it.
progress ==
  [t \in Task |-> IF call[t] \in {"stopped", "cancelled"} THEN "rejected"
                  ELSE IF call[t] # "ok" THEN "new"
                  ELSE IF runs[t] = 0 THEN "accepted"
                  ELSE IF \E w \in Worker : job[w] = t THEN "running"
                  ELSE "finished"]

Contract == INSTANCE TaskService WITH status <- progress, closed <- drained

\* The pool keeps the contract of a task service: add_task's Ok is a promise
\* that the callback runs exactly once, its error that it never does, and stop
\* reports drained only when every accepted callback has returned; whatever
\* the order of add_task, start, stop, reload and cancellation.
KeepsContract == Contract!Spec

\* Every stop returns, whether or not the pool was started, and every caller
\* of add_task gets an answer, also when the actor goes away with the request
\* unread.
CallersReturn ==
  /\ \A s \in Stopper : stopper[s] # "new" ~> stopper[s] = "returned"
  /\ \A t \in Task : call[t] = "waiting" ~> call[t] # "waiting"

\* An accepted callback runs to its end once the pool is started or stopped.
AcceptedFinish ==
  \A t \in Task : (progress[t] = "accepted" /\ state # 0) ~> progress[t] = "finished"

\* "cancellation promotes queued work to the head" (taskpool.rs): the actor
\* sees the cancellation of a queued task even while every executor is busy.
CancelledIsPromoted ==
  \A t \in Task : t \in cancelled \cap Queued ~>
    \/ t \notin futs \cap Queued
    \/ \E e \in Front(queue) : e.task = t
=============================================================================
