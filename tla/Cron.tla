-------------------------------- MODULE Cron --------------------------------
(***************************************************************************)
(* The cron data source (datasource/cron/croner.rs): the scheduler's loop, *)
(* the activations it spawns, which may wait for a result of the graph,    *)
(* and start and stop around them.  Instants are small numbers; a calendar *)
(* is the set of its occurrences, and may have a last one.                 *)
(***************************************************************************)
EXTENDS Naturals, FiniteSets

CONSTANTS Job,
          Interval,     \* Interval[j], in ticks; 0: j has a calendar
          Calendar,     \* Calendar[j], its occurrences
          Policies,     \* the configurations of the jobs
          Stopper,      \* the callers of stop
          MaxTime,      \* bound: the clock
          MaxActs,      \* bound: the activations spawned
          None

VARIABLES
  now,
  policy,       \* of each job: skip (overlap), once (missed runs), result (stream)
  scheduler,    \* the task: none, run, drain, ended, failed
  cancellation, \* the token of the scheduler
  owner,        \* the context of start was cancelled
  next,         \* of each job: ScheduledJob::next
  running,      \* the jobs whose overlap flag is set
  act, acts,    \* the activations, and how many
  lock,         \* who holds the lock of the scheduler's handle
  stopper       \* of each call of stop: where it is, and its context

vars == <<now, policy, scheduler, cancellation, owner, next, running, act, acts, lock, stopper>>
stopVars == <<lock, stopper>>
loopVars == <<scheduler, cancellation, next>>
actVars == <<running, act, acts>>

ActId == 1 .. MaxActs

Init ==
  /\ now = 0 /\ scheduler = "none" /\ cancellation = FALSE /\ owner = FALSE
  /\ policy \in Policies
  /\ next = [j \in Job |-> 0] /\ running = {}
  /\ act = [a \in ActId |-> [job |-> None, due |-> 0, pc |-> "none", pending |-> FALSE,
                           sent |-> FALSE, aborted |-> FALSE]]
  /\ acts = 0 /\ lock = None
  /\ stopper = [s \in Stopper |-> [pc |-> "idle", cancelled |-> FALSE]]

Tick ==
  /\ now < MaxTime /\ now' = now + 1
  /\ UNCHANGED <<policy, owner, loopVars, actVars, stopVars>>

CancelOwner ==
  /\ ~owner /\ scheduler # "none" /\ owner' = TRUE
  /\ UNCHANGED <<now, policy, loopVars, actVars, stopVars>>
-----------------------------------------------------------------------------
(* The schedule of a job.                                                  *)

\* CronJob::next, an error past the last occurrence.
NextAfter(j, t) ==
  IF Interval[j] > 0 THEN {t + Interval[j]}
  ELSE {o \in Calendar[j] : o > t /\ \A p \in Calendar[j] : p > t => o <= p}

\* CronJob::due: the latest of the occurrences that have passed since first.
Latest(j, first) ==
  IF Interval[j] > 0 THEN first + ((now - first) \div Interval[j]) * Interval[j]
  ELSE LET passed == {o \in Calendar[j] : first <= o /\ o <= now} \cup {first}
       IN CHOOSE o \in passed : \A p \in passed : p <= o

Due == {j \in Job : next[j] <= now}

\* Without a missed occurrence the job fires, else as its policy has it.
Fires(j) == Latest(j, next[j]) = next[j] \/ policy[j].once
-----------------------------------------------------------------------------
(* The scheduler.                                                          *)

Active(a) == act[a].pc \in {"trigger", "wait"}

Start ==
  /\ lock = None /\ ~owner /\ scheduler = "none"
  /\ cancellation' = FALSE
  /\ IF \E j \in Job : NextAfter(j, now) = {} THEN UNCHANGED <<scheduler, next>>
     ELSE /\ scheduler' = "run"
          /\ next' = [j \in Job |-> CHOOSE t \in NextAfter(j, now) : TRUE]
  /\ UNCHANGED <<now, policy, owner, actVars, stopVars>>

\* Mutant: the overlap flag is not looked at.
AdmittedAlways(j) == ~owner

\* dispatch: nothing once the owner is cancelled, and under Skip only if the
\* compare_exchange finds no activation running.
Admitted(j) == ~owner /\ (policy[j].skip => j \notin running)

\* The activations of the jobs in js, each in a task of the JoinSet.  With the set
\* dropped, these and the ones before are aborted: the task ends when the runtime
\* sees to it, until then its poll goes on.
Dispatch(js, dropped) ==
  LET order == CHOOSE f \in [1 .. Cardinality(js) -> js] : \A x, y \in DOMAIN f : f[x] = f[y] => x = y IN
  /\ acts + Cardinality(js) <= MaxActs /\ acts' = acts + Cardinality(js)
  /\ act' = [a \in ActId |->
               IF a - acts \notin DOMAIN order
                 THEN [act[a] EXCEPT !.aborted = @ \/ (dropped /\ Active(a))]
                 ELSE [job |-> order[a - acts], due |-> Latest(order[a - acts], next[order[a - acts]]),
                       pc |-> "trigger", pending |-> policy[order[a - acts]].result, sent |-> FALSE,
                       aborted |-> dropped]]
  /\ running' = running \cup {j \in js : policy[j].skip}

\* due has a next occurrence for the job.
HasNext(j) == NextAfter(j, Latest(j, next[j])) # {}

\* The body of the loop over the jobs, for those of js.
Serve(js, dropped) ==
  /\ next' = [j \in Job |-> IF j \in js THEN CHOOSE t \in NextAfter(j, Latest(j, next[j])) : TRUE
                            ELSE next[j]]
  /\ Dispatch({j \in js : Fires(j) /\ Admitted(j)}, dropped)

\* The sleep is over: one pass over the jobs that are due.
Pass ==
  /\ scheduler = "run" /\ Due # {} /\ \A j \in Due : HasNext(j)
  /\ Serve(Due, FALSE)
  /\ UNCHANGED <<now, policy, scheduler, cancellation, owner, stopVars>>

\* A calendar has no next occurrence: the loop returns the error at that job, after
\* whichever jobs come before it, and drops its JoinSet.
PassFails ==
  /\ scheduler = "run" /\ \E j \in Due : ~HasNext(j)
  /\ \E js \in SUBSET {j \in Due : HasNext(j)} : Serve(js, TRUE)
  /\ scheduler' = "failed"
  /\ UNCHANGED <<now, policy, owner, cancellation, stopVars>>

\* No more activations.  Those accepted are waited for.
Break ==
  /\ scheduler = "run" /\ (cancellation \/ owner)
  /\ scheduler' = "drain"
  /\ UNCHANGED <<now, policy, owner, cancellation, next, actVars, stopVars>>

\* The JoinSet of this scheduler is empty.
Drained ==
  /\ scheduler = "drain" /\ \A a \in ActId : Active(a) => act[a].aborted
  /\ scheduler' = "ended"
  /\ UNCHANGED <<now, policy, owner, cancellation, next, actVars, stopVars>>
-----------------------------------------------------------------------------
(* An activation.                                                          *)

\* The task ends, and with it the RunningGuard it holds under Skip.
Over(a) ==
  /\ act' = [act EXCEPT ![a].pc = "over"]
  /\ running' = IF policy[act[a].job].skip THEN running \ {act[a].job} ELSE running

\* on_trigger returns; with a result stream the result is waited for.
Triggered(a) ==
  /\ act[a].pc = "trigger"
  /\ IF policy[act[a].job].result
       THEN act' = [act EXCEPT ![a].pc = "wait"] /\ UNCHANGED running ELSE Over(a)
  /\ UNCHANGED <<now, policy, owner, loopVars, acts, stopVars>>

\* on_trigger panics; what is pending stays.
Panics(a) ==
  /\ act[a].pc = "trigger" /\ Over(a)
  /\ UNCHANGED <<now, policy, owner, loopVars, acts, stopVars>>

\* CronResultConsumer takes the sender out and uses it, for the first result.
Result(a) ==
  /\ act[a].pending
  /\ act' = [act EXCEPT ![a].pending = FALSE, ![a].sent = TRUE]
  /\ UNCHANGED <<now, policy, owner, loopVars, running, acts, stopVars>>

Received(a) ==
  /\ act[a].pc = "wait" /\ act[a].sent /\ Over(a)
  /\ UNCHANGED <<now, policy, owner, loopVars, acts, stopVars>>

\* The runtime drops the future of an aborted task between two polls.
Abort(a) ==
  /\ act[a].aborted /\ Active(a) /\ Over(a)
  /\ UNCHANGED <<now, policy, owner, loopVars, acts, stopVars>>
-----------------------------------------------------------------------------
(* stop.                                                                   *)

StopAt(s, l) == stopper' = [stopper EXCEPT ![s].pc = l]

Stop(s) ==
  /\ stopper[s].pc \in {"idle", "ok", "error", "cancelled"}
  /\ stopper' = [stopper EXCEPT ![s] = [pc |-> "lock", cancelled |-> FALSE]]
  /\ UNCHANGED <<now, policy, owner, loopVars, actVars, lock>>

CancelStop(s) ==
  /\ stopper[s].pc \in {"lock", "await"} /\ ~stopper[s].cancelled
  /\ stopper' = [stopper EXCEPT ![s].cancelled = TRUE]
  /\ UNCHANGED <<now, policy, owner, loopVars, actVars, lock>>

\* biased: the lock first.  Without a handle there is nothing to wait for.
StopLock(s) ==
  /\ stopper[s].pc = "lock" /\ lock = None
  /\ cancellation' = TRUE
  /\ IF scheduler = "none" THEN StopAt(s, "ok") /\ UNCHANGED lock
     ELSE StopAt(s, "await") /\ lock' = s
  /\ UNCHANGED <<now, policy, owner, scheduler, next, actVars>>

Finished == scheduler \in {"ended", "failed"}

\* The handle is given up only when the task has ended.
StopJoin(s) ==
  /\ stopper[s].pc = "await" /\ Finished
  /\ StopAt(s, IF scheduler = "ended" THEN "ok" ELSE "error")
  /\ scheduler' = "none" /\ lock' = None
  /\ UNCHANGED <<now, policy, owner, cancellation, next, actVars>>

\* Mutant: the handle is taken out before it is awaited.
StopForgets(s) ==
  /\ stopper[s].cancelled /\ stopper[s].pc \in {"lock", "await"} /\ lock # None /\ ~Finished
  /\ StopAt(s, "cancelled")
  /\ lock' = IF lock = s THEN None ELSE lock
  /\ scheduler' = IF lock = s THEN "none" ELSE scheduler
  /\ UNCHANGED <<now, policy, owner, cancellation, next, actVars>>

\* A cancelled stop, at the lock or at the handle, leaves the handle for the
\* next one.
StopGivesUp(s) ==
  /\ stopper[s].cancelled
  /\ \/ stopper[s].pc = "lock" /\ lock # None
     \/ stopper[s].pc = "await" /\ ~Finished
  /\ StopAt(s, "cancelled")
  /\ lock' = IF lock = s THEN None ELSE lock
  /\ UNCHANGED <<now, policy, owner, loopVars, actVars>>

StopStep(s) == StopLock(s) \/ StopJoin(s) \/ StopGivesUp(s)

Next ==
  \/ Tick \/ CancelOwner \/ Start \/ Pass \/ PassFails \/ Break \/ Drained
  \/ \E a \in ActId : Triggered(a) \/ Panics(a) \/ Result(a) \/ Received(a) \/ Abort(a)
  \/ \E s \in Stopper : Stop(s) \/ CancelStop(s) \/ StopStep(s)

Spec == Init /\ [][Next]_vars
-----------------------------------------------------------------------------
(* Properties.                                                             *)

\* Under Skip one activation of a job is in progress at a time, across passes
\* and restarts, those that a failed scheduler left behind included; and however
\* late a pass is, no occurrence fires twice and none before its time.
ActivationsApart ==
  \A a, b \in 1 .. acts :
    /\ act[a].due <= now
    /\ a < b /\ act[a].job = act[b].job =>
         /\ act[a].due < act[b].due
         /\ policy[act[a].job].skip => ~(Active(a) /\ Active(b))

\* "A cancelled stop future or an expired shutdown deadline must remain
\* retryable": a stop that returns Ok, the first or a later one, leaves no
\* activation in progress, but for the last poll of those that the failure of a
\* scheduler aborted: the stop that finds the failure returns it, and the next
\* has no handle to wait for.
CronStopDrains ==
  [][\A s \in Stopper : stopper'[s].pc = "ok" /\ stopper[s].pc # "ok" =>
       \A a \in ActId : Active(a) => act[a].aborted]_vars
=============================================================================
