------------------------------- MODULE Delay --------------------------------
(***************************************************************************)
(* The Delay operator and the delay pool it parks messages in:             *)
(* src/operators/delay.rs and src/runtime/pool/delaypool.rs.               *)
(*                                                                         *)
(* A message is consumed by the operator.  With a zero duration it is      *)
(* emitted at once; otherwise the pool spawns one task that waits for the  *)
(* earlier of the requested instant and the context's end and then runs    *)
(* the operator's callback, which emits the message or skips it.  Time is  *)
(* a clock that may tick between any two steps.                            *)
(***************************************************************************)
EXTENDS MessageContext

CONSTANTS
  Msg,        \* the messages, each with its own context
  Stopper,    \* the calls of DelayPool::stop
  Duration,   \* Duration[m], what the delay function returns
  Deadline,   \* Deadline[m], the deadline of the context, if any
  Huge,       \* the durations checked_add overflows with: Huge and above
  MaxTime     \* bound on the clock

ASSUME ConstantsAssumption ==
  /\ Duration \in [Msg -> Nat]
  /\ Deadline \in [Msg -> SUBSET Nat]
  /\ \A m \in Msg : \A d, e \in Deadline[m] : d = e
  /\ Huge \in Nat \ {0} /\ MaxTime \in Nat

VARIABLES
  now,        \* the clock
  token,      \* the messages whose context was cancelled by its owner
  call,       \* call[m], progress of the operator's consume
  asked,      \* asked[m], when the delay was requested
  run_at,     \* run_at[m], when the pool runs the callback
  stopped,    \* DelayPoolState::stopped, set together with tracker closure
  job,        \* job[m], the task the pool has spawned
  output,     \* the messages emitted
  stopper     \* stopper[s], progress of stop

vars == <<now, token, call, asked, run_at, stopped, job, output, stopper>>

Cancelled(m) == IsCancelled(m \in token, Deadline[m], now)

Init ==
  /\ now = 0 /\ token = {}
  /\ call = [m \in Msg |-> "new"]
  /\ asked = [m \in Msg |-> 0] /\ run_at = [m \in Msg |-> 0]
  /\ stopped = FALSE
  /\ job = [m \in Msg |-> "none"]
  /\ output = {}
  /\ stopper = [s \in Stopper |-> "new"]

Tick ==
  /\ now < MaxTime
  /\ now' = now + 1
  /\ UNCHANGED <<token, call, asked, run_at, stopped, job, output, stopper>>

\* The context of m is cancelled while someone may still look at it.
Cancel(m) ==
  /\ m \notin token /\ job[m] \in {"none", "waiting", "ready"}
  /\ call[m] \in {"new", "scheduled", "ok"}
  /\ token' = token \cup {m}
  /\ UNCHANGED <<now, call, asked, run_at, stopped, job, output, stopper>>

-----------------------------------------------------------------------------
(* DelayStream::consume and DelayPool::delay                               *)

\* A zero duration: emitted in line, whatever the context says.
EmitNow(m) ==
  /\ call[m] = "new" /\ Duration[m] = 0
  /\ call' = [call EXCEPT ![m] = "direct"]
  /\ output' = output \cup {m}
  /\ UNCHANGED <<now, token, asked, run_at, stopped, job, stopper>>

\* now.checked_add(duration)
Requested(m) == IF Duration[m] < Huge THEN {now + Duration[m]} ELSE {}

\* run_at: the deadline of the context bounds the wait.
Earliest(requested, deadline) ==
  {r \in requested \cup deadline : \A s \in requested \cup deadline : r <= s}

\* delay up to the lock: the context is looked at and the instant computed.
\* A rejection is reported to the function's delay_error.
Schedule(m) ==
  /\ call[m] = "new" /\ Duration[m] > 0
  /\ LET at == Earliest(Requested(m), Deadline[m]) IN
       /\ call' = [call EXCEPT ![m] = IF Cancelled(m) \/ at = {} THEN "rejected"
                                      ELSE "scheduled"]
       /\ run_at' = [run_at EXCEPT ![m] = IF at = {} THEN 0 ELSE CHOOSE r \in at : TRUE]
  /\ asked' = [asked EXCEPT ![m] = now]
  /\ UNCHANGED <<now, token, stopped, job, output, stopper>>

\* Mutant of Admit: the pool is not asked whether it is stopped.
AdmitLate(m) ==
  /\ call[m] = "scheduled"
  /\ call' = [call EXCEPT ![m] = "ok"]
  /\ job' = [job EXCEPT ![m] = "waiting"]
  /\ UNCHANGED <<now, token, asked, run_at, stopped, output, stopper>>

\* delay under the lock: admission and spawn.
Admit(m) ==
  /\ call[m] = "scheduled"
  /\ call' = [call EXCEPT ![m] = IF stopped THEN "rejected" ELSE "ok"]
  /\ job' = [job EXCEPT ![m] = IF stopped THEN @ ELSE "waiting"]
  /\ UNCHANGED <<now, token, asked, run_at, stopped, output, stopper>>

-----------------------------------------------------------------------------
(* The spawned task                                                        *)

\* Mutant of Fire: a timer that is polled late does not fire.
FireExact(m) ==
  /\ job[m] = "waiting"
  /\ run_at[m] = now \/ Cancelled(m)
  /\ job' = [job EXCEPT ![m] = "ready"]
  /\ UNCHANGED <<now, token, call, asked, run_at, stopped, output, stopper>>

\* wait_ready returns: the instant has come or the context has ended.
Fire(m) ==
  /\ job[m] = "waiting"
  /\ run_at[m] <= now \/ Cancelled(m)
  /\ job' = [job EXCEPT ![m] = "ready"]
  /\ UNCHANGED <<now, token, call, asked, run_at, stopped, output, stopper>>

\* execute starts the operator's callback: skip or emit.
Run(m) ==
  /\ job[m] = "ready"
  /\ job' = [job EXCEPT ![m] = "running"]
  /\ output' = IF Cancelled(m) THEN output ELSE output \cup {m}
  /\ UNCHANGED <<now, token, call, asked, run_at, stopped, stopper>>

\* The callback, with everything downstream of the operator, returns.
Finish(m) ==
  /\ job[m] = "running"
  /\ job' = [job EXCEPT ![m] = "done"]
  /\ UNCHANGED <<now, token, call, asked, run_at, stopped, output, stopper>>

-----------------------------------------------------------------------------
(* DelayPool::stop                                                         *)

StopBegin(s) ==
  /\ stopper[s] = "new"
  /\ stopped' = TRUE
  /\ stopper' = [stopper EXCEPT ![s] = "waiting"]
  /\ UNCHANGED <<now, token, call, asked, run_at, job, output>>

Tracked == {m \in Msg : job[m] \in {"waiting", "ready", "running"}}

\* The tracker is closed and empty.  The end of stop's own context is only
\* counted; the wait goes on.
StopReturn(s) ==
  /\ stopper[s] = "waiting" /\ Tracked = {}
  /\ stopper' = [stopper EXCEPT ![s] = "returned"]
  /\ UNCHANGED <<now, token, call, asked, run_at, stopped, job, output>>

Step(m) == EmitNow(m) \/ Schedule(m) \/ Admit(m) \/ Fire(m) \/ Run(m) \/ Finish(m)

Next ==
  \/ Tick
  \/ \E m \in Msg : Cancel(m) \/ Step(m)
  \/ \E s \in Stopper : StopBegin(s) \/ StopReturn(s)

Spec == Init /\ [][Next]_vars

\* Time passes, tokio polls woken tasks and timers, callbacks return.
FairSpec ==
  /\ Spec
  /\ WF_vars(Tick)
  /\ \A m \in Msg : WF_vars(call[m] # "new" /\ Step(m))
  /\ \A s \in Stopper : WF_vars(StopReturn(s))

-----------------------------------------------------------------------------
(* Properties                                                              *)

TypeOK ==
  /\ now \in 0 .. MaxTime /\ token \subseteq Msg
  /\ call \in [Msg -> {"new", "direct", "scheduled", "rejected", "ok"}]
  /\ asked \in [Msg -> Nat] /\ run_at \in [Msg -> Nat]
  /\ stopped \in BOOLEAN
  /\ job \in [Msg -> {"none", "waiting", "ready", "running", "done"}]
  /\ output \subseteq Msg
  /\ stopper \in [Stopper -> {"new", "waiting", "returned"}]

\* The inductive invariant: a job exists exactly for an admitted message, the
\* pool is stopped once a caller of stop waits, an admitted message runs no
\* earlier than it was asked for unless its deadline comes first, the wait ends
\* for one of its two reasons, and a caller of stop that has returned has left
\* no job behind.
Inv ==
  /\ TypeOK
  /\ \A m \in Msg :
       /\ job[m] # "none" <=> call[m] = "ok"
       /\ call[m] \in {"scheduled", "ok"} =>
            /\ Duration[m] > 0
            /\ \/ Duration[m] < Huge /\ asked[m] + Duration[m] <= run_at[m]
               \/ \E d \in Deadline[m] : d <= run_at[m]
       /\ job[m] = "ready" => run_at[m] <= now \/ Cancelled(m)
       /\ m \in output => call[m] = "direct" \/ job[m] \in {"running", "done"}
  /\ \A s \in Stopper : stopper[s] # "new" => stopped
  /\ \A s \in Stopper : stopper[s] = "returned" => Tracked = {}

\* A delayed message whose context is still alive is not emitted before its
\* delay is over, also when the wait was cut short at the context's deadline.
\* What becomes of a message whose context has ended is left open here: the
\* callback skips it.
NeverEarly ==
  [][\A m \in output' \ output :
       Duration[m] > 0 /\ ~Cancelled(m) =>
         Duration[m] < Huge /\ asked[m] + Duration[m] <= now]_vars

status ==
  [m \in Msg |-> IF call[m] = "rejected" THEN "rejected"
                 ELSE IF job[m] = "none" THEN "new"
                 ELSE IF job[m] \in {"waiting", "ready"} THEN "accepted"
                 ELSE IF job[m] = "running" THEN "running"
                 ELSE "finished"]

closed == \E s \in Stopper : stopper[s] = "returned"

Contract == INSTANCE TaskService WITH Task <- Msg

\* The delay pool keeps the contract of a task service: an admitted message's
\* callback runs once, a rejected one's never, and stop returns only when
\* every admitted callback has returned ("Accepted callbacks may retain graph
\* observers, so they must retire before graph teardown").
KeepsContract == Contract!Spec

\* What was admitted is run, and stop returns, as long as the clock reaches
\* the instants the tasks wait for.
AdmittedFinish ==
  /\ \A m \in Msg : call[m] = "ok" /\ run_at[m] <= MaxTime ~> job[m] = "done"
  /\ \A s \in Stopper :
       stopper[s] = "waiting" /\ (\A m \in Tracked : run_at[m] <= MaxTime)
         ~> stopper[s] = "returned"
=============================================================================
