---------------------------- MODULE TimerProofs ----------------------------
(***************************************************************************)
(* Theorems about the timers: Delay, for every set of messages, durations  *)
(* and deadlines, and Cron, for every set of jobs, schedules and policies. *)
(***************************************************************************)
EXTENDS Delay, RuntimeCron, FiniteSetTheorems, WellFoundedInduction, TLAPS

\* A message that asks for a delay is scheduled for the earlier of the two
\* instants, if there is one.
LEMMA ScheduleStep ==
  ASSUME Inv, NEW m \in Msg, Schedule(m), call'[m] = "scheduled"
  PROVE  /\ run_at'[m] \in Nat
         /\ \/ Duration[m] < Huge /\ run_at'[m] = now + Duration[m]
            \/ run_at'[m] \in Deadline[m]
<1> DEFINE at == Earliest(Requested(m), Deadline[m])
<1>1. at # {} /\ run_at'[m] = CHOOSE r \in at : TRUE
  BY Zenon DEF Schedule, Inv, TypeOK
<1>2. run_at'[m] \in at
  BY <1>1, Zenon
<1>3. run_at'[m] \in Requested(m) \cup Deadline[m]
  BY <1>2, Zenon DEF Earliest
<1> QED
  BY <1>3, ConstantsAssumption DEF Requested, Inv, TypeOK

LEMMA InitInv == Init => Inv
<1> SUFFICES ASSUME Init PROVE Inv
  BY Zenon
<1>1. TypeOK
  <2>1. now \in 0 .. MaxTime /\ token \subseteq Msg /\ output \subseteq Msg
    BY ConstantsAssumption DEF Init
  <2>2. asked \in [Msg -> Nat] /\ run_at \in [Msg -> Nat] /\ stopped \in BOOLEAN
    BY Zenon DEF Init
  <2>3. /\ call \in [Msg -> {"new", "direct", "scheduled", "rejected", "ok"}]
        /\ job \in [Msg -> {"none", "waiting", "ready", "running", "done"}]
        /\ stopper \in [Stopper -> {"new", "waiting", "returned"}]
    BY Zenon DEF Init
  <2> QED BY <2>1, <2>2, <2>3, Zenon DEF TypeOK
<1> QED
  BY <1>1, Zenon DEF Init, Inv, Tracked

LEMMA TickInv == ASSUME Inv, Tick PROVE Inv'
<1>1. TypeOK'
  BY ConstantsAssumption DEF Tick, Inv, TypeOK
<1>2. \A m \in Msg : Cancelled(m) => Cancelled(m)'
  BY ConstantsAssumption DEF Tick, Inv, TypeOK, Cancelled, IsCancelled, Passed
<1> QED
  BY <1>1, <1>2 DEF Tick, Inv, TypeOK, Tracked

LEMMA CancelInv == ASSUME Inv, NEW m \in Msg, Cancel(m) PROVE Inv'
<1>1. TypeOK'
  BY Zenon DEF Cancel, Inv, TypeOK
<1>2. \A n \in Msg : Cancelled(n) => Cancelled(n)'
  BY Zenon DEF Cancel, Cancelled, IsCancelled, Passed
<1> QED
  BY <1>1, <1>2, Zenon DEF Cancel, Inv, Tracked

LEMMA ScheduleInv == ASSUME Inv, NEW m \in Msg, Schedule(m) PROVE Inv'
<1>1. /\ UNCHANGED <<now, token, stopped, job, output, stopper>>
      /\ \A n \in Msg \ {m} : /\ call'[n] = call[n] /\ asked'[n] = asked[n]
                              /\ run_at'[n] = run_at[n]
      /\ call[m] = "new" /\ call'[m] \in {"scheduled", "rejected"}
      /\ asked'[m] = now /\ Duration[m] > 0
  BY DEF Schedule, Inv, TypeOK
<1>2. run_at'[m] \in Nat
  <2>1. run_at'[m] = 0 \/ run_at'[m] \in Earliest(Requested(m), Deadline[m])
    BY Zenon DEF Schedule, Inv, TypeOK
  <2> QED
    BY <2>1, ConstantsAssumption DEF Earliest, Requested, Inv, TypeOK
<1>3. TypeOK'
  BY <1>1, <1>2 DEF Schedule, Inv, TypeOK
<1>4. \A n \in Msg : Cancelled(n)' = Cancelled(n)
  BY <1>1, Zenon DEF Cancelled, IsCancelled, Passed
<1>5. call'[m] = "scheduled" =>
        \/ Duration[m] < Huge /\ asked'[m] + Duration[m] <= run_at'[m]
        \/ \E d \in Deadline[m] : d <= run_at'[m]
  BY <1>1, ScheduleStep, ConstantsAssumption DEF Inv, TypeOK
<1>6. Tracked' = Tracked
  BY <1>1, Zenon DEF Tracked
<1>7. job[m] = "none"
  BY <1>1, Zenon DEF Inv, TypeOK
<1> QED
  BY <1>1, <1>3, <1>4, <1>5, <1>6, <1>7 DEF Inv

LEMMA StepInv == ASSUME Inv, NEW m \in Msg, Step(m) PROVE Inv'
<1>1. ASSUME UNCHANGED <<now, token>>
      PROVE  \A n \in Msg : Cancelled(n)' = Cancelled(n)
  BY <1>1, Zenon DEF Cancelled, IsCancelled, Passed
<1>2. CASE EmitNow(m)
  <2>1. TypeOK' /\ Tracked' = Tracked
    BY <1>2, Zenon DEF EmitNow, Inv, TypeOK, Tracked
  <2> QED
    BY <1>1, <1>2, <2>1 DEF EmitNow, Inv, TypeOK
<1>3. CASE Schedule(m)
  BY <1>3, ScheduleInv, Zenon
<1>4. CASE Admit(m)
  <2>1. TypeOK'
    BY <1>4, Zenon DEF Admit, Inv, TypeOK
  <2>2. Tracked' = Tracked \/ ~stopped
    BY <1>4, Zenon DEF Admit, Inv, TypeOK, Tracked
  <2> QED
    BY <1>1, <1>4, <2>1, <2>2 DEF Admit, Inv, TypeOK
<1>5. CASE Fire(m)
  <2>1. TypeOK' /\ Tracked' = Tracked
    BY <1>5 DEF Fire, Inv, TypeOK, Tracked
  <2> QED
    BY <1>1, <1>5, <2>1 DEF Fire, Inv, TypeOK
<1>6. CASE Run(m)
  <2>1. TypeOK' /\ Tracked' = Tracked
    BY <1>6 DEF Run, Inv, TypeOK, Tracked
  <2> QED
    BY <1>1, <1>6, <2>1 DEF Run, Inv, TypeOK
<1>7. CASE Finish(m)
  <2>1. TypeOK' /\ Tracked' \subseteq Tracked
    BY <1>7, Zenon DEF Finish, Inv, TypeOK, Tracked
  <2> QED
    BY <1>1, <1>7, <2>1 DEF Finish, Inv, TypeOK
<1> QED
  BY <1>2, <1>3, <1>4, <1>5, <1>6, <1>7, Zenon DEF Step

LEMMA StopInv ==
  ASSUME Inv, NEW s \in Stopper, StopBegin(s) \/ StopReturn(s)
  PROVE  Inv'
<1>1. TypeOK' /\ Tracked' = Tracked
  BY Zenon DEF StopBegin, StopReturn, Inv, TypeOK, Tracked
<1>2. \A n \in Msg : Cancelled(n)' = Cancelled(n)
  BY Zenon DEF StopBegin, StopReturn, Cancelled, IsCancelled, Passed
<1> QED
  BY <1>1, <1>2 DEF StopBegin, StopReturn, Inv, TypeOK

LEMMA NextInv == Inv /\ [Next]_vars => Inv'
<1> SUFFICES ASSUME Inv, [Next]_vars
             PROVE  Inv'
  BY Zenon
<1>1. CASE UNCHANGED vars
  BY <1>1, Zenon DEF vars, Inv, TypeOK, Tracked, Cancelled, IsCancelled, Passed
<1> QED
  BY <1>1, TickInv, CancelInv, StepInv, StopInv, Zenon DEF Next

\* The inductive invariant of the delay pool holds in every behaviour.
THEOREM DelayInv == Spec => []Inv
  BY InitInv, NextInv, PTL DEF Spec

\* No delayed message whose context is alive is emitted before its delay is over,
\* whatever the durations, the deadlines and the cancellations are.
THEOREM DelayNeverEarly == Spec => NeverEarly
<1> DEFINE Early == \A m \in output' \ output :
                       Duration[m] > 0 /\ ~Cancelled(m) =>
                         Duration[m] < Huge /\ asked[m] + Duration[m] <= now
<1>1. Inv /\ [Next]_vars => [Early]_vars
  <2> SUFFICES ASSUME Inv, Next
               PROVE  Early
    BY Zenon
  <2> SUFFICES ASSUME NEW m \in output' \ output, Duration[m] > 0, ~Cancelled(m)
               PROVE  Duration[m] < Huge /\ asked[m] + Duration[m] <= now
    BY Zenon
  <2>1. m \in Msg /\ (EmitNow(m) \/ Run(m))
    BY DEF Next, Tick, Cancel, Step, EmitNow, Schedule, Admit, Fire, Run, Finish,
       StopBegin, StopReturn, Inv, TypeOK
  <2>2. job[m] = "ready" /\ ~Cancelled(m)
    BY <2>1 DEF EmitNow, Run
  <2>3. run_at[m] <= now /\ \A d \in Deadline[m] : ~ (d <= now)
    BY <2>1, <2>2, Zenon DEF Inv, Cancelled, IsCancelled, Passed
  <2>4. \/ Duration[m] < Huge /\ asked[m] + Duration[m] <= run_at[m]
        \/ \E d \in Deadline[m] : d <= run_at[m]
    BY <2>1, <2>2, Zenon DEF Inv
  <2> QED
    BY <2>1, <2>3, <2>4, ConstantsAssumption DEF Inv, TypeOK
<1> QED
  BY <1>1, DelayInv, PTL DEF Spec, NeverEarly

-----------------------------------------------------------------------------
(* The delay pool implements the contract of a task service.               *)

LEMMA StatusMoves ==
  ASSUME NEW m \in Msg, NEW v,
         \A n \in Msg \ {m} : status'[n] = status[n], status'[m] = v
  PROVE  status' = [status EXCEPT ![m] = v]
<1>1. /\ status = [n \in Msg |-> status[n]]
      /\ status' = [n \in Msg |-> status'[n]]
  BY Zenon DEF status
<1> QED
  BY <1>1, Zenon

LEMMA StatusStays ==
  ASSUME \A n \in Msg : status'[n] = status[n]
  PROVE  status' = status
<1>1. /\ status = [n \in Msg |-> status[n]]
      /\ status' = [n \in Msg |-> status'[n]]
  BY Zenon DEF status
<1> QED
  BY <1>1, Zenon

\* One step of a message is one step of the contract, or none.
LEMMA StepRefines ==
  ASSUME Inv, NEW m \in Msg, Step(m)
  PROVE  [Contract!Next]_<<status, closed>>
<1>1. \A n \in Msg \ {m} : status'[n] = status[n]
  BY DEF Step, EmitNow, Schedule, Admit, Fire, Run, Finish, Inv, TypeOK, status
<1>2. closed' = closed
  BY Zenon DEF Step, EmitNow, Schedule, Admit, Fire, Run, Finish, closed
<1>3. closed => Tracked = {} /\ stopped
  BY Zenon DEF closed, Inv
<1>4. CASE status'[m] = status[m]
  BY <1>1, <1>2, <1>4, StatusStays, Zenon
<1>5. CASE status[m] = "new" /\ status'[m] = "rejected"
  <2>1. Contract!Reject(m)
    BY <1>1, <1>2, <1>5, StatusMoves, Zenon DEF Contract!Reject, Contract!Move
  <2> QED BY <2>1, Zenon DEF Contract!Next
<1>6. CASE Admit(m) /\ ~stopped
  <2>1. status[m] = "new" /\ status'[m] = "accepted"
    BY <1>6, Zenon DEF Admit, Inv, TypeOK, status
  <2>2. Contract!Accept(m)
    BY <1>1, <1>2, <1>3, <1>6, <2>1, StatusMoves, Zenon DEF Contract!Accept, Contract!Move
  <2> QED BY <2>2, Zenon DEF Contract!Next
<1>7. CASE Run(m)
  <2>1. status[m] = "accepted" /\ status'[m] = "running" /\ m \in Tracked
    BY <1>7 DEF Run, Inv, TypeOK, status, Tracked
  <2>2. Contract!Run(m)
    BY <1>1, <1>2, <1>3, <2>1, StatusMoves DEF Contract!Run, Contract!Move
  <2> QED BY <2>2, Zenon DEF Contract!Next
<1>8. CASE Finish(m)
  <2>1. status[m] = "running" /\ status'[m] = "finished" /\ m \in Tracked
    BY <1>8, Zenon DEF Finish, Inv, TypeOK, status, Tracked
  <2>2. Contract!Finish(m)
    BY <1>1, <1>2, <1>3, <2>1, StatusMoves DEF Contract!Finish, Contract!Move
  <2> QED BY <2>2, Zenon DEF Contract!Next
<1>9. EmitNow(m) \/ Fire(m) => status'[m] = status[m]
  BY DEF EmitNow, Fire, Inv, TypeOK, status
<1>10. Schedule(m) \/ (Admit(m) /\ stopped) =>
         status'[m] = status[m] \/ (status[m] = "new" /\ status'[m] = "rejected")
  BY DEF Schedule, Admit, Inv, TypeOK, status
<1> QED
  BY <1>4, <1>5, <1>6, <1>7, <1>8, <1>9, <1>10, Zenon DEF Step

\* The delay pool implements TaskService: an admitted callback runs exactly
\* once, a rejected one never, and stop returns only when all have returned.
THEOREM DelayKeepsContract == Spec => KeepsContract
<1>1. Init => Contract!Init
  BY DEF Init, Contract!Init, status, closed
<1>2. Inv /\ [Next]_vars => [Contract!Next]_<<status, closed>>
  <2> SUFFICES ASSUME Inv, [Next]_vars
               PROVE  [Contract!Next]_<<status, closed>>
    BY Zenon
  <2>1. CASE Tick \/ (\E m \in Msg : Cancel(m)) \/ UNCHANGED vars
    BY <2>1, Zenon DEF Tick, Cancel, vars, status, closed
  <2>2. ASSUME NEW s \in Stopper, StopBegin(s)
        PROVE  [Contract!Next]_<<status, closed>>
    BY <2>2 DEF StopBegin, status, closed, Inv, TypeOK
  <2>3. ASSUME NEW s \in Stopper, StopReturn(s)
        PROVE  [Contract!Next]_<<status, closed>>
    <3>1. status' = status /\ closed' = TRUE /\ Tracked = {}
      BY <2>3 DEF StopReturn, status, closed, Inv, TypeOK
    <3>2. \A m \in Msg : status[m] \notin {"accepted", "running"}
      BY <3>1 DEF status, Tracked, Inv, TypeOK
    <3>3. Contract!Close
      BY <3>1, <3>2, Zenon DEF Contract!Close
    <3> QED
      BY <3>3, Zenon DEF Contract!Next
  <2> QED
    BY <2>1, <2>2, <2>3, StepRefines, Zenon DEF Next
<1> QED
  BY <1>1, <1>2, DelayInv, PTL DEF Spec, KeepsContract, Contract!Spec
-----------------------------------------------------------------------------
(* The cron source.                                                        *)

Activation ==
  [job : Job \cup {NoJob}, due : Nat, pc : {"none", "trigger", "wait", "over"},
   pending : BOOLEAN, sent : BOOLEAN, aborted : BOOLEAN]

CronType ==
  /\ clock \in Nat /\ acts \in 0 .. MaxActs /\ next \in [Job -> Nat] /\ policy \in Policies
  /\ act \in [C!ActId -> Activation]
  /\ \A a \in C!ActId : a > acts => act[a].pc = "none"

\* An activation that no JoinSet holds.
Idle(a) == C!Active(a) => act[a].aborted

\* Nothing is in progress when the scheduler is not, but what a failure aborted.
IdleInv == scheduler \in {"none", "ended", "failed"} => \A a \in C!ActId : Idle(a)

\* An activation fired at its time and before the next of its job; while it is in
\* progress under Skip, its job's flag is set.
FiredInv(a) ==
  /\ act[a].job \in Job /\ act[a].due <= clock /\ act[a].due < next[act[a].job]
  /\ C!Active(a) /\ policy[act[a].job].skip => act[a].job \in running

Apart(a, b) ==
  a < b /\ act[a].job = act[b].job =>
    /\ act[a].due < act[b].due
    /\ policy[act[a].job].skip => ~(C!Active(a) /\ C!Active(b))

CronInv ==
  /\ CronType /\ IdleInv
  /\ \A a \in 1 .. acts : FiredInv(a)
  /\ \A a, b \in 1 .. acts : Apart(a, b)

\* A set of natural numbers that is not empty has a least element, and one that is
\* bounded a greatest.
LEMMA LeastNat == ASSUME NEW T, T \subseteq Nat, T # {} PROVE \E x \in T : \A y \in T : x <= y
<1>1. IsWellFoundedOn(OpToRel(<, Nat), Nat)
  BY NatLessThanWellFounded, Zenon
<1>2. PICK x \in T : \A y \in T : ~(<<y, x>> \in OpToRel(<, Nat))
  BY <1>1, WFMin, Zenon
<1>3. ASSUME NEW y \in T PROVE x <= y
  <2>1. ~(<<y, x>> \in OpToRel(<, Nat))
    BY <1>2, Zenon
  <2>2. ~(y < x)
    BY <2>1 DEF OpToRel
  <2> QED
    BY <2>2
<1> QED
  BY <1>3, Zenon

LEMMA GreatestNat ==
  ASSUME NEW T, T \subseteq Nat, T # {}, NEW n \in Nat, \A y \in T : y <= n
  PROVE  \E x \in T : \A y \in T : x >= y
<1> DEFINE U == {u \in Nat : \A y \in T : y <= u}
<1>1. PICK u \in U : \A v \in U : u <= v
  BY LeastNat, Zenon
<1>2. PICK t \in T : TRUE
  BY Zenon
<1>3. ASSUME u \notin T PROVE FALSE
  <2>1. \A y \in T : y < u
    BY <1>1, <1>3
  <2>2. u - 1 \in U
    BY <1>2, <2>1
  <2> QED
    BY <1>1, <2>2
<1> QED
  BY <1>1, <1>3
-----------------------------------------------------------------------------
(* The schedule.                                                           *)

LEMMA DivBound ==
  ASSUME NEW x \in Nat, NEW i \in Nat, i > 0
  PROVE  (x \div i) * i <= x /\ (x \div i) * i \in Nat
OBVIOUS

\* The occurrence after an instant is later.
LEMMA NextLater ==
  ASSUME NEW j \in Job, NEW t \in Nat, C!NextAfter(j, t) # {}
  PROVE  /\ (CHOOSE u \in C!NextAfter(j, t) : TRUE) \in Nat
         /\ (CHOOSE u \in C!NextAfter(j, t) : TRUE) > t
<1>1. ASSUME NEW u \in C!NextAfter(j, t) PROVE u \in Nat /\ u > t
  <2>1. CASE Interval[j] > 0
    BY <1>1, <2>1, CronAssumption DEF C!NextAfter
  <2>2. CASE ~(Interval[j] > 0)
    BY <1>1, <2>2, CronAssumption, Zenon DEF C!NextAfter
  <2> QED
    BY <2>1, <2>2
<1> QED
  BY <1>1, Zenon

\* What fires late is the last occurrence that has passed.
LEMMA LatestDue ==
  ASSUME NEW j \in Job, clock \in Nat, NEW t \in Nat, t <= clock
  PROVE  C!Latest(j, t) \in Nat /\ t <= C!Latest(j, t) /\ C!Latest(j, t) <= clock
<1>1. CASE Interval[j] > 0
  <2>1. clock - t \in Nat /\ Interval[j] \in Nat
    BY CronAssumption
  <2> DEFINE m == ((clock - t) \div Interval[j]) * Interval[j]
  <2>2. m <= clock - t /\ m \in Nat
    BY <1>1, <2>1, DivBound, Zenon
  <2>3. C!Latest(j, t) = t + m
    BY <1>1, Zenon DEF C!Latest
  <2> HIDE DEF m
  <2> QED
    BY <2>2, <2>3
<1>2. CASE ~(Interval[j] > 0)
  <2> DEFINE S == {o \in Calendar[j] : t <= o /\ o <= clock} \cup {t}
  <2>1. S \subseteq Nat /\ S # {} /\ \A y \in S : y <= clock /\ t <= y
    BY CronAssumption
  <2>2. C!Latest(j, t) = CHOOSE o \in S : \A p \in S : p <= o
    BY <1>2, Zenon DEF C!Latest
  <2> HIDE DEF S
  <2>3. C!Latest(j, t) \in S
    <3>1. \E x \in S : \A y \in S : y <= x
      BY <2>1, GreatestNat, Zenon
    <3> QED
      BY <2>2, <3>1, Zenon
  <2> QED
    BY <2>1, <2>2, <2>3, Zenon
<1> QED
  BY <1>1, <1>2, Zenon
-----------------------------------------------------------------------------
(* Steps.                                                                  *)

\* A step that starts no activation, revives none, and takes the flag of a job only
\* from an activation that is over.
LEMMA CronFrame ==
  ASSUME CronInv, act' \in [C!ActId -> Activation], UNCHANGED <<acts, policy>>,
         clock' \in Nat, clock' >= clock, next' \in [Job -> Nat],
         \A a \in 1 .. acts : act[a].due < next'[act[a].job],
         \A a \in C!ActId : /\ act'[a].job = act[a].job /\ act'[a].due = act[a].due
                            /\ act[a].pc = "none" => act'[a].pc = "none"
                            /\ C!Active(a)' => C!Active(a),
         \A a \in 1 .. acts : C!Active(a)' /\ policy[act[a].job].skip => act[a].job \in running',
         scheduler' \in {"none", "ended", "failed"} => \A a \in C!ActId : Idle(a)'
  PROVE  CronInv'
<1>1. 1 .. acts \subseteq C!ActId
  BY CronAssumption DEF CronInv, CronType, C!ActId
<1>2. CronType'
  BY Zenon DEF CronInv, CronType
<1>3. ASSUME NEW a \in 1 .. acts PROVE FiredInv(a)'
  <2>1. act'[a].job = act[a].job /\ act'[a].due = act[a].due /\ a \in C!ActId
    BY <1>1, Zenon
  <2>2. act[a].job \in Job /\ act[a].due <= clock /\ act[a].due \in Nat
    BY <1>1, Zenon DEF CronInv, FiredInv, CronType, Activation
  <2>3. act'[a].due <= clock'
    BY <2>1, <2>2 DEF CronInv, CronType
  <2> QED
    BY <2>1, <2>2, <2>3, Zenon DEF FiredInv
<1>4. ASSUME NEW a \in 1 .. acts, NEW b \in 1 .. acts PROVE Apart(a, b)'
  <2>1. a \in C!ActId /\ b \in C!ActId /\ Apart(a, b)
    BY <1>1, Zenon DEF CronInv
  <2> QED
    BY <2>1, Zenon DEF Apart
<1> QED
  BY <1>2, <1>3, <1>4, Zenon DEF CronInv, IdleInv

\* What a pass leaves of an activation, and the one it starts of a job.
Kept(a, dropped) == [act[a] EXCEPT !.aborted = @ \/ (dropped /\ C!Active(a))]
New(j, dropped) ==
  [job |-> j, due |-> C!Latest(j, next[j]), pc |-> "trigger", pending |-> policy[j].result,
   sent |-> FALSE, aborted |-> dropped]

\* The activations of a pass are numbered on, each of its own job.
LEMMA DispatchGives ==
  ASSUME CronInv, NEW js \in SUBSET Job, NEW dropped, C!Dispatch(js, dropped)
  PROVE  \E n \in Nat : \E f \in [1 .. n -> js] :
           /\ \A x, y \in 1 .. n : f[x] = f[y] => x = y
           /\ acts' = acts + n /\ acts' <= MaxActs
           /\ running' = running \cup {j \in js : policy[j].skip}
           /\ act' = [a \in C!ActId |->
                IF a - acts \notin 1 .. n THEN Kept(a, dropped)
                ELSE New(f[a - acts], dropped)]
<1> DEFINE n == Cardinality(js)
           order == CHOOSE f \in [1 .. n -> js] : \A x, y \in DOMAIN f : f[x] = f[y] => x = y
<1>0. C!Cardinality(js) = n
  BY Zenon DEF C!Cardinality, Cardinality
<1>1. n \in Nat /\ ExistsBijection(1 .. n, js)
  BY FS_Subset, FS_CardinalityType, CronAssumption, Zenon
<1>2. \E f \in [1 .. n -> js] : \A x, y \in DOMAIN f : f[x] = f[y] => x = y
  BY <1>1, Zenon DEF ExistsBijection, Bijection, Injection, IsInjective
<1>3. order \in [1 .. n -> js] /\ \A x, y \in DOMAIN order : order[x] = order[y] => x = y
  BY <1>2, Zenon
<1>4. DOMAIN order = 1 .. n
  BY <1>3, Zenon
<1>5. /\ acts' = acts + n /\ acts + n <= MaxActs
      /\ running' = running \cup {j \in js : policy[j].skip}
      /\ act' = [a \in C!ActId |->
           IF a - acts \notin DOMAIN order THEN Kept(a, dropped)
           ELSE New(order[a - acts], dropped)]
  BY <1>0, Zenon DEF C!Dispatch, Kept, New
<1> HIDE DEF n, order
<1> QED
  BY <1>1, <1>3, <1>4, <1>5, Zenon

\* A step that leaves the activations and the schedule alone.
LEMMA CronQuiet ==
  ASSUME CronInv, UNCHANGED <<act, acts, policy, next, running>>,
         clock' \in Nat, clock' >= clock,
         scheduler' \in {"none", "ended", "failed"} =>
           scheduler \in {"none", "ended", "failed"} \/ \A a \in C!ActId : Idle(a)
  PROVE  CronInv'
<1>1. \A a \in C!ActId : C!Active(a)' <=> C!Active(a)
  BY Zenon DEF C!Active
<1>2. scheduler' \in {"none", "ended", "failed"} => \A a \in C!ActId : Idle(a)'
  BY <1>1, Zenon DEF CronInv, IdleInv, Idle
<1>3. 1 .. acts \subseteq C!ActId
  BY CronAssumption DEF CronInv, CronType, C!ActId
<1>4. \A a \in 1 .. acts : C!Active(a)' /\ policy[act[a].job].skip => act[a].job \in running'
  BY <1>1, <1>3, Zenon DEF CronInv, FiredInv
<1>5. \A a \in 1 .. acts : act[a].due < next'[act[a].job]
  BY Zenon DEF CronInv, FiredInv
<1>6. act' \in [C!ActId -> Activation] /\ next' \in [Job -> Nat]
  BY Zenon DEF CronInv, CronType
<1> QED
  BY <1>1, <1>2, <1>4, <1>5, <1>6, CronFrame, Zenon

LEMMA CronQuietSteps ==
  ASSUME CronInv, 
         \/ UNCHANGED C!vars \/ C!Tick \/ C!CancelOwner \/ C!Break \/ C!Drained
         \/ \E s \in CronStop : C!Stop(s) \/ C!CancelStop(s) \/ C!StopStep(s)
  PROVE  CronInv'
<1>1. UNCHANGED <<act, acts, policy, next, running>>
  BY Zenon DEF C!vars, C!Tick, C!CancelOwner, C!Break, C!Drained, C!Stop, C!CancelStop, C!StopStep,
       C!StopLock, C!StopJoin, C!StopGivesUp, C!actVars, C!loopVars
<1>2. clock' = clock \/ clock' = clock + 1
  BY Zenon DEF C!vars, C!Tick, C!CancelOwner, C!Break, C!Drained, C!Stop, C!CancelStop, C!StopStep,
       C!StopLock, C!StopJoin, C!StopGivesUp
<1>3. clock' \in Nat /\ clock' >= clock
  BY <1>2 DEF CronInv, CronType
<1>4. \/ scheduler' = scheduler \/ scheduler' = "drain"
      \/ scheduler \in {"ended", "failed"} \/ \A a \in C!ActId : Idle(a)
  BY Zenon DEF C!vars, C!Tick, C!CancelOwner, C!Break, C!Drained, C!Stop, C!CancelStop, C!StopStep,
       C!StopLock, C!StopJoin, C!StopGivesUp, C!loopVars, C!Finished, Idle
<1> QED
  BY <1>1, <1>3, <1>4, CronQuiet, Zenon

LEMMA CronStart == ASSUME CronInv, C!Start PROVE CronInv'
<1>1. UNCHANGED <<act, acts, policy, running, clock>>
  BY Zenon DEF C!Start, C!actVars
<1>2. CASE UNCHANGED <<scheduler, next>>
  BY <1>1, <1>2, CronQuiet DEF CronInv, CronType
<1>3. CASE ~UNCHANGED <<scheduler, next>>
  <2>1. /\ \A j \in Job : C!NextAfter(j, clock) # {}
        /\ scheduler' = "run" /\ next' = [j \in Job |-> CHOOSE t \in C!NextAfter(j, clock) : TRUE]
    BY <1>3, Zenon DEF C!Start
  <2>2. \A j \in Job : next'[j] = CHOOSE t \in C!NextAfter(j, clock) : TRUE
    BY <2>1, Zenon
  <2>3. \A j \in Job : next'[j] \in Nat /\ next'[j] > clock
    BY <2>1, <2>2, NextLater, Zenon DEF CronInv, CronType
  <2>4. next' \in [Job -> Nat]
    BY <2>1, <2>3, Zenon
  <2>5. 1 .. acts \subseteq C!ActId
    BY CronAssumption DEF CronInv, CronType, C!ActId
  <2>6. \A a \in 1 .. acts : act[a].due < next'[act[a].job]
    <3> SUFFICES ASSUME NEW a \in 1 .. acts PROVE act[a].due < next'[act[a].job]
      BY Zenon
    <3>1. act[a].job \in Job /\ act[a].due <= clock /\ act[a].due \in Nat
      BY <2>5, Zenon DEF CronInv, FiredInv, CronType, Activation
    <3> QED
      BY <2>3, <3>1 DEF CronInv, CronType
  <2>7. \A a \in C!ActId : C!Active(a)' <=> C!Active(a)
    BY <1>1, Zenon DEF C!Active
  <2>8. \A a \in 1 .. acts : C!Active(a)' /\ policy[act[a].job].skip => act[a].job \in running'
    BY <1>1, <2>5, <2>7, Zenon DEF CronInv, FiredInv
  <2>9. act' \in [C!ActId -> Activation] /\ clock' \in Nat /\ clock' >= clock
    BY <1>1 DEF CronInv, CronType
  <2> QED
    BY <1>1, <2>1, <2>4, <2>6, <2>7, <2>8, <2>9, CronFrame, Zenon
<1> QED
  BY <1>2, <1>3, Zenon

\* An activation goes on or ends.
LEMMA CronMoves ==
  ASSUME CronInv, NEW a \in C!ActId, NEW r \in Activation,
         act' = [act EXCEPT ![a] = r], r.job = act[a].job, r.due = act[a].due, r.aborted = act[a].aborted,
         act[a].pc = "none" => r.pc = "none",
         r.pc \in {"trigger", "wait"} => C!Active(a),
         UNCHANGED <<acts, policy, clock, next, scheduler>>,
         \/ running' = running
         \/ C!Active(a) /\ r.pc \notin {"trigger", "wait"} /\ running' = running \ {act[a].job}
  PROVE  CronInv'
<1>1. \A b \in C!ActId : act'[b] = IF b = a THEN r ELSE act[b]
  BY Zenon DEF CronInv, CronType
<1>2. \A b \in C!ActId : C!Active(b)' => C!Active(b)
  BY <1>1, Zenon DEF C!Active
<1>3. 1 .. acts \subseteq C!ActId
  BY CronAssumption DEF CronInv, CronType, C!ActId
<1>4. act' \in [C!ActId -> Activation] /\ clock' \in Nat /\ clock' >= clock /\ next' \in [Job -> Nat]
  BY DEF CronInv, CronType
<1>5. ASSUME NEW b \in 1 .. acts, C!Active(b)', policy[act[b].job].skip PROVE act[b].job \in running'
  <2>1. b \in C!ActId /\ C!Active(b) /\ act[b].job \in running
    BY <1>2, <1>3, <1>5, Zenon DEF CronInv, FiredInv
  <2>2. CASE running' = running
    BY <2>1, <2>2, Zenon
  <2>3. CASE C!Active(a) /\ r.pc \notin {"trigger", "wait"} /\ running' = running \ {act[a].job}
    <3>1. b # a
      BY <1>1, <1>5, <2>1, <2>3, Zenon DEF C!Active
    <3>2. a \in 1 .. acts
      BY <2>3, CronAssumption DEF C!Active, CronInv, CronType, C!ActId
    <3>3. a < b \/ b < a
      BY <3>1, <3>2
    <3>4. Apart(a, b) /\ Apart(b, a)
      BY <3>2, Zenon DEF CronInv
    <3>5. act[a].job # act[b].job
      BY <1>5, <2>1, <2>3, <3>3, <3>4, Zenon DEF Apart
    <3> QED
      BY <2>1, <2>3, <3>5, Zenon
  <2> QED
    BY <2>2, <2>3, Zenon
<1>6. \A b \in 1 .. acts : act[b].due < next'[act[b].job]
  BY Zenon DEF CronInv, FiredInv
<1>7. scheduler' \in {"none", "ended", "failed"} => \A b \in C!ActId : Idle(b)'
  <2>1. \A b \in C!ActId : Idle(b) => Idle(b)'
    BY <1>1, <1>2, Zenon DEF Idle
  <2> QED
    BY <2>1, Zenon DEF CronInv, IdleInv
<1>8. \A b \in C!ActId : /\ act'[b].job = act[b].job /\ act'[b].due = act[b].due
                         /\ act[b].pc = "none" => act'[b].pc = "none"
  BY <1>1, Zenon
<1> QED
  BY <1>2, <1>4, <1>5, <1>6, <1>7, <1>8, CronFrame, Zenon

LEMMA CronActivation ==
  ASSUME CronInv, NEW a \in C!ActId,
         C!Triggered(a) \/ C!Panics(a) \/ C!Result(a) \/ C!Received(a) \/ C!Abort(a)
  PROVE  CronInv'
<1>1. UNCHANGED <<acts, policy, clock, next, scheduler>>
  BY Zenon DEF C!Triggered, C!Panics, C!Result, C!Received, C!Abort, C!loopVars
<1>2. act[a] \in Activation
  BY Zenon DEF CronInv, CronType
<1>3. CASE C!Over(a) /\ act[a].pc \in {"trigger", "wait"}
  <2> DEFINE r == [act[a] EXCEPT !.pc = "over"]
  <2>1. act' = [act EXCEPT ![a] = r]
    BY <1>3, Zenon DEF C!Over, CronInv, CronType
  <2>2. /\ r \in Activation /\ r.job = act[a].job /\ r.due = act[a].due /\ r.aborted = act[a].aborted
        /\ r.pc = "over"
    BY <1>2, Zenon DEF Activation
  <2> HIDE DEF r
  <2>3. running' = running \/ running' = running \ {act[a].job}
    BY <1>3, Zenon DEF C!Over
  <2>4. act[a].pc # "none" /\ C!Active(a)
    BY <1>3, Zenon DEF C!Active
  <2> QED
    BY <1>1, <2>1, <2>2, <2>3, <2>4, CronMoves, Zenon
<1>4. CASE act[a].pc = "trigger" /\ act' = [act EXCEPT ![a].pc = "wait"] /\ UNCHANGED running
  <2> DEFINE r == [act[a] EXCEPT !.pc = "wait"]
  <2>1. act' = [act EXCEPT ![a] = r]
    BY <1>4, Zenon DEF CronInv, CronType
  <2>2. /\ r \in Activation /\ r.job = act[a].job /\ r.due = act[a].due /\ r.aborted = act[a].aborted
        /\ r.pc = "wait"
    BY <1>2, Zenon DEF Activation
  <2> HIDE DEF r
  <2>3. act[a].pc # "none" /\ C!Active(a)
    BY <1>4, Zenon DEF C!Active
  <2> QED
    BY <1>1, <1>4, <2>1, <2>2, <2>3, CronMoves, Zenon
<1>5. CASE C!Result(a)
  <2> DEFINE r == [act[a] EXCEPT !.pending = FALSE, !.sent = TRUE]
  <2>1. act' = [act EXCEPT ![a] = r] /\ running' = running
    BY <1>5, Zenon DEF C!Result, CronInv, CronType
  <2>2. /\ r \in Activation /\ r.job = act[a].job /\ r.due = act[a].due /\ r.aborted = act[a].aborted
        /\ r.pc = act[a].pc
    BY <1>2, Zenon DEF Activation
  <2> HIDE DEF r
  <2> QED
    BY <1>1, <2>1, <2>2, CronMoves, Zenon DEF C!Active
<1> QED
  BY <1>3, <1>4, <1>5, Zenon DEF C!Triggered, C!Panics, C!Received, C!Abort, C!Active

\* A pass: what is new fired at its job's latest occurrence, after all that its job
\* had fired before, and under Skip only when nothing of the job is in progress.
LEMMA CronServe ==
  ASSUME CronInv, NEW ds \in SUBSET C!Due, \A j \in ds : C!HasNext(j), NEW dropped \in BOOLEAN,
         C!Serve(ds, dropped), UNCHANGED <<clock, policy>>,
         scheduler' = "run" \/ (scheduler' = "failed" /\ dropped)
  PROVE  CronInv'
<1> DEFINE js == {j \in ds : C!Fires(j) /\ C!Admitted(j)}
           Last(j) == C!Latest(j, next[j])
<1>1. /\ C!Dispatch(js, dropped)
      /\ \A j \in ds : C!NextAfter(j, Last(j)) # {}
      /\ next' = [j \in Job |-> IF j \in ds THEN CHOOSE t \in C!NextAfter(j, Last(j)) : TRUE ELSE next[j]]
  BY Zenon DEF C!Serve, C!HasNext
<1>2. js \in SUBSET Job /\ \A j \in js : j \in ds /\ (policy[j].skip => j \notin running)
  BY Zenon DEF C!Due, C!Admitted
<1>3. ASSUME NEW j \in ds
      PROVE  /\ j \in Job /\ Last(j) \in Nat /\ next[j] <= Last(j) /\ Last(j) <= clock
             /\ next'[j] \in Nat /\ next'[j] > Last(j)
  <2>1. j \in Job /\ next[j] \in Nat /\ next[j] <= clock /\ clock \in Nat
    BY Zenon DEF C!Due, CronInv, CronType
  <2>2. Last(j) \in Nat /\ next[j] <= Last(j) /\ Last(j) <= clock
    BY <2>1, LatestDue, Zenon
  <2>3. next'[j] = CHOOSE t \in C!NextAfter(j, Last(j)) : TRUE
    BY <1>1, <2>1, Zenon
  <2> HIDE DEF Last
  <2>4. next'[j] \in Nat /\ next'[j] > Last(j)
    BY <1>1, <2>1, <2>2, <2>3, NextLater
  <2> QED
    BY <2>1, <2>2, <2>4
<1>40. PICK n \in Nat : \E f \in [1 .. n -> js] :
        /\ \A x, y \in 1 .. n : f[x] = f[y] => x = y
        /\ acts' = acts + n /\ acts' <= MaxActs
        /\ running' = running \cup {j \in js : policy[j].skip}
        /\ act' = [a \in C!ActId |->
             IF a - acts \notin 1 .. n THEN Kept(a, dropped) ELSE New(f[a - acts], dropped)]
  BY <1>1, <1>2, DispatchGives, Zenon
<1>4. PICK f \in [1 .. n -> js] :
        /\ \A x, y \in 1 .. n : f[x] = f[y] => x = y
        /\ acts' = acts + n /\ acts' <= MaxActs
        /\ running' = running \cup {j \in js : policy[j].skip}
        /\ act' = [a \in C!ActId |->
             IF a - acts \notin 1 .. n THEN Kept(a, dropped) ELSE New(f[a - acts], dropped)]
  BY <1>40, Zenon
<1> HIDE DEF js, Last
<1>5. ASSUME NEW j \in Job PROVE next'[j] \in Nat /\ next[j] \in Nat /\ next[j] <= next'[j]
  <2>1. CASE j \in ds
    BY <1>3, <2>1 DEF CronInv, CronType
  <2>2. CASE j \notin ds
    BY <1>1, <2>2 DEF CronInv, CronType
  <2> QED
    BY <2>1, <2>2
<1>6. acts \in Nat /\ 1 .. acts' \subseteq C!ActId /\ 1 .. acts \subseteq C!ActId /\ acts' \in 0 .. MaxActs
  BY <1>4, CronAssumption DEF CronInv, CronType, C!ActId
\* The activations of before, and the new ones.
<1>7. ASSUME NEW a \in C!ActId, a - acts \notin 1 .. n
      PROVE  /\ act'[a] \in Activation
             /\ act'[a].job = act[a].job /\ act'[a].due = act[a].due /\ act'[a].pc = act[a].pc
             /\ act'[a].aborted <=> act[a].aborted \/ (dropped /\ C!Active(a))
  <2> DEFINE b == act[a].aborted \/ (dropped /\ C!Active(a))
  <2>1. act'[a] = [act[a] EXCEPT !.aborted = b]
    BY <1>4, <1>7, Zenon DEF Kept
  <2>2. act[a] \in Activation /\ b \in BOOLEAN
    BY Zenon DEF CronInv, CronType
  <2> HIDE DEF b
  <2>3. /\ act'[a] \in Activation
        /\ act'[a].job = act[a].job /\ act'[a].due = act[a].due /\ act'[a].pc = act[a].pc
        /\ act'[a].aborted = b
    BY <2>1, <2>2 DEF Activation
  <2> QED
    BY <2>3, Zenon DEF b
<1>8. ASSUME NEW a \in C!ActId, a - acts \in 1 .. n
      PROVE  act'[a] = New(f[a - acts], dropped) /\ f[a - acts] \in js
  BY <1>4, <1>8, Zenon
<1>9. ASSUME NEW a \in C!ActId, a - acts \in 1 .. n
      PROVE  /\ act'[a].job = f[a - acts] /\ act'[a].due = Last(f[a - acts])
             /\ f[a - acts] \in js /\ f[a - acts] \in ds /\ act'[a] \in Activation
             /\ act'[a].aborted = dropped
  <2>1. f[a - acts] \in js /\ f[a - acts] \in ds
    BY <1>2, <1>8, <1>9, Zenon
  <2>2. f[a - acts] \in Job /\ Last(f[a - acts]) \in Nat
    BY <1>3, <2>1, Zenon
  <2>3. policy[f[a - acts]].result \in BOOLEAN
    <3>1. policy[f[a - acts]] \in [skip : BOOLEAN, once : BOOLEAN, result : BOOLEAN]
      BY <2>2, CronAssumption DEF CronInv, CronType
    <3> QED
      BY <3>1, Zenon
  <2>4. /\ act'[a].job = f[a - acts] /\ act'[a].due = Last(f[a - acts]) /\ act'[a] \in Activation
        /\ act'[a].aborted = dropped
    <3> DEFINE j == f[a - acts]
               d == Last(j)
               p == policy[j].result
    <3>1. act'[a] = [job |-> j, due |-> d, pc |-> "trigger", pending |-> p, sent |-> FALSE,
                     aborted |-> dropped]
      BY <1>8, <1>9, Zenon DEF New, Last
    <3>2. j \in Job /\ d \in Nat /\ p \in BOOLEAN
      BY <2>2, <2>3, Zenon
    <3>3. act'[a].job = j /\ act'[a].due = d /\ act'[a] \in Activation /\ act'[a].aborted = dropped
      <4> HIDE DEF j, d, p
      <4>1. act'[a].job = j /\ act'[a].due = d /\ act'[a].aborted = dropped
        BY <3>1
      <4>2. act'[a] \in Activation
        BY <3>1, <3>2 DEF Activation
      <4> QED
        BY <4>1, <4>2, Zenon
    <3> QED
      BY <3>3, Zenon
  <2> QED
    BY <2>1, <2>4, Zenon
<1>10. ASSUME NEW a \in 1 .. acts
       PROVE  /\ a \in C!ActId /\ act'[a].job = act[a].job /\ act'[a].due = act[a].due
              /\ C!Active(a)' => C!Active(a)
  <2>1. a \in C!ActId /\ a - acts \notin 1 .. n
    BY <1>4, <1>6
  <2> QED
    BY <1>7, <2>1, Zenon DEF C!Active
<1>11. ASSUME NEW a \in 1 .. acts', a \notin 1 .. acts PROVE a \in C!ActId /\ a - acts \in 1 .. n
  BY <1>4, <1>6, <1>11
<1>12. CronType'
  <2>1. clock' \in Nat /\ acts' \in 0 .. MaxActs /\ policy' \in Policies
    BY <1>6, Zenon DEF CronInv, CronType
  <2>2. next' \in [Job -> Nat]
    BY <1>1, <1>5, Zenon
  <2>3. \A a \in C!ActId : act'[a] \in Activation
    <3> SUFFICES ASSUME NEW a \in C!ActId PROVE act'[a] \in Activation
      BY Zenon
    <3>1. CASE a - acts \in 1 .. n
      BY <1>9, <3>1, Zenon
    <3>2. CASE a - acts \notin 1 .. n
      BY <1>7, <3>2, Zenon
    <3> QED
      BY <3>1, <3>2, Zenon
  <2>4. act' \in [C!ActId -> Activation]
    BY <1>4, <2>3, Zenon
  <2>5. ASSUME NEW a \in C!ActId, a > acts' PROVE act'[a].pc = "none"
    <3>1. a > acts /\ a - acts \notin 1 .. n
      BY <1>4, <1>6, <2>5 DEF C!ActId
    <3> QED
      BY <1>7, <3>1, Zenon DEF CronInv, CronType
  <2> QED
    BY <2>1, <2>2, <2>4, <2>5, Zenon DEF CronType
<1>13. ASSUME NEW a \in 1 .. acts' PROVE FiredInv(a)'
  <2>1. CASE a \in 1 .. acts
    <3>1. /\ act'[a].job = act[a].job /\ act'[a].due = act[a].due /\ act[a].job \in Job
          /\ act[a].due <= clock /\ act[a].due < next[act[a].job]
          /\ C!Active(a)' /\ policy[act[a].job].skip => act[a].job \in running
      BY <1>10, <2>1, Zenon DEF CronInv, FiredInv
    <3>2. act[a].due \in Nat
      BY <1>6, <2>1, Zenon DEF CronInv, CronType, Activation
    <3>3. act[a].due < next'[act[a].job]
      BY <1>5, <3>1, <3>2
    <3>4. policy' = policy /\ clock' = clock /\ running \subseteq running'
      BY <1>1, <1>4, Zenon
    <3>5. act'[a].job \in Job /\ act'[a].due <= clock' /\ act'[a].due < next'[act'[a].job]
      BY <3>1, <3>3, <3>4, Zenon
    <3>6. C!Active(a)' /\ policy'[act'[a].job].skip => act'[a].job \in running'
      BY <3>1, <3>4, Zenon
    <3> QED
      BY <3>5, <3>6, Zenon DEF FiredInv
  <2>2. CASE a \notin 1 .. acts
    <3>1. a \in C!ActId /\ a - acts \in 1 .. n
      BY <1>11, <2>2, Zenon
    <3> DEFINE j == f[a - acts]
    <3>2. act'[a].job = j /\ act'[a].due = Last(j) /\ j \in js /\ j \in ds
      BY <1>9, <3>1, Zenon
    <3>3. j \in Job /\ Last(j) <= clock /\ Last(j) < next'[j]
      BY <1>3, <3>2
    <3> HIDE DEF j
    <3>4. policy' = policy /\ clock' = clock /\ (policy[j].skip => j \in running')
      BY <1>1, <1>4, <3>2
    <3>5. act'[a].job \in Job /\ act'[a].due <= clock' /\ act'[a].due < next'[act'[a].job]
      BY <3>2, <3>3, <3>4, Zenon
    <3>6. C!Active(a)' /\ policy'[act'[a].job].skip => act'[a].job \in running'
      BY <3>2, <3>4, Zenon
    <3> QED
      BY <3>5, <3>6, Zenon DEF FiredInv
  <2> QED
    BY <2>1, <2>2, Zenon
<1>14. ASSUME NEW a \in 1 .. acts', NEW b \in 1 .. acts', a < b, act'[a].job = act'[b].job
       PROVE  /\ act'[a].due < act'[b].due
              /\ policy[act'[a].job].skip => ~(C!Active(a)' /\ C!Active(b)')
  <2>1. CASE b \in 1 .. acts
    <3>1. a \in 1 .. acts
      BY <1>6, <1>14, <2>1
    <3>2. Apart(a, b)
      BY <1>10, <2>1, <3>1, Zenon DEF CronInv
    <3> QED
      BY <1>10, <1>14, <2>1, <3>1, <3>2, Zenon DEF Apart
  <2>2. CASE b \notin 1 .. acts
    <3>1. b \in C!ActId /\ b - acts \in 1 .. n
      BY <1>11, <2>2
    <3> DEFINE j == f[b - acts]
    <3>2. act'[b].job = j /\ act'[b].due = Last(j) /\ j \in js /\ j \in ds
      BY <1>9, <3>1, Zenon
    <3>3. CASE a \in 1 .. acts
      <4>1. /\ act'[a].due = act[a].due /\ act[a].job = j /\ act[a].due < next[j]
            /\ C!Active(a)' /\ policy[j].skip => j \in running
        BY <1>10, <1>14, <3>2, <3>3, ZenonT(40) DEF CronInv, FiredInv
      <4>2. next[j] <= Last(j) /\ Last(j) \in Nat /\ next[j] \in Nat /\ act[a].due \in Nat
        BY <1>3, <1>5, <1>6, <3>2, <3>3 DEF CronInv, CronType, Activation
      <4>3. act[a].due < Last(j)
        BY <4>1, <4>2
      <4>4. policy[j].skip => j \notin running
        BY <1>2, <3>2, Zenon
      <4> QED
        BY <1>14, <3>2, <4>1, <4>3, <4>4, Zenon
    <3>4. CASE a \notin 1 .. acts
      <4>1. a \in C!ActId /\ a - acts \in 1 .. n
        BY <1>11, <3>4
      <4>2. f[a - acts] = f[b - acts]
        BY <1>9, <1>14, <3>1, <4>1, Zenon
      <4>3. a - acts = b - acts
        BY <1>4, <3>1, <4>1, <4>2, Zenon
      <4> QED
        BY <1>6, <1>14, <4>3
    <3> QED
      BY <3>3, <3>4, Zenon
  <2> QED
    BY <2>1, <2>2, Zenon
<1>15. \A a, b \in 1 .. acts' : Apart(a, b)'
  BY <1>1, <1>14, Zenon DEF Apart
<1>16. IdleInv'
  <2> SUFFICES ASSUME dropped, NEW a \in C!ActId PROVE Idle(a)'
    BY Zenon DEF IdleInv
  <2>1. CASE a - acts \in 1 .. n
    BY <1>9, <2>1, Zenon DEF Idle
  <2>2. CASE a - acts \notin 1 .. n
    BY <1>7, <2>2, Zenon DEF Idle, C!Active
  <2> QED
    BY <2>1, <2>2, Zenon
<1> QED
  BY <1>12, <1>13, <1>15, <1>16, Zenon DEF CronInv

LEMMA CronPass == ASSUME CronInv, C!Pass \/ C!PassFails PROVE CronInv'
<1>1. CASE C!Pass
  <2>1. C!Serve(C!Due, FALSE) /\ scheduler' = "run" /\ UNCHANGED <<clock, policy>>
    BY <1>1, Zenon DEF C!Pass
  <2>2. \A j \in C!Due : C!HasNext(j)
    BY <1>1, Zenon DEF C!Pass
  <2> QED
    BY <2>1, <2>2, CronServe, Zenon
<1>2. CASE C!PassFails
  <2>1. PICK js \in SUBSET C!Due : C!Serve(js, TRUE) /\ \A j \in js : C!HasNext(j)
    BY <1>2, Zenon DEF C!PassFails
  <2>2. scheduler' = "failed" /\ UNCHANGED <<clock, policy>>
    BY <1>2, Zenon DEF C!PassFails
  <2> QED
    BY <2>1, <2>2, CronServe, Zenon
<1> QED
  BY <1>1, <1>2, Zenon

LEMMA CronStep == ASSUME CronInv, [C!Next]_(C!vars) PROVE CronInv'
BY CronQuietSteps, CronStart, CronPass, CronActivation, Zenon DEF C!Next

LEMMA CronInit == ASSUME C!Init PROVE CronInv
<1>1. act = [a \in C!ActId |-> [job |-> NoJob, due |-> 0, pc |-> "none", pending |-> FALSE,
                               sent |-> FALSE, aborted |-> FALSE]]
  BY Zenon DEF C!Init
<1>2. \A a \in C!ActId : act[a].pc = "none"
  BY <1>1, Zenon
<1>3. [job |-> NoJob, due |-> 0, pc |-> "none", pending |-> FALSE, sent |-> FALSE,
       aborted |-> FALSE] \in Activation
  BY Zenon DEF Activation
<1>4. act \in [C!ActId -> Activation]
  BY <1>1, <1>3, Zenon
<1>5. clock = 0 /\ acts = 0 /\ next = [j \in Job |-> 0] /\ policy \in Policies
  BY Zenon DEF C!Init
<1>6. CronType
  BY <1>2, <1>4, <1>5, CronAssumption DEF CronType
<1>7. 1 .. acts = {}
  BY <1>5
<1> QED
  BY <1>2, <1>6, <1>7 DEF CronInv, IdleInv, Idle, C!Active

\* For any jobs, intervals and calendars: under Skip one activation of a job is in
\* progress at a time, and however late the scheduler of croner.rs is, no occurrence
\* fires twice and none before its time.
THEOREM CronActivationsApart == C!Spec => []ActivationsApart
<1>1. CronInv => ActivationsApart
  BY Zenon DEF CronInv, FiredInv, Apart, ActivationsApart, C!ActivationsApart
<1> QED
  BY <1>1, CronInit, CronStep, PTL DEF C!Spec

StopState == [pc : {"idle", "lock", "await", "ok", "error", "cancelled"}, cancelled : BOOLEAN]

\* What the steps of a stop do to it.
LEMMA StopMoves ==
  ASSUME stop \in [CronStop -> StopState], [C!Next]_(C!vars)
  PROVE  /\ stop' \in [CronStop -> StopState]
         /\ \A s \in CronStop : stop'[s].pc = "ok" /\ stop[s].pc # "ok" =>
              scheduler \in {"none", "ended"}
<1>1. CASE stop' = stop
  BY <1>1, Zenon
<1>2. ASSUME NEW s \in CronStop, C!Stop(s)
      PROVE  stop' = [stop EXCEPT ![s] = [pc |-> "lock", cancelled |-> FALSE]]
  BY <1>2, Zenon DEF C!Stop
<1>3. ASSUME NEW s \in CronStop, C!CancelStop(s) PROVE stop' = [stop EXCEPT ![s].cancelled = TRUE]
  BY <1>3, Zenon DEF C!CancelStop
<1>4. ASSUME NEW s \in CronStop, C!StopStep(s)
      PROVE  \E l \in {"ok", "await", "error", "cancelled"} :
               /\ stop' = [stop EXCEPT ![s].pc = l]
               /\ l = "ok" => scheduler \in {"none", "ended"}
  BY <1>4, Zenon DEF C!StopStep, C!StopLock, C!StopJoin, C!StopGivesUp, C!StopAt
<1>5. ASSUME ~(stop' = stop)
      PROVE  \E s \in CronStop : C!Stop(s) \/ C!CancelStop(s) \/ C!StopStep(s)
  BY <1>5, Zenon DEF C!vars, C!stopVars, C!Next, C!Tick, C!CancelOwner, C!Start, C!Pass, C!PassFails,
       C!Break, C!Drained, C!Triggered, C!Panics, C!Result, C!Received, C!Abort
<1>7. ASSUME NEW s \in CronStop, C!Stop(s) \/ C!CancelStop(s) \/ C!StopStep(s)
      PROVE  \E r \in StopState :
               /\ stop' = [stop EXCEPT ![s] = r]
               /\ r.pc = "ok" => r.pc = stop[s].pc \/ scheduler \in {"none", "ended"}
  <2>1. CASE C!Stop(s)
    <3> DEFINE r == [pc |-> "lock", cancelled |-> FALSE]
    <3>1. r \in StopState /\ r.pc # "ok"
      BY Zenon DEF StopState
    <3> QED
      BY <1>2, <2>1, <3>1, Zenon
  <2>2. CASE C!CancelStop(s)
    <3> DEFINE r == [stop[s] EXCEPT !.cancelled = TRUE]
    <3>1. r \in StopState /\ r.pc = stop[s].pc
      BY Zenon DEF StopState
    <3>2. stop' = [stop EXCEPT ![s] = r]
      BY <1>3, <2>2
    <3> HIDE DEF r
    <3> QED
      BY <3>1, <3>2, Zenon
  <2>3. CASE C!StopStep(s)
    <3>1. PICK l \in {"ok", "await", "error", "cancelled"} :
            stop' = [stop EXCEPT ![s].pc = l] /\ (l = "ok" => scheduler \in {"none", "ended"})
      BY <1>4, <2>3, Zenon
    <3> DEFINE r == [stop[s] EXCEPT !.pc = l]
    <3>2. r \in StopState /\ r.pc = l
      BY Zenon DEF StopState
    <3>3. stop' = [stop EXCEPT ![s] = r]
      BY <3>1, Zenon
    <3> HIDE DEF r
    <3> QED
      BY <3>1, <3>2, <3>3, Zenon
  <2> QED
    BY <1>7, <2>1, <2>2, <2>3, Zenon
<1>8. CASE ~(stop' = stop)
  <2>1. PICK s \in CronStop : C!Stop(s) \/ C!CancelStop(s) \/ C!StopStep(s)
    BY <1>5, <1>8, Zenon
  <2>2. PICK r \in StopState :
               /\ stop' = [stop EXCEPT ![s] = r]
               /\ r.pc = "ok" => r.pc = stop[s].pc \/ scheduler \in {"none", "ended"}
    BY <1>7, <2>1, Zenon
  <2> QED
    <3>1. stop' \in [CronStop -> StopState]
      BY <2>2, Zenon
    <3>2. ASSUME NEW t \in CronStop, stop'[t].pc = "ok", stop[t].pc # "ok"
          PROVE  scheduler \in {"none", "ended"}
      <4>1. CASE t = s
        BY <2>2, <3>2, <4>1, Zenon
      <4>2. CASE t # s
        BY <2>2, <3>2, <4>2, Zenon
      <4> QED
        BY <4>1, <4>2, Zenon
    <3> QED
      BY <3>1, <3>2, Zenon
<1> QED
  BY <1>1, <1>8, Zenon

\* A stop of croner.rs that returns Ok leaves no activation in progress that a
\* failed scheduler has not aborted, also when stops before it were cancelled.
THEOREM CronStopsDrained == C!Spec => CronStopDrains
<1> DEFINE Drains == \A s \in CronStop : stop'[s].pc = "ok" /\ stop[s].pc # "ok" =>
                       \A a \in C!ActId : C!Active(a) => act[a].aborted
           StopType == stop \in [CronStop -> StopState]
<1>1. ASSUME CronInv, StopType, C!Next PROVE Drains
  BY <1>1, StopMoves, Zenon DEF CronInv, IdleInv, Idle
<1>2. C!Init => StopType
  BY DEF C!Init, StopState
<1>3. StopType /\ [C!Next]_(C!vars) => StopType'
  BY StopMoves, Zenon
<1> HIDE DEF Drains, StopType
<1>4. CronInv /\ StopType /\ [C!Next]_(C!vars) => [Drains]_(C!vars)
  BY <1>1, Zenon
<1>5. C!Spec => []CronInv
  BY CronInit, CronStep, PTL DEF C!Spec
<1>6. C!Spec => [][Drains]_(C!vars)
  BY <1>2, <1>3, <1>4, <1>5, PTL DEF C!Spec
<1> QED
  BY <1>6, PTL DEF Drains, CronStopDrains, C!CronStopDrains
=============================================================================
