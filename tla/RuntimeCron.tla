---------------------------- MODULE RuntimeCron -----------------------------
(* The cron source as a part of the runtime, with what it asks of its      *)
(* constants and what it promises.                                         *)
EXTENDS Naturals, FiniteSets

CONSTANTS Job, Interval, Calendar, Policies, CronStop, MaxTicks, MaxActs, NoJob

ASSUME CronAssumption ==
  /\ IsFiniteSet(Job) /\ MaxActs \in Nat
  /\ Interval \in [Job -> Nat] /\ Calendar \in [Job -> SUBSET Nat]
  /\ Policies \subseteq [Job -> [skip : BOOLEAN, once : BOOLEAN, result : BOOLEAN]]

VARIABLES clock, policy, scheduler, cancellation, start_context, next, running, act, acts, lock,
          stop

C == INSTANCE Cron WITH
       Stopper <- CronStop, MaxTime <- MaxTicks, None <- NoJob,
       now <- clock, owner <- start_context, stopper <- stop

cronVars == <<clock, policy, scheduler, cancellation, start_context, next, running, act, acts,
              lock, stop>>

\* Activations of a job that skips do not overlap, and none fires twice (croner.rs).
ActivationsApart == C!ActivationsApart

\* A cron stop that returns Ok leaves no activation in progress.
CronStopDrains == C!CronStopDrains
=============================================================================
