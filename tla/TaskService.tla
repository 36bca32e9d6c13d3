---------------------------- MODULE TaskService -----------------------------
(***************************************************************************)
(* What every pool of the runtime promises about the callbacks handed to   *)
(* it, whatever its queue and its threads look like: a callback is either  *)
(* rejected, and never runs, or accepted, and runs once; and when the pool *)
(* reports that it is drained, every accepted callback has returned and    *)
(* none will be accepted any more.  QueuedPool and DelayPool implement it. *)
(***************************************************************************)
CONSTANT Task

VARIABLES
  status,   \* status[t], the life of a callback
  closed    \* the pool has reported that it is drained

Status == {"new", "rejected", "accepted", "running", "finished"}

TypeOK == status \in [Task -> Status] /\ closed \in BOOLEAN

Init == status = [t \in Task |-> "new"] /\ closed = FALSE

Move(t, from, to) ==
  /\ status[t] = from
  /\ status' = [status EXCEPT ![t] = to]
  /\ UNCHANGED closed

Accept(t) == ~closed /\ Move(t, "new", "accepted")
Reject(t) == Move(t, "new", "rejected")
Run(t)    == ~closed /\ Move(t, "accepted", "running")
Finish(t) == ~closed /\ Move(t, "running", "finished")

\* The calls a pool has not answered are turned away when it goes away.
RejectAll(S) ==
  /\ S \subseteq {t \in Task : status[t] = "new"}
  /\ status' = [t \in Task |-> IF t \in S THEN "rejected" ELSE status[t]]
  /\ UNCHANGED closed

Close ==
  /\ \A t \in Task : status[t] \notin {"accepted", "running"}
  /\ closed' = TRUE
  /\ UNCHANGED status

Next ==
  \/ \E t \in Task : Accept(t) \/ Reject(t) \/ Run(t) \/ Finish(t)
  \/ \E S \in SUBSET Task : RejectAll(S)
  \/ Close

Spec == Init /\ [][Next]_<<status, closed>>
=============================================================================
