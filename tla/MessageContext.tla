--------------------------- MODULE MessageContext ---------------------------
(***************************************************************************)
(* The context that travels with a message: src/runtime/common.rs, struct  *)
(* MessageContext, as far as cancellation goes.  A context is cancelled by *)
(* its token or by its deadline.  An optional instant is a set with at     *)
(* most one element, and time is a natural number.                         *)
(***************************************************************************)
EXTENDS Naturals

\* Mutant: at the instant of the deadline the context is not over yet.
PassedAfter(deadline, now) == \E d \in deadline : d < now

Passed(deadline, now) == \E d \in deadline : d <= now

\* is_cancelled, which is also when the future cancelled() resolves.
IsCancelled(token, deadline, now) == token \/ Passed(deadline, now)

\* remaining: saturating_duration_since.
Remaining(deadline, now) == {IF d > now THEN d - now ELSE 0 : d \in deadline}
=============================================================================
