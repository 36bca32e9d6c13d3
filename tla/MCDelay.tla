------------------------------ MODULE MCDelay -------------------------------
(* Instances of Delay for TLC.                                             *)
EXTENDS Delay, TLC

CONSTANTS direct, plain, short, out

\* direct has no delay; plain has no deadline; short has a deadline before its
\* delay is over; out has a delay out of the clock's range and no deadline.
Durations ==
  [m \in Msg |-> CASE m = direct -> 0 [] m = out -> Huge [] OTHER -> 2]
Deadlines == [m \in Msg |-> IF m = short THEN {1} ELSE {}]
=============================================================================
