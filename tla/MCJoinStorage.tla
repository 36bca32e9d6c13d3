--------------------------- MODULE MCJoinStorage ----------------------------
(* Instances of JoinStorage for TLC.                                       *)
EXTENDS JoinStorage

CONSTANTS c1, c2, k1

OneKey == [c \in Call |-> k1]

\* The context of c1 has a deadline.
FirstHasDeadline == [c \in Call |-> IF c = c1 THEN {2} ELSE {}]

\* c1 is of the first input, c2 of the second.
TwoSides == [c \in Call |-> IF c = c1 THEN 0 ELSE 1]

Timed == {[ttl |-> 1, renew |-> FALSE, type |-> t] : t \in {"inner", "right"}}
         \cup {[ttl |-> 1, renew |-> TRUE, type |-> "multi"]}
Zero  == {[ttl |-> 0, renew |-> FALSE, type |-> "outer"]}
=============================================================================
