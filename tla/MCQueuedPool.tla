---------------------------- MODULE MCQueuedPool ----------------------------
(* Instances of QueuedPool for TLC. *)
EXTENDS QueuedPool, TLC

CONSTANTS t1, t2, t3

\* The same priority for every task: the FIFO pool.
Equal == [t \in Task |-> 0]

\* Two priorities, one of them i32::MIN, the rank promote gives.
Mixed == [t \in Task |-> IF t = t1 THEN MinRank ELSE 1]

\* Below the priorities in use.
Least == -5

Tasks == Permutations(Task)
=============================================================================
