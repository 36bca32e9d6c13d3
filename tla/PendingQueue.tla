---------------------------- MODULE PendingQueue ----------------------------
(***************************************************************************)
(* The queue of tasks waiting for an executor, as the pool actor sees it:  *)
(* src/runtime/pool/queuedpool.rs, enum PendingQueue.                      *)
(*                                                                         *)
(* A queue is a set of entries.  The priority variant is the code's        *)
(* BTreeMap: an entry is ordered by (rank, id), rank being the caller's    *)
(* priority.  The FIFO variant is a doubly linked list in the code; here   *)
(* its order is kept in the same key.  Pushed entries have rank 0 and are  *)
(* ordered by id, a promoted entry gets a rank below every other one.      *)
(***************************************************************************)
EXTENDS Integers

\* i32::MIN, the rank of a promoted entry of a priority queue.
CONSTANT MinRank

ASSUME MinRankAssumption == MinRank \in Int

\* The order of the BTreeMap keys (i32, u64).
Before(e, f) ==
  \/ e.rank < f.rank
  \/ e.rank = f.rank /\ e.id < f.id

\* The entries that pop may return: the least one.
Front(q) == {e \in q : \A f \in q \ {e} : Before(e, f)}

\* Mutant of Push: the priority is ignored.
PushPlain(priority, q, task, id, prio) ==
  q \cup {[task |-> task, id |-> id, rank |-> 0]}

\* PendingQueue::push
Push(priority, q, task, id, prio) ==
  q \cup {[task |-> task, id |-> id, rank |-> IF priority THEN prio ELSE 0]}

\* PendingQueue::promote.  h is the head of q and e the entry the id names.
\* The head of a FIFO queue is left where it is.
Promote(priority, q, h, e) ==
  IF ~priority /\ e = h
  THEN q
  ELSE (q \ {e}) \cup
         {[e EXCEPT !.rank = IF priority THEN MinRank ELSE h.rank - 1]}
=============================================================================
