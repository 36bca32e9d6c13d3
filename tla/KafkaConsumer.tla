--------------------------- MODULE KafkaConsumer ----------------------------
(***************************************************************************)
(* datasource/kafka/checkpoint.rs and the endpoint of rdkafka.rs: the      *)
(* rebalance callback and the partition generations it hands out, the      *)
(* consumer loop, the lane of each assigned partition, the handlers that   *)
(* keep messages and acknowledge them whenever they like, and stop.        *)
(* librdkafka is external: it serves rebalances and messages from recv     *)
(* only, and returns no message of an assignment that it has given up.     *)
(***************************************************************************)
EXTENDS Integers, Sequences, FiniteSets

CONSTANTS Partition,
          Cooperative,       \* rebalance_protocol() is Cooperative
          LaneCap,           \* capacity of a lane's channel (256)
          MaxRebalances,     \* bound on the rebalances
          MaxMessages        \* bound on the messages fetched

ASSUME KafkaAssumption ==
  Cooperative \in BOOLEAN /\ LaneCap \in Nat /\ MaxRebalances \in Nat /\ MaxMessages \in Nat

Generation == 1..MaxRebalances
Lane == Partition \X Generation

VARIABLES partitions,        \* partition to generation, 0 when not assigned
          revision, failed,
          error,             \* the slot: "none", "set", "taken"
          cancelled,         \* the partition contexts that were cancelled
          native, epoch,     \* librdkafka: the assignment each partition is of, and their count
          rebalances,        \* how many there were
          loop,              \* where the consumer loop is
          list,              \* the partitions of the rebalance being served
          assignment_revision, msg,
          lanes,             \* the lanes whose sender the loop holds
          queue, task,       \* of each lane: messages in the channel, its task
          fetched,
          kept,              \* the messages handlers got
          stored,            \* the offsets stored: message and assignment they went to
          owner, stop,       \* the endpoint's context and stop token are cancelled
          parent,            \* the context start was given is cancelled
          stopper, reported

assignVars == <<partitions, revision, failed, error, cancelled>>
nativeVars == <<native, epoch>>
loopVars == <<rebalances, list, assignment_revision, msg, lanes, fetched>>
laneVars == <<queue, task>>
handlerVars == <<kept, stored>>
stopVars == <<owner, parent, stop, stopper, reported>>
vars == <<assignVars, nativeVars, loop, loopVars, laneVars, handlerVars, stopVars>>

Message == [p : Partition, gen : Generation, native : Generation]
NoMessage == [p |-> 0, gen |-> 0, native |-> 0]

Init ==
  /\ partitions = [p \in Partition |-> 0] /\ revision = 0 /\ failed = FALSE
  /\ error = "none" /\ cancelled = {}
  /\ native = [p \in Partition |-> 0] /\ epoch = 0
  /\ loop = "init" /\ rebalances = 0 /\ list = {} /\ assignment_revision = 0 /\ msg = NoMessage
  /\ lanes = {} /\ fetched = 0
  /\ queue = [l \in Lane |-> <<>>] /\ task = [l \in Lane |-> "none"]
  /\ kept = {} /\ stored = {}
  /\ owner = FALSE /\ parent = FALSE /\ stop = FALSE /\ stopper = "idle" /\ reported = FALSE

\* The context of a partition, a child of the endpoint's context.
Live(p, g) == ~owner /\ <<p, g>> \notin cancelled

\* Assignments::current.
Current(p, g) == partitions[p] = g /\ Live(p, g)
-----------------------------------------------------------------------------
(* The rebalance callback, on the thread of the loop inside recv.          *)

\* The contexts that are cancelled when the partitions of ps lose their entry.
Dropped(ps) == {<<p, partitions[p]>> : p \in {q \in ps : partitions[q] # 0}}

Rebalance(ps) ==
  /\ loop = "poll" /\ list' = ps
  /\ rebalances < MaxRebalances /\ rebalances' = rebalances + 1

AssignBegin(ps) ==
  /\ Rebalance(ps) /\ ps # {}
  /\ Cooperative => \A p \in ps : native[p] = 0
  /\ loop' = IF owner \/ failed THEN "fail" ELSE "restore"
  /\ UNCHANGED <<assignVars, nativeVars, assignment_revision, msg, lanes, fetched,
                 laneVars, handlerVars, stopVars>>

\* restore_checkpoint, its validation or the watermarks reject the assignment,
\* or the endpoint has been cancelled meanwhile.
AssignRejected ==
  /\ loop = "restore" /\ loop' = "fail"
  /\ UNCHANGED <<assignVars, nativeVars, loopVars, laneVars, handlerVars, stopVars>>

\* The entries an assignment or a revocation removes.
Touched == IF Cooperative THEN list ELSE Partition

\* What librdkafka may be left with when a call for the partitions ps fails.
NativeFails(ps) ==
  \E lost \in SUBSET ps : native' = [p \in Partition |-> IF p \in lost THEN 0 ELSE native[p]]

\* assign or incremental_assign fails, after the entries were removed.
AssignFails ==
  /\ loop = "restore" /\ ~owner /\ loop' = "fail"
  /\ cancelled' = cancelled \cup Dropped(Touched)
  /\ partitions' = [p \in Partition |-> IF p \in Touched THEN 0 ELSE partitions[p]]
  /\ NativeFails(Touched)
  /\ UNCHANGED <<revision, failed, error, epoch, loopVars, laneVars, handlerVars, stopVars>>

AssignApply ==
  /\ loop = "restore" /\ ~owner /\ loop' = "poll"
  /\ cancelled' = cancelled \cup Dropped(Touched)
  /\ epoch' = epoch + 1
  /\ native' = [p \in Partition |-> IF p \in list THEN epoch + 1
                                    ELSE IF Cooperative THEN native[p] ELSE 0]
  /\ revision' = revision + 1
  /\ partitions' = [p \in Partition |-> IF p \in list THEN revision + 1
                                        ELSE IF p \in Touched THEN 0 ELSE partitions[p]]
  /\ UNCHANGED <<failed, error, loopVars, laneVars, handlerVars, stopVars>>

\* The entries go before unassign or incremental_unassign, which may fail.
Revoke(ps) ==
  /\ Rebalance(ps)
  /\ LET gone == IF Cooperative THEN ps ELSE Partition
     IN /\ cancelled' = cancelled \cup Dropped(gone)
        /\ partitions' = [p \in Partition |-> IF p \in gone THEN 0 ELSE partitions[p]]
        /\ \/ /\ native' = [p \in Partition |-> IF p \in gone THEN 0 ELSE native[p]]
              /\ revision' = revision + 1 /\ UNCHANGED loop
           \/ NativeFails(gone) /\ loop' = "fail" /\ UNCHANGED revision
  /\ UNCHANGED <<failed, error, epoch, assignment_revision, msg, lanes, fetched,
                 laneVars, handlerVars, stopVars>>

RebalanceError ==
  /\ Rebalance({}) /\ loop' = "fail"
  /\ UNCHANGED <<assignVars, nativeVars, assignment_revision, msg, lanes, fetched,
                 laneVars, handlerVars, stopVars>>

\* Assignments::fail: the first error is kept.
Fail ==
  /\ loop = "fail" /\ loop' = "unassign"
  /\ error' = IF error = "none" THEN "set" ELSE error
  /\ cancelled' = cancelled \cup Dropped(Partition)
  /\ failed' = TRUE
  /\ UNCHANGED <<partitions, revision, nativeVars, loopVars, laneVars, handlerVars, stopVars>>

Unassign ==
  /\ loop = "unassign" /\ loop' = "poll"
  /\ native' = [p \in Partition |-> 0]
  /\ UNCHANGED <<assignVars, epoch, loopVars, laneVars, handlerVars, stopVars>>
-----------------------------------------------------------------------------
(* The consumer loop.                                                      *)

InitializeOk ==
  /\ loop = "init" /\ ~owner /\ ~stop /\ loop' = "recv"
  /\ UNCHANGED <<assignVars, nativeVars, loopVars, laneVars, handlerVars, stopVars>>

\* The first restore or the client fails, or the endpoint was cancelled.
InitializeFails ==
  /\ loop = "init" /\ loop' = "ended"
  /\ owner' = TRUE /\ reported' = (reported \/ (~owner /\ ~stop))
  /\ UNCHANGED <<assignVars, nativeVars, loopVars, laneVars, handlerVars, parent, stop, stopper>>

\* The select! is biased: recv is polled when nothing has been cancelled yet.
PollRecv ==
  /\ loop = "recv" /\ ~stop /\ ~owner /\ ~failed /\ loop' = "poll"
  /\ UNCHANGED <<assignVars, nativeVars, loopVars, laneVars, handlerVars, stopVars>>

RecvPending ==
  /\ loop = "poll" /\ loop' = "recv"
  /\ UNCHANGED <<assignVars, nativeVars, loopVars, laneVars, handlerVars, stopVars>>

LoopStops ==
  /\ loop = "recv" /\ (stop \/ owner) /\ loop' = "drain"
  /\ UNCHANGED <<assignVars, nativeVars, loopVars, laneVars, handlerVars, stopVars>>

LoopFailed ==
  /\ loop = "recv" /\ failed /\ loop' = "drain"
  /\ error' = IF error = "set" THEN "taken" ELSE error
  /\ reported' = (reported \/ error = "set") /\ owner' = TRUE
  /\ UNCHANGED <<partitions, revision, failed, cancelled, nativeVars, loopVars, laneVars,
                 handlerVars, parent, stop, stopper>>

\* recv fails; with a checkpoint, an offset out of range ends the consumer.
RecvError ==
  /\ loop = "poll"
  /\ reported' = (reported \/ (~owner /\ ~stop))
  /\ \/ loop' = "recv" /\ UNCHANGED owner
     \/ loop' = "drain" /\ owner' = TRUE
  /\ UNCHANGED <<assignVars, nativeVars, loopVars, laneVars, handlerVars, parent, stop, stopper>>

\* The lanes kept after a change of the assignment.
Retained == IF revision = assignment_revision THEN lanes
            ELSE {l \in lanes : Current(l[1], l[2])}

\* A message: stale lanes go, the partition's generation is looked up, and a
\* partition without a live assignment is skipped.
RecvMessage(p) ==
  /\ loop = "poll" /\ native[p] # 0 /\ fetched < MaxMessages /\ fetched' = fetched + 1
  /\ assignment_revision' = revision
  /\ LET g == partitions[p]
         l == <<p, g>>
     IN IF g = 0 \/ ~Live(p, g)
          THEN lanes' = Retained /\ loop' = "recv" /\ UNCHANGED <<msg, task>>
          ELSE /\ lanes' = Retained \cup {l}
               /\ task' = IF l \in Retained THEN task ELSE [task EXCEPT ![l] = "recv"]
               /\ msg' = [p |-> p, gen |-> g, native |-> native[p]]
               /\ loop' = "send"
  /\ UNCHANGED <<assignVars, nativeVars, rebalances, list, queue, handlerVars, stopVars>>

MsgLane == <<msg.p, msg.gen>>

Send ==
  /\ loop = "send" /\ task[MsgLane] # "ended" /\ Len(queue[MsgLane]) < LaneCap
  /\ queue' = [queue EXCEPT ![MsgLane] = Append(@, msg)] /\ loop' = "recv"
  /\ UNCHANGED <<assignVars, nativeVars, loopVars, task, handlerVars, stopVars>>

\* The receiver is gone, or stop or the context wins the select!.
SendEnds ==
  /\ loop = "send" /\ (task[MsgLane] = "ended" \/ stop \/ owner) /\ loop' = "drain"
  /\ UNCHANGED <<assignVars, nativeVars, loopVars, laneVars, handlerVars, stopVars>>

DropLanes ==
  /\ loop = "drain" /\ loop' = "join" /\ lanes' = {}
  /\ UNCHANGED <<assignVars, nativeVars, rebalances, list, assignment_revision, msg, fetched,
                 laneVars, handlerVars, stopVars>>

\* Mutant: the JoinSet is dropped; requests run on.
JoinNothing ==
  /\ loop = "join" /\ loop' = "ended"
  /\ UNCHANGED <<assignVars, nativeVars, loopVars, laneVars, handlerVars, stopVars>>

JoinLanes ==
  /\ loop = "join" /\ (\A l \in Lane : task[l] \in {"none", "ended"}) /\ loop' = "ended"
  /\ UNCHANGED <<assignVars, nativeVars, loopVars, laneVars, handlerVars, stopVars>>
-----------------------------------------------------------------------------
(* A lane's task, and the handlers.                                        *)

\* A message is taken and endpoint_request begins.
LaneTake(l) ==
  /\ task[l] = "recv" /\ queue[l] # <<>> /\ Live(l[1], l[2])
  /\ queue' = [queue EXCEPT ![l] = Tail(@)] /\ task' = [task EXCEPT ![l] = "busy"]
  /\ kept' = kept \cup {Head(queue[l])}
  /\ UNCHANGED <<assignVars, nativeVars, loop, loopVars, stored, stopVars>>

LaneDone(l) ==
  /\ task[l] = "busy" /\ task' = [task EXCEPT ![l] = "recv"]
  /\ UNCHANGED <<assignVars, nativeVars, loop, loopVars, queue, handlerVars, stopVars>>

\* Mutant: a lane without messages gives up its task.
LaneEndsIdle(l) ==
  /\ task[l] = "recv" /\ (~Live(l[1], l[2]) \/ queue[l] = <<>>)
  /\ task' = [task EXCEPT ![l] = "ended"] /\ queue' = [queue EXCEPT ![l] = <<>>]
  /\ UNCHANGED <<assignVars, nativeVars, loop, loopVars, handlerVars, stopVars>>

LaneEnds(l) ==
  /\ task[l] = "recv" /\ (~Live(l[1], l[2]) \/ (queue[l] = <<>> /\ l \notin lanes))
  /\ task' = [task EXCEPT ![l] = "ended"] /\ queue' = [queue EXCEPT ![l] = <<>>]
  /\ UNCHANGED <<assignVars, nativeVars, loop, loopVars, handlerVars, stopVars>>

\* Mutant: the partition is looked up, not its generation.
AckAnyGeneration(m) ==
  /\ m \in kept
  /\ IF ~failed /\ partitions[m.p] # 0 /\ Live(m.p, partitions[m.p])
       THEN stored' = stored \cup {[message |-> m, epoch |-> native[m.p]]}
       ELSE UNCHANGED stored
  /\ UNCHANGED <<assignVars, nativeVars, loop, loopVars, laneVars, kept, stopVars>>

\* commit and mark_message of a message: acknowledge checks the generation
\* and calls librdkafka under the lock that the rebalance callback takes.
Acknowledge(m) ==
  /\ m \in kept
  /\ IF ~failed /\ Current(m.p, m.gen)
       THEN stored' = stored \cup {[message |-> m, epoch |-> native[m.p]]}
       ELSE UNCHANGED stored
  /\ UNCHANGED <<assignVars, nativeVars, loop, loopVars, laneVars, kept, stopVars>>
-----------------------------------------------------------------------------
(* The endpoint's stop.                                                    *)

\* The context that start was given, the parent of the endpoint's, is cancelled.
ParentCancelled ==
  /\ ~parent /\ parent' = TRUE /\ owner' = TRUE
  /\ UNCHANGED <<assignVars, nativeVars, loop, loopVars, laneVars, handlerVars, stop, stopper, reported>>

StopBegin ==
  /\ stopper = "idle" /\ stopper' = "begun" /\ stop' = TRUE
  /\ UNCHANGED <<assignVars, nativeVars, loop, loopVars, laneVars, handlerVars, owner, parent, reported>>

\* Mutant: only the stop token is cancelled.
StopWithoutCancel ==
  /\ stopper = "begun" /\ stopper' = "joining"
  /\ UNCHANGED <<assignVars, nativeVars, loop, loopVars, laneVars, handlerVars, owner, parent, stop, reported>>

StopCancel ==
  /\ stopper = "begun" /\ stopper' = "joining" /\ owner' = TRUE
  /\ UNCHANGED <<assignVars, nativeVars, loop, loopVars, laneVars, handlerVars, parent, stop, reported>>

StopJoined ==
  /\ stopper = "joining" /\ loop = "ended" /\ stopper' = "done"
  /\ UNCHANGED <<assignVars, nativeVars, loop, loopVars, laneVars, handlerVars, owner, parent, stop, reported>>

\* The context of stop is cancelled; the handle stays, and stop may be called again.
StopGivesUp ==
  /\ stopper \in {"begun", "joining"} /\ stopper' = "idle"
  /\ UNCHANGED <<assignVars, nativeVars, loop, loopVars, laneVars, handlerVars, owner, parent, stop, reported>>

RebalanceStep ==
  \/ \E ps \in SUBSET Partition : AssignBegin(ps) \/ Revoke(ps)
  \/ AssignRejected \/ AssignFails \/ AssignApply \/ RebalanceError \/ Fail \/ Unassign

Initialize == InitializeOk \/ InitializeFails

LoopStep ==
  \/ PollRecv \/ RecvPending \/ LoopStops \/ LoopFailed \/ RecvError
  \/ \E p \in Partition : RecvMessage(p)
  \/ Send \/ SendEnds \/ DropLanes \/ JoinLanes

LaneStep(l) == LaneTake(l) \/ LaneDone(l) \/ LaneEnds(l)

StopStep == ParentCancelled \/ StopBegin \/ StopCancel \/ StopJoined \/ StopGivesUp

Next ==
  \/ RebalanceStep \/ Initialize \/ LoopStep \/ StopStep
  \/ \E l \in Lane : LaneStep(l)
  \/ \E m \in kept : Acknowledge(m)

Spec == Init /\ [][Next]_vars

\* Tokio polls what is woken and the handlers return.  restore_checkpoint
\* "may wait on its received cancellation context".
FairSpec ==
  /\ Spec
  /\ WF_vars(LoopStep) /\ WF_vars(InitializeFails /\ owner) /\ WF_vars(AssignRejected /\ owner)
  /\ WF_vars(Fail) /\ WF_vars(Unassign)
  /\ \A l \in Lane : WF_vars(LaneStep(l))
  /\ WF_vars(StopCancel) /\ WF_vars(StopJoined)
-----------------------------------------------------------------------------
(* Properties.                                                             *)

AssignType ==
  /\ partitions \in [Partition -> 0..MaxRebalances] /\ revision \in 0..MaxRebalances
  /\ failed \in BOOLEAN /\ error \in {"none", "set", "taken"} /\ cancelled \subseteq Lane
  /\ native \in [Partition -> 0..MaxRebalances] /\ epoch \in 0..MaxRebalances
  /\ rebalances \in 0..MaxRebalances

LoopType ==
  /\ loop \in {"init", "recv", "poll", "restore", "fail", "unassign", "send", "drain", "join", "ended"}
  /\ list \subseteq Partition /\ msg \in Message \cup {NoMessage} /\ lanes \subseteq Lane
  /\ assignment_revision \in 0..MaxRebalances /\ fetched \in 0..MaxMessages

LaneType ==
  /\ queue \in [Lane -> Seq(Message)] /\ task \in [Lane -> {"none", "recv", "busy", "ended"}]
  /\ kept \subseteq Message /\ stored \subseteq [message : Message, epoch : 0..MaxRebalances]

StopType ==
  /\ owner \in BOOLEAN /\ parent \in BOOLEAN /\ stop \in BOOLEAN /\ reported \in BOOLEAN
  /\ stopper \in {"idle", "begun", "joining", "done"}

TypeOK == AssignType /\ LoopType /\ LaneType /\ StopType

\* "A retained old message must not store its offset into the new native
\* assignment": an acknowledgement reaches librdkafka only while the
\* partition still has the assignment that the message was received from.
StoredInOwnAssignment == \A s \in stored : s.epoch = s.message.native

\* The loop ends only for a reason: a lane that has ended, whose channel
\* makes the send fail, cannot end it in the middle of a live assignment.
LoopEndsForCause == loop \in {"drain", "join", "ended"} => stop \/ owner \/ failed

\* Every number in use is one that the callback has given out.
CountInv ==
  /\ epoch <= revision /\ revision <= rebalances
  /\ loop = "restore" => revision < rebalances
  /\ loop = "unassign" => failed
  /\ \A p \in Partition : partitions[p] <= revision

\* The message m, if its partition's entry still stands for it, is of the
\* assignment librdkafka has; no later entry gets its generation.
Owned(m) ==
  /\ m.gen <= revision
  /\ ~failed /\ partitions[m.p] = m.gen /\ <<m.p, m.gen>> \notin cancelled
       => native[m.p] = m.native

OwnInv ==
  /\ \A m \in kept : Owned(m)
  /\ \A l \in Lane : \A i \in 1..Len(queue[l]) : Owned(queue[l][i])
  /\ loop = "send" => Owned(msg)

\* A lane the loop can send to ends only when its context is cancelled, and
\* while the loop sends no rebalance cancels it.
LaneInv ==
  /\ \A l \in lanes : task[l] = "ended" => ~Live(l[1], l[2])
  /\ loop = "send" => msg \in Message /\ MsgLane \in lanes /\ MsgLane \notin cancelled

\* The inductive invariant.
Inv == TypeOK /\ CountInv /\ OwnInv /\ LaneInv /\ StoredInOwnAssignment /\ LoopEndsForCause

\* "cancelling this wait must not detach an accepted handler or make a
\* subsequent stop report success": no request runs once stop has succeeded.
StoppedIsQuiet == stopper = "done" => \A l \in Lane : task[l] # "busy"

\* Every stop that is not given up ends, whatever the loop and the lanes are
\* doing, also with a full lane.
StopEnds == []<>(stopper \in {"idle", "done"})

\* A failed rebalance is reported to the handler unless the endpoint is
\* cancelled or stopped from outside.
FailureReported == failed ~> (reported \/ parent \/ stop)

\* The two together: neither a full lane nor a failure in the middle of a
\* rebalance leaves the endpoint hanging.
EndsAreSeen == StopEnds /\ FailureReported
=============================================================================
