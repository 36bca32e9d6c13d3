---------------------------- MODULE KafkaProofs -----------------------------
(***************************************************************************)
(* Theorems about KafkaConsumer, for every set of partitions, both         *)
(* rebalance protocols and every capacity and bound; and about the stop of *)
(* the Kafka and the HTTP source, for all their endpoints and requests.    *)
(***************************************************************************)
EXTENDS KafkaConsumer, RuntimeSources, WellFoundedInduction, TLAPS

-----------------------------------------------------------------------------
(* The rebalance callback, and the steps that leave assignments and        *)
(* messages alone.                                                         *)

LEMMA InitInv == Init => Inv
<1> SUFFICES ASSUME Init PROVE Inv BY Zenon
<1>1. AssignType
  <2>1. 0 \in 0..MaxRebalances
    BY KafkaAssumption
  <2>2. partitions \in [Partition -> 0..MaxRebalances] /\ native \in [Partition -> 0..MaxRebalances]
    BY <2>1, Zenon DEF Init
  <2>3. /\ revision \in 0..MaxRebalances /\ epoch \in 0..MaxRebalances /\ rebalances \in 0..MaxRebalances
        /\ failed \in BOOLEAN /\ error \in {"none", "set", "taken"}
    BY <2>1, Zenon DEF Init
  <2>4. cancelled \subseteq Lane
    BY Zenon DEF Init
  <2> QED BY <2>2, <2>3, <2>4, Zenon DEF AssignType
<1>2. LoopType
  BY KafkaAssumption DEF Init, LoopType
<1>3. LaneType /\ StopType
  <2>1. <<>> \in Seq(Message)
    OBVIOUS
  <2>2. queue \in [Lane -> Seq(Message)] /\ task \in [Lane -> {"none", "recv", "busy", "ended"}]
    BY <2>1, Zenon DEF Init
  <2>3. kept \subseteq Message /\ stored \subseteq [message : Message, epoch : 0..MaxRebalances]
    BY Zenon DEF Init
  <2>4. StopType
    BY Zenon DEF Init, StopType
  <2> QED BY <2>2, <2>3, <2>4, Zenon DEF LaneType
<1>4. CountInv
  BY KafkaAssumption DEF Init, CountInv
<1>5. OwnInv /\ LaneInv
  BY DEF Init, OwnInv, LaneInv
<1>6. StoredInOwnAssignment /\ LoopEndsForCause
  BY Zenon DEF Init, StoredInOwnAssignment, LoopEndsForCause
<1> QED BY <1>1, <1>2, <1>3, <1>4, <1>5, <1>6, Zenon DEF Inv, TypeOK

\* What a step of the rebalance callback may do to the entries: remove them,
\* give them a generation never used before, or declare the consumer failed.
Disowns ==
  /\ revision' \in 0..MaxRebalances /\ revision <= revision'
  /\ cancelled \subseteq cancelled' /\ (failed => failed')
  /\ \A p \in Partition :
       \/ partitions'[p] = partitions[p] /\ native'[p] = native[p]
       \/ partitions'[p] = 0 \/ partitions'[p] > revision \/ failed'
  /\ loop' \notin {"send", "drain", "join", "ended"}
  /\ UNCHANGED <<msg, lanes, laneVars, handlerVars, stopVars>>

\* Such a step keeps what does not depend on the entries themselves.
LEMMA DisownsKeeps ==
  ASSUME Inv, Disowns
  PROVE  OwnInv' /\ LaneInv' /\ LaneType' /\ StopType' /\ StoredInOwnAssignment' /\ LoopEndsForCause'
<1>0. /\ msg' = msg /\ lanes' = lanes /\ queue' = queue /\ task' = task
      /\ kept' = kept /\ stored' = stored /\ owner' = owner /\ parent' = parent
      /\ stop' = stop /\ stopper' = stopper /\ reported' = reported
  BY Zenon DEF Disowns, laneVars, handlerVars, stopVars
<1>1. ASSUME NEW m \in Message, Owned(m) PROVE Owned(m)'
  <2>1. m.p \in Partition /\ m.gen \in 1..MaxRebalances
    BY Zenon DEF Message, Generation
  <2>2. m.gen <= revision'
    BY <1>1, <2>1, KafkaAssumption DEF Owned, Disowns, Inv, TypeOK, AssignType
  <2>3. ASSUME ~failed', partitions'[m.p] = m.gen, <<m.p, m.gen>> \notin cancelled'
        PROVE  native'[m.p] = m.native
    <3>1. ~failed /\ <<m.p, m.gen>> \notin cancelled
      BY <2>3, Zenon DEF Disowns
    <3>2. partitions'[m.p] = partitions[m.p] /\ native'[m.p] = native[m.p]
      BY <1>1, <2>1, <2>3, KafkaAssumption DEF Owned, Disowns, Inv, TypeOK, AssignType
    <3> QED BY <1>1, <2>3, <3>1, <3>2, Zenon DEF Owned
  <2> QED BY <2>2, <2>3, Zenon DEF Owned
<1>2. OwnInv'
  <2>1. \A m \in kept : Owned(m)'
    BY <1>1, Zenon DEF Inv, OwnInv, TypeOK, LaneType
  <2>2. ASSUME NEW l \in Lane, NEW i \in 1..Len(queue[l]), NEW m, m = queue[l][i] PROVE Owned(m)'
    <3>1. m \in Message
      BY <2>2 DEF Inv, TypeOK, LaneType
    <3>2. Owned(m)
      BY <2>2, Zenon DEF Inv, OwnInv
    <3> QED BY <1>1, <3>1, <3>2, Zenon
  <2>3. loop' # "send"
    BY Zenon DEF Disowns
  <2> QED BY <1>0, <2>1, <2>2, <2>3, Zenon DEF OwnInv
<1>3. LaneInv'
  BY <1>0, Zenon DEF Disowns, Inv, LaneInv, Live
<1>4. LaneType' /\ StopType'
  BY <1>0, Zenon DEF Inv, TypeOK, LaneType, StopType
<1>5. StoredInOwnAssignment'
  BY <1>0, Zenon DEF Inv, StoredInOwnAssignment
<1>6. LoopEndsForCause'
  BY Zenon DEF Disowns, LoopEndsForCause
<1> QED BY <1>2, <1>3, <1>4, <1>5, <1>6, Zenon

\* The contexts of entries are contexts.
LEMMA DroppedType ==
  ASSUME Inv, NEW ps \in SUBSET Partition
  PROVE  Dropped(ps) \subseteq Lane
BY KafkaAssumption DEF Dropped, Lane, Generation, Inv, TypeOK, AssignType

LEMMA TouchedType == ASSUME Inv PROVE Touched \subseteq Partition
BY Zenon DEF Touched, Inv, TypeOK, LoopType

LEMMA AssignBeginInv ==
  ASSUME Inv, NEW ps \in SUBSET Partition, AssignBegin(ps) PROVE Inv'
<1>1. Disowns
  BY DEF AssignBegin, Disowns, assignVars, nativeVars, Inv, TypeOK, AssignType
<1>2. AssignType' /\ LoopType' /\ CountInv'
  BY KafkaAssumption DEF AssignBegin, Rebalance, assignVars, nativeVars, Inv, TypeOK, AssignType, LoopType, CountInv
<1> QED BY <1>1, <1>2, DisownsKeeps, Zenon DEF Inv, TypeOK

LEMMA AssignRejectedInv == ASSUME Inv, AssignRejected PROVE Inv'
<1>1. Disowns
  BY DEF AssignRejected, Disowns, assignVars, nativeVars, loopVars, Inv, TypeOK, AssignType
<1>2. AssignType' /\ LoopType' /\ CountInv'
  BY KafkaAssumption, Zenon DEF AssignRejected, assignVars, nativeVars, loopVars, Inv, TypeOK, AssignType, LoopType, CountInv
<1> QED BY <1>1, <1>2, DisownsKeeps, Zenon DEF Inv, TypeOK

LEMMA AssignFailsInv == ASSUME Inv, AssignFails PROVE Inv'
<1>0. PICK lost \in SUBSET Touched :
        native' = [p \in Partition |-> IF p \in lost THEN 0 ELSE native[p]]
  BY Zenon DEF AssignFails, NativeFails
<1>1. partitions' = [p \in Partition |-> IF p \in Touched THEN 0 ELSE partitions[p]]
  BY Zenon DEF AssignFails
<1>2. Disowns
  <2>1. revision' = revision /\ failed' = failed /\ cancelled \subseteq cancelled' /\ loop' = "fail"
    BY Zenon DEF AssignFails
  <2>2. \A p \in Partition : \/ partitions'[p] = partitions[p] /\ native'[p] = native[p]
                             \/ partitions'[p] = 0
    BY <1>0, <1>1, Zenon
  <2>3. UNCHANGED <<msg, lanes, laneVars, handlerVars, stopVars>>
    BY Zenon DEF AssignFails, loopVars
  <2> QED BY <2>1, <2>2, <2>3 DEF Disowns, Inv, TypeOK, AssignType
<1>3. AssignType'
  <2>1. partitions' \in [Partition -> 0..MaxRebalances]
    BY <1>1, KafkaAssumption DEF Inv, TypeOK, AssignType
  <2>2. native' \in [Partition -> 0..MaxRebalances]
    BY <1>0, KafkaAssumption DEF Inv, TypeOK, AssignType
  <2>3. cancelled' \subseteq Lane
    BY DroppedType, TouchedType, Zenon DEF AssignFails, Inv, TypeOK, AssignType
  <2> QED BY <2>1, <2>2, <2>3, Zenon DEF AssignFails, loopVars, Inv, TypeOK, AssignType
<1>4. LoopType'
  BY Zenon DEF AssignFails, loopVars, Inv, TypeOK, LoopType
<1>5. CountInv'
  BY <1>1, KafkaAssumption DEF AssignFails, loopVars, Inv, TypeOK, AssignType, CountInv
<1> QED BY <1>2, <1>3, <1>4, <1>5, DisownsKeeps, Zenon DEF Inv, TypeOK

LEMMA AssignApplyInv == ASSUME Inv, AssignApply PROVE Inv'
<1>0. /\ native' = [p \in Partition |-> IF p \in list THEN epoch + 1
                                        ELSE IF Cooperative THEN native[p] ELSE 0]
      /\ partitions' = [p \in Partition |-> IF p \in list THEN revision + 1
                                            ELSE IF p \in Touched THEN 0 ELSE partitions[p]]
      /\ revision' = revision + 1 /\ epoch' = epoch + 1
      /\ failed' = failed /\ error' = error /\ loop' = "poll"
      /\ cancelled' = cancelled \cup Dropped(Touched)
      /\ rebalances' = rebalances /\ list' = list /\ msg' = msg /\ lanes' = lanes
      /\ assignment_revision' = assignment_revision /\ fetched' = fetched
      /\ UNCHANGED <<laneVars, handlerVars, stopVars>>
  BY Zenon DEF AssignApply, loopVars
<1>1. /\ revision \in 0..MaxRebalances /\ epoch \in 0..MaxRebalances /\ epoch <= revision
      /\ revision < rebalances /\ rebalances \in 0..MaxRebalances
  BY Zenon DEF AssignApply, Inv, TypeOK, AssignType, CountInv
<1>2. Disowns
  <2>1. revision' \in 0..MaxRebalances /\ revision <= revision'
    BY <1>0, <1>1, KafkaAssumption
  <2>2. \A p \in Partition : \/ partitions'[p] = partitions[p] /\ native'[p] = native[p]
                             \/ partitions'[p] = 0 \/ partitions'[p] > revision
    BY <1>0, <1>1 DEF Touched
  <2> QED BY <1>0, <2>1, <2>2, Zenon DEF Disowns
<1>3. AssignType'
  <2>1. partitions' \in [Partition -> 0..MaxRebalances]
    BY <1>0, <1>1, KafkaAssumption DEF Inv, TypeOK, AssignType
  <2>2. native' \in [Partition -> 0..MaxRebalances]
    BY <1>0, <1>1, KafkaAssumption DEF Inv, TypeOK, AssignType
  <2>3. cancelled' \subseteq Lane
    BY <1>0, DroppedType, TouchedType, Zenon DEF Inv, TypeOK, AssignType
  <2> QED BY <1>0, <1>1, <2>1, <2>2, <2>3, KafkaAssumption DEF Inv, TypeOK, AssignType
<1>4. LoopType'
  BY <1>0, Zenon DEF Inv, TypeOK, LoopType
<1>5. CountInv'
  BY <1>0, <1>1, KafkaAssumption DEF Inv, TypeOK, AssignType, CountInv
<1> QED BY <1>2, <1>3, <1>4, <1>5, DisownsKeeps, Zenon DEF Inv, TypeOK

LEMMA RevokeInv == ASSUME Inv, NEW ps \in SUBSET Partition, Revoke(ps) PROVE Inv'
<1> DEFINE gone == IF Cooperative THEN ps ELSE Partition
<1>0. /\ partitions' = [p \in Partition |-> IF p \in gone THEN 0 ELSE partitions[p]]
      /\ cancelled' = cancelled \cup Dropped(gone)
      /\ failed' = failed /\ error' = error /\ epoch' = epoch
      /\ loop = "poll" /\ rebalances < MaxRebalances /\ rebalances' = rebalances + 1 /\ list' = ps
      /\ assignment_revision' = assignment_revision /\ msg' = msg /\ lanes' = lanes
      /\ fetched' = fetched /\ UNCHANGED <<laneVars, handlerVars, stopVars>>
  BY Zenon DEF Revoke, Rebalance
<1>1. \/ revision' = revision + 1 /\ loop' = "poll"
      \/ revision' = revision /\ loop' = "fail"
  BY Zenon DEF Revoke, Rebalance
<1>2. PICK lost \in SUBSET gone :
        native' = [p \in Partition |-> IF p \in lost THEN 0 ELSE native[p]]
  BY Zenon DEF Revoke, NativeFails
<1>3. gone \subseteq Partition
  BY Zenon
<1>4. /\ revision \in 0..MaxRebalances /\ epoch \in 0..MaxRebalances /\ epoch <= revision
      /\ revision <= rebalances /\ rebalances \in 0..MaxRebalances
  BY Zenon DEF Inv, TypeOK, AssignType, CountInv
<1> HIDE DEF gone
<1>5. Disowns
  <2>1. revision' \in 0..MaxRebalances /\ revision <= revision'
    BY <1>0, <1>1, <1>4, KafkaAssumption
  <2>2. \A p \in Partition : \/ partitions'[p] = partitions[p] /\ native'[p] = native[p]
                             \/ partitions'[p] = 0
    BY <1>0, <1>2, Zenon
  <2> QED BY <1>0, <1>1, <2>1, <2>2, Zenon DEF Disowns
<1>6. AssignType'
  <2>1. partitions' \in [Partition -> 0..MaxRebalances]
    BY <1>0, KafkaAssumption DEF Inv, TypeOK, AssignType
  <2>2. native' \in [Partition -> 0..MaxRebalances]
    BY <1>2, KafkaAssumption DEF Inv, TypeOK, AssignType
  <2>3. cancelled' \subseteq Lane
    BY <1>0, <1>3, DroppedType, Zenon DEF Inv, TypeOK, AssignType
  <2> QED BY <1>0, <1>1, <1>4, <2>1, <2>2, <2>3, KafkaAssumption DEF Inv, TypeOK, AssignType
<1>7. LoopType'
  BY <1>0, <1>1, Zenon DEF Inv, TypeOK, LoopType
<1>8. CountInv'
  BY <1>0, <1>1, <1>4, KafkaAssumption DEF Inv, TypeOK, AssignType, CountInv
<1> QED BY <1>5, <1>6, <1>7, <1>8, DisownsKeeps, Zenon DEF Inv, TypeOK

LEMMA FailingInv == ASSUME Inv, RebalanceError \/ Fail \/ Unassign PROVE Inv'
<1>1. CASE RebalanceError
  <2>1. Disowns
    BY <1>1 DEF RebalanceError, Disowns, assignVars, nativeVars, Inv, TypeOK, AssignType
  <2>2. AssignType' /\ LoopType' /\ CountInv'
    BY <1>1, KafkaAssumption DEF RebalanceError, Rebalance, assignVars, nativeVars, Inv, TypeOK, AssignType, LoopType, CountInv
  <2> QED BY <2>1, <2>2, DisownsKeeps, Zenon DEF Inv, TypeOK
<1>2. CASE Fail
  <2>1. Disowns
    BY <1>2 DEF Fail, Disowns, nativeVars, loopVars, Inv, TypeOK, AssignType
  <2>2. AssignType'
    BY <1>2, DroppedType, Zenon DEF Fail, nativeVars, loopVars, Inv, TypeOK, AssignType
  <2>3. LoopType' /\ CountInv'
    BY <1>2, Zenon DEF Fail, nativeVars, loopVars, Inv, TypeOK, LoopType, CountInv
  <2> QED BY <2>1, <2>2, <2>3, DisownsKeeps, Zenon DEF Inv, TypeOK
<1>3. CASE Unassign
  <2>0. failed
    BY <1>3, Zenon DEF Unassign, Inv, CountInv
  <2>1. Disowns
    BY <1>3, <2>0 DEF Unassign, Disowns, assignVars, loopVars, Inv, TypeOK, AssignType
  <2>2. AssignType'
    BY <1>3, KafkaAssumption DEF Unassign, assignVars, loopVars, Inv, TypeOK, AssignType
  <2>3. LoopType' /\ CountInv'
    BY <1>3, Zenon DEF Unassign, assignVars, loopVars, Inv, TypeOK, LoopType, CountInv
  <2> QED BY <2>1, <2>2, <2>3, DisownsKeeps, Zenon DEF Inv, TypeOK
<1> QED BY <1>1, <1>2, <1>3, Zenon

\* A step that leaves the entries and the messages alone.
Quiet ==
  /\ UNCHANGED <<partitions, revision, failed, cancelled, nativeVars, loopVars, laneVars, handlerVars>>
  /\ error' \in {"none", "set", "taken"}
  /\ loop' = loop \/ loop' \in {"recv", "poll", "drain", "join", "ended"}
  /\ owner => owner'

LEMMA QuietInv ==
  ASSUME Inv, Quiet, StopType', LoopEndsForCause' PROVE Inv'
<1>0. /\ partitions' = partitions /\ revision' = revision /\ failed' = failed /\ cancelled' = cancelled
      /\ native' = native /\ epoch' = epoch /\ rebalances' = rebalances /\ list' = list
      /\ msg' = msg /\ lanes' = lanes /\ assignment_revision' = assignment_revision
      /\ fetched' = fetched /\ queue' = queue /\ task' = task /\ kept' = kept /\ stored' = stored
  BY Zenon DEF Quiet, nativeVars, loopVars, laneVars, handlerVars
<1>1. AssignType'
  BY <1>0, Zenon DEF Quiet, Inv, TypeOK, AssignType
<1>2. LoopType' /\ LaneType'
  BY <1>0, Zenon DEF Quiet, Inv, TypeOK, LoopType, LaneType
<1>3. CountInv'
  BY <1>0 DEF Quiet, Inv, CountInv
<1>4. \A m : Owned(m)' <=> Owned(m)
  BY <1>0, Zenon DEF Owned
<1>5. OwnInv'
  BY <1>0, <1>4, Zenon DEF Quiet, Inv, OwnInv
<1>6. LaneInv'
  BY <1>0, Zenon DEF Quiet, Inv, LaneInv, Live, MsgLane
<1>7. StoredInOwnAssignment'
  BY <1>0, Zenon DEF Inv, StoredInOwnAssignment
<1> QED BY <1>1, <1>2, <1>3, <1>5, <1>6, <1>7, Zenon DEF Inv, TypeOK

LEMMA StopStepInv == ASSUME Inv, StopStep PROVE Inv'
<1>1. Quiet
  BY DEF StopStep, ParentCancelled, StopBegin, StopCancel, StopJoined, StopGivesUp, Quiet,
         assignVars, Inv, TypeOK, AssignType
<1>2. StopType'
  BY Zenon DEF StopStep, ParentCancelled, StopBegin, StopCancel, StopJoined, StopGivesUp, Inv, TypeOK, StopType
<1>3. LoopEndsForCause'
  BY Zenon DEF StopStep, ParentCancelled, StopBegin, StopCancel, StopJoined, StopGivesUp,
         assignVars, Inv, LoopEndsForCause
<1> QED BY <1>1, <1>2, <1>3, QuietInv, Zenon

LEMMA PollInv ==
  ASSUME Inv, InitializeOk \/ PollRecv \/ RecvPending \/ LoopStops \/ JoinLanes PROVE Inv'
<1>1. Quiet
  BY DEF InitializeOk, PollRecv, RecvPending, LoopStops, JoinLanes, Quiet, assignVars, stopVars,
         Inv, TypeOK, AssignType
<1>2. StopType'
  BY Zenon DEF InitializeOk, PollRecv, RecvPending, LoopStops, JoinLanes, stopVars, Inv, TypeOK, StopType
<1>3. LoopEndsForCause'
  BY Zenon DEF InitializeOk, PollRecv, RecvPending, LoopStops, JoinLanes, assignVars, stopVars,
         Inv, LoopEndsForCause
<1> QED BY <1>1, <1>2, <1>3, QuietInv, Zenon

LEMMA CancelInv == ASSUME Inv, InitializeFails \/ LoopFailed \/ RecvError PROVE Inv'
<1>1. Quiet
  BY DEF InitializeFails, LoopFailed, RecvError, Quiet, assignVars, Inv, TypeOK, AssignType
<1>2. StopType'
  BY Zenon DEF InitializeFails, LoopFailed, RecvError, Inv, TypeOK, StopType
<1>3. LoopEndsForCause'
  BY Zenon DEF InitializeFails, LoopFailed, RecvError, LoopEndsForCause
<1> QED BY <1>1, <1>2, <1>3, QuietInv, Zenon

LEMMA SendEndsInv == ASSUME Inv, SendEnds PROVE Inv'
<1>1. Quiet
  BY Zenon DEF SendEnds, Quiet, assignVars, stopVars, Inv, TypeOK, AssignType
<1>2. StopType'
  BY Zenon DEF SendEnds, stopVars, Inv, TypeOK, StopType
<1>3. task[MsgLane] = "ended" => owner
  BY Zenon DEF SendEnds, Inv, LaneInv, Live, MsgLane
<1>4. LoopEndsForCause'
  BY <1>3, Zenon DEF SendEnds, stopVars, LoopEndsForCause
<1> QED BY <1>1, <1>2, <1>4, QuietInv, Zenon
-----------------------------------------------------------------------------
(* The loop, the lanes and the handlers.                                   *)

\* What a step of the loop, a lane or a handler does to the messages.
LEMMA SameOwned ==
  ASSUME UNCHANGED <<assignVars, nativeVars>> PROVE \A m : Owned(m)' <=> Owned(m)
BY Zenon DEF Owned, assignVars, nativeVars

LEMMA SameAssign ==
  ASSUME Inv, UNCHANGED <<assignVars, nativeVars, rebalances>>,
         loop' = loop \/ loop' \notin {"restore", "unassign"}
  PROVE  AssignType' /\ CountInv'
BY Zenon DEF Inv, TypeOK, AssignType, CountInv, assignVars, nativeVars

LEMMA RecvMessageInv == ASSUME Inv, NEW p \in Partition, RecvMessage(p) PROVE Inv'
<1>0. /\ UNCHANGED <<assignVars, nativeVars>> /\ rebalances' = rebalances /\ list' = list
      /\ queue' = queue /\ kept' = kept /\ stored' = stored /\ owner' = owner /\ parent' = parent
      /\ stop' = stop /\ stopper' = stopper /\ reported' = reported
      /\ assignment_revision' = revision /\ fetched' = fetched + 1 /\ fetched < MaxMessages
      /\ cancelled' = cancelled
  BY Zenon DEF RecvMessage, handlerVars, stopVars, assignVars
<1>1. Retained \subseteq lanes
  BY Zenon DEF Retained
<1> DEFINE l == <<p, partitions[p]>>
           m == [p |-> p, gen |-> partitions[p], native |-> native[p]]
<1>2. CASE lanes' = Retained /\ loop' = "recv" /\ UNCHANGED <<msg, task>>
  <2>1. LoopType'
    BY <1>0, <1>1, <1>2, KafkaAssumption DEF Inv, TypeOK, LoopType, AssignType
  <2>2. LaneType' /\ StopType'
    BY <1>0, <1>2, Zenon DEF Inv, TypeOK, LaneType, StopType
  <2>3. OwnInv'
    BY <1>0, <1>2, SameOwned, Zenon DEF Inv, OwnInv
  <2>4. LaneInv'
    BY <1>0, <1>1, <1>2, Zenon DEF Inv, LaneInv, Live
  <2>5. StoredInOwnAssignment' /\ LoopEndsForCause'
    BY <1>0, <1>2, Zenon DEF Inv, StoredInOwnAssignment, LoopEndsForCause
  <2>6. AssignType' /\ CountInv'
    BY <1>0, <1>2, SameAssign, Zenon
  <2> QED BY <2>1, <2>2, <2>3, <2>4, <2>5, <2>6, Zenon DEF Inv, TypeOK
<1>3. CASE /\ partitions[p] # 0 /\ Live(p, partitions[p])
           /\ lanes' = Retained \cup {l} /\ msg' = m /\ loop' = "send"
           /\ task' = IF l \in Retained THEN task ELSE [task EXCEPT ![l] = "recv"]
  <2>0. l \in Lane /\ m \in Message
    <3>1. partitions[p] \in Generation /\ native[p] \in Generation
      BY <1>3, KafkaAssumption DEF RecvMessage, Generation, Inv, TypeOK, AssignType
    <3> QED BY <3>1, Zenon DEF Lane, Message
  <2>1. LoopType'
    BY <1>0, <1>1, <1>3, <2>0, KafkaAssumption DEF Inv, TypeOK, LoopType, AssignType
  <2>2. LaneType' /\ StopType'
    BY <1>0, <1>3, <2>0, Zenon DEF Inv, TypeOK, LaneType, StopType
  <2>3. Owned(m)
    BY Zenon DEF Owned, Inv, CountInv
  <2>4. OwnInv'
    <3> HIDE DEF m
    <3>1. Owned(msg)'
      BY <1>0, <1>3, <2>3, SameOwned, Zenon
    <3> QED BY <1>0, <3>1, SameOwned, Zenon DEF Inv, OwnInv
  <2>5. LaneInv'
    <3>1. ASSUME NEW k \in lanes', task'[k] = "ended" PROVE ~Live(k[1], k[2])
      <4> HIDE DEF l
      <4>1. task \in [Lane -> {"none", "recv", "busy", "ended"}] /\ lanes \subseteq Lane
        BY Zenon DEF Inv, TypeOK, LaneType, LoopType
      <4>2. k \in Retained
        BY <1>3, <2>0, <3>1, <4>1, Zenon
      <4>3. task'[k] = task[k]
        BY <1>1, <1>3, <2>0, <4>1, <4>2, Zenon
      <4> QED BY <1>1, <3>1, <4>2, <4>3, Zenon DEF Inv, LaneInv
    <3>2. msg' \in Message /\ MsgLane' = l
      BY <1>3, <2>0, Zenon DEF MsgLane
    <3> QED BY <1>0, <1>3, <3>1, <3>2, Zenon DEF LaneInv, Live
  <2>6. StoredInOwnAssignment' /\ LoopEndsForCause'
    BY <1>0, <1>3, Zenon DEF Inv, StoredInOwnAssignment, LoopEndsForCause
  <2>7. AssignType' /\ CountInv'
    BY <1>0, <1>3, SameAssign, Zenon
  <2> QED BY <2>1, <2>2, <2>4, <2>5, <2>6, <2>7, Zenon DEF Inv, TypeOK
<1> QED BY <1>2, <1>3, Zenon DEF RecvMessage

LEMMA SendInv == ASSUME Inv, Send PROVE Inv'
<1>0. /\ UNCHANGED <<assignVars, nativeVars>> /\ rebalances' = rebalances /\ list' = list
      /\ assignment_revision' = assignment_revision /\ msg' = msg /\ lanes' = lanes /\ fetched' = fetched
      /\ task' = task /\ kept' = kept /\ stored' = stored /\ owner' = owner /\ parent' = parent
      /\ stop' = stop /\ stopper' = stopper /\ reported' = reported /\ cancelled' = cancelled
      /\ loop = "send" /\ loop' = "recv" /\ queue' = [queue EXCEPT ![MsgLane] = Append(@, msg)]
  BY Zenon DEF Send, loopVars, handlerVars, stopVars, assignVars
<1>1. msg \in Message /\ MsgLane \in Lane /\ Owned(msg) /\ queue \in [Lane -> Seq(Message)]
  BY <1>0, Zenon DEF Inv, LaneInv, OwnInv, TypeOK, LoopType, LaneType
<1>2. LoopType'
  BY <1>0, Zenon DEF Inv, TypeOK, LoopType
<1>3. LaneType'
  <2> HIDE DEF MsgLane
  <2>1. queue' \in [Lane -> Seq(Message)]
    BY <1>0, <1>1
  <2> QED BY <1>0, <2>1, Zenon DEF Inv, TypeOK, LaneType
<1>4. StopType'
  BY <1>0, Zenon DEF Inv, TypeOK, StopType
<1>5. OwnInv'
  <2> HIDE DEF MsgLane
  <2>1. ASSUME NEW l \in Lane, NEW i \in 1..Len(queue'[l]), NEW m, m = queue'[l][i] PROVE Owned(m)
    <3>1. CASE l # MsgLane
      BY <1>0, <1>1, <2>1, <3>1, Zenon DEF Inv, OwnInv
    <3>2. CASE l = MsgLane /\ i # Len(queue[l]) + 1
      BY <1>0, <1>1, <2>1, <3>2 DEF Inv, OwnInv
    <3>3. CASE l = MsgLane /\ i = Len(queue[l]) + 1
      BY <1>0, <1>1, <2>1, <3>3
    <3> QED BY <3>1, <3>2, <3>3, Zenon
  <2>2. \A l \in Lane : \A i \in 1..Len(queue'[l]) : Owned(queue[l][i])'
    BY <1>0, <2>1, SameOwned, Zenon
  <2>3. \A m \in kept' : Owned(m)'
    BY <1>0, SameOwned, Zenon DEF Inv, OwnInv
  <2> QED BY <1>0, <2>2, <2>3, Zenon DEF OwnInv
<1>6. LaneInv'
  BY <1>0, Zenon DEF Inv, LaneInv, Live
<1>7. StoredInOwnAssignment' /\ LoopEndsForCause'
  BY <1>0, Zenon DEF Inv, StoredInOwnAssignment, LoopEndsForCause
<1>8. AssignType' /\ CountInv'
  BY <1>0, SameAssign, Zenon
<1> QED BY <1>2, <1>3, <1>4, <1>5, <1>6, <1>7, <1>8, Zenon DEF Inv, TypeOK

LEMMA DropLanesInv == ASSUME Inv, DropLanes PROVE Inv'
<1>0. /\ UNCHANGED <<assignVars, nativeVars>> /\ rebalances' = rebalances /\ list' = list
      /\ assignment_revision' = assignment_revision /\ msg' = msg /\ lanes' = {} /\ fetched' = fetched
      /\ queue' = queue /\ task' = task /\ kept' = kept /\ stored' = stored
      /\ owner' = owner /\ parent' = parent /\ stop' = stop /\ stopper' = stopper /\ reported' = reported
      /\ failed' = failed /\ loop = "drain" /\ loop' = "join"
  BY Zenon DEF DropLanes, laneVars, handlerVars, stopVars, assignVars
<1>1. LoopType' /\ LaneType'
  BY <1>0, Zenon DEF Inv, TypeOK, LoopType, LaneType
<1>2. StopType'
  BY <1>0, Zenon DEF Inv, TypeOK, StopType
<1>3. OwnInv'
  BY <1>0, SameOwned, Zenon DEF Inv, OwnInv
<1>4. LaneInv'
  BY <1>0, Zenon DEF LaneInv
<1>5. StoredInOwnAssignment' /\ LoopEndsForCause'
  BY <1>0, Zenon DEF Inv, StoredInOwnAssignment, LoopEndsForCause
<1>6. AssignType' /\ CountInv'
  BY <1>0, SameAssign, Zenon
<1> QED BY <1>1, <1>2, <1>3, <1>4, <1>5, <1>6, Zenon DEF Inv, TypeOK

LEMMA LaneStepInv == ASSUME Inv, NEW l \in Lane, LaneStep(l) PROVE Inv'
<1>0. /\ UNCHANGED <<assignVars, nativeVars>> /\ rebalances' = rebalances /\ list' = list
      /\ assignment_revision' = assignment_revision /\ msg' = msg /\ lanes' = lanes /\ fetched' = fetched
      /\ stored' = stored /\ owner' = owner /\ parent' = parent /\ stop' = stop /\ stopper' = stopper
      /\ reported' = reported /\ cancelled' = cancelled /\ failed' = failed /\ loop' = loop
  BY Zenon DEF LaneStep, LaneTake, LaneDone, LaneEnds, loopVars, handlerVars, stopVars, assignVars
<1>1. queue \in [Lane -> Seq(Message)] /\ task \in [Lane -> {"none", "recv", "busy", "ended"}] /\ kept \subseteq Message
  BY Zenon DEF Inv, TypeOK, LaneType
<1>2. LaneType'
  <2>1. CASE LaneTake(l)
    <3>1. Head(queue[l]) \in Message /\ Tail(queue[l]) \in Seq(Message)
      BY <1>1, <2>1 DEF LaneTake
    <3> QED BY <1>0, <1>1, <2>1, <3>1, Zenon DEF LaneTake, Inv, TypeOK, LaneType
  <2>2. CASE LaneDone(l)
    BY <1>0, <1>1, <2>2, Zenon DEF LaneDone, handlerVars, Inv, TypeOK, LaneType
  <2>3. CASE LaneEnds(l)
    BY <1>0, <1>1, <2>3 DEF LaneEnds, handlerVars, Inv, TypeOK, LaneType
  <2> QED BY <2>1, <2>2, <2>3, Zenon DEF LaneStep
<1>3. LoopType'
  BY <1>0, Zenon DEF Inv, TypeOK, LoopType
<1>4. StopType'
  BY <1>0, Zenon DEF Inv, TypeOK, StopType
<1>5. /\ \A m \in kept' : Owned(m)
      /\ \A k \in Lane : \A i \in 1..Len(queue'[k]) : Owned(queue'[k][i])
  <2>1. CASE LaneTake(l)
    <3>1. Owned(Head(queue[l])) /\ kept' = kept \cup {Head(queue[l])}
      BY <1>1, <2>1 DEF LaneTake, Inv, OwnInv
    <3>2. queue' = [queue EXCEPT ![l] = Tail(@)] /\ queue[l] # <<>>
      BY <2>1, Zenon DEF LaneTake
    <3>3. ASSUME NEW k \in Lane, NEW i \in 1..Len(queue'[k]) PROVE Owned(queue'[k][i])
      <4>1. CASE k # l
        BY <1>1, <3>2, <3>3, <4>1, Zenon DEF Inv, OwnInv
      <4>2. CASE k = l
        <5>1. i + 1 \in 1..Len(queue[l]) /\ queue'[k][i] = queue[l][i + 1]
          BY <1>1, <3>2, <3>3, <4>2
        <5> QED BY <5>1, Zenon DEF Inv, OwnInv
      <4> QED BY <4>1, <4>2, Zenon
    <3> QED BY <3>1, <3>3, Zenon DEF Inv, OwnInv
  <2>2. CASE LaneDone(l)
    BY <2>2, Zenon DEF LaneDone, handlerVars, Inv, OwnInv
  <2>3. CASE LaneEnds(l)
    BY <1>1, <2>3 DEF LaneEnds, handlerVars, Inv, OwnInv
  <2> QED BY <2>1, <2>2, <2>3, Zenon DEF LaneStep
<1>6. OwnInv'
  <2>1. loop' = "send" => Owned(msg)'
    BY <1>0, SameOwned, Zenon DEF Inv, OwnInv
  <2>2. \A k \in Lane : \A i \in 1..Len(queue'[k]) : Owned(queue[k][i])'
    BY <1>0, <1>5, SameOwned, Zenon
  <2>3. \A m \in kept' : Owned(m)'
    BY <1>0, <1>5, SameOwned, Zenon
  <2> QED BY <2>1, <2>2, <2>3, Zenon DEF OwnInv
<1>7. LaneInv'
  <2>1. ASSUME NEW k \in lanes, task'[k] = "ended" PROVE ~Live(k[1], k[2])
    <3>1. k \in Lane
      BY Zenon DEF Inv, TypeOK, LoopType
    <3>2. CASE task[k] = "ended"
      BY <2>1, <3>2, Zenon DEF Inv, LaneInv
    <3>3. CASE task[k] # "ended"
      BY <1>1, <2>1, <3>1, <3>3, Zenon DEF LaneStep, LaneTake, LaneDone, LaneEnds
    <3> QED BY <3>2, <3>3, Zenon
  <2> QED BY <1>0, <2>1, Zenon DEF Inv, LaneInv, Live, MsgLane
<1>8. StoredInOwnAssignment' /\ LoopEndsForCause'
  BY <1>0, Zenon DEF Inv, StoredInOwnAssignment, LoopEndsForCause
<1>9. AssignType' /\ CountInv'
  BY <1>0, SameAssign, Zenon
<1> QED BY <1>2, <1>3, <1>4, <1>6, <1>7, <1>8, <1>9, Zenon DEF Inv, TypeOK

LEMMA AcknowledgeInv == ASSUME Inv, NEW m \in kept, Acknowledge(m) PROVE Inv'
<1>0. /\ UNCHANGED <<assignVars, nativeVars>> /\ rebalances' = rebalances /\ list' = list
      /\ assignment_revision' = assignment_revision /\ msg' = msg /\ lanes' = lanes /\ fetched' = fetched
      /\ queue' = queue /\ task' = task /\ kept' = kept /\ owner' = owner /\ parent' = parent
      /\ stop' = stop /\ stopper' = stopper /\ reported' = reported /\ cancelled' = cancelled
      /\ failed' = failed /\ loop' = loop
  BY Zenon DEF Acknowledge, loopVars, laneVars, stopVars, assignVars
<1>1. m \in Message /\ native \in [Partition -> 0..MaxRebalances] /\ Owned(m)
  BY Zenon DEF Inv, TypeOK, AssignType, LaneType, OwnInv
<1>2. \/ stored' = stored
      \/ /\ stored' = stored \cup {[message |-> m, epoch |-> native[m.p]]}
         /\ ~failed /\ Current(m.p, m.gen)
  BY Zenon DEF Acknowledge
<1>3. StoredInOwnAssignment'
  BY <1>1, <1>2 DEF Inv, StoredInOwnAssignment, Owned, Current, Live
<1>4. LaneType'
  <2>1. native[m.p] \in 0..MaxRebalances
    BY <1>1, Zenon DEF Message
  <2>2. stored' \subseteq [message : Message, epoch : 0..MaxRebalances]
    BY <1>1, <1>2, <2>1 DEF Inv, TypeOK, LaneType
  <2> QED BY <1>0, <2>2, Zenon DEF Inv, TypeOK, LaneType
<1>5. LoopType'
  BY <1>0, Zenon DEF Inv, TypeOK, LoopType
<1>6. StopType'
  BY <1>0, Zenon DEF Inv, TypeOK, StopType
<1>7. OwnInv'
  BY <1>0, SameOwned, Zenon DEF Inv, OwnInv
<1>8. LaneInv' /\ LoopEndsForCause'
  BY <1>0, Zenon DEF Inv, LaneInv, Live, MsgLane, LoopEndsForCause
<1>9. AssignType' /\ CountInv'
  BY <1>0, SameAssign, Zenon
<1> QED BY <1>3, <1>4, <1>5, <1>6, <1>7, <1>8, <1>9, Zenon DEF Inv, TypeOK

LEMMA NextInv == ASSUME Inv, [Next]_vars PROVE Inv'
<1>1. CASE RebalanceStep
  BY <1>1, AssignBeginInv, AssignRejectedInv, AssignFailsInv, AssignApplyInv, RevokeInv, FailingInv, Zenon
  DEF RebalanceStep
<1>2. CASE Initialize
  BY <1>2, PollInv, CancelInv, Zenon DEF Initialize
<1>3. CASE LoopStep
  BY <1>3, PollInv, CancelInv, SendInv, SendEndsInv, DropLanesInv, RecvMessageInv, Zenon DEF LoopStep
<1>4. CASE StopStep
  BY <1>4, StopStepInv, Zenon
<1>5. CASE \E l \in Lane : LaneStep(l)
  BY <1>5, LaneStepInv, Zenon
<1>6. CASE \E m \in kept : Acknowledge(m)
  BY <1>6, AcknowledgeInv, Zenon
<1>7. CASE UNCHANGED vars
  <2>1. Quiet /\ UNCHANGED stopVars /\ loop' = loop
    <3>1. UNCHANGED <<assignVars, nativeVars, loop, loopVars, laneVars, handlerVars, stopVars>>
      BY <1>7, Zenon DEF vars
    <3>2. owner' = owner
      BY <3>1, Zenon DEF stopVars
    <3> QED BY <3>1, <3>2, Zenon DEF Quiet, assignVars, Inv, TypeOK, AssignType
  <2>2. StopType'
    BY <2>1, Zenon DEF stopVars, Inv, TypeOK, StopType
  <2>3. LoopEndsForCause'
    BY <2>1, Zenon DEF stopVars, Quiet, Inv, LoopEndsForCause
  <2> QED BY <2>1, <2>2, <2>3, QuietInv, Zenon
<1> QED BY <1>1, <1>2, <1>3, <1>4, <1>5, <1>6, <1>7, Zenon DEF Next

\* For any partitions, lane capacity and number of rebalances, every state the
\* endpoint of rdkafka.rs reaches satisfies the inductive invariant.
THEOREM KafkaInv == Spec => []Inv
<1> QED BY InitInv, NextInv, PTL DEF Spec

\* An acknowledgement that Assignments::acknowledge lets through goes to the
\* assignment that its message was received from.
THEOREM KafkaStoredInOwn == Spec => []StoredInOwnAssignment
<1>1. Inv => StoredInOwnAssignment
  BY Zenon DEF Inv
<1> QED BY <1>1, KafkaInv, PTL

\* The consumer loop leaves its select! only when it is stopped, cancelled or
\* its assignment has failed; a closed lane never ends it by itself.
THEOREM KafkaLoopEndsForCause == Spec => []LoopEndsForCause
<1>1. Inv => LoopEndsForCause
  BY Zenon DEF Inv
<1> QED BY <1>1, KafkaInv, PTL
-----------------------------------------------------------------------------
(* stop has waited for the handlers.                                       *)

\* Lanes exist only while the loop is between its start and its end, and only
\* the end of the loop lets stop succeed.
EndInv ==
  /\ loop = "init" => \A l \in Lane : task[l] = "none"
  /\ loop = "ended" => \A l \in Lane : task[l] \in {"none", "ended"}
  /\ stopper = "done" => loop = "ended"

\* A step that neither begins nor ends the loop and leaves the tasks alone.
LEMMA EndFrame ==
  ASSUME EndInv, UNCHANGED <<task, stopper>>, loop # "ended" \/ loop' = loop,
         loop' \in {"init", "ended"} => loop' = loop
  PROVE  EndInv'
BY Zenon DEF EndInv

LEMMA EndStep == ASSUME EndInv, [Next]_vars PROVE EndInv'
<1>1. CASE RebalanceStep
  <2>1. UNCHANGED <<task, stopper>> /\ loop \in {"poll", "restore", "fail", "unassign"}
        /\ loop' \in {"poll", "restore", "fail", "unassign"}
    BY <1>1, Zenon DEF RebalanceStep, AssignBegin, Revoke, AssignRejected, AssignFails, AssignApply,
       RebalanceError, Fail, Unassign, Rebalance, laneVars, stopVars
  <2> QED
    BY <2>1, EndFrame, Zenon
<1>2. CASE Initialize
  BY <1>2 DEF Initialize, InitializeOk, InitializeFails, laneVars, stopVars, EndInv
<1>3. CASE LoopStep
  <2>1. CASE \E p \in Partition : RecvMessage(p)
    <3>1. loop = "poll" /\ loop' \in {"recv", "send"} /\ UNCHANGED stopper
      BY <2>1, Zenon DEF RecvMessage, stopVars
    <3> QED
      BY <3>1, Zenon DEF EndInv
  <2>2. CASE JoinLanes
    BY <2>2, Zenon DEF JoinLanes, laneVars, stopVars, EndInv
  <2>3. CASE ~JoinLanes /\ ~(\E p \in Partition : RecvMessage(p))
    <3>1. UNCHANGED <<task, stopper>> /\ loop \notin {"init", "ended"} /\ loop' \notin {"init", "ended"}
      BY <1>3, <2>3, Zenon DEF LoopStep, PollRecv, RecvPending, LoopStops, LoopFailed, RecvError, Send, SendEnds,
         DropLanes, laneVars, stopVars
    <3> QED
      BY <3>1, EndFrame, Zenon
  <2> QED
    BY <2>1, <2>2, <2>3, Zenon
<1>4. CASE StopStep
  BY <1>4, Zenon DEF StopStep, ParentCancelled, StopBegin, StopCancel, StopJoined, StopGivesUp, laneVars, EndInv
<1>5. CASE \E l \in Lane : LaneStep(l)
  <2>1. PICK l \in Lane : LaneStep(l)
    BY <1>5, Zenon
  <2>2. task[l] \in {"recv", "busy"} /\ UNCHANGED <<loop, stopper>>
    BY <2>1, Zenon DEF LaneStep, LaneTake, LaneDone, LaneEnds, stopVars
  <2> QED
    BY <2>2, Zenon DEF EndInv
<1>6. CASE \E m \in kept : Acknowledge(m)
  BY <1>6, Zenon DEF Acknowledge, laneVars, stopVars, EndInv
<1>7. CASE UNCHANGED vars
  BY <1>7, Zenon DEF vars, laneVars, stopVars, EndInv
<1> QED
  BY <1>1, <1>2, <1>3, <1>4, <1>5, <1>6, <1>7, Zenon DEF Next

\* Once a stop of the endpoint has succeeded no handler runs and none begins,
\* whatever the stops before it that were given up.
THEOREM KafkaStoppedIsQuiet == Spec => []StoppedIsQuiet
<1>1. Init => EndInv
  BY Zenon DEF Init, EndInv
<1>2. EndInv => StoppedIsQuiet
  BY Zenon DEF EndInv, StoppedIsQuiet
<1> QED
  BY <1>1, <1>2, EndStep, PTL DEF Spec
-----------------------------------------------------------------------------
(* The Kafka source.                                                       *)

LEMMA LeastNat == ASSUME NEW T, T \subseteq Nat, T # {} PROVE \E x \in T : \A y \in T : x <= y
<1>1. IsWellFoundedOn(OpToRel(<, Nat), Nat)
  BY NatLessThanWellFounded, Zenon
<1>2. PICK x \in T : \A y \in T : ~(<<y, x>> \in OpToRel(<, Nat))
  BY <1>1, WFMin, Zenon
<1>3. ASSUME NEW y \in T PROVE x <= y
  <2>1. ~(<<y, x>> \in OpToRel(<, Nat))
    BY <1>2, Zenon
  <2>2. ~(y < x)
    BY <2>1, Zenon DEF OpToRel
  <2> QED
    BY <2>2
<1> QED
  BY <1>3, Zenon

In(e, s) == \E i \in 1 .. Len(s) : s[i] = e

LEMMA AppendIn ==
  ASSUME NEW s \in Seq(Endpoint), NEW h \in Endpoint
  PROVE  /\ Append(s, h) \in Seq(Endpoint)
         /\ \A x : In(x, Append(s, h)) <=> In(x, s) \/ x = h
<1>1. /\ Append(s, h) \in Seq(Endpoint) /\ Len(Append(s, h)) = Len(s) + 1
      /\ Append(s, h)[Len(s) + 1] = h /\ Len(s) \in Nat
  OBVIOUS
<1>2. \A i \in 1 .. Len(s) : Append(s, h)[i] = s[i]
  OBVIOUS
<1> QED
  BY <1>1, <1>2 DEF In

\* What retain leaves of a sequence is what is not e.
LEMMA RetainGives ==
  ASSUME NEW s \in Seq(Endpoint), NEW e
  PROVE  K!Retain(s, e) \in Seq(Endpoint) /\ \A x : In(x, K!Retain(s, e)) <=> In(x, s) /\ x # e
<1> DEFINE Step(f, i) == IF i = 0 THEN <<>> ELSE IF s[i] = e THEN f[i - 1] ELSE Append(f[i - 1], s[i])
           Def(f, n) == f = [i \in 0 .. n |-> Step(f, i)]
           Good(n, q) == /\ q \in Seq(Endpoint)
                         /\ \A x : In(x, q) <=> x # e /\ \E k \in 1 .. n : s[k] = x
           Bad == {n \in Nat : ~\E f : Def(f, n)}
           filter == CHOOSE f : Def(f, Len(s))
<1>1. K!Retain(s, e) = filter[Len(s)]
  BY Zenon DEF K!Retain
<1>2. Bad = {}
  <2>1. SUFFICES ASSUME Bad # {} PROVE FALSE
    BY Zenon
  <2>20. Bad \subseteq Nat
    BY Zenon
  <2>2. PICK n \in Bad : \A m \in Bad : n <= m
    <3> HIDE DEF Bad
    <3> QED
      BY <2>1, <2>20, LeastNat, Zenon
  <2>3. CASE n = 0
    <3>1. Def([i \in 0 .. 0 |-> <<>>], 0)
      OBVIOUS
    <3> QED
      BY <2>2, <2>3, <3>1, Zenon
  <2>4. CASE n # 0
    <3>1. n \in Nat /\ n - 1 \in Nat /\ n - 1 \notin Bad
      <4> HIDE DEF Bad
      <4> QED
        BY <2>20, <2>2, <2>4
    <3>2. PICK f : Def(f, n - 1)
      BY <3>1, Zenon
    <3> DEFINE g == [i \in 0 .. n |-> IF i < n THEN f[i] ELSE Step(f, i)]
    <3>3. ASSUME NEW i \in 0 .. n PROVE g[i] = Step(g, i)
      <4>1. CASE i < n
        <5>1. i \in 0 .. n - 1 /\ g[i] = f[i] /\ (i # 0 => g[i - 1] = f[i - 1])
          BY <3>1, <4>1
        <5>2. f[i] = Step(f, i)
          BY <3>2, <5>1, Zenon
        <5> HIDE DEF g
        <5> QED
          BY <5>1, <5>2, Zenon
      <4>2. CASE i = n
        <5>1. g[i] = Step(f, i) /\ g[i - 1] = f[i - 1]
          BY <2>4, <3>1, <4>2
        <5> HIDE DEF g
        <5> QED
          BY <5>1, Zenon
      <4> QED
        BY <4>1, <4>2, <3>1
    <3>4. Def(g, n)
      <4>1. g = [i \in 0 .. n |-> g[i]]
        BY Zenon
      <4> HIDE DEF g
      <4>2. [i \in 0 .. n |-> g[i]] = [i \in 0 .. n |-> Step(g, i)]
        BY <3>3, Zenon
      <4> QED
        BY <4>1, <4>2, Zenon
    <3> QED
      BY <2>2, <3>4, Zenon
  <2> QED
    BY <2>3, <2>4, Zenon
<1>3. Def(filter, Len(s))
  <2>1. Len(s) \in Nat
    OBVIOUS
  <2>2. \E f : Def(f, Len(s))
    BY <1>2, <2>1, Zenon
  <2> HIDE DEF Def
  <2> QED
    BY <2>2, Zenon
<1> HIDE DEF filter
<1> DEFINE Wrong == {n \in 0 .. Len(s) : ~Good(n, filter[n])}
<1>4. Wrong = {}
  <2>1. SUFFICES ASSUME Wrong # {} PROVE FALSE
    BY Zenon
  <2>20. Wrong \subseteq 0 .. Len(s) /\ Wrong \subseteq Nat
    <3> HIDE DEF Good
    <3> QED
      OBVIOUS
  <2>2. PICK n \in Wrong : \A m \in Wrong : n <= m
    <3> HIDE DEF Wrong
    <3> QED
      BY <2>1, <2>20, LeastNat, Zenon
  <2>30. n \in 0 .. Len(s) /\ filter[n] = Step(filter, n) /\ ~Good(n, filter[n])
    BY <1>3, <2>2, <2>20, Zenon
  <2>3. CASE n = 0
    <3>1. filter[n] = <<>>
      BY <2>30, <2>3, Zenon
    <3>2. Good(0, <<>>)
      BY DEF In
    <3> QED
      BY <2>3, <2>30, <3>1, <3>2, Zenon
  <2>4. CASE n # 0
    <3>1. n \in 1 .. Len(s) /\ n - 1 \in 0 .. Len(s) /\ n - 1 \notin Wrong
      <4> HIDE DEF Wrong
      <4> QED
        BY <2>20, <2>2, <2>4
    <3> DEFINE q == filter[n - 1]
    <3>2. Good(n - 1, q)
      BY <3>1, Zenon
    <3>3. s[n] \in Endpoint
      BY <3>1
    <3>30. ASSUME NEW x PROVE (\E k \in 1 .. n : s[k] = x) <=> (\E k \in 1 .. n - 1 : s[k] = x) \/ s[n] = x
      BY <3>1
    <3>4. CASE s[n] = e
      <4>1. filter[n] = q
        BY <2>4, <2>30, <3>4, Zenon
      <4> HIDE DEF q
      <4>2. Good(n, q)
        BY <3>2, <3>30, <3>4, Zenon
      <4> QED
        BY <2>30, <4>1, <4>2, Zenon
    <3>5. CASE s[n] # e
      <4>1. filter[n] = Append(q, s[n])
        BY <2>4, <2>30, <3>5, Zenon
      <4> HIDE DEF q
      <4>2. q \in Seq(Endpoint)
        BY <3>2, Zenon
      <4>3. /\ Append(q, s[n]) \in Seq(Endpoint)
            /\ \A x : In(x, Append(q, s[n])) <=> In(x, q) \/ x = s[n]
        BY <3>3, <4>2, AppendIn, Zenon
      <4>5. Good(n, Append(q, s[n]))
        BY <3>2, <3>30, <3>5, <4>3, Zenon
      <4> QED
        BY <2>30, <4>1, <4>5, Zenon
    <3> QED
      BY <3>4, <3>5, Zenon
  <2> QED
    BY <2>3, <2>4, Zenon
<1>5. Len(s) \in 0 .. Len(s)
  OBVIOUS
<1>6. Good(Len(s), filter[Len(s)])
  BY <1>4, <1>5, Zenon
<1> QED
  BY <1>1, <1>6, Zenon DEF In

Holding == {"topics", "start", "starting", "stop"}

SourceType ==
  /\ endpoints \in Seq(Endpoint) /\ active_endpoints \in Seq(Endpoint)
  /\ consumer \in [Endpoint -> {"none", "running", "ended", "panicked"}]
  /\ source \in 0 .. 3
  /\ source_call \in [K!Call -> {"idle", "again", "gate", "ok", "err", "dropped"} \cup Holding]
  /\ pending \in [K!Call -> Seq(Endpoint)] /\ stop_failed \in [K!Call -> BOOLEAN]

\* A call past the gate has the lock.
LockedInv == \A c \in K!Call : source_call[c] \in Holding => lifecycle = c

\* A task that has not been joined is of an endpoint that is owned.
OwnedTasks == \A e \in Endpoint : consumer[e] # "none" => In(e, active_endpoints)

\* What a start has recorded and what it has left are the endpoints; and it is the
\* only one to take the source out of state 1.
StartLoopInv ==
  LET l == source_call[Starter] s == pending[Starter] IN
  /\ l \in {"topics", "start", "starting"} => source = 1
  /\ l = "topics" => s = endpoints /\ active_endpoints = <<>>
  /\ l = "start" => active_endpoints \o s = endpoints
  /\ l = "starting" => /\ s # <<>> /\ active_endpoints \o Tail(s) = endpoints
                       /\ In(Head(s), active_endpoints)
  /\ l = "ok" => source # 0 /\ (source = 1 => active_endpoints = endpoints)

\* A stop that has not failed has every endpoint that is owned still to stop.
StopLoopInv ==
  \A c \in K!Call :
    /\ source_call[c] = "stop" =>
         source = 3 /\ (~stop_failed[c] => \A e \in Endpoint : In(e, active_endpoints) => In(e, pending[c]))
    /\ c \in SourceStop /\ source_call[c] = "ok" => source = 2

SourceInv ==
  /\ SourceType /\ LockedInv /\ OwnedTasks /\ StartLoopInv /\ StopLoopInv
  /\ source \in {0, 2} => active_endpoints = <<>>

-----------------------------------------------------------------------------
(* Sequences.                                                              *)

LEMMA ReverseIn ==
  ASSUME NEW s \in Seq(Endpoint)
  PROVE  K!Reversed(s) \in Seq(Endpoint) /\ \A e : In(e, s) => In(e, K!Reversed(s))
<1>1. K!Reversed(s) \in Seq(Endpoint) /\ Len(K!Reversed(s)) = Len(s)
  BY DEF K!Reversed
<1>2. ASSUME NEW e, NEW i \in 1 .. Len(s), s[i] = e PROVE \E k \in 1 .. Len(s) : K!Reversed(s)[k] = e
  <2>1. Len(s) - i + 1 \in 1 .. Len(s) /\ Len(s) - (Len(s) - i + 1) + 1 = i
    OBVIOUS
  <2>2. K!Reversed(s)[Len(s) - i + 1] = s[Len(s) - (Len(s) - i + 1) + 1]
    BY <2>1, Zenon DEF K!Reversed
  <2> QED
    BY <1>2, <2>1, <2>2, Zenon
<1> QED
  BY <1>1, <1>2, Zenon DEF In

LEMMA TailIn ==
  ASSUME NEW s \in Seq(Endpoint), s # <<>>
  PROVE  /\ Head(s) \in Endpoint /\ Tail(s) \in Seq(Endpoint)
         /\ \A e : In(e, s) => e = Head(s) \/ In(e, Tail(s))
<1>1. Head(s) \in Endpoint /\ Tail(s) \in Seq(Endpoint) /\ Len(Tail(s)) = Len(s) - 1 /\ Len(s) \in Nat
  OBVIOUS
<1>2. ASSUME NEW e, NEW i \in 1 .. Len(s), s[i] = e, e # Head(s)
      PROVE  i - 1 \in 1 .. Len(Tail(s)) /\ Tail(s)[i - 1] = e
  BY <1>1, <1>2
<1> QED
  BY <1>1, <1>2, Zenon DEF In

LEMMA ConcatStep ==
  ASSUME NEW s \in Seq(Endpoint), NEW t \in Seq(Endpoint), t # <<>>
  PROVE  Append(s, Head(t)) \o Tail(t) = s \o t
OBVIOUS

LEMMA ConcatEnds == ASSUME NEW s \in Seq(Endpoint) PROVE <<>> \o s = s /\ s \o <<>> = s
OBVIOUS

-----------------------------------------------------------------------------
(* The steps.                                                              *)

LEMMA Alone ==
  ASSUME SourceInv, NEW c \in K!Call, lifecycle = NoCall \/ lifecycle = c
  PROVE  \A d \in K!Call \ {c} : source_call[d] \notin Holding
BY LifecycleAssumption, Zenon DEF SourceInv, LockedInv

\* A step of a call while no other has the lock.
LEMMA SourceCallStep ==
  ASSUME SourceInv, SourceType', OwnedTasks', NEW c \in K!Call, NEW l,
         source_call' = [source_call EXCEPT ![c] = l],
         \A d \in K!Call \ {c} : source_call[d] \notin Holding,
         l \in Holding => lifecycle' = c,
         source' \in {0, 2} => active_endpoints' = <<>>,
         source = 2 => source' = 2,
         IF c = Starter THEN StartLoopInv' ELSE source' \in {2, 3},
         l = "stop" => source' = 3 /\
           (~stop_failed'[c] => \A e \in Endpoint : In(e, active_endpoints') => In(e, pending'[c])),
         c \in SourceStop /\ l = "ok" => source' = 2
  PROVE  SourceInv'
<1>1. source_call'[c] = l /\ \A d \in K!Call \ {c} : source_call'[d] = source_call[d]
  BY DEF SourceInv, SourceType
<1>2. LockedInv'
  BY <1>1, Zenon DEF LockedInv
<1>3. StartLoopInv'
  <2>1. CASE c = Starter
    BY <2>1, Zenon
  <2>2. CASE c # Starter
    <3>1. Starter \in K!Call \ {c}
      BY <2>2, Zenon DEF K!Call
    <3>2. source_call'[Starter] \notin Holding /\ source' \in {2, 3}
      BY <1>1, <2>2, <3>1, Zenon
    <3>3. source' # 0 /\ source' # 1
      BY <3>2
    <3> QED
      BY <3>2, <3>3, Zenon DEF StartLoopInv, Holding
  <2> QED
    BY <2>1, <2>2, Zenon
<1>4. StopLoopInv'
  <2> SUFFICES ASSUME NEW d \in K!Call
               PROVE  /\ source_call'[d] = "stop" => source' = 3 /\
                           (~stop_failed'[d] =>
                              \A e \in Endpoint : In(e, active_endpoints') => In(e, pending'[d]))
                      /\ d \in SourceStop /\ source_call'[d] = "ok" => source' = 2
    BY Zenon DEF StopLoopInv, In
  <2>1. CASE d = c
    BY <1>1, <2>1, Zenon
  <2>2. CASE d # c
    BY <1>1, <2>2, Zenon DEF Holding, SourceInv, StopLoopInv
  <2> QED
    BY <2>1, <2>2, Zenon
<1> QED
  BY <1>2, <1>3, <1>4, Zenon DEF SourceInv

\* A call comes to the gate, or leaves with what is shared as it was.
LEMMA SourceMove ==
  ASSUME SourceInv, NEW c \in K!Call, NEW l \in {"gate", "err", "dropped", "ok"},
         source_call' = [source_call EXCEPT ![c] = l],
         UNCHANGED <<endpoints, active_endpoints, consumer, source, pending, stop_failed>>,
         lifecycle' = lifecycle \/ lifecycle = c,
         l = "ok" => \/ c \in SourceStop /\ source = 2
                     \/ c = Starter /\ source_call[c] = "start" /\ pending[c] = <<>>
  PROVE  SourceInv'
<1>1. source_call'[c] = l /\ \A d \in K!Call \ {c} : source_call'[d] = source_call[d]
  BY Zenon DEF SourceInv, SourceType
<1>2. l \notin Holding
  BY Zenon DEF Holding
<1>3. SourceType'
  BY <1>1 DEF SourceInv, SourceType
<1>4. LockedInv'
  BY <1>1, <1>2, Zenon DEF SourceInv, LockedInv
<1>5. OwnedTasks'
  BY Zenon DEF SourceInv, OwnedTasks, In
<1>6. StartLoopInv'
  <2>1. CASE c = Starter
    <3>1. ASSUME l = "ok" PROVE source # 0 /\ (source = 1 => active_endpoints = endpoints)
      <4>1. source_call[c] = "start" /\ pending[c] = <<>>
        BY <2>1, <3>1, LifecycleAssumption, Zenon
      <4>2. source = 1 /\ active_endpoints \o <<>> = endpoints
        BY <2>1, <4>1, Zenon DEF SourceInv, StartLoopInv
      <4> QED
        BY <4>2, ConcatEnds DEF SourceInv, SourceType
    <3> QED
      BY <1>1, <1>2, <2>1, <3>1, Zenon DEF StartLoopInv, Holding
  <2>2. CASE c # Starter
    <3>1. Starter \in K!Call \ {c}
      BY <2>2, Zenon DEF K!Call
    <3> QED
      BY <1>1, <3>1, Zenon DEF SourceInv, StartLoopInv, In
  <2> QED
    BY <2>1, <2>2, Zenon
<1>7. StopLoopInv'
  <2> SUFFICES ASSUME NEW d \in K!Call
               PROVE  /\ source_call'[d] = "stop" => source' = 3 /\
                           (~stop_failed'[d] =>
                              \A e \in Endpoint : In(e, active_endpoints') => In(e, pending'[d]))
                      /\ d \in SourceStop /\ source_call'[d] = "ok" => source' = 2
    BY Zenon DEF StopLoopInv, In
  <2>1. CASE d = c
    BY <1>1, <1>2, <2>1, LifecycleAssumption, Zenon DEF Holding
  <2>2. CASE d # c
    BY <1>1, <2>2, Zenon DEF SourceInv, StopLoopInv
  <2> QED
    BY <2>1, <2>2, Zenon
<1> QED
  BY <1>3, <1>4, <1>5, <1>6, <1>7, Zenon DEF SourceInv

LEMMA SourceGates ==
  ASSUME SourceInv, NEW c \in K!Call,
         \/ K!Begin(c) \/ K!Drop(c) \/ (c = Starter /\ K!StartOk(c))
         \/ (c \in SourceStop /\ K!StopGate(c)) \/ (c = Starter /\ K!StartGate(c))
  PROVE  SourceInv'
<1> DEFINE Moves(l) ==
      /\ source_call' = [source_call EXCEPT ![c] = l]
      /\ UNCHANGED <<endpoints, active_endpoints, consumer, source, pending, stop_failed>>
      /\ lifecycle' = lifecycle \/ lifecycle = c
      /\ l = "ok" => \/ c \in SourceStop /\ source = 2
                     \/ c = Starter /\ source_call[c] = "start" /\ pending[c] = <<>>
<1>1. ASSUME \E l \in {"gate", "err", "dropped", "ok"} : Moves(l) PROVE SourceInv'
  BY <1>1, SourceMove, Zenon
<1>2. CASE K!Begin(c)
  <2>1. Moves("gate")
    BY <1>2, Zenon DEF K!Begin, K!To, K!ownVars, K!callVars
  <2> QED
    BY <1>1, <2>1, Zenon
<1>3. CASE K!Drop(c)
  <2>1. Moves("dropped")
    BY <1>3, Zenon DEF K!Drop, K!Leave, K!To, K!ownVars, K!callVars
  <2> QED
    BY <1>1, <2>1, Zenon
<1>4. CASE c = Starter /\ K!StartOk(c)
  <2>1. Moves("ok")
    BY <1>4, Zenon DEF K!StartOk, K!Leave, K!To, K!ownVars, K!callVars
  <2> QED
    BY <1>1, <2>1, Zenon
<1>5. CASE c \in SourceStop /\ K!StopGate(c)
  <2>1. CASE lifecycle # NoCall /\ called_off[c] /\ K!Leave(c, "err") /\ UNCHANGED <<source, pending>>
    <3>1. Moves("err")
      BY <1>5, <2>1, Zenon DEF K!StopGate, K!Leave, K!To, K!ownVars
    <3> QED
      BY <1>1, <3>1, Zenon
  <2>2. CASE lifecycle = NoCall /\ source = 2
    <3>1. Moves("ok")
      BY <1>5, <2>2, Zenon DEF K!StopGate, K!Leave, K!To, K!ownVars
    <3> QED
      BY <1>1, <3>1, Zenon
  <2>3. CASE lifecycle = NoCall /\ source # 2
    <3>1. /\ source_call' = [source_call EXCEPT ![c] = "stop"] /\ source' = 3 /\ lifecycle' = c
          /\ pending' = [pending EXCEPT ![c] = K!Reversed(active_endpoints)]
          /\ UNCHANGED <<endpoints, active_endpoints, consumer, stop_failed>>
      BY <1>5, <2>3, Zenon DEF K!StopGate, K!Leave, K!To, K!Todo, K!ownVars
    <3>2. /\ K!Reversed(active_endpoints) \in Seq(Endpoint)
          /\ \A e : In(e, active_endpoints) => In(e, K!Reversed(active_endpoints))
      BY ReverseIn, Zenon DEF SourceInv, SourceType
    <3>3. SourceType'
      BY <3>1, <3>2 DEF SourceInv, SourceType, Holding
    <3>4. pending'[c] = K!Reversed(active_endpoints)
      BY <3>1, Zenon DEF SourceInv, SourceType
    <3>5. OwnedTasks'
      BY <3>1, Zenon DEF SourceInv, OwnedTasks, In
    <3>6. \A d \in K!Call \ {c} : source_call[d] \notin Holding
      BY <2>3, Alone, Zenon
    <3>7. c # Starter /\ source' \notin {0, 2} /\ source' \in {2, 3}
      BY <1>5, <3>1, LifecycleAssumption
    <3>8. \A e \in Endpoint : In(e, active_endpoints') => In(e, pending'[c])
      BY <3>1, <3>2, <3>4, Zenon
    <3> HIDE DEF Moves
    <3> QED
      BY <2>3, <3>1, <3>3, <3>5, <3>6, <3>7, <3>8, SourceCallStep, Zenon
  <2> QED
    BY <1>5, <2>1, <2>2, <2>3, Zenon DEF K!StopGate
<1>6. CASE c = Starter /\ K!StartGate(c)
  <2>1. CASE ~(~called_off[c] /\ lifecycle = NoCall /\ source = 0)
    <3>1. Moves("err")
      BY <1>6, <2>1, Zenon DEF K!StartGate, K!Leave, K!To, K!ownVars
    <3> QED
      BY <1>1, <3>1, Zenon
  <2>2. CASE ~called_off[c] /\ lifecycle = NoCall /\ source = 0
    <3>1. /\ source_call' = [source_call EXCEPT ![c] = "topics"] /\ source' = 1 /\ lifecycle' = c
          /\ pending' = [pending EXCEPT ![c] = endpoints]
          /\ UNCHANGED <<endpoints, active_endpoints, consumer, stop_failed>>
      BY <1>6, <2>2, Zenon DEF K!StartGate, K!Leave, K!To, K!Todo, K!ownVars
    <3>2. SourceType'
      BY <3>1 DEF SourceInv, SourceType, Holding
    <3>3. pending'[c] = endpoints /\ source_call'[c] = "topics" /\ active_endpoints = <<>>
      BY <2>2, <3>1, Zenon DEF SourceInv, SourceType
    <3>4. OwnedTasks'
      BY <3>1, Zenon DEF SourceInv, OwnedTasks, In
    <3>5. \A d \in K!Call \ {c} : source_call[d] \notin Holding
      BY <2>2, Alone, Zenon
    <3>6. StartLoopInv'
      BY <1>6, <3>1, <3>3, Zenon DEF StartLoopInv
    <3>7. source' \notin {0, 2} /\ source # 2
      BY <2>2, <3>1
    <3> HIDE DEF Moves
    <3> QED
      BY <1>6, <3>1, <3>2, <3>4, <3>5, <3>6, <3>7, SourceCallStep, Zenon
  <2> QED
    BY <2>1, <2>2, Zenon
<1> QED
  BY <1>2, <1>3, <1>4, <1>5, <1>6, Zenon

LEMMA SourceStarts ==
  ASSUME SourceInv, NEW c \in K!Call, c = Starter,
         K!CreateTopics(c) \/ K!Record(c) \/ K!EndpointStart(c)
  PROVE  SourceInv'
<1>1. /\ source_call[c] \in {"topics", "start", "starting"} /\ source = 1
      /\ source_call \in [K!Call -> {"idle", "again", "gate", "ok", "err", "dropped"} \cup Holding]
      /\ active_endpoints \in Seq(Endpoint) /\ pending[c] \in Seq(Endpoint)
  <2>1. source_call[c] \in {"topics", "start", "starting"}
    BY Zenon DEF K!CreateTopics, K!Record, K!EndpointStart
  <2> QED
    BY <2>1, Zenon DEF SourceInv, SourceType, StartLoopInv
<1>2. lifecycle = c
  BY <1>1, Zenon DEF SourceInv, LockedInv, Holding
<1>3. \A d \in K!Call \ {c} : source_call[d] \notin Holding
  BY <1>2, Alone, Zenon
<1>4. ASSUME K!CreateTopics(c) PROVE SourceInv'
  <2>1. PICK l \in {"start", "err", "again"} :
          /\ source_call' = [source_call EXCEPT ![c] = l]
          /\ IF l = "start" THEN source' = source /\ lifecycle' = lifecycle ELSE source' = 0
          /\ UNCHANGED <<endpoints, active_endpoints, consumer, pending, stop_failed>>
    <3>1. CASE /\ ~called_off[c] /\ K!To(c, "start") /\ UNCHANGED <<source, lifecycle>>
      BY <1>4, <3>1, Zenon DEF K!CreateTopics, K!To, K!ownVars, K!callVars
    <3>2. CASE source' = 0 /\ K!Leave(c, IF called_off[c] THEN "err" ELSE "again")
      BY <1>4, <3>2, Zenon DEF K!CreateTopics, K!Leave, K!To, K!ownVars, K!callVars
    <3> QED
      BY <1>4, <3>1, <3>2, Zenon DEF K!CreateTopics
  <2>2. pending[c] = endpoints /\ active_endpoints = <<>>
    BY <1>4, Zenon DEF K!CreateTopics, SourceInv, StartLoopInv
  <2>3. SourceType'
    BY <1>1, <2>1 DEF SourceInv, SourceType, Holding
  <2>4. OwnedTasks'
    BY <2>1, Zenon DEF SourceInv, OwnedTasks, In
  <2>5. source_call'[c] = l
    BY <1>1, <2>1, Zenon
  <2>6. active_endpoints \o pending[c] = endpoints
    BY <1>1, <2>2, ConcatEnds, Zenon
  <2>7. StartLoopInv'
    BY <1>1, <2>1, <2>5, <2>6, Zenon DEF StartLoopInv
  <2>8. l # "stop" /\ l # "ok" /\ (l \in Holding => l = "start") /\ source # 2
    BY <1>1 DEF Holding
  <2> QED
    BY <1>2, <1>3, <2>1, <2>2, <2>3, <2>4, <2>7, <2>8, SourceCallStep, Zenon
<1>5. ASSUME K!Record(c) PROVE SourceInv'
  <2> DEFINE s == pending[c]
             h == Head(s)
  <2>1. /\ source_call[c] = "start" /\ s # <<>>
        /\ active_endpoints' = Append(active_endpoints, h)
        /\ source_call' = [source_call EXCEPT ![c] = "starting"]
        /\ UNCHANGED <<endpoints, source, lifecycle, consumer, pending, stop_failed>>
    BY <1>5, Zenon DEF K!Record, K!To, K!callVars
  <2>2. h \in Endpoint
    BY <1>1, <2>1, TailIn, Zenon
  <2>3. active_endpoints' \in Seq(Endpoint) /\ In(h, active_endpoints')
        /\ \A e : In(e, active_endpoints) => In(e, active_endpoints')
    BY <1>1, <2>1, <2>2, AppendIn, Zenon
  <2>4. active_endpoints' \o Tail(s) = endpoints
    <3>1. active_endpoints \o s = endpoints
      BY <1>5, <2>1, Zenon DEF SourceInv, StartLoopInv
    <3> QED
      BY <1>1, <2>1, <3>1, ConcatStep, Zenon
  <2>5. SourceType'
    BY <2>1, <2>3, Zenon DEF SourceInv, SourceType, Holding
  <2>6. OwnedTasks'
    BY <2>1, <2>3, Zenon DEF SourceInv, OwnedTasks, In
  <2>7. source_call'[c] = "starting"
    BY <1>1, <2>1, Zenon
  <2>8. StartLoopInv'
    BY <1>1, <2>1, <2>3, <2>4, <2>7, Zenon DEF StartLoopInv, In
  <2>9. source' \notin {0, 2} /\ source # 2
    BY <1>1, <2>1
  <2> HIDE DEF s, h
  <2> QED
    BY <1>2, <1>3, <2>1, <2>5, <2>6, <2>8, <2>9, SourceCallStep, Zenon
<1>6. ASSUME K!EndpointStart(c) PROVE SourceInv'
  <2> DEFINE s == pending[c]
             h == Head(s)
  <2>1. /\ source_call[c] = "starting" /\ s # <<>> /\ active_endpoints \o Tail(s) = endpoints
        /\ In(h, active_endpoints)
    BY <1>6, Zenon DEF K!EndpointStart, SourceInv, StartLoopInv
  <2>2. /\ UNCHANGED <<endpoints, lifecycle, active_endpoints, stop_failed>>
        /\ \/ /\ consumer' = [consumer EXCEPT ![h] = "running"] \/ UNCHANGED consumer
              /\ source_call' = [source_call EXCEPT ![c] = "start"]
              /\ pending' = [pending EXCEPT ![c] = Tail(s)] /\ UNCHANGED source
           \/ /\ source' = 3 /\ source_call' = [source_call EXCEPT ![c] = "stop"]
              /\ pending' = [pending EXCEPT ![c] = K!Reversed(active_endpoints)] /\ UNCHANGED consumer
    BY <1>6, Zenon DEF K!EndpointStart, K!To, K!Todo
  <2>3. h \in Endpoint /\ Tail(s) \in Seq(Endpoint)
    BY <1>1, <2>1, TailIn, Zenon
  <2>4. ASSUME consumer' = [consumer EXCEPT ![h] = "running"] \/ UNCHANGED consumer PROVE OwnedTasks'
    <3> SUFFICES ASSUME NEW e \in Endpoint, consumer'[e] # "none" PROVE In(e, active_endpoints)
      BY <2>2, Zenon DEF OwnedTasks, In
    <3>1. CASE e = h
      BY <2>1, <3>1, Zenon
    <3>2. CASE e # h
      <4>1. consumer[e] # "none"
        BY <2>4, <3>2, Zenon DEF SourceInv, SourceType
      <4> QED
        BY <4>1, Zenon DEF SourceInv, OwnedTasks
    <3> QED
      BY <3>1, <3>2, Zenon
  <2>5. CASE /\ consumer' = [consumer EXCEPT ![h] = "running"] \/ UNCHANGED consumer
             /\ source_call' = [source_call EXCEPT ![c] = "start"]
             /\ pending' = [pending EXCEPT ![c] = Tail(s)] /\ UNCHANGED source
    <3>1. SourceType'
      <4>1. consumer' \in [Endpoint -> {"none", "running", "ended", "panicked"}]
        BY <2>5, <2>3, Zenon DEF SourceInv, SourceType
      <4> QED
        BY <2>2, <2>3, <2>5, <4>1 DEF SourceInv, SourceType, Holding
    <3>2. source_call'[c] = "start" /\ pending'[c] = Tail(s)
      BY <2>5, Zenon DEF SourceInv, SourceType
    <3>3. StartLoopInv'
      BY <1>1, <2>1, <2>2, <2>5, <3>2, Zenon DEF StartLoopInv
    <3>4. source' \notin {0, 2} /\ source # 2
      BY <1>1, <2>5
    <3> HIDE DEF s, h
    <3> QED
      BY <1>2, <1>3, <2>2, <2>4, <2>5, <3>1, <3>3, <3>4, SourceCallStep, Zenon
  <2>6. CASE /\ source' = 3 /\ source_call' = [source_call EXCEPT ![c] = "stop"]
             /\ pending' = [pending EXCEPT ![c] = K!Reversed(active_endpoints)] /\ UNCHANGED consumer
    <3>1. /\ K!Reversed(active_endpoints) \in Seq(Endpoint)
          /\ \A e : In(e, active_endpoints) => In(e, K!Reversed(active_endpoints))
      BY <1>1, ReverseIn, Zenon
    <3>2. SourceType'
      BY <2>2, <2>6, <3>1 DEF SourceInv, SourceType, Holding
    <3>3. source_call'[c] = "stop" /\ pending'[c] = K!Reversed(active_endpoints)
      BY <2>6, Zenon DEF SourceInv, SourceType
    <3>4. StartLoopInv'
      BY <3>3, Zenon DEF StartLoopInv
    <3>5. source' \notin {0, 2} /\ source # 2
      BY <1>1, <2>6
    <3>6. \A e \in Endpoint : In(e, active_endpoints') => In(e, pending'[c])
      BY <2>2, <3>1, <3>3, Zenon
    <3>7. OwnedTasks'
      BY <2>4, <2>6, Zenon
    <3> HIDE DEF s, h
    <3> QED
      BY <1>2, <1>3, <2>2, <2>6, <3>2, <3>4, <3>5, <3>6, <3>7, SourceCallStep, Zenon
  <2> QED
    BY <2>2, <2>5, <2>6, Zenon
<1> QED
  BY <1>4, <1>5, <1>6, Zenon

LEMMA SourceStops ==
  ASSUME SourceInv, NEW c \in K!Call, K!EndpointStop(c) \/ K!StopReturns(c)
  PROVE  SourceInv'
<1>1. /\ source_call[c] = "stop" /\ source = 3
      /\ source_call \in [K!Call -> {"idle", "again", "gate", "ok", "err", "dropped"} \cup Holding]
      /\ active_endpoints \in Seq(Endpoint) /\ pending[c] \in Seq(Endpoint)
      /\ ~stop_failed[c] => \A e \in Endpoint : In(e, active_endpoints) => In(e, pending[c])
  <2>1. source_call[c] = "stop"
    BY Zenon DEF K!EndpointStop, K!StopReturns
  <2> QED
    BY <2>1, Zenon DEF SourceInv, SourceType, StopLoopInv
<1>2. lifecycle = c
  BY <1>1, Zenon DEF SourceInv, LockedInv, Holding
<1>3. \A d \in K!Call \ {c} : source_call[d] \notin Holding
  BY <1>2, Alone, Zenon
<1>4. ASSUME K!EndpointStop(c) PROVE SourceInv'
  <2> DEFINE s == pending[c]
             h == Head(s)
  <2>1. /\ s # <<>> /\ pending' = [pending EXCEPT ![c] = Tail(s)]
        /\ UNCHANGED <<endpoints, source, lifecycle, source_call>>
        /\ \/ /\ consumer' = [consumer EXCEPT ![h] = "none"]
              /\ active_endpoints' = K!Retain(active_endpoints, h) /\ UNCHANGED stop_failed
           \/ /\ consumer' = [consumer EXCEPT ![h] = "none"] \/ UNCHANGED consumer
              /\ stop_failed' = [stop_failed EXCEPT ![c] = TRUE] /\ UNCHANGED active_endpoints
    BY <1>4, Zenon DEF K!EndpointStop, K!Todo
  <2>2. /\ h \in Endpoint /\ Tail(s) \in Seq(Endpoint)
        /\ \A e : In(e, s) => e = h \/ In(e, Tail(s))
    BY <1>1, <2>1, TailIn, Zenon
  <2> HIDE DEF s, h
  <2>3. source_call' = [source_call EXCEPT ![c] = "stop"]
    BY <1>1, <2>1, Zenon
  <2>4. pending'[c] = Tail(s) /\ pending' \in [K!Call -> Seq(Endpoint)]
    BY <2>1, <2>2, Zenon DEF SourceInv, SourceType
  <2>5. source' = 3 /\ source' \notin {0, 2} /\ source # 2 /\ source' \in {2, 3}
    BY <1>1, <2>1
  <2>6. consumer' \in [Endpoint -> {"none", "running", "ended", "panicked"}]
    BY <2>1, <2>2, Zenon DEF SourceInv, SourceType
  <2>7. c = Starter => StartLoopInv'
    <3>1. source_call'[c] = "stop"
      BY <1>1, <2>1, Zenon
    <3> QED
      BY <3>1, Zenon DEF StartLoopInv
  <2>8. ASSUME SourceType', OwnedTasks',
               ~stop_failed'[c] => \A e \in Endpoint : In(e, active_endpoints') => In(e, pending'[c])
        PROVE  SourceInv'
    BY <1>2, <1>3, <2>1, <2>3, <2>5, <2>7, <2>8, SourceCallStep, Zenon
  <2>9. CASE /\ consumer' = [consumer EXCEPT ![h] = "none"]
             /\ active_endpoints' = K!Retain(active_endpoints, h) /\ UNCHANGED stop_failed
    <3>1. active_endpoints' \in Seq(Endpoint) /\ ~In(h, active_endpoints')
          /\ \A e : In(e, active_endpoints') => In(e, active_endpoints)
      BY <1>1, <2>9, RetainGives, Zenon
    <3>2. SourceType'
      BY <2>1, <2>4, <2>5, <2>6, <2>9, <3>1, Zenon DEF SourceInv, SourceType
    <3>3. ASSUME NEW e \in Endpoint, consumer'[e] # "none" PROVE In(e, active_endpoints')
      <4>1. e # h /\ consumer[e] # "none"
        BY <2>9, <3>3, Zenon DEF SourceInv, SourceType
      <4>2. In(e, active_endpoints)
        BY <4>1, Zenon DEF SourceInv, OwnedTasks
      <4> QED
        BY <1>1, <2>9, <4>1, <4>2, RetainGives, Zenon
    <3>4. OwnedTasks'
      BY <3>3, Zenon DEF OwnedTasks, In
    <3>5. ~stop_failed'[c] => \A e \in Endpoint : In(e, active_endpoints') => In(e, pending'[c])
      BY <1>1, <2>2, <2>4, <2>9, <3>1, Zenon DEF s
    <3> QED
      BY <2>8, <3>2, <3>4, <3>5, Zenon
  <2>10. CASE /\ consumer' = [consumer EXCEPT ![h] = "none"] \/ UNCHANGED consumer
              /\ stop_failed' = [stop_failed EXCEPT ![c] = TRUE] /\ UNCHANGED active_endpoints
    <3>1. SourceType'
      <4>1. stop_failed' \in [K!Call -> BOOLEAN]
        BY <2>10, Zenon DEF SourceInv, SourceType
      <4> QED
        BY <2>1, <2>4, <2>6, <2>10, <4>1, Zenon DEF SourceInv, SourceType
    <3>2. ASSUME NEW e \in Endpoint, consumer'[e] # "none" PROVE In(e, active_endpoints')
      <4>1. consumer[e] # "none"
        BY <2>10, <3>2, Zenon DEF SourceInv, SourceType
      <4> QED
        BY <2>10, <4>1, Zenon DEF SourceInv, OwnedTasks
    <3>3. OwnedTasks'
      BY <3>2, Zenon DEF OwnedTasks, In
    <3>4. stop_failed'[c]
      BY <2>10, Zenon DEF SourceInv, SourceType
    <3> QED
      BY <2>8, <3>1, <3>3, <3>4, Zenon
  <2> QED
    BY <2>1, <2>9, <2>10, Zenon
<1>5. ASSUME K!StopReturns(c) PROVE SourceInv'
  <2> DEFINE l == IF c = Starter \/ stop_failed[c] THEN "err" ELSE "ok"
  <2>1. /\ pending[c] = <<>> /\ source' = (IF stop_failed[c] THEN 3 ELSE 2)
        /\ source_call' = [source_call EXCEPT ![c] = l]
        /\ UNCHANGED <<endpoints, active_endpoints, consumer, pending, stop_failed>>
    BY <1>5, Zenon DEF K!StopReturns, K!Leave, K!To, K!ownVars, K!callVars
  <2>2. l \in {"err", "ok"} /\ l \notin Holding /\ l # "stop" /\ (l = "ok" => ~stop_failed[c] /\ c # Starter)
    BY Zenon DEF Holding
  <2> HIDE DEF l
  <2>3. source' \in {2, 3} /\ source # 2 /\ source' # 0 /\ (source' = 2 => ~stop_failed[c])
        /\ (~stop_failed[c] => source' = 2)
    BY <1>1, <2>1
  <2>4. ASSUME ~stop_failed[c] PROVE active_endpoints = <<>>
    <3>1. \A e \in Endpoint : ~In(e, pending[c])
      BY <2>1 DEF In
    <3>2. \A e \in Endpoint : ~In(e, active_endpoints)
      BY <1>1, <2>4, <3>1, Zenon
    <3>3. ASSUME active_endpoints # <<>>
          PROVE  1 \in 1 .. Len(active_endpoints) /\ active_endpoints[1] \in Endpoint
      BY <1>1, <3>3
    <3> QED
      BY <3>2, <3>3, Zenon DEF In
  <2>5. SourceType'
    <3>1. source' \in 0 .. 3
      BY <2>3
    <3>2. source_call' \in [K!Call -> {"idle", "again", "gate", "ok", "err", "dropped"} \cup Holding]
      BY <1>1, <2>1, <2>2, Zenon
    <3> QED
      BY <2>1, <3>1, <3>2, Zenon DEF SourceInv, SourceType
  <2>6. OwnedTasks'
    BY <2>1, Zenon DEF SourceInv, OwnedTasks, In
  <2>7. c = Starter => StartLoopInv'
    <3>1. ASSUME c = Starter PROVE source_call'[Starter] = "err"
      BY <1>1, <2>1, <2>2, <3>1, Zenon
    <3> QED
      BY <3>1, Zenon DEF StartLoopInv
  <2>8. source' \in {0, 2} => active_endpoints' = <<>>
    BY <2>1, <2>3, <2>4, Zenon
  <2> QED
    BY <1>3, <2>1, <2>2, <2>3, <2>5, <2>6, <2>7, <2>8, SourceCallStep, Zenon
<1> QED
  BY <1>4, <1>5, Zenon

\* An endpoint is added, a task ends, a context is cancelled.
LEMMA SourceOutside ==
  ASSUME SourceInv, UNCHANGED <<source, lifecycle, active_endpoints, source_call, pending, stop_failed>>,
         \/ consumer' = consumer /\ endpoints' = endpoints
         \/ \E e \in Endpoint : K!AddEndpoint(e)
         \/ \E e \in Endpoint : K!TaskEnds(e)
  PROVE  SourceInv'
<1>1. LockedInv' /\ StopLoopInv'
  BY ZenonT(40) DEF SourceInv, LockedInv, StopLoopInv, In
<1>2. ASSUME consumer' = consumer /\ endpoints' = endpoints PROVE SourceInv'
  <2>1. SourceType' /\ OwnedTasks' /\ StartLoopInv'
    BY <1>2, Zenon DEF SourceInv, SourceType, OwnedTasks, StartLoopInv, In
  <2> QED
    BY <1>1, <2>1, Zenon DEF SourceInv
<1>3. ASSUME NEW e \in Endpoint, K!AddEndpoint(e) PROVE SourceInv'
  <2>1. source = 0 /\ endpoints' = Append(endpoints, e) /\ consumer' = consumer
    BY <1>3, Zenon DEF K!AddEndpoint
  <2>2. endpoints' \in Seq(Endpoint)
    BY <2>1, AppendIn, Zenon DEF SourceInv, SourceType
  <2>3. SourceType' /\ OwnedTasks'
    BY <2>1, <2>2, Zenon DEF SourceInv, SourceType, OwnedTasks, In
  <2>4. source # 1
    BY <2>1
  <2>5. StartLoopInv'
    BY <2>1, <2>4, Zenon DEF SourceInv, StartLoopInv
  <2> QED
    BY <1>1, <2>3, <2>5, Zenon DEF SourceInv
<1>4. ASSUME NEW e \in Endpoint, K!TaskEnds(e) PROVE SourceInv'
  <2>1. PICK l \in {"ended", "panicked"} : consumer' = [consumer EXCEPT ![e] = l]
    BY <1>4, Zenon DEF K!TaskEnds
  <2>2. endpoints' = endpoints /\ consumer[e] = "running"
    BY <1>4, Zenon DEF K!TaskEnds
  <2>3. SourceType'
    BY <2>1, <2>2 DEF SourceInv, SourceType
  <2>4. ASSUME NEW d \in Endpoint, consumer'[d] # "none" PROVE In(d, active_endpoints)
    <3>1. consumer[d] # "none"
      BY <2>1, <2>2, <2>4 DEF SourceInv, SourceType
    <3> QED
      BY <3>1, Zenon DEF SourceInv, OwnedTasks
  <2>5. OwnedTasks' /\ StartLoopInv'
    BY <2>2, <2>4, Zenon DEF SourceInv, OwnedTasks, StartLoopInv, In
  <2> QED
    BY <1>1, <2>3, <2>5, Zenon DEF SourceInv
<1> QED
  BY <1>2, <1>3, <1>4, Zenon

LEMMA SourceStep == ASSUME SourceInv, [K!Next]_(K!vars) PROVE SourceInv'
<1> USE DEF K!ownVars, K!callVars
<1>1. CASE UNCHANGED K!vars
  BY <1>1, SourceOutside, Zenon DEF K!vars
<1>2. ASSUME NEW e \in Endpoint, K!AddEndpoint(e) \/ K!TaskEnds(e) PROVE SourceInv'
  <2>1. UNCHANGED <<source, lifecycle, active_endpoints, source_call, pending, stop_failed>>
    BY <1>2, Zenon DEF K!AddEndpoint, K!TaskEnds
  <2> QED
    BY <1>2, <2>1, SourceOutside, Zenon
<1>3. ASSUME NEW c \in K!Call, K!Cancel(c) PROVE SourceInv'
  <2>1. UNCHANGED <<endpoints, consumer, source, lifecycle, active_endpoints, source_call, pending, stop_failed>>
    BY <1>3, Zenon DEF K!Cancel
  <2> QED
    BY <2>1, SourceOutside, Zenon
<1>4. Starter \in K!Call /\ SourceStop \subseteq K!Call
  BY Zenon DEF K!Call
<1>5. ASSUME K!Next PROVE SourceInv'
  BY <1>2, <1>3, <1>4, <1>5, SourceGates, SourceStarts, SourceStops, Zenon DEF K!Next
<1> QED
  BY <1>1, <1>5, Zenon

LEMMA SourceInit == K!Init => SourceInv
<1> SUFFICES ASSUME K!Init PROVE SourceInv
  BY Zenon
<1>1. SourceType
  BY DEF K!Init, SourceType
<1>2. /\ \A c \in K!Call : source_call[c] = "idle"
      /\ \A e \in Endpoint : consumer[e] = "none"
      /\ Starter \in K!Call /\ active_endpoints = <<>>
  BY Zenon DEF K!Init, K!Call
<1>3. LockedInv /\ OwnedTasks /\ StartLoopInv /\ StopLoopInv
  BY <1>2, Zenon DEF LockedInv, OwnedTasks, StartLoopInv, StopLoopInv, Holding
<1> QED
  BY <1>1, <1>2, <1>3, Zenon DEF SourceInv

\* A stop of the Kafka source that returns Ok leaves no endpoint running or owned,
\* also when a start was dropped or failed half way before it; and a start that
\* returns Ok owns every endpoint that add_endpoint accepted.
LEMMA KafkaSourceStops == K!Spec => []K!SourceStopDrains
<1>1. SourceInv => K!SourceStopDrains
  <2> SUFFICES ASSUME SourceInv PROVE K!SourceStopDrains
    BY Zenon
  <2>1. ASSUME NEW c \in SourceStop, source_call[c] = "ok"
        PROVE  active_endpoints = <<>> /\ \A e \in Endpoint : consumer[e] = "none"
    <3>1. source = 2
      BY <2>1, Zenon DEF SourceInv, StopLoopInv, K!Call
    <3>2. active_endpoints = <<>>
      BY <3>1, Zenon DEF SourceInv
    <3>3. \A e : ~In(e, <<>>)
      BY DEF In
    <3> QED
      BY <3>2, <3>3, Zenon DEF SourceInv, OwnedTasks
  <2> QED
    BY <2>1, Zenon DEF SourceInv, StartLoopInv, K!SourceStopDrains
<1> QED
  BY <1>1, SourceInit, SourceStep, PTL DEF K!Spec
-----------------------------------------------------------------------------
(* The HTTP source.                                                        *)

NoneOpen == \A r \in Request : handled[r] # "open"

\* No request is between its look at the tracker and its entry into it when the
\* server has ended or never was, nor once the tracker is waited for.
HttpInv ==
  /\ handled \in [Request -> {"idle", "open", "tracked", "over"}]
  /\ stopping # "none" => closed
  /\ server \in {"none", "ended"} /\ stopping # "err" => NoneOpen
  /\ stopping = "requests" => NoneOpen
  /\ H!HttpStopDrains

\* A step of the lifecycle leaves the requests alone.
LEMMA HttpLife ==
  ASSUME HttpInv,
         H!Start \/ H!ServiceUp \/ H!ServiceShutdown \/ H!ServerEnds \/ H!StopBegin \/ H!StopServer
           \/ H!StopRequests \/ H!Cancel \/ H!StopCut
  PROVE  HttpInv'
<1>1. handled' = handled
  BY Zenon DEF H!Start, H!ServiceUp, H!ServiceShutdown, H!ServerEnds, H!StopBegin, H!StopServer,
         H!StopRequests, H!Cancel, H!StopCut
<1>2. CASE H!Start \/ H!ServiceUp
  BY <1>1, <1>2, Zenon DEF H!Start, H!ServiceUp, H!lifeVars, H!stopVars, HttpInv, NoneOpen, H!HttpStopDrains
<1>3. CASE H!ServiceShutdown \/ H!Cancel
  BY <1>1, <1>3, Zenon DEF H!ServiceShutdown, H!Cancel, H!lifeVars, H!stopVars, HttpInv, NoneOpen, H!HttpStopDrains
<1>4. CASE H!ServerEnds
  BY <1>1, <1>4 DEF H!ServerEnds, H!InTransport, H!lifeVars, H!stopVars, HttpInv, NoneOpen, H!HttpStopDrains
<1>5. CASE H!StopBegin \/ H!StopServer
  BY <1>1, <1>5 DEF H!StopBegin, H!StopServer, H!lifeVars, HttpInv, NoneOpen, H!HttpStopDrains
<1>6. CASE H!StopRequests
  BY <1>1, <1>6 DEF H!StopRequests, H!Tracked, HttpInv, NoneOpen, H!HttpStopDrains
<1>7. CASE H!StopCut
  BY <1>1, <1>7 DEF H!StopCut, HttpInv, NoneOpen, H!HttpStopDrains
<1> QED
  BY <1>2, <1>3, <1>4, <1>5, <1>6, <1>7, Zenon

LEMMA HttpRequests ==
  ASSUME HttpInv, NEW r \in Request,
         H!Serve(r) \/ H!Track(r) \/ H!Disconnect(r) \/ H!RequestEnds(r)
  PROVE  HttpInv'
<1>1. UNCHANGED <<server, closed, stopping, cut>>
  BY Zenon DEF H!Serve, H!Track, H!Disconnect, H!RequestEnds, H!stopVars
<1>2. CASE H!Serve(r)
  BY <1>1, <1>2 DEF H!Serve, H!At, HttpInv, NoneOpen, H!HttpStopDrains
<1>3. CASE H!Track(r) \/ H!RequestEnds(r)
  BY <1>1, <1>3 DEF H!Track, H!RequestEnds, H!At, HttpInv, NoneOpen, H!HttpStopDrains
<1>4. CASE H!Disconnect(r)
  BY <1>1, <1>4 DEF H!Disconnect, HttpInv, NoneOpen, H!HttpStopDrains
<1> QED
  BY <1>2, <1>3, <1>4, Zenon

\* A stop of the HTTP source that was not cut short leaves no request being handled
\* and none on its way into the tracker (axum.rs), for any requests and starts.
LEMMA HttpStops == H!Spec => []H!HttpStopDrains
<1>1. ASSUME H!Init PROVE HttpInv
  <2>1. \A r \in Request : handled[r] = "idle"
    BY <1>1, Zenon DEF H!Init
  <2> QED
    BY <1>1, <2>1 DEF H!Init, HttpInv, NoneOpen, H!HttpStopDrains
<1>2. ASSUME HttpInv, UNCHANGED H!vars PROVE HttpInv'
  BY <1>2, Zenon DEF H!vars, HttpInv, NoneOpen, H!HttpStopDrains
<1>3. HttpInv /\ [H!Next]_(H!vars) => HttpInv'
  BY <1>2, HttpLife, HttpRequests, Zenon DEF H!Next
<1>4. HttpInv => H!HttpStopDrains
  BY Zenon DEF HttpInv
<1> QED
  BY <1>1, <1>3, <1>4, PTL DEF H!Spec

\* Both: no endpoint of a Kafka source and no request of an HTTP source outlives a
\* stop that returns Ok, whatever became of start (rdkafka.rs, axum.rs).
THEOREM SourcesStopDrained == K!Spec /\ H!Spec => []SourceStopDrains
BY KafkaSourceStops, HttpStops, PTL DEF SourceStopDrains
=============================================================================
