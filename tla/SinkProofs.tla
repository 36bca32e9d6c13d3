----------------------------- MODULE SinkProofs -----------------------------
(***************************************************************************)
(* Theorems about the sinks and the callable substream, for every set of   *)
(* calls and every bound on the sessions and the stops.                    *)
(***************************************************************************)
EXTENDS MCSinks, TLAPS

-----------------------------------------------------------------------------
(* One call of a substream.                                                *)

\* The gate is held by the delivery whose collector runs; a call that has
\* returned is closed, with the outcome its collectors left.
SubInv ==
  /\ delivery \in [Caller -> [pc : {"none", "gate", "collect", "over"}, inline : BOOLEAN]]
  /\ completed \in BOOLEAN
  /\ \A r \in Caller : delivery[r].pc = "collect" <=> gate = r
  /\ gate \in Caller \cup {None}
  /\ call \in {"ok", "cancelled"} => done /\ gate = None /\ (call = "ok" <=> completed)

LEMMA SubInit == ASSUME B!Init PROVE SubInv
<1>1. \A r \in Caller : delivery[r] = [pc |-> "none", inline |-> FALSE]
  BY Zenon DEF B!Init
<1>2. delivery \in [Caller -> [pc : {"none", "gate", "collect", "over"}, inline : BOOLEAN]]
  BY Zenon DEF B!Init
<1>3. \A r \in Caller : delivery[r].pc = "none" /\ gate # r
  BY <1>1, SinksAssumption, Zenon DEF B!Init
<1> QED
  BY <1>2, <1>3, Zenon DEF B!Init, SubInv

LEMMA SubFrame == SubInv /\ UNCHANGED subVars => SubInv'
BY DEF SubInv, subVars

LEMMA SubStep == ASSUME SubInv, B!Next PROVE SubInv'
<1>1. CASE B!Cancel
  BY <1>1, Zenon DEF B!Cancel, B!callVars, SubInv
<1>2. CASE B!Consume
  BY <1>2, Zenon DEF B!Consume, SubInv
<1>3. CASE B!CallStep
  BY <1>3 DEF B!CallStep, B!Emitted, B!Wake, B!Return, B!Close, B!callVars, SubInv
<1>4. CASE B!Abandon
  <2>1. ASSUME NEW r \in Caller
        PROVE  delivery'[r] = IF r \in B!InLine THEN [delivery[r] EXCEPT !.pc = "over"] ELSE delivery[r]
    BY <1>4, Zenon DEF B!Abandon
  <2>2. \A r \in Caller : r \in B!InLine => delivery'[r].pc = "over"
    BY <2>1, Zenon DEF SubInv
  <2>3. \A r \in Caller : r \notin B!InLine => delivery'[r] = delivery[r]
    BY <2>1, Zenon
  <2>4. delivery' \in [Caller -> [pc : {"none", "gate", "collect", "over"}, inline : BOOLEAN]]
    BY <1>4 DEF B!Abandon, SubInv
  <2>5. gate' = IF gate \in B!InLine THEN None ELSE gate
    BY <1>4, Zenon DEF B!Abandon
  <2>6. \A r \in Caller : delivery'[r].pc = "collect" <=> gate' = r
    BY <2>2, <2>3, <2>5, SinksAssumption DEF SubInv
  <2> QED
    BY <1>4, <2>4, <2>5, <2>6, Zenon DEF B!Abandon, SubInv
<1>5. ASSUME NEW r \in Caller, B!Give(r) PROVE SubInv'
  <2>1. PICK inline \in BOOLEAN : delivery' = [delivery EXCEPT ![r] = [pc |-> "gate", inline |-> inline]]
    BY <1>5, Zenon DEF B!Give
  <2> QED
    BY <1>5, <2>1, Zenon DEF B!Give, B!callVars, SubInv
<1>6. ASSUME NEW r \in Caller, B!Deliver(r) \/ B!Collected(r) PROVE SubInv'
  <2>1. PICK l \in {"over", "collect"} : delivery' = [delivery EXCEPT ![r].pc = l]
    BY <1>6, Zenon DEF B!Deliver, B!Collected, B!DeliveryAt
  <2>2. /\ delivery' \in [Caller -> [pc : {"none", "gate", "collect", "over"}, inline : BOOLEAN]]
        /\ \A q \in Caller : delivery'[q].pc = IF q = r THEN l ELSE delivery[q].pc
    BY <2>1 DEF SubInv
  <2>3. CASE l = "collect"
    <3>1. delivery[r].pc = "gate" /\ gate = None /\ gate' = r /\ ~done /\ UNCHANGED <<done, completed, call>>
      BY <1>6, <2>1, <2>3 DEF B!Deliver, B!Collected, B!DeliveryAt, B!callVars, SubInv
    <3> QED
      BY <2>2, <2>3, <3>1, SinksAssumption DEF SubInv
  <2>4. CASE l = "over"
    <3>1. CASE B!Deliver(r)
      <4>1. delivery[r].pc = "gate" /\ gate = None
        BY <3>1, Zenon DEF B!Deliver
      <4>2. UNCHANGED <<gate, completed, call>> /\ (done => done')
        BY <2>1, <2>2, <2>4, <3>1 DEF B!Deliver, B!DeliveryAt, B!Close, B!callVars, SubInv
      <4> QED
        BY <2>2, <2>4, <4>1, <4>2 DEF SubInv
    <3>2. CASE B!Collected(r)
      <4>1. gate = r /\ gate' = None /\ UNCHANGED call /\ completed' \in BOOLEAN
        BY <3>2, Zenon DEF B!Collected, B!callVars, SubInv
      <4> QED
        BY <2>2, <2>4, <4>1, SinksAssumption, Zenon DEF SubInv
    <3> QED
      BY <1>6, <3>1, <3>2, Zenon
  <2> QED
    BY <2>3, <2>4, Zenon
<1> QED
  BY <1>1, <1>2, <1>3, <1>4, <1>5, <1>6, Zenon DEF B!Next, B!ResultStep
-----------------------------------------------------------------------------
(* A request without session, and the body of its response.                *)

\* The reader of the transport lives as long as the guard, and the guard from
\* the response to the return of end_request; before that only the task that
\* has the body closes it.
BodyInv ==
  /\ body \in [reader : BOOLEAN, closed : BOOLEAN, waker : BOOLEAN]
  /\ body.reader => guard
  /\ guard => part = "http" /\ pc \in {"respond", "end"}
  /\ body.closed => reader = "returned" \/ pc \in {"over", "callback"}

LEMMA BodyInit == R!InitState => BodyInv
BY DEF R!InitState, BodyInv

LEMMA BodyFrame == BodyInv /\ UNCHANGED <<part, requestVars>> => BodyInv'
BY DEF BodyInv, requestVars

\* consume is over: the guard goes, and the body with it.
LEMMA BodyDropped ==
  ASSUME BodyInv, R!DropGuard, pc' \in {"over", "callback"}
  PROVE  BodyInv'
<1>1. CASE guard
  <2>1. guard' = FALSE /\ body' = [reader |-> FALSE, closed |-> TRUE, waker |-> FALSE]
    BY <1>1, Zenon DEF R!DropGuard, R!CloseBody
  <2> QED
    BY <2>1, Zenon DEF BodyInv
<1>2. CASE ~guard
  BY <1>2, Zenon DEF R!DropGuard, BodyInv
<1> QED
  BY <1>1, <1>2, Zenon

LEMMA BodyStep == ASSUME BodyInv, R!Next, UNCHANGED part PROVE BodyInv'
<1>1. CASE R!BeginRequest
  BY <1>1, Zenon DEF R!BeginRequest, R!Goto, R!bodyVars, BodyInv
<1>2. CASE R!ConsumeMessage
  BY <1>2, Zenon DEF R!ConsumeMessage, R!Goto, R!bodyVars, BodyInv
<1>3. CASE R!Perform
  <2>1. CASE part = "http" /\ pc' = "respond" /\ guard' = TRUE /\ body' = [body EXCEPT !.reader = TRUE]
             /\ reader' = reader
    <3>1. /\ body' \in [reader : BOOLEAN, closed : BOOLEAN, waker : BOOLEAN]
          /\ body'.closed = body.closed
      BY <2>1, Zenon DEF BodyInv
    <3>2. pc = "call"
      BY <1>3, Zenon DEF R!Perform
    <3> QED
      BY <2>1, <3>1, <3>2, Zenon DEF BodyInv
  <2>2. CASE UNCHANGED <<guard, body, reader>>
    BY <1>3, <2>2, Zenon DEF R!Perform, BodyInv
  <2> QED
    BY <1>3, <2>1, <2>2, Zenon DEF R!Perform, R!Goto, R!bodyVars
<1>4. CASE R!NextResponse \/ R!ResponsesEnd
  BY <1>4 DEF R!NextResponse, R!ResponsesEnd, R!Goto, R!bodyVars, BodyInv
<1>5. CASE R!HandleResponse
  BY <1>5, Zenon DEF R!HandleResponse, R!Goto, R!bodyVars, BodyInv
<1>6. CASE R!EndRequest \/ R!Abandon
  BY <1>6, BodyDropped, Zenon DEF R!EndRequest, R!Abandon, R!Goto
<1>7. CASE R!SinkCallback
  BY <1>7, Zenon DEF R!SinkCallback, R!Goto, R!bodyVars, BodyInv
<1>8. CASE R!Retain
  BY <1>8, Zenon DEF R!Retain, BodyInv
<1>9. CASE R!PollRead
  <2>1. UNCHANGED <<pc, guard>> /\ reader = "poll"
    BY <1>9, Zenon DEF R!PollRead
  <2>2. CASE (body.closed \/ ~body.reader) /\ reader' = "returned" /\ UNCHANGED body
    BY <2>1, <2>2, Zenon DEF BodyInv
  <2>3. CASE /\ ~body.closed /\ body.reader
             /\ \/ body' = [body EXCEPT !.waker = FALSE]
                \/ body' = [body EXCEPT !.waker = FALSE, !.reader = FALSE]
                \/ body' = [body EXCEPT !.waker = TRUE]
    <3>1. body' \in [reader : BOOLEAN, closed : BOOLEAN, waker : BOOLEAN] /\ ~body'.closed
      BY <2>3, Zenon DEF BodyInv
    <3> QED
      BY <2>1, <2>3, <3>1, Zenon DEF BodyInv
  <2> QED
    BY <1>9, <2>2, <2>3, Zenon DEF R!PollRead
<1>10. CASE R!TransportWakes
  BY <1>10, Zenon DEF R!TransportWakes, BodyInv
<1>11. CASE R!UserCloses
  BY <1>11, Zenon DEF R!UserCloses, BodyInv
<1> QED
  BY <1>1, <1>2, <1>3, <1>4, <1>5, <1>6, <1>7, <1>8, <1>9, <1>10, <1>11, Zenon
  DEF R!Next, R!Unary, R!Server, R!Http, R!Local

LEMMA BodyGives == BodyInv => BodyClosed
BY Zenon DEF BodyInv, BodyClosed, R!BodyClosed
-----------------------------------------------------------------------------
(* The Kafka sink.                                                         *)

\* An emission of a task is over before the task is, and the requests that were over
\* when stop began stay over: with the last task that stems from them the last
\* request that does ends too.
RequestRecord == [pc : {"idle", "handler", "sync", "over"}, parent : Caller \cup {None},
                  root : Caller \cup {None}]
StopRecord == [pc : {"none", "wait", "flush", "ok", "cancelled"}, cancelled : BOOLEAN, calls : Nat,
               early : SUBSET Caller]

KafkaType ==
  /\ request \in [Caller -> RequestRecord]
  /\ task \in [Caller -> {"none", "send", "inflight", "collect", "done"}]
  /\ stop \in StopRecord

Resting(r) == request[r].pc \in {"idle", "over"}
Early(r) == request[r].root \in stop.early
Waited == stop.pc = "flush" \/ (stop.pc = "ok" /\ stop.calls = 1)

KafkaLinks ==
  /\ \A r \in Caller : request[r].pc = "idle" => request[r].root = None /\ task[r] = "none"
  /\ \A r \in Caller : request[r].pc # "idle" /\ request[r].parent = None => request[r].root = r
  /\ \A r \in Caller : ~Resting(r) /\ request[r].parent # None =>
       /\ task[request[r].parent] = "collect"
       /\ request[request[r].parent].root = request[r].root
  /\ \A r \in stop.early : request[r].pc = "over"

KafkaClean == Waited => \A r \in Caller : Early(r) => task[r] \in {"none", "done"}

KafkaSinkInv ==
  /\ KafkaType
  /\ stop.pc = "none" <=> stop.calls = 0
  /\ state = 3 <=> stop.calls # 0
  /\ KafkaLinks /\ KafkaClean

LEMMA KafkaInit == ASSUME K!InitState PROVE KafkaSinkInv
<1>1. /\ \A r \in Caller : request[r] = [pc |-> "idle", parent |-> None, root |-> None]
      /\ request \in [Caller -> RequestRecord] /\ \A r \in Caller : task[r] = "none"
  BY Zenon DEF K!InitState, RequestRecord
<1>2. \A r \in Caller : Resting(r) /\ request[r].root = None /\ request[r].pc = "idle"
  BY <1>1 DEF Resting
<1>3. stop = [pc |-> "none", cancelled |-> FALSE, calls |-> 0, early |-> {}] /\ state = 0
  BY DEF K!InitState
<1>4. stop \in StopRecord /\ stop.pc = "none" /\ stop.calls = 0 /\ stop.early = {}
  BY <1>3 DEF StopRecord
<1>5. KafkaType
  BY <1>1, <1>4, Zenon DEF K!InitState, KafkaType
<1> QED
  BY <1>1, <1>2, <1>3, <1>4, <1>5 DEF KafkaSinkInv, KafkaLinks, KafkaClean, Waited

LEMMA KafkaFrame == KafkaSinkInv /\ UNCHANGED kafkaVars => KafkaSinkInv'
BY DEF KafkaSinkInv, KafkaType, KafkaLinks, KafkaClean, Waited, Early, Resting, kafkaVars

\* Once stop has waited, what stems from the early requests rests.
LEMMA EarlyRests ==
  ASSUME KafkaSinkInv, Waited, NEW r \in Caller, Early(r)
  PROVE  Resting(r) /\ task[r] \in {"none", "done"}
<1>1. task[r] \in {"none", "done"}
  BY Zenon DEF KafkaSinkInv, KafkaClean
<1>2. CASE request[r].parent = None
  <2>1. request[r].pc # "idle" => r \in stop.early
    BY <1>2, Zenon DEF KafkaSinkInv, KafkaLinks, Early
  <2> QED
    BY <1>1, <2>1 DEF KafkaSinkInv, KafkaLinks, Resting
<1>3. CASE request[r].parent # None
  <2> SUFFICES ASSUME ~Resting(r) PROVE FALSE
    BY <1>1, Zenon
  <2>1. request[r].parent \in Caller
    BY <1>3, Zenon DEF KafkaSinkInv, KafkaType, RequestRecord
  <2>2. task[request[r].parent] = "collect" /\ request[request[r].parent].root = request[r].root
    BY <1>3, Zenon DEF KafkaSinkInv, KafkaLinks
  <2>3. Early(request[r].parent)
    BY <2>2, Zenon DEF Early
  <2> QED
    BY <2>1, <2>2, <2>3, Zenon DEF KafkaSinkInv, KafkaClean
<1> QED
  BY <1>1, <1>2, <1>3, Zenon

\* A step of one request or its task, which does not stem from the early ones once
\* stop has waited.
LEMMA KafkaKeeps ==
  ASSUME KafkaSinkInv, UNCHANGED <<state, stop>>, KafkaType', KafkaLinks', NEW r \in Caller,
         \A q \in Caller \ {r} : request'[q].root = request[q].root /\ task'[q] = task[q],
         Waited => request'[r].root \notin stop.early
  PROVE  KafkaSinkInv'
<1>1. KafkaClean'
  BY Zenon DEF KafkaSinkInv, KafkaClean, Waited, Early
<1> QED
  BY <1>1, Zenon DEF KafkaSinkInv

LEMMA ConsumeStep ==
  ASSUME KafkaSinkInv, NEW r \in Caller, NEW x \in Caller \cup {None}, K!Consume(r, x),
         x # None => task[x] = "collect"
  PROVE  KafkaSinkInv'
<1> DEFINE root == IF x = None THEN r ELSE request[x].root
<1>1. /\ request[r].pc = "idle"
      /\ request' = [request EXCEPT ![r] = [pc |-> "handler", parent |-> x, root |-> root]]
      /\ UNCHANGED <<state, task, stop>>
  BY Zenon DEF K!Consume, K!lifeVars
<1>2. root \in Caller \cup {None}
  BY Zenon DEF KafkaSinkInv, KafkaType, RequestRecord
<1> HIDE DEF root
<1>3. /\ request'[r] = [pc |-> "handler", parent |-> x, root |-> root]
      /\ \A q \in Caller : q # r => request'[q] = request[q]
  BY <1>1, Zenon DEF KafkaSinkInv, KafkaType
<1>4. request'[r].pc = "handler" /\ request'[r].parent = x /\ request'[r].root = root
  BY <1>3
<1>5. KafkaType'
  BY <1>1, <1>2, Zenon DEF KafkaSinkInv, KafkaType, RequestRecord
<1>6. \A q \in Caller : task[q] = "collect" => q # r
  BY <1>1 DEF KafkaSinkInv, KafkaLinks
<1>7. KafkaLinks'
  <2>1. \A q \in Caller : request'[q].pc = "idle" => request'[q].root = None /\ task'[q] = "none"
    BY <1>1, <1>3, <1>4 DEF KafkaSinkInv, KafkaLinks
  <2>2. \A q \in Caller : request'[q].pc # "idle" /\ request'[q].parent = None => request'[q].root = q
    <3>1. x = None => root = r
      BY Zenon DEF root
    <3> QED
      BY <1>3, <1>4, <3>1 DEF KafkaSinkInv, KafkaLinks
  <2>3. ASSUME NEW q \in Caller, ~Resting(q)', request'[q].parent # None
        PROVE  /\ task'[request'[q].parent] = "collect"
               /\ request'[request'[q].parent].root = request'[q].root
    <3>1. CASE q = r
      <4>1. x \in Caller /\ x # r /\ task'[x] = "collect" /\ request'[x] = request[x]
        BY <1>1, <1>3, <1>4, <1>6, <2>3, <3>1, Zenon
      <4> QED
        BY <1>4, <2>3, <3>1, <4>1, Zenon DEF root
    <3>2. CASE q # r
      <4>1. request'[q] = request[q] /\ ~Resting(q)
        BY <1>3, <2>3, <3>2, Zenon DEF Resting
      <4>2. request[q].parent \in Caller
        BY <2>3, <4>1, Zenon DEF KafkaSinkInv, KafkaType, RequestRecord
      <4>3. task[request[q].parent] = "collect" /\ request[request[q].parent].root = request[q].root
        BY <2>3, <4>1, Zenon DEF KafkaSinkInv, KafkaLinks
      <4>4. request'[request[q].parent] = request[request[q].parent]
        BY <1>3, <1>6, <4>2, <4>3, Zenon
      <4> QED
        BY <1>1, <4>1, <4>3, <4>4, Zenon
    <3> QED
      BY <3>1, <3>2, Zenon
  <2>4. \A q \in stop'.early : request'[q].pc = "over"
    <3>1. ASSUME NEW q \in stop.early PROVE q # r /\ q \in Caller /\ request[q].pc = "over"
      BY <1>1, <3>1 DEF KafkaSinkInv, KafkaLinks, KafkaType, StopRecord
    <3> QED
      BY <1>1, <1>3, <3>1, Zenon
  <2> QED
    BY <2>1, <2>2, <2>3, <2>4, Zenon DEF KafkaLinks
<1>8. ASSUME Waited PROVE root \notin stop.early
  <2>1. CASE x = None
    BY <1>1, <2>1 DEF root, KafkaSinkInv, KafkaLinks
  <2>2. CASE x # None
    BY <1>8, <2>2, Zenon DEF root, KafkaSinkInv, KafkaClean, Early
  <2> QED
    BY <2>1, <2>2, Zenon
<1> QED
  BY <1>1, <1>3, <1>4, <1>5, <1>7, <1>8, KafkaKeeps, Zenon

\* A request goes on.
LEMMA RequestGoesOn ==
  ASSUME KafkaSinkInv, NEW r \in Caller, ~Resting(r), NEW l \in {"handler", "sync", "over"}, K!At(r, l),
         UNCHANGED <<state, task, stop>>
  PROVE  KafkaSinkInv'
<1>1. KafkaType'
  BY DEF KafkaSinkInv, KafkaType, RequestRecord, K!At
<1>2. /\ \A q \in Caller : request'[q].parent = request[q].parent /\ request'[q].root = request[q].root
      /\ \A q \in Caller : q # r => request'[q].pc = request[q].pc
      /\ request'[r].pc = l /\ l # "idle"
  BY DEF KafkaSinkInv, KafkaType, RequestRecord, K!At
<1>3. KafkaLinks'
  <2>1. \A q \in Caller : request'[q].pc = "idle" => request'[q].root = None /\ task'[q] = "none"
    BY <1>2 DEF KafkaSinkInv, KafkaLinks
  <2>2. \A q \in Caller : request'[q].pc # "idle" /\ request'[q].parent = None => request'[q].root = q
    BY <1>2 DEF KafkaSinkInv, KafkaLinks, Resting
  <2>3. ASSUME NEW q \in Caller, ~Resting(q)', request'[q].parent # None
        PROVE  /\ task'[request'[q].parent] = "collect"
               /\ request'[request'[q].parent].root = request'[q].root
    <3>1. ~Resting(q) /\ request[q].parent # None /\ request[q].parent \in Caller
      BY <1>2, <2>3 DEF KafkaSinkInv, KafkaType, RequestRecord, Resting
    <3>2. task[request[q].parent] = "collect" /\ request[request[q].parent].root = request[q].root
      BY <3>1, Zenon DEF KafkaSinkInv, KafkaLinks
    <3> QED
      BY <1>2, <3>1, <3>2, Zenon
  <2>4. \A q \in stop'.early : request'[q].pc = "over"
    <3>1. ASSUME NEW q \in stop.early PROVE q # r /\ q \in Caller /\ request[q].pc = "over"
      BY <3>1 DEF KafkaSinkInv, KafkaLinks, KafkaType, StopRecord, Resting
    <3> QED
      BY <1>2, <3>1, Zenon
  <2> QED
    BY <2>1, <2>2, <2>3, <2>4, Zenon DEF KafkaLinks
<1>4. Waited => request'[r].root \notin stop.early
  BY <1>2, EarlyRests, Zenon DEF Early
<1> QED
  BY <1>1, <1>2, <1>3, <1>4, KafkaKeeps, Zenon

\* The task of a request goes on; one that collects has no emission left.
LEMMA TaskStep ==
  ASSUME KafkaSinkInv, NEW r \in Caller, NEW l \in {"send", "inflight", "collect", "done"}, K!TaskAt(r, l),
         UNCHANGED <<state, request, stop>>, task[r] \notin {"none", "done"} \/ ~Resting(r),
         task[r] = "collect" => K!Emitted(r) = {}
  PROVE  KafkaSinkInv'
<1>1. KafkaType'
  BY Zenon DEF KafkaSinkInv, KafkaType, K!TaskAt
<1>2. \A q \in Caller : task'[q] = IF q = r THEN l ELSE task[q]
  BY Zenon DEF KafkaSinkInv, KafkaType, K!TaskAt
<1>3. ASSUME NEW q \in Caller, ~Resting(q)', request'[q].parent # None
      PROVE  /\ task'[request'[q].parent] = "collect"
             /\ request'[request'[q].parent].root = request'[q].root
  <2>1. ~Resting(q) /\ request[q].parent \in Caller
    BY <1>3, Zenon DEF KafkaSinkInv, KafkaType, RequestRecord, Resting
  <2>2. task[request[q].parent] = "collect" /\ request[request[q].parent].root = request[q].root
    BY <1>3, <2>1, Zenon DEF KafkaSinkInv, KafkaLinks
  <2>3. request[q].parent # r
    BY <2>1, <2>2, Zenon DEF K!Emitted, Resting
  <2> QED
    BY <1>2, <2>1, <2>2, <2>3, Zenon
<1>4. request[r].pc # "idle"
  BY Zenon DEF KafkaSinkInv, KafkaLinks, Resting
<1>5. KafkaLinks'
  <2>1. \A q \in Caller : request'[q].pc = "idle" => request'[q].root = None /\ task'[q] = "none"
    BY <1>2, <1>4 DEF KafkaSinkInv, KafkaLinks
  <2>2. /\ \A q \in Caller : request'[q].pc # "idle" /\ request'[q].parent = None => request'[q].root = q
        /\ \A q \in stop'.early : request'[q].pc = "over"
    BY Zenon DEF KafkaSinkInv, KafkaLinks
  <2> QED
    BY <1>3, <2>1, <2>2, Zenon DEF KafkaLinks
<1>6. Waited => request'[r].root \notin stop.early
  BY EarlyRests, Zenon DEF Early
<1> QED
  BY <1>1, <1>2, <1>5, <1>6, KafkaKeeps, Zenon

\* Start, and the steps of stop.
LEMMA LifeStep ==
  ASSUME KafkaSinkInv, K!Start \/ K!StopBegin \/ K!CancelStop \/ K!StopStep
  PROVE  KafkaSinkInv'
<1>1. UNCHANGED <<request, task>>
  BY Zenon DEF K!Start, K!StopBegin, K!CancelStop, K!StopStep, K!StopWait, K!StopFlush
<1>2. ASSUME stop'.early = stop.early PROVE KafkaLinks'
  BY <1>1, <1>2, Zenon DEF KafkaSinkInv, KafkaLinks, Resting
<1>3. CASE K!Start
  <2>1. state = 0 /\ state' # 3 /\ UNCHANGED stop
    BY <1>3 DEF K!Start
  <2> QED
    BY <1>1, <1>2, <2>1 DEF KafkaSinkInv, KafkaType, KafkaClean, Waited, Early
<1>4. CASE K!StopBegin
  <2> DEFINE over == {r \in Caller : request[r].pc = "over"}
  <2>1. /\ stop' = [pc |-> IF state = 3 THEN "ok" ELSE "wait", cancelled |-> FALSE,
                    calls |-> stop.calls + 1, early |-> over]
        /\ state' = 3
    BY <1>4, Zenon DEF K!StopBegin
  <2>2. over \in SUBSET Caller /\ \A r \in over : request[r].pc = "over"
    BY Zenon
  <2> HIDE DEF over
  <2>3. stop.calls \in Nat
    BY Zenon DEF KafkaSinkInv, KafkaType, StopRecord
  <2>4. /\ stop' \in StopRecord /\ stop'.early = over
        /\ stop'.pc # "none" /\ stop'.calls = stop.calls + 1 /\ stop'.pc # "flush"
        /\ stop'.pc = "ok" => state = 3
    BY <2>1, <2>2, <2>3 DEF StopRecord
  <2>5. stop'.calls # 0 /\ (stop'.pc = "ok" => stop'.calls # 1)
    BY <2>3, <2>4 DEF KafkaSinkInv
  <2>6. KafkaLinks'
    BY <1>1, <2>2, <2>4, Zenon DEF KafkaSinkInv, KafkaLinks, Resting
  <2>7. KafkaClean' /\ KafkaType'
    BY <1>1, <2>4, <2>5, Zenon DEF KafkaSinkInv, KafkaType, KafkaClean, Waited
  <2> QED
    BY <2>1, <2>4, <2>5, <2>6, <2>7, Zenon DEF KafkaSinkInv
<1>5. CASE K!CancelStop \/ K!StopStep
  <2>1. /\ UNCHANGED state
        /\ \/ stop' = [stop EXCEPT !.cancelled = TRUE]
           \/ \E l \in {"flush", "ok", "cancelled"} : stop' = [stop EXCEPT !.pc = l]
    BY <1>5, Zenon DEF K!CancelStop, K!StopStep, K!StopWait, K!StopFlush, K!StopAt, K!lifeVars
  <2>2. stop' \in StopRecord /\ stop'.calls = stop.calls /\ stop'.early = stop.early
    BY <2>1, Zenon DEF KafkaSinkInv, KafkaType, StopRecord
  <2>3. stop.pc # "none" /\ stop'.pc # "none"
    BY <1>5, <2>1, Zenon DEF K!CancelStop, K!StopStep, K!StopWait, K!StopFlush, KafkaSinkInv, KafkaType, StopRecord
  <2>4. stop'.pc \in {"flush", "ok"} => K!Tracked = {} \/ stop.pc = "flush" \/ (stop'.pc = stop.pc)
    BY <1>5, <2>1, Zenon DEF K!CancelStop, K!StopStep, K!StopWait, K!StopFlush, K!StopAt, KafkaSinkInv, KafkaType, StopRecord
  <2>5. ASSUME K!Tracked = {} PROVE \A r \in Caller : task[r] \in {"none", "done"}
    BY <2>5 DEF KafkaSinkInv, KafkaType, K!Tracked
  <2>6. KafkaClean'
    BY <1>1, <2>2, <2>4, <2>5, Zenon DEF KafkaSinkInv, KafkaClean, Waited, Early
  <2>7. KafkaType' /\ KafkaLinks'
    BY <1>1, <1>2, <2>2, Zenon DEF KafkaSinkInv, KafkaType
  <2> QED
    BY <2>1, <2>2, <2>3, <2>6, <2>7, Zenon DEF KafkaSinkInv
<1> QED
  BY <1>3, <1>4, <1>5

LEMMA KafkaStep == ASSUME KafkaSinkInv, K!Next PROVE KafkaSinkInv'
<1>1. CASE K!Start \/ K!StopBegin \/ K!CancelStop \/ K!StopStep
  BY <1>1, LifeStep, Zenon
<1>2. ASSUME NEW r \in Caller, K!Arrive(r) PROVE KafkaSinkInv'
  BY <1>2, ConsumeStep, Zenon DEF K!Arrive
<1>3. ASSUME NEW r \in Caller, K!EmitResult(r) PROVE KafkaSinkInv'
  <2>1. PICK q \in Caller : task[q] = "collect" /\ K!Consume(r, q)
    BY <1>3, Zenon DEF K!EmitResult
  <2>2. q # None
    BY SinksAssumption, Zenon
  <2> QED
    BY <2>1, <2>2, ConsumeStep, Zenon
<1>4. ASSUME NEW r \in Caller, K!Send(r) PROVE KafkaSinkInv'
  BY <1>4, TaskStep, Zenon DEF K!Send, K!lifeVars, Resting
<1>5. ASSUME NEW r \in Caller, K!SendSync(r) \/ K!EndRequest(r) PROVE KafkaSinkInv'
  BY <1>5, RequestGoesOn, Zenon DEF K!SendSync, K!EndRequest, K!lifeVars, Resting
<1>6. ASSUME NEW r \in Caller, K!TaskSend(r) \/ K!Collected(r) PROVE KafkaSinkInv'
  BY <1>6, TaskStep, Zenon DEF K!TaskSend, K!Collected, K!lifeVars
<1>7. ASSUME NEW r \in Caller, K!Deliver(r) PROVE KafkaSinkInv'
  BY <1>7, TaskStep, RequestGoesOn, Zenon DEF K!Deliver, K!lifeVars, Resting
<1> QED
  BY <1>1, <1>2, <1>3, <1>4, <1>5, <1>6, <1>7, Zenon DEF K!Next, K!TaskStep

LEMMA KafkaGives == ASSUME KafkaSinkInv PROVE SinkStopDrains
<1> SUFFICES ASSUME stop.pc = "ok", stop.calls = 1, NEW r \in Caller, request[r].root \in stop.early
             PROVE  r \notin K!Tracked \cup K!InFlight
  BY Zenon DEF SinkStopDrains, K!SinkStopDrains
<1>1. Resting(r) /\ task[r] \in {"none", "done"}
  BY EarlyRests, Zenon DEF Waited, Early
<1> QED
  BY <1>1 DEF K!Tracked, K!InFlight, Resting
-----------------------------------------------------------------------------
(* The sessions of a streaming sink.                                       *)

CellState == {"unused", "empty", "init", "ready", "failed"}
SessionTask == {"none", "recv", "respond", "wait", "close", "write", "writeResponse", "end", "ended"}
CallerPc == {"idle", "join", "init", "pop", "admit", "locked", "handler"}

SessionRecord == [done : BOOLEAN, cancelled : BOOLEAN, finished : BOOLEAN,
                  task : SessionTask, closer : {"none", "wait", "closed"}]
CallerRecord == [pc : CallerPc, cell : S!Cell \cup {None}, parent : Caller \cup S!Cell \cup {None}]

SessionType ==
  /\ pending \in S!Cell \cup {None}
  /\ cell \in [S!Cell -> CellState]
  /\ session \in [S!Cell -> SessionRecord]
  /\ caller \in [Caller -> CallerRecord]

\* A call that is not idle has a cell; one call initialises it; a call removes
\* a cell only after its initialiser has failed.
CellInv ==
  /\ \A p \in Caller : caller[p].pc # "idle" => caller[p].cell \in S!Cell
  /\ \A p \in Caller : caller[p].pc = "init" => cell[caller[p].cell] = "init"
  /\ \A p \in Caller : caller[p].pc = "pop" => cell[caller[p].cell] = "failed"
  /\ \A p, q \in Caller : /\ caller[p].pc = "init" /\ caller[q].pc = "init"
                          /\ caller[p].cell = caller[q].cell
                          => p = q
  /\ \A c \in S!Cell : cell[c] # "ready" => session[c].task = "none"
  /\ S!SessionOwnsId

\* The session's last callbacks come after finished, and after the calls that
\* were admitted before it.
Last(c) == session[c].task \in {"end", "ended"} \/ (part = "client" /\ session[c].task = "respond")

DrainInv ==
  \A c \in S!Cell :
    /\ session[c].task \in {"close", "write", "writeResponse"} => session[c].finished
    /\ Last(c) => session[c].finished /\ S!Readers(c) = {}

SessionInv == SessionType /\ CellInv /\ DrainInv

LEMMA SessionInit == ASSUME S!InitState PROVE SessionInv
<1>1. /\ \A p \in Caller : caller[p] = [pc |-> "idle", cell |-> None, parent |-> None]
      /\ caller \in [Caller -> CallerRecord]
  BY Zenon DEF S!InitState, S!Idle, CallerPc, CallerRecord
<1>2. /\ \A c \in S!Cell : session[c].task = "none"
      /\ session \in [S!Cell -> SessionRecord]
  BY Zenon DEF S!InitState, SessionTask, SessionRecord
<1>3. SessionType
  BY <1>1, <1>2, Zenon DEF S!InitState, SessionType, CellState
<1>4. \A p \in Caller : caller[p].pc = "idle"
  BY <1>1
<1>5. CellInv
  BY <1>2, <1>4, Zenon DEF S!InitState, CellInv, S!SessionOwnsId
<1>6. DrainInv
  BY <1>2, Zenon DEF DrainInv, Last
<1> QED
  BY <1>3, <1>5, <1>6, Zenon DEF SessionInv

LEMMA SessionFrame == ASSUME SessionInv, UNCHANGED <<part, sessionVars>> PROVE SessionInv'
<1>1. UNCHANGED <<part, pending, cell, session, caller>>
  BY Zenon DEF sessionVars
<1>2. SessionType'
  BY <1>1, Zenon DEF SessionInv, SessionType
<1>3. CellInv'
  BY <1>1, Zenon DEF SessionInv, CellInv, S!SessionOwnsId
<1>4. DrainInv'
  BY <1>1, Zenon DEF SessionInv, DrainInv, Last, S!Readers
<1> QED
  BY <1>2, <1>3, <1>4 DEF SessionInv

\* A call goes on in its cell, or returns.
LEMMA AtFacts ==
  ASSUME SessionInv, NEW p \in Caller, NEW l \in CallerPc, S!At(p, l)
  PROVE  /\ caller' \in [Caller -> CallerRecord]
         /\ \A q \in Caller : /\ caller'[q].cell = caller[q].cell
                              /\ caller'[q].pc = IF q = p THEN l ELSE caller[q].pc
BY DEF S!At, SessionInv, SessionType, CallerRecord

LEMMA ReturnFacts ==
  ASSUME SessionInv, NEW p \in Caller, S!Return(p)
  PROVE  /\ caller' \in [Caller -> CallerRecord]
         /\ caller'[p].pc = "idle"
         /\ \A q \in Caller : q # p => caller'[q].cell = caller[q].cell /\ caller'[q].pc = caller[q].pc
<1>1. S!Idle \in CallerRecord
      /\ S!Idle.pc = "idle"
  BY Zenon DEF S!Idle, CallerPc, CallerRecord
<1> QED
  BY <1>1, Zenon DEF S!Return, SessionInv, SessionType

\* A step that leaves the cells alone, and of the sessions what the calls look at.
LEMMA CallerOnly ==
  ASSUME SessionInv, SessionType', UNCHANGED <<part, pending, cell>>,
         \A c \in S!Cell : session'[c].task = session[c].task /\ session'[c].finished = session[c].finished,
         \A q \in Caller :
           \/ caller'[q].cell = caller[q].cell /\ caller'[q].pc = caller[q].pc
           \/ caller'[q].pc = "idle"
           \/ /\ caller'[q].cell \in S!Cell /\ caller'[q].pc # "init"
              /\ caller'[q].pc = "pop" => cell[caller'[q].cell] = "failed"
              /\ caller'[q].pc \in {"locked", "handler"} => ~session[caller'[q].cell].finished
  PROVE  SessionInv'
<1>1. CellInv'
  BY DEF SessionInv, CellInv, S!SessionOwnsId
<1>2. ASSUME NEW c \in S!Cell, Last(c)' PROVE session'[c].finished /\ S!Readers(c)' = {}
  <2>1. session[c].finished /\ S!Readers(c) = {}
    BY <1>2, Zenon DEF SessionInv, DrainInv, Last
  <2>2. \A q \in Caller : ~(caller'[q].cell = c /\ caller'[q].pc \in {"locked", "handler"})
    BY <2>1 DEF S!Readers
  <2> QED
    BY <2>1, <2>2, Zenon DEF S!Readers
<1>3. DrainInv'
  BY <1>2, Zenon DEF SessionInv, DrainInv
<1> QED
  BY <1>1, <1>3, Zenon DEF SessionInv

LEMMA CallerMoves ==
  ASSUME SessionInv, NEW p \in Caller, NEW l \in CallerPc \ {"init"}, S!At(p, l),
         UNCHANGED <<part, pending, cell, session>>, caller[p].cell \in S!Cell,
         l = "pop" => cell[caller[p].cell] = "failed",
         l \in {"locked", "handler"} => ~session[caller[p].cell].finished
  PROVE  SessionInv'
<1>1. SessionType'
  BY AtFacts, Zenon DEF SessionInv, SessionType
<1> QED
  BY <1>1, AtFacts, CallerOnly

LEMMA AdmitSteps ==
  ASSUME SessionInv, NEW p \in Caller,
         S!Joined(p) \/ S!Reject(p) \/ S!ReadLock(p) \/ S!Enter(p)
  PROVE  SessionInv'
<1>1. UNCHANGED <<part, pending, cell, session>>
  BY Zenon DEF S!Joined, S!Reject, S!ReadLock, S!Enter
<1>2. caller[p].pc # "idle" /\ caller[p].cell \in S!Cell
  BY Zenon DEF S!Joined, S!Reject, S!ReadLock, S!Enter, SessionInv, CellInv
<1>3. CASE S!Return(p)
  <2>1. SessionType'
    BY <1>1, <1>3, ReturnFacts, Zenon DEF SessionInv, SessionType
  <2> QED
    BY <1>1, <1>3, <2>1, ReturnFacts, CallerOnly, Zenon
<1>4. CASE S!Joined(p)
  <2>1. PICK l \in {"admit", "pop"} : S!At(p, l) /\ (l = "pop" => cell[caller[p].cell] = "failed")
    BY <1>4, Zenon DEF S!Joined
  <2>2. l \in CallerPc \ {"init"}
    BY Zenon DEF CallerPc
  <2> QED
    BY <1>1, <1>2, <2>1, <2>2, CallerMoves
<1>5. CASE S!ReadLock(p) \/ (S!Enter(p) /\ ~S!Return(p))
  <2>1. PICK l \in {"locked", "handler"} : S!At(p, l) /\ ~session[caller[p].cell].finished
    BY <1>5, Zenon DEF S!ReadLock, S!Enter
  <2>2. l \in CallerPc \ {"init"}
    BY Zenon DEF CallerPc
  <2> QED
    BY <1>1, <1>2, <2>1, <2>2, CallerMoves
<1> QED
  BY <1>3, <1>4, <1>5, Zenon DEF S!Reject

\* A session goes on.
LEMMA SessionOnly ==
  ASSUME SessionInv, NEW c \in S!Cell, UNCHANGED <<part, cell, caller>>, cell[c] = "ready",
         pending' \in S!Cell \cup {None}, S!SessionOwnsId',
         session' \in [S!Cell -> SessionRecord],
         \A d \in S!Cell : d # c => session'[d] = session[d],
         session'[c].task \in {"close", "write", "writeResponse"} => session'[c].finished,
         Last(c)' => session'[c].finished /\ S!Readers(c) = {}
  PROVE  SessionInv'
<1>1. SessionType'
  BY Zenon DEF SessionInv, SessionType
<1>2. CellInv'
  BY DEF SessionInv, CellInv
<1>3. \A d \in S!Cell : S!Readers(d)' = S!Readers(d)
  BY Zenon DEF S!Readers
<1>4. DrainInv'
  BY <1>3, Zenon DEF SessionInv, DrainInv, Last
<1> QED
  BY <1>1, <1>2, <1>4, Zenon DEF SessionInv

\* The task of a session that is not over goes on, with finished or without.
LEMMA SessionTaskStep ==
  ASSUME SessionInv, NEW c \in S!Cell, UNCHANGED <<part, pending, cell, caller>>,
         session[c].task \notin {"none", "ended"}, NEW l \in SessionTask \ {"none", "ended"},
         S!TaskAt(c, l) \/ S!Finish(c, l),
         l \in {"close", "write", "writeResponse", "end"} \/ (part = "client" /\ l = "respond")
           => session[c].finished \/ S!Finish(c, l),
         l = "end" \/ (part = "client" /\ l = "respond") => S!Readers(c) = {}
  PROVE  SessionInv'
<1>1. /\ session' \in [S!Cell -> SessionRecord]
      /\ session'[c].task = l /\ (session[c].finished => session'[c].finished)
      /\ (S!Finish(c, l) => session'[c].finished)
      /\ \A d \in S!Cell : d # c => session'[d] = session[d]
  <2>1. CASE S!TaskAt(c, l)
    BY <2>1 DEF S!TaskAt, S!Finish, SessionInv, SessionType, SessionRecord
  <2>2. CASE S!Finish(c, l)
    <3> DEFINE mid == [session EXCEPT ![c].finished = TRUE]
    <3>1. /\ mid \in [S!Cell -> SessionRecord] /\ mid[c].finished
          /\ \A d \in S!Cell : d # c => mid[d] = session[d]
      BY Zenon DEF SessionInv, SessionType, SessionRecord
    <3>2. session' = [mid EXCEPT ![c].task = l]
      BY <2>2, Zenon DEF S!Finish
    <3> HIDE DEF mid
    <3> QED
      BY <3>1, <3>2 DEF SessionRecord
  <2> QED
    BY <2>1, <2>2, Zenon
<1>2. cell[c] = "ready"
  BY Zenon DEF SessionInv, CellInv
<1>3. S!SessionOwnsId'
  BY <1>1, <1>2 DEF SessionInv, CellInv, S!SessionOwnsId
<1>4. pending' \in S!Cell \cup {None}
  BY Zenon DEF SessionInv, SessionType
<1> QED
  BY <1>1, <1>2, <1>3, <1>4, SessionOnly, Zenon DEF Last

\* A flag of a session that the calls do not look at is set.
LEMMA FlagFacts ==
  ASSUME SessionInv, NEW c \in S!Cell,
         \/ session' = [session EXCEPT ![c].done = TRUE]
         \/ session' = [session EXCEPT ![c].cancelled = TRUE]
         \/ session' = [session EXCEPT ![c].closer = "closed"]
  PROVE  /\ session' \in [S!Cell -> SessionRecord]
         /\ \A d \in S!Cell : session'[d].task = session[d].task /\ session'[d].finished = session[d].finished
<1> DEFINE Flagged(s) == {[s EXCEPT !.done = TRUE], [s EXCEPT !.cancelled = TRUE], [s EXCEPT !.closer = "closed"]}
<1>1. ASSUME NEW s \in SessionRecord, NEW t \in Flagged(s)
      PROVE  t \in SessionRecord /\ t.task = s.task /\ t.finished = s.finished
  <2>1. CASE t = [s EXCEPT !.done = TRUE]
    BY <2>1, Zenon DEF SessionRecord
  <2>2. CASE t = [s EXCEPT !.cancelled = TRUE]
    BY <2>2, Zenon DEF SessionRecord
  <2>3. CASE t = [s EXCEPT !.closer = "closed"]
    BY <2>3 DEF SessionRecord
  <2> QED
    BY <2>1, <2>2, <2>3
<1>2. PICK t \in Flagged(session[c]) : session' = [session EXCEPT ![c] = t]
  OBVIOUS
<1>3. session \in [S!Cell -> SessionRecord]
  BY DEF SessionInv, SessionType
<1>4. t \in SessionRecord /\ t.task = session[c].task /\ t.finished = session[c].finished
  BY <1>1, <1>2, <1>3, ZenonT(40)
<1> QED
  BY <1>2, <1>3, <1>4, Zenon

LEMMA FlagSteps ==
  ASSUME SessionInv, NEW c \in S!Cell, S!Done(c) \/ S!Cancel(c) \/ S!CloseSend(c)
  PROVE  SessionInv'
<1>1. UNCHANGED <<part, pending, cell, caller>>
  BY Zenon DEF S!Done, S!Cancel, S!CloseSend
<1>2. /\ session' \in [S!Cell -> SessionRecord]
      /\ \A d \in S!Cell : session'[d].task = session[d].task /\ session'[d].finished = session[d].finished
  BY FlagFacts, Zenon DEF S!Done, S!Cancel, S!CloseSend
<1>3. SessionType'
  BY <1>1, <1>2, Zenon DEF SessionInv, SessionType
<1> QED
  BY <1>1, <1>2, <1>3, CallerOnly, Zenon

LEMMA HandledStep == ASSUME SessionInv, NEW p \in Caller, S!Handled(p) PROVE SessionInv'
<1>1. UNCHANGED <<part, pending, cell>> /\ S!Return(p) /\ caller[p].cell \in S!Cell
  BY Zenon DEF S!Handled, SessionInv, CellInv
<1>2. /\ session' \in [S!Cell -> SessionRecord]
      /\ \A d \in S!Cell : session'[d].task = session[d].task /\ session'[d].finished = session[d].finished
  <2>1. CASE UNCHANGED session
    BY <2>1, Zenon DEF SessionInv, SessionType
  <2>2. CASE session' = [session EXCEPT ![caller[p].cell].done = TRUE]
    BY <1>1, <2>2, FlagFacts, Zenon
  <2> QED
    BY <2>1, <2>2, Zenon DEF S!Handled
<1>3. SessionType'
  BY <1>1, <1>2, ReturnFacts, Zenon DEF SessionInv, SessionType
<1> QED
  BY <1>1, <1>2, <1>3, ReturnFacts, CallerOnly, Zenon

\* get_or_create.
LEMMA ConsumeSession ==
  ASSUME SessionInv, NEW p \in Caller, NEW x \in Caller \cup S!Cell \cup {None}, S!Consume(p, x)
  PROVE  SessionInv'
<1>1. UNCHANGED <<part, session>>
  BY Zenon DEF S!Consume
<1>2. PICK c \in S!Cell :
        /\ caller' = [caller EXCEPT ![p] = [pc |-> "join", cell |-> c, parent |-> x]]
        /\ \/ pending = c /\ UNCHANGED <<pending, cell>>
           \/ pending = None /\ pending' = c /\ cell[c] = "unused" /\ cell' = [cell EXCEPT ![c] = "empty"]
  BY Zenon DEF S!Consume, SessionInv, SessionType
<1>3. /\ caller' \in [Caller -> CallerRecord]
      /\ caller'[p].pc = "join" /\ caller'[p].cell = c
      /\ \A q \in Caller : q # p => caller'[q].cell = caller[q].cell /\ caller'[q].pc = caller[q].pc
  BY <1>2, Zenon DEF SessionInv, SessionType, CallerRecord, CallerPc
<1>4. CASE pending = c /\ UNCHANGED <<pending, cell>>
  <2>1. SessionType'
    BY <1>1, <1>3, <1>4 DEF SessionInv, SessionType
  <2> QED
    BY <1>1, <1>3, <1>4, <2>1, CallerOnly
<1>5. CASE pending = None /\ pending' = c /\ cell[c] = "unused" /\ cell' = [cell EXCEPT ![c] = "empty"]
  <2>1. /\ cell' \in [S!Cell -> CellState]
        /\ \A d \in S!Cell : cell'[d] = IF d = c THEN "empty" ELSE cell[d]
    BY <1>5, Zenon DEF SessionInv, SessionType, CellState
  <2>2. SessionType'
    BY <1>1, <1>3, <1>5, <2>1 DEF SessionInv, SessionType
  <2>3. S!SessionOwnsId'
    <3>1. \A d \in S!Cell : pending # d
      BY <1>5, SinksAssumption, Zenon DEF S!Cell
    <3> QED
      BY <1>1, <1>5, <2>1, <3>1 DEF S!SessionOwnsId, SessionInv, CellInv
  <2>4. \A d \in S!Cell : cell'[d] # "ready" => session'[d].task = "none"
    BY <1>1, <1>5, <2>1, Zenon DEF SessionInv, CellInv
  <2>5. CellInv'
    BY <1>3, <1>5, <2>1, <2>3, <2>4 DEF SessionInv, CellInv
  <2>6. DrainInv'
    <3>1. \A d \in S!Cell : S!Readers(d)' \subseteq S!Readers(d)
      BY <1>3, Zenon DEF S!Readers
    <3> QED
      BY <1>1, <3>1, Zenon DEF SessionInv, DrainInv, Last
  <2> QED
    BY <2>2, <2>5, <2>6 DEF SessionInv
<1> QED
  BY <1>2, <1>4, <1>5, Zenon

\* get_or_init begins.
LEMMA InitialiseStep == ASSUME SessionInv, NEW p \in Caller, S!Initialise(p) PROVE SessionInv'
<1> DEFINE c == caller[p].cell
<1>1. /\ caller[p].pc = "join" /\ cell[c] = "empty" /\ cell' = [cell EXCEPT ![c] = "init"] /\ S!At(p, "init")
      /\ UNCHANGED <<part, pending, session>>
  BY Zenon DEF S!Initialise
<1>2. c \in S!Cell /\ "init" \in CallerPc
  BY <1>1, Zenon DEF SessionInv, CellInv, CallerPc
<1>3. /\ caller' \in [Caller -> CallerRecord]
      /\ \A q \in Caller : /\ caller'[q].cell = caller[q].cell
                           /\ caller'[q].pc = IF q = p THEN "init" ELSE caller[q].pc
  BY <1>1, <1>2, AtFacts, Zenon
<1>4. /\ cell' \in [S!Cell -> CellState]
      /\ \A d \in S!Cell : cell'[d] = IF d = c THEN "init" ELSE cell[d]
  BY <1>1, <1>2, Zenon DEF SessionInv, SessionType, CellState
<1>5. SessionType'
  BY <1>1, <1>3, <1>4, Zenon DEF SessionInv, SessionType
<1>6. S!SessionOwnsId'
  BY <1>1, <1>2, <1>4 DEF S!SessionOwnsId, SessionInv, CellInv
<1>7. \A q \in Caller : caller[q].pc = "init" => caller[q].cell # c
  BY <1>1, Zenon DEF SessionInv, CellInv
<1>8. CellInv'
  <2>1. \A d \in S!Cell : cell'[d] # "ready" => session'[d].task = "none"
    BY <1>1, <1>4, Zenon DEF SessionInv, CellInv
  <2>2. \A q \in Caller : caller'[q].pc # "idle" => caller'[q].cell \in S!Cell
    BY <1>2, <1>3, Zenon DEF SessionInv, CellInv
  <2>3. \A q \in Caller : /\ caller'[q].pc = "init" => cell'[caller'[q].cell] = "init"
                          /\ caller'[q].pc = "pop" => cell'[caller'[q].cell] = "failed"
    BY <1>1, <1>2, <1>3, <1>4 DEF SessionInv, CellInv
  <2>4. \A q, r \in Caller : /\ caller'[q].pc = "init" /\ caller'[r].pc = "init"
                             /\ caller'[q].cell = caller'[r].cell
                             => q = r
    BY <1>3, <1>7 DEF SessionInv, CellInv
  <2> QED
    BY <1>6, <2>1, <2>2, <2>3, <2>4, Zenon DEF CellInv
<1>9. DrainInv'
  <2>1. \A d \in S!Cell : S!Readers(d)' \subseteq S!Readers(d)
    BY <1>3, Zenon DEF S!Readers
  <2> QED
    BY <1>1, <2>1, Zenon DEF SessionInv, DrainInv, Last
<1> QED
  BY <1>5, <1>8, <1>9, Zenon DEF SessionInv

\* The initialiser ends: the call is open, has failed, or was given up.
LEMMA InitialiserEnds ==
  ASSUME SessionInv, NEW p \in Caller, caller[p].pc = "init", NEW v \in {"empty", "failed", "ready"},
         cell' = [cell EXCEPT ![caller[p].cell] = v], UNCHANGED <<part, pending>>,
         caller' \in [Caller -> CallerRecord],
         \A q \in Caller : q # p => caller'[q].cell = caller[q].cell /\ caller'[q].pc = caller[q].pc,
         \/ caller'[p].pc = "idle"
         \/ /\ caller'[p].cell = caller[p].cell /\ caller'[p].pc \in {"pop", "admit"}
            /\ caller'[p].pc = "pop" => v = "failed",
         session' \in [S!Cell -> SessionRecord],
         \A d \in S!Cell : d # caller[p].cell => session'[d] = session[d],
         session'[caller[p].cell].task \in (IF v = "ready" THEN {"recv", "wait"} ELSE {"none"})
  PROVE  SessionInv'
<1> DEFINE c == caller[p].cell
<1>1. c \in S!Cell /\ cell[c] = "init" /\ pending = c
  BY Zenon DEF SessionInv, CellInv, S!SessionOwnsId
<1>2. /\ cell' \in [S!Cell -> CellState]
      /\ \A d \in S!Cell : cell'[d] = IF d = c THEN v ELSE cell[d]
  BY <1>1, Zenon DEF SessionInv, SessionType, CellState
<1>3. SessionType'
  BY <1>2, Zenon DEF SessionInv, SessionType
<1>4. S!SessionOwnsId'
  BY <1>1, <1>2 DEF S!SessionOwnsId, SessionInv, CellInv
<1>5. \A q \in Caller : q # p /\ caller[q].pc = "init" => caller[q].cell # c
  BY Zenon DEF SessionInv, CellInv
<1>6. CellInv'
  <2>1. \A d \in S!Cell : cell'[d] # "ready" => session'[d].task = "none"
    BY <1>2 DEF SessionInv, CellInv
  <2>2. \A q \in Caller : caller'[q].pc # "idle" => caller'[q].cell \in S!Cell
    BY <1>1 DEF SessionInv, CellInv
  <2>3. \A q \in Caller : /\ caller'[q].pc = "init" => cell'[caller'[q].cell] = "init"
                          /\ caller'[q].pc = "pop" => cell'[caller'[q].cell] = "failed"
    BY <1>1, <1>2, <1>5, <2>2 DEF SessionInv, CellInv
  <2>4. \A q, r \in Caller : /\ caller'[q].pc = "init" /\ caller'[r].pc = "init"
                             /\ caller'[q].cell = caller'[r].cell
                             => q = r
    BY DEF SessionInv, CellInv
  <2> QED
    BY <1>4, <2>1, <2>2, <2>3, <2>4, Zenon DEF CellInv
<1>7. DrainInv'
  <2>1. \A d \in S!Cell : S!Readers(d)' \subseteq S!Readers(d)
    BY Zenon DEF S!Readers
  <2>2. session'[c].task \in {"recv", "wait", "none"}
    BY Zenon
  <2>3. \A d \in S!Cell : d # c => (Last(d)' <=> Last(d))
    BY Zenon DEF Last
  <2> QED
    BY <2>1, <2>2, <2>3, Zenon DEF SessionInv, DrainInv, Last
<1> QED
  BY <1>3, <1>6, <1>7 DEF SessionInv

LEMMA OpenSteps ==
  ASSUME SessionInv, NEW p \in Caller, S!OpenFails(p) \/ S!Open(p)
  PROVE  SessionInv'
<1> DEFINE c == caller[p].cell
<1>1. /\ caller[p].pc = "init" /\ c \in S!Cell /\ session[c].task = "none"
      /\ session \in [S!Cell -> SessionRecord]
      /\ UNCHANGED <<part, pending>> /\ {"pop", "admit"} \subseteq CallerPc
  BY Zenon DEF S!OpenFails, S!Open, SessionInv, SessionType, CellInv, CallerPc
<1>2. CASE S!OpenFails(p)
  <2>1. S!At(p, "pop") /\ cell' = [cell EXCEPT ![caller[p].cell] = "failed"] /\ UNCHANGED session
    BY <1>2, Zenon DEF S!OpenFails
  <2> QED
    BY <1>1, <2>1, AtFacts, InitialiserEnds, Zenon
<1>3. CASE S!Open(p)
  <2>1. /\ S!At(p, "admit") /\ cell' = [cell EXCEPT ![caller[p].cell] = "ready"]
        /\ session' = [session EXCEPT ![c].task = IF part = "bidi" THEN "recv" ELSE "wait",
                                      ![c].closer = IF part = "bidi" THEN "wait" ELSE "none"]
    BY <1>3, Zenon DEF S!Open
  <2>2. PICK t \in {"recv", "wait"}, k \in {"none", "wait"} :
          session' = [session EXCEPT ![c].task = t, ![c].closer = k]
    BY <2>1, Zenon
  <2> DEFINE mid == [session EXCEPT ![c].task = t]
  <2>3. /\ mid \in [S!Cell -> SessionRecord] /\ mid[c].task = t
        /\ \A d \in S!Cell : d # c => mid[d] = session[d]
    BY <1>1 DEF SessionRecord, SessionTask
  <2>4. session' = [mid EXCEPT ![c].closer = k]
    BY <2>2, Zenon
  <2> HIDE DEF mid
  <2>5. /\ session' \in [S!Cell -> SessionRecord] /\ session'[c].task = t
        /\ \A d \in S!Cell : d # c => session'[d] = session[d]
    BY <1>1, <2>3, <2>4 DEF SessionRecord
  <2>6. /\ caller' \in [Caller -> CallerRecord]
        /\ caller'[p].cell = caller[p].cell /\ caller'[p].pc = "admit"
        /\ \A q \in Caller : q # p => caller'[q].cell = caller[q].cell /\ caller'[q].pc = caller[q].pc
    BY <1>1, <2>1, AtFacts
  <2>7. /\ session'[c].task \in (IF "ready" = "ready" THEN {"recv", "wait"} ELSE {"none"})
        /\ caller'[p].pc = "pop" => "ready" = "failed"
    BY <2>5, <2>6, Zenon
  <2> QED
    BY <1>1, <2>1, <2>5, <2>6, <2>7, InitialiserEnds, Zenon
<1> QED
  BY <1>2, <1>3, Zenon

LEMMA AbandonStep == ASSUME SessionInv, NEW p \in Caller, S!Abandon(p) PROVE SessionInv'
<1>1. UNCHANGED <<part, pending, session>> /\ S!Return(p)
  BY Zenon DEF S!Abandon
<1>2. CASE caller[p].pc = "init"
  <2>1. cell' = [cell EXCEPT ![caller[p].cell] = "empty"]
    BY <1>2, Zenon DEF S!Abandon
  <2>2. session[caller[p].cell].task = "none" /\ session \in [S!Cell -> SessionRecord]
    BY <1>2 DEF SessionInv, SessionType, CellInv
  <2> QED
    BY <1>1, <1>2, <2>1, <2>2, ReturnFacts, InitialiserEnds, Zenon
<1>3. CASE caller[p].pc # "init"
  <2>1. UNCHANGED cell
    BY <1>3, Zenon DEF S!Abandon
  <2>2. SessionType'
    BY <1>1, <2>1, ReturnFacts DEF SessionInv, SessionType
  <2> QED
    BY <1>1, <2>1, <2>2, ReturnFacts, CallerOnly
<1> QED
  BY <1>2, <1>3, Zenon

\* pop_if takes only a cell whose initialiser has failed, so no session.
LEMMA PopStep == ASSUME SessionInv, NEW p \in Caller, S!PopFailed(p) PROVE SessionInv'
<1>1. /\ S!Return(p) /\ UNCHANGED <<part, cell, session>>
      /\ pending' = IF pending = caller[p].cell THEN None ELSE pending
      /\ cell[caller[p].cell] = "failed"
  BY Zenon DEF S!PopFailed, SessionInv, CellInv
<1>2. SessionType'
  BY <1>1, ReturnFacts DEF SessionInv, SessionType
<1>3. S!SessionOwnsId'
  BY <1>1, Zenon DEF S!SessionOwnsId, SessionInv, CellInv
<1>4. CellInv'
  BY <1>1, <1>3, ReturnFacts DEF SessionInv, CellInv
<1>5. DrainInv'
  <2>1. \A d \in S!Cell : S!Readers(d)' \subseteq S!Readers(d)
    BY ReturnFacts, <1>1, Zenon DEF S!Readers
  <2> QED
    BY <1>1, <2>1, Zenon DEF SessionInv, DrainInv, Last
<1> QED
  BY <1>2, <1>4, <1>5, Zenon DEF SessionInv

\* The tasks of a session up to end_request.
LEMMA TaskSteps ==
  ASSUME SessionInv, NEW c \in S!Cell,
         \/ part = "bidi" /\ (S!Respond(c) \/ S!PeerEnds(c))
         \/ part \in S!Kinds /\ (S!Responded(c) \/ S!Wake(c) \/ S!ClientClosed(c) \/ S!Drain(c))
  PROVE  SessionInv'
<1>1. UNCHANGED <<part, pending, cell, caller>>
  BY Zenon DEF S!Respond, S!PeerEnds, S!Responded, S!Wake, S!ClientClosed, S!Drain
<1>2. CASE part = "bidi" /\ S!Respond(c)
  <2>1. session[c].task = "recv" /\ S!TaskAt(c, "respond")
    BY <1>2, Zenon DEF S!Respond
  <2> QED
    BY <1>1, <1>2, <2>1, SessionTaskStep, Zenon DEF SessionTask
<1>3. CASE S!PeerEnds(c) \/ S!Wake(c)
  <2>1. PICK l \in {"write", "close"} : S!Finish(c, l) /\ session[c].task \in {"recv", "wait"}
    BY <1>3, Zenon DEF S!PeerEnds, S!Wake
  <2> QED
    BY <1>1, <2>1, SessionTaskStep, Zenon DEF SessionTask
<1>4. CASE part \in S!Kinds /\ S!Responded(c)
  <2>1. session[c].task = "respond"
    BY <1>4, Zenon DEF S!Responded
  <2>2. CASE part = "client"
    <3>1. S!TaskAt(c, "end") /\ session[c].finished /\ S!Readers(c) = {}
      BY <1>4, <2>1, <2>2, Zenon DEF S!Responded, SessionInv, DrainInv, Last
    <3> QED
      BY <1>1, <2>1, <3>1, SessionTaskStep, Zenon DEF SessionTask
  <2>3. CASE part = "bidi"
    <3>1. S!TaskAt(c, "recv") \/ S!Finish(c, "write")
      BY <1>4, <2>3, Zenon DEF S!Responded
    <3> QED
      BY <1>1, <2>1, <3>1, SessionTaskStep DEF SessionTask
  <2> QED
    BY <1>4, <2>2, <2>3, Zenon DEF S!Kinds
<1>5. CASE S!ClientClosed(c)
  <2>1. PICK l \in {"writeResponse", "write"} : S!TaskAt(c, l) /\ session[c].task = "close" /\ session[c].finished
    BY <1>5, Zenon DEF S!ClientClosed, SessionInv, DrainInv
  <2> QED
    BY <1>1, <2>1, SessionTaskStep DEF SessionTask
<1>6. CASE S!Drain(c)
  <2>1. PICK l \in {"end", "respond"} :
          /\ S!TaskAt(c, l) /\ session[c].task \in {"write", "writeResponse"}
          /\ session[c].finished /\ S!Readers(c) = {}
    BY <1>6, Zenon DEF S!Drain, SessionInv, DrainInv
  <2> QED
    BY <1>1, <2>1, SessionTaskStep DEF SessionTask
<1> QED
  BY <1>2, <1>3, <1>4, <1>5, <1>6, Zenon

LEMMA EndStep == ASSUME SessionInv, NEW c \in S!Cell, S!EndRequest(c) PROVE SessionInv'
<1>1. /\ session[c].task = "end" /\ UNCHANGED <<part, cell, caller>>
      /\ session' = [session EXCEPT ![c].task = "ended", ![c].done = FALSE, ![c].cancelled = FALSE]
      /\ pending' = IF pending = c THEN None ELSE pending
  BY Zenon DEF S!EndRequest
<1>2. /\ session' \in [S!Cell -> SessionRecord] /\ session'[c].task = "ended"
      /\ session'[c].finished = session[c].finished
      /\ \A d \in S!Cell : d # c => session'[d] = session[d]
  <2> DEFINE ended == [session EXCEPT ![c].task = "ended"]
             undone == [ended EXCEPT ![c].done = FALSE]
  <2>1. /\ ended \in [S!Cell -> SessionRecord] /\ ended[c].task = "ended"
        /\ ended[c].finished = session[c].finished
        /\ \A d \in S!Cell : d # c => ended[d] = session[d]
    BY DEF SessionInv, SessionType, SessionRecord, SessionTask
  <2>2. session' = [undone EXCEPT ![c].cancelled = FALSE]
    BY <1>1, Zenon
  <2> HIDE DEF ended
  <2>3. /\ undone \in [S!Cell -> SessionRecord] /\ undone[c].task = "ended"
        /\ undone[c].finished = session[c].finished
        /\ \A d \in S!Cell : d # c => undone[d] = session[d]
    BY <2>1, ZenonT(40) DEF SessionRecord
  <2> HIDE DEF undone
  <2> QED
    BY <2>2, <2>3, ZenonT(40) DEF SessionRecord
<1>3. cell[c] = "ready" /\ session[c].finished /\ S!Readers(c) = {}
  BY <1>1, Zenon DEF SessionInv, CellInv, DrainInv, Last
<1>4. S!SessionOwnsId'
  BY <1>1, <1>2, <1>3 DEF S!SessionOwnsId, SessionInv, CellInv
<1>5. pending' \in S!Cell \cup {None}
  BY <1>1, Zenon DEF SessionInv, SessionType
<1> QED
  BY <1>1, <1>2, <1>3, <1>4, <1>5, SessionOnly

LEMMA SessionStep == ASSUME SessionInv, part \in S!Kinds, S!Next PROVE SessionInv'
<1>1. ASSUME NEW p \in Caller, S!External(p) \/ S!Emit(p) PROVE SessionInv'
  BY <1>1, ConsumeSession, Zenon DEF S!External, S!Emit
<1>2. ASSUME NEW p \in Caller, S!CallerStep(p) \/ S!Abandon(p) PROVE SessionInv'
  BY <1>2, InitialiseStep, OpenSteps, AdmitSteps, PopStep, HandledStep, AbandonStep, Zenon DEF S!CallerStep
<1>3. ASSUME NEW c \in S!Cell, S!Done(c) \/ S!Cancel(c) \/ S!CloseSend(c) PROVE SessionInv'
  BY <1>3, FlagSteps, Zenon
<1>4. ASSUME NEW c \in S!Cell, part = "bidi", S!Respond(c) \/ S!PeerEnds(c) PROVE SessionInv'
  BY <1>4, TaskSteps, Zenon
<1>5. ASSUME NEW c \in S!Cell, S!TaskStep(c) PROVE SessionInv'
  BY <1>5, TaskSteps, EndStep, Zenon DEF S!TaskStep
<1> QED
  BY <1>1, <1>2, <1>3, <1>4, <1>5, Zenon
  DEF S!Next, S!BidiConsume, S!ClientConsume, S!BidiTasks, S!ClientFinalizer

LEMMA SessionGives == ASSUME SessionInv PROVE SessionExclusive
<1>1. S!SessionOwnsId
  BY Zenon DEF SessionInv, CellInv
<1>2. S!SessionDrained
  BY Zenon DEF SessionInv, DrainInv, Last, S!Readers, S!SessionDrained
<1> QED
  BY <1>1, <1>2, Zenon DEF SessionExclusive
-----------------------------------------------------------------------------
(* All of them.                                                            *)

Inv == SessionInv /\ BodyInv /\ KafkaSinkInv /\ SubInv

LEMMA SinksStep == ASSUME Inv, [SinksNext]_sinkVars PROVE Inv'
<1>1. CASE part \in S!Kinds /\ OfSession(S!Next)
  <2>1. SessionInv'
    BY <1>1, SessionStep, Zenon DEF Inv, OfSession
  <2> QED
    BY <1>1, <2>1, BodyFrame, KafkaFrame, SubFrame DEF Inv, OfSession
<1>2. CASE OfRequest(R!Next)
  <2>1. BodyInv'
    BY <1>2, BodyStep, Zenon DEF Inv, OfRequest
  <2> QED
    BY <1>2, <2>1, SessionFrame, KafkaFrame, SubFrame DEF Inv, OfRequest
<1>3. CASE OfKafka(K!Next)
  <2>1. KafkaSinkInv'
    BY <1>3, KafkaStep DEF Inv, OfKafka
  <2> QED
    BY <1>3, <2>1, SessionFrame, BodyFrame, SubFrame DEF Inv, OfKafka
<1>4. CASE OfSub(B!Next)
  <2>1. SubInv'
    BY <1>4, SubStep, Zenon DEF Inv, OfSub
  <2> QED
    BY <1>4, <2>1, SessionFrame, BodyFrame, KafkaFrame DEF Inv, OfSub
<1>5. CASE UNCHANGED sinkVars
  BY <1>5, SessionFrame, BodyFrame, KafkaFrame, SubFrame DEF Inv, sinkVars
<1> QED
  BY <1>1, <1>2, <1>3, <1>4, <1>5 DEF SinksNext

\* The invariants of the four parts hold in every state of every one of them.
THEOREM SinksInv == SinksSpec => []Inv
<1>1. SinksInit => Inv
  BY SessionInit, BodyInit, KafkaInit, SubInit DEF SinksInit, Inv
<1> QED
  BY <1>1, SinksStep, PTL DEF SinksSpec

\* For any number of calls and of cells, the stream id of bidistreaming.rs and
\* clientstreaming.rs belongs to one cell until its end_request has returned,
\* and no consume_message runs beside the session's last callbacks.
THEOREM SinksSessionExclusive == SinksSpec => []SessionExclusive
<1>1. Inv => SessionExclusive
  BY SessionGives DEF Inv
<1> QED
  BY <1>1, SinksInv, PTL

\* The response body of reqwest.rs is open to the callbacks of its request and
\* closed when consume is over, however that ended.
THEOREM SinksBodyClosed == SinksSpec => []BodyClosed
<1>1. Inv => BodyClosed
  BY BodyGives DEF Inv
<1> QED
  BY <1>1, SinksInv, PTL

\* A stop of the Kafka sink that returns Ok, and followed no cancelled one, has
\* waited for every delivery and every result, for any number of requests.
THEOREM SinksStopDrains == SinksSpec => []SinkStopDrains
<1>1. Inv => SinkStopDrains
  BY KafkaGives DEF Inv
<1> QED
  BY <1>1, SinksInv, PTL

\* For any number of results, one collector of a call of substream.rs runs at a
\* time, none after consume has returned, and Ok says that one had enough.
THEOREM SinksCollectorOwned == SinksSpec => []CollectorOwned
<1>1. Inv => CollectorOwned
  BY SinksAssumption DEF Inv, SubInv, CollectorOwned, B!CollectorOwned
<1> QED
  BY <1>1, SinksInv, PTL
=============================================================================
