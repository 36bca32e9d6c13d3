------------------------ MODULE SourceRequestProofs -------------------------
(* Theorems about the requests of the data sources and their results.      *)
EXTENDS SourceRequest, TLAPS

Pcs == {"idle", "begin", "reject", "end"} \cup AtGate \cup Accepted \cup Over

TypeOK ==
  /\ kind \in AllKinds /\ hasResult \in BOOLEAN
  /\ pc \in [Request -> Pcs]
  /\ id \in [Request -> Id \cup {None}]
  /\ ends \in [Request -> Nat]
  /\ closing \in [Request -> BOOLEAN] /\ writing \in [Request -> BOOLEAN]
  /\ owner \in [Id -> Request \cup {None}]
  /\ at \in [Result -> {"idle", "got", "call"}]
  /\ target \in [Result -> Request \cup {None}]
  /\ by \in [Result -> Request \cup Result \cup {None}]

\* What is known of a request where it is: if it has an id, if it was ended, who
\* holds its lock, and that a gRPC request has closed before it queues for it.
RequestInv(r) ==
  /\ ends[r] <= 1
  /\ pc[r] \in {"idle", "begin"} \cup AtGate => id[r] = None /\ ends[r] = 0
  /\ pc[r] \in Accepted => id[r] \in Id /\ ends[r] = 0
  /\ pc[r] \in {"reject", "end"} => id[r] \in Id /\ ends[r] = 1
  /\ pc[r] = "over" => id[r] = None \/ ends[r] = 1
  /\ writing[r] <=> pc[r] \in {"lock", "end"}
  /\ Grpc /\ pc[r] \in {"queue", "lock", "end"} => closing[r]

\* A result holds the entry of a request; its callback runs only for one that was
\* accepted and not ended, or was dropped with the producer.
ResultInv(q) ==
  /\ at[q] # "idle" => hasResult /\ target[q] \in Request /\ id[target[q]] \in Id
  /\ at[q] = "call" => pc[target[q]] \in Accepted \cup {"gone"}

Inv ==
  /\ TypeOK
  /\ \A r \in Request : RequestInv(r)
  /\ \A q \in Result : ResultInv(q)
  /\ \A i \in Id : owner[i] # None => id[owner[i]] = i
  /\ PendingExact

\* The places in which a request has its id in the table.
Holding == IF Grpc THEN Accepted \cup {"end"} ELSE {"consume", "wait", "close"}

LEMMA InitInv == Init => Inv
<1> SUFFICES ASSUME Init PROVE Inv
  BY Zenon
<1>1. TypeOK
  <2>1. kind \in AllKinds /\ hasResult \in BOOLEAN
    BY SourceAssumption, Zenon DEF Init
  <2>2. pc \in [Request -> Pcs] /\ id \in [Request -> Id \cup {None}]
    BY Zenon DEF Init, Pcs
  <2>3. ends \in [Request -> Nat] /\ owner \in [Id -> Request \cup {None}]
    BY Zenon DEF Init
  <2>4. closing \in [Request -> BOOLEAN] /\ writing \in [Request -> BOOLEAN]
    BY Zenon DEF Init
  <2>5. /\ at \in [Result -> {"idle", "got", "call"}]
        /\ target \in [Result -> Request \cup {None}]
        /\ by \in [Result -> Request \cup Result \cup {None}]
    BY Zenon DEF Init
  <2> QED BY <2>1, <2>2, <2>3, <2>4, <2>5, Zenon DEF TypeOK
<1>2. \A r \in Request : RequestInv(r)
  BY DEF Init, RequestInv, AtGate, Accepted
<1>3. \A q \in Result : ResultInv(q)
  BY Zenon DEF Init, ResultInv
<1>4. PendingExact
  BY SourceAssumption, Zenon DEF Init, PendingExact, Accepted
<1> QED
  BY <1>1, <1>2, <1>3, <1>4, Zenon DEF Inv, Init

\* What PendingExact says of one request and one id.
LEMMA Pending ==
  ASSUME Inv, NEW r \in Request, NEW i \in Id, pc[r] # "gone", Reserves
  PROVE  owner[i] = r <=> id[r] = i /\ pc[r] \in Holding
BY Zenon DEF Inv, PendingExact, Holding

\* A step that leaves the requests and the table alone.
LEMMA PendingFrame ==
  ASSUME PendingExact, UNCHANGED <<kind, hasResult, pc, id, owner>>
  PROVE  PendingExact'
BY DEF PendingExact, Grpc, Reserves

\* A step of one request: it may wake others at the gate, and gives up or takes no
\* entry of the table but its own.
LEMMA OneRequest ==
  ASSUME Inv, NEW r \in Request, TypeOK', UNCHANGED <<fixed, results>>,
         \A s \in Request \ {r} :
           /\ pc'[s] = pc[s] \/ (pc[s] \in AtGate /\ pc'[s] \in AtGate)
           /\ id'[s] = id[s] /\ ends'[s] = ends[s]
           /\ closing'[s] = closing[s] /\ writing'[s] = writing[s],
         RequestInv(r)', id[r] \in Id => id'[r] = id[r],
         \A i \in Id : owner'[i] = r => id'[r] = i,
         \A q \in Result : at[q] = "call" /\ target[q] = r => pc'[r] \in Accepted \cup {"gone"},
         \A i \in Id : owner'[i] = owner[i] \/ {owner[i], owner'[i]} \subseteq {None, r},
         pc'[r] # "gone" /\ Reserves =>
           \A i \in Id : owner'[i] = r <=> id'[r] = i /\ pc'[r] \in Holding
  PROVE  Inv'
<1>1. ASSUME NEW s \in Request PROVE RequestInv(s)'
  <2>1. CASE s = r
    BY <2>1, Zenon
  <2>2. CASE s # r
    BY <2>2 DEF Inv, RequestInv, fixed, AtGate, Accepted, Grpc
  <2> QED BY <2>1, <2>2, Zenon
<1>2. ASSUME NEW q \in Result PROVE ResultInv(q)'
  BY DEF Inv, ResultInv, fixed, results, AtGate, Accepted
<1>3. PendingExact'
  <2> SUFFICES ASSUME NEW s \in Request, NEW i \in Id, pc'[s] # "gone", Reserves
               PROVE  owner'[i] = s <=> id'[s] = i /\ pc'[s] \in Holding
    BY DEF PendingExact, Holding, fixed, Reserves, Grpc
  <2>1. CASE s = r
    BY <2>1, Zenon
  <2>2. CASE s # r
    <3>1. owner'[i] = s <=> owner[i] = s
      BY <2>2, SourceAssumption
    <3>2. pc'[s] \in Holding <=> pc[s] \in Holding
      BY <2>2, Zenon DEF Holding, AtGate, Accepted
    <3>3. pc[s] # "gone"
      BY <2>2, Zenon DEF AtGate
    <3> QED
      BY <2>2, <3>1, <3>2, <3>3, Pending
  <2> QED BY <2>1, <2>2, Zenon
<1>4. ASSUME NEW i \in Id, owner'[i] # None PROVE id'[owner'[i]] = i
  BY <1>4 DEF Inv, TypeOK
<1> QED
  BY <1>1, <1>2, <1>3, <1>4, Zenon DEF Inv

\* A step that at most wakes requests at the gate.
LEMMA NoRequest ==
  ASSUME Inv, UNCHANGED <<fixed, id, closing, writing, ends, owner, results>>,
         pc' = pc \/ pc' = Woken(pc)
  PROVE  Inv'
<1>1. pc' \in [Request -> Pcs]
  BY Zenon DEF Inv, TypeOK, Woken, Pcs, AtGate
<1>2. TypeOK'
  BY <1>1, Zenon DEF Inv, TypeOK, fixed, results
<1>3. \A r \in Request : pc'[r] = pc[r] \/ (pc[r] \in AtGate /\ pc'[r] \in AtGate)
  BY Zenon DEF Woken, AtGate
<1>4. ASSUME NEW r \in Request PROVE RequestInv(r)'
  BY <1>3, ZenonT(40) DEF Inv, RequestInv, fixed, AtGate, Accepted, Grpc
<1>5. ASSUME NEW q \in Result PROVE ResultInv(q)'
  BY <1>3, Zenon DEF Inv, ResultInv, fixed, results, AtGate, Accepted
<1>6. PendingExact'
  BY <1>3 DEF Inv, PendingExact, fixed, AtGate, Accepted, Grpc, Reserves
<1> QED
  BY <1>2, <1>4, <1>5, <1>6, Zenon DEF Inv, fixed

\* Arrival and the gate: no id yet, no entry.
LEMMA GateInv == ASSUME Inv, NEW r \in Request, Arrive(r) \/ Gate(r) PROVE Inv'
<1>1. /\ UNCHANGED <<fixed, request, owner, results>>
      /\ pc[r] \in {"idle"} \cup AtGate
      /\ \E p \in AtGate \cup {"begin", "over"} : pc' = [pc EXCEPT ![r] = p]
  BY Zenon DEF Arrive, Gate, GateStopped, GateEnter, GateFull, GateSleep, To, AtGate
<1>2. TypeOK'
  BY <1>1 DEF Inv, TypeOK, fixed, request, results, Pcs, AtGate, Over
<1>3. RequestInv(r)'
  BY <1>1, Zenon DEF Inv, TypeOK, RequestInv, fixed, request, AtGate, Accepted, Grpc
<1>4. \A q \in Result : ~ (at[q] = "call" /\ target[q] = r)
  BY <1>1, Zenon DEF Inv, ResultInv, AtGate, Accepted
<1>5. Reserves => \A i \in Id : owner'[i] = r <=> id'[r] = i /\ pc'[r] \in Holding
  BY <1>1 DEF Inv, TypeOK, PendingExact, request, Holding, AtGate, Accepted, Grpc
<1>6. \A s \in Request \ {r} : pc'[s] = pc[s]
  BY <1>1, Zenon DEF Inv, TypeOK
<1>7. (id[r] \in Id => id'[r] = id[r]) /\ \A j \in Id : owner'[j] = r => id'[r] = j
  BY <1>1, SourceAssumption, Zenon DEF Inv, request
<1> QED
  BY <1>1, <1>2, <1>3, <1>4, <1>5, <1>6, <1>7, OneRequest, Zenon DEF request

\* begin_request fails, or the end of a refused request.
LEMMA LeaveInv ==
  ASSUME Inv, NEW r \in Request, BeginFails(r) \/ RejectReturns(r)
  PROVE  Inv'
<1>1. /\ UNCHANGED <<fixed, request, owner, results>>
      /\ pc[r] \in {"begin", "reject"} /\ Leave(r, "over")
  BY Zenon DEF BeginFails, RejectReturns
<1>2. /\ pc' \in [Request -> Pcs] /\ pc'[r] = "over"
      /\ \A s \in Request \ {r} : pc'[s] = pc[s] \/ (pc[s] \in AtGate /\ pc'[s] \in AtGate)
  BY <1>1, Zenon DEF Leave, Woken, Inv, TypeOK, Pcs, AtGate, Over
<1>3. TypeOK'
  BY <1>1, <1>2, Zenon DEF Inv, TypeOK, fixed, request, results
<1>4. RequestInv(r)'
  BY <1>1, <1>2, Zenon DEF Inv, TypeOK, RequestInv, fixed, request, AtGate, Accepted, Grpc
<1>5. \A q \in Result : ~ (at[q] = "call" /\ target[q] = r)
  BY <1>1, Zenon DEF Inv, ResultInv, AtGate, Accepted
<1>6. Reserves => \A i \in Id : owner'[i] = r <=> id'[r] = i /\ pc'[r] \in Holding
  BY <1>1, <1>2 DEF Inv, TypeOK, PendingExact, request, Holding, AtGate, Accepted, Grpc
<1>7. (id[r] \in Id => id'[r] = id[r]) /\ \A j \in Id : owner'[j] = r => id'[r] = j
  BY <1>1, SourceAssumption, Zenon DEF Inv, request
<1> QED
  BY <1>1, <1>2, <1>3, <1>4, <1>5, <1>6, <1>7, OneRequest, Zenon DEF request

\* The entry is made, or the id is in use.
LEMMA BeginInv ==
  ASSUME Inv, NEW r \in Request, NEW i \in Id, BeginOk(r, i) \/ BeginDuplicate(r, i)
  PROVE  Inv'
<1>1. /\ UNCHANGED <<fixed, writing, results>>
      /\ pc[r] = "begin" /\ id' = [id EXCEPT ![r] = i]
      /\ \E p \in {"close", "inbound", "consume", "reject"} : pc' = [pc EXCEPT ![r] = p]
  BY Zenon DEF BeginOk, BeginDuplicate, To
<1>2. /\ closing' \in [Request -> BOOLEAN] /\ ends' \in [Request -> Nat]
      /\ owner' \in [Id -> Request \cup {None}]
  <2>1. closing' \in [Request -> BOOLEAN]
    <3>1. (Grpc /\ dropped[r]) \in BOOLEAN
      BY Zenon
    <3> QED BY <3>1, Zenon DEF BeginOk, BeginDuplicate, Inv, TypeOK
  <2>2. ends' \in [Request -> Nat] /\ owner' \in [Id -> Request \cup {None}]
    BY DEF BeginOk, BeginDuplicate, Inv, TypeOK
  <2> QED BY <2>1, <2>2, Zenon
<1>3. TypeOK'
  BY <1>1, <1>2, Zenon DEF Inv, TypeOK, fixed, results, Pcs, Accepted
<1>4. \A s \in Request \ {r} : closing'[s] = closing[s] /\ ends'[s] = ends[s] /\ pc'[s] = pc[s]
  BY <1>1, Zenon DEF BeginOk, BeginDuplicate, Inv, TypeOK
<1>5. ends[r] = 0 /\ ends'[r] = IF pc'[r] = "reject" THEN 1 ELSE 0
  BY DEF BeginOk, BeginDuplicate, To, Inv, TypeOK, RequestInv
<1>6. RequestInv(r)'
  BY <1>1, <1>5 DEF Inv, TypeOK, RequestInv, fixed, AtGate, Accepted, Grpc
<1>7. \A q \in Result : ~ (at[q] = "call" /\ target[q] = r)
  BY <1>1, Zenon DEF Inv, ResultInv, Accepted
<1>8. \A j \in Id : owner'[j] = owner[j] \/ {owner[j], owner'[j]} \subseteq {None, r}
  BY Zenon DEF BeginOk, BeginDuplicate, Inv, TypeOK
<1>9. Reserves => \A j \in Id : owner'[j] = r <=> id'[r] = j /\ pc'[r] \in Holding
  <2> SUFFICES ASSUME Reserves, NEW j \in Id
               PROVE  owner'[j] = r <=> id'[r] = j /\ pc'[r] \in Holding
    BY Zenon
  <2>1. owner[j] # r
    BY <1>1, Zenon DEF Inv, PendingExact, Accepted
  <2>2. CASE BeginOk(r, i)
    <3>1. owner' = [owner EXCEPT ![i] = r] /\ pc'[r] \in Holding
      BY <2>2, Zenon DEF BeginOk, To, Inv, TypeOK, Holding, Accepted, Streams, Grpc, GrpcKinds
    <3> QED BY <1>1, <2>1, <3>1, Zenon DEF Inv, TypeOK
  <2>3. CASE BeginDuplicate(r, i)
    <3>1. owner' = owner /\ pc'[r] = "reject"
      BY <2>3, Zenon DEF BeginDuplicate, To, Inv, TypeOK
    <3> QED BY <2>1, <3>1, Zenon DEF Holding, Accepted
  <2> QED BY <2>2, <2>3, Zenon
<1>10. (id[r] \in Id => id'[r] = id[r]) /\ \A j \in Id : owner'[j] = r => id'[r] = j
  BY <1>1, SourceAssumption DEF BeginOk, BeginDuplicate, Inv, TypeOK, RequestInv
<1> QED
  BY <1>1, <1>3, <1>4, <1>6, <1>7, <1>8, <1>9, <1>10, OneRequest, Zenon DEF Inv, TypeOK

\* A phase ends: the request stays accepted, and a plain one keeps its entry.
LEMMA AdvanceInv ==
  ASSUME Inv, NEW r \in Request, NEW res, NEW p \in {"inbound", "consume", "eof", "wait", "close"},
         pc[r] \in {"inbound", "consume", "eof", "wait"}, Advance(r, res, p),
         Grpc \/ (pc[r] \in {"consume", "wait"} /\ p \in {"wait", "close"})
  PROVE  Inv'
<1>1. /\ UNCHANGED <<fixed, id, writing, ends, owner, results>>
      /\ pc' = [pc EXCEPT ![r] = IF Grpc /\ dropped[r] THEN "close" ELSE p]
  BY Zenon DEF Advance, To
<1>2. closing' \in [Request -> BOOLEAN]
  <2>1. (closing[r] \/ (Grpc /\ dropped[r])) \in BOOLEAN
    BY Zenon
  <2> QED BY <2>1, Zenon DEF Advance, Inv, TypeOK
<1>3. TypeOK'
  BY <1>1, <1>2, Zenon DEF Inv, TypeOK, fixed, results, Pcs, Accepted
<1>4. /\ pc'[r] \in {"inbound", "consume", "eof", "wait", "close"}
      /\ \A s \in Request \ {r} : closing'[s] = closing[s] /\ pc'[s] = pc[s]
  BY <1>1, Zenon DEF Advance, Inv, TypeOK
<1>5. RequestInv(r)'
  BY <1>1, <1>4, Zenon DEF Inv, TypeOK, RequestInv, fixed, AtGate, Accepted, Grpc
<1>6. pc[r] \in Holding /\ pc'[r] \in Holding
  BY <1>1, <1>4, Zenon DEF Holding, Accepted, Inv, TypeOK
<1>7. Reserves => \A j \in Id : owner'[j] = r <=> id'[r] = j /\ pc'[r] \in Holding
  BY <1>1, <1>6, Zenon DEF Inv, PendingExact, Holding, Accepted
<1>8. (id[r] \in Id => id'[r] = id[r]) /\ \A j \in Id : owner'[j] = r => id'[r] = j
  BY <1>1, SourceAssumption, Zenon DEF Inv
<1> QED
  BY <1>1, <1>3, <1>4, <1>5, <1>7, <1>8, OneRequest, Zenon DEF Accepted

LEMMA PhaseInv ==
  ASSUME Inv, NEW r \in Request,
         \/ ConsumeReturns(r) \/ Await(r)
         \/ Grpc /\ (Inbound(r) \/ EofReturns(r) \/ Receive(r))
  PROVE  Inv'
<1>1. CASE ConsumeReturns(r)
  <2> PICK res \in {"ok", "err"} : Advance(r, res, AfterConsume(r, res))
    BY <1>1, Zenon DEF ConsumeReturns
  <2>1. /\ pc[r] = "consume" /\ AfterConsume(r, res) \in {"inbound", "eof", "wait", "close"}
        /\ Grpc \/ AfterConsume(r, res) \in {"wait", "close"}
    BY <1>1, Zenon DEF ConsumeReturns, AfterConsume, Streams, Grpc, GrpcKinds
  <2> QED BY <2>1, AdvanceInv, Zenon
<1>2. CASE Await(r)
  <2>1. pc[r] = "wait" /\ \E res \in {"ok", "cancelled"} : Advance(r, res, "close")
    BY <1>2, Zenon DEF Await, WaitDone, WaitCancelled
  <2> QED BY <2>1, AdvanceInv, Zenon
<1>3. CASE Grpc /\ Inbound(r)
  <2>1. pc[r] = "inbound" /\ \E res \in {"ok", "err"}, p \in {"consume", "eof", "close"} : Advance(r, res, p)
    BY <1>3, Zenon DEF Inbound
  <2> QED BY <1>3, <2>1, AdvanceInv, Zenon
<1>4. CASE Grpc /\ EofReturns(r)
  <2>1. pc[r] = "eof" /\ \E p \in {"wait", "close"} : Advance(r, "ok", p)
    BY <1>4, Zenon DEF EofReturns
  <2> QED BY <1>4, <2>1, AdvanceInv, Zenon
<1>5. CASE Grpc /\ Receive(r)
  <2>1. pc[r] = "wait" /\ \E res \in {"ok", "err"} : Advance(r, res, "close")
    BY <1>5, Zenon DEF Receive
  <2> QED BY <1>5, <2>1, AdvanceInv, Zenon
<1> QED BY <1>1, <1>2, <1>3, <1>4, <1>5, Zenon

\* The request closes and waits for the lock.
LEMMA CloseInv == ASSUME Inv, NEW r \in Request, Close(r) PROVE Inv'
<1>1. /\ UNCHANGED <<fixed, id, writing, ends, results>>
      /\ pc[r] = "close" /\ pc' = [pc EXCEPT ![r] = "queue"]
  BY Zenon DEF Close, To
<1>2. id[r] \in Id
  BY <1>1, Zenon DEF Inv, RequestInv, Accepted
<1>3. TypeOK' /\ (Grpc => closing'[r])
  BY <1>1, Zenon DEF Close, Inv, TypeOK, fixed, results, Pcs, Accepted, Grpc
<1>4. \A s \in Request \ {r} : closing'[s] = closing[s] /\ pc'[s] = pc[s]
  BY <1>1, Zenon DEF Close, Inv, TypeOK
<1>5. RequestInv(r)'
  BY <1>1, <1>3, Zenon DEF Inv, TypeOK, RequestInv, fixed, AtGate, Accepted, Grpc
<1>6. Reserves => owner[id[r]] = r
  BY <1>1, <1>2, Zenon DEF Inv, PendingExact, Accepted
<1>7. \A i \in Id : owner'[i] = owner[i] \/ {owner[i], owner'[i]} \subseteq {None, r}
  BY <1>2, <1>6, Zenon DEF Close, Inv, TypeOK, Reserves
<1>8. Reserves => \A i \in Id : owner'[i] = r <=> id'[r] = i /\ pc'[r] \in Holding
  <2> SUFFICES ASSUME Reserves, NEW i \in Id
               PROVE  owner'[i] = r <=> id'[r] = i /\ pc'[r] \in Holding
    BY Zenon
  <2>1. owner[i] = r <=> id[r] = i
    BY <1>1, Zenon DEF Inv, PendingExact, Accepted
  <2>2. CASE Grpc
    BY <1>1, <2>1, <2>2, Zenon DEF Close, Holding, Accepted, Inv, TypeOK
  <2>3. CASE ~Grpc
    <3>1. owner' = [owner EXCEPT ![id[r]] = None] /\ pc'[r] \notin Holding
      BY <1>1, <2>3, Zenon DEF Close, Holding, Inv, TypeOK, Reserves
    <3> QED BY <1>2, <2>1, <3>1, SourceAssumption, Zenon DEF Inv, TypeOK
  <2> QED BY <2>2, <2>3, Zenon
<1>9. (id[r] \in Id => id'[r] = id[r]) /\ \A j \in Id : owner'[j] = r => id'[r] = j
  BY <1>1, <1>2, SourceAssumption DEF Close, Inv, TypeOK
<1> QED
  <2>1. /\ \A s \in Request \ {r} :
             /\ pc'[s] = pc[s] /\ id'[s] = id[s] /\ ends'[s] = ends[s]
             /\ closing'[s] = closing[s] /\ writing'[s] = writing[s]
        /\ pc'[r] \in Accepted
    BY <1>1, <1>4, Zenon DEF Inv, TypeOK, Accepted
  <2> QED
    BY <1>1, <1>3, <1>5, <1>7, <1>8, <1>9, <2>1, OneRequest, ZenonT(40)

LEMMA QueueWriteInv == ASSUME Inv, NEW r \in Request, QueueWrite(r) PROVE Inv'
<1>1. /\ UNCHANGED <<fixed, id, closing, ends, owner, results>>
      /\ pc[r] = "queue" /\ pc' = [pc EXCEPT ![r] = "lock"]
      /\ writing' = [writing EXCEPT ![r] = TRUE]
  BY Zenon DEF QueueWrite, To
<1>2. TypeOK'
  BY <1>1, Zenon DEF Inv, TypeOK, fixed, results, Pcs, Accepted
<1>3. RequestInv(r)'
  BY <1>1, Zenon DEF Inv, TypeOK, RequestInv, fixed, AtGate, Accepted, Grpc
<1>4. Reserves => \A i \in Id : owner'[i] = r <=> id'[r] = i /\ pc'[r] \in Holding
  BY <1>1 DEF Inv, TypeOK, PendingExact, Holding, Accepted
<1>5. \A s \in Request \ {r} : writing'[s] = writing[s] /\ pc'[s] = pc[s]
  BY <1>1, Zenon DEF Inv, TypeOK
<1>6. (id[r] \in Id => id'[r] = id[r]) /\ \A j \in Id : owner'[j] = r => id'[r] = j
  BY <1>1, SourceAssumption, Zenon DEF Inv
<1> QED
  BY <1>1, <1>2, <1>3, <1>4, <1>5, <1>6, OneRequest, Zenon DEF Accepted, Inv, TypeOK

\* end_request begins only when no callback holds the lock.
LEMMA EndBeginsInv == ASSUME Inv, NEW r \in Request, EndBegins(r) PROVE Inv'
<1>1. /\ UNCHANGED <<fixed, id, closing, writing, owner, results>>
      /\ pc[r] = "lock" /\ pc' = [pc EXCEPT ![r] = "end"]
      /\ ends' = [ends EXCEPT ![r] = @ + 1]
  BY Zenon DEF EndBegins, To
<1>2. TypeOK'
  BY <1>1 DEF Inv, TypeOK, fixed, results, Pcs
<1>3. ends[r] = 0 /\ ends'[r] = 1
  BY <1>1 DEF Inv, TypeOK, RequestInv, Accepted
<1>4. RequestInv(r)'
  BY <1>1, <1>3 DEF Inv, TypeOK, RequestInv, fixed, AtGate, Accepted, Grpc
<1>5. \A q \in Result : ~ (at[q] = "call" /\ target[q] = r)
  BY Zenon DEF EndBegins, Readers
<1>6. Reserves => \A i \in Id : owner'[i] = r <=> id'[r] = i /\ pc'[r] \in Holding
  BY <1>1 DEF Inv, TypeOK, PendingExact, Holding, Accepted
<1>7. \A s \in Request \ {r} : ends'[s] = ends[s] /\ pc'[s] = pc[s]
  BY <1>1, Zenon DEF Inv, TypeOK
<1>8. (id[r] \in Id => id'[r] = id[r]) /\ \A j \in Id : owner'[j] = r => id'[r] = j
  BY <1>1, SourceAssumption, Zenon DEF Inv
<1> QED
  BY <1>1, <1>2, <1>4, <1>5, <1>6, <1>7, <1>8, OneRequest, Zenon

LEMMA EndReturnsInv == ASSUME Inv, NEW r \in Request, EndReturns(r) PROVE Inv'
<1>1. /\ UNCHANGED <<fixed, id, closing, ends, results>>
      /\ pc[r] = "end" /\ writing' = [writing EXCEPT ![r] = FALSE] /\ Leave(r, "over")
      /\ owner' = IF Grpc /\ owner[id[r]] = r THEN [owner EXCEPT ![id[r]] = None] ELSE owner
  BY Zenon DEF EndReturns
<1>2. /\ pc' \in [Request -> Pcs] /\ pc'[r] = "over"
      /\ \A s \in Request \ {r} : pc'[s] = pc[s] \/ (pc[s] \in AtGate /\ pc'[s] \in AtGate)
  BY <1>1, Zenon DEF Leave, Woken, Inv, TypeOK, Pcs, AtGate, Over
<1>3. TypeOK'
  BY <1>1, <1>2, Zenon DEF Inv, TypeOK, fixed, results
<1>4. RequestInv(r)'
  BY <1>1, <1>2, Zenon DEF Inv, TypeOK, RequestInv, fixed, AtGate, Accepted, Grpc
<1>5. \A q \in Result : ~ (at[q] = "call" /\ target[q] = r)
  BY <1>1, Zenon DEF Inv, ResultInv, Accepted
<1>6. \A i \in Id : owner'[i] = owner[i] \/ {owner[i], owner'[i]} \subseteq {None, r}
  BY <1>1, Zenon DEF Inv, TypeOK
<1>7. Reserves => \A i \in Id : owner'[i] = r <=> id'[r] = i /\ pc'[r] \in Holding
  <2> SUFFICES ASSUME Reserves, NEW i \in Id PROVE owner'[i] # r /\ pc'[r] \notin Holding
    BY Zenon
  <2>1. owner[i] = r <=> id[r] = i /\ Grpc
    BY <1>1, Zenon DEF Inv, PendingExact, Accepted
  <2> QED
    BY <1>1, <1>2, <2>1, SourceAssumption, Zenon DEF Holding, Accepted, Inv, TypeOK
<1>8. \A s \in Request \ {r} : writing'[s] = writing[s]
  BY <1>1, Zenon DEF Inv, TypeOK
<1>9. (id[r] \in Id => id'[r] = id[r]) /\ \A j \in Id : owner'[j] = r => id'[r] = j
  BY <1>1, SourceAssumption DEF Inv, TypeOK
<1> QED
  BY <1>1, <1>2, <1>3, <1>4, <1>5, <1>6, <1>7, <1>8, <1>9, OneRequest, Zenon

\* The transport goes away.
LEMMA DropInv == ASSUME Inv, NEW r \in Request, Drop(r) PROVE Inv'
<1>1. UNCHANGED <<fixed, id, writing, ends, owner, results>> /\ Grpc
  BY Zenon DEF Drop
<1>2. CASE pc' = pc /\ closing' = closing
  BY <1>1, <1>2, NoRequest, Zenon
<1>3. CASE /\ pc[r] \in {"inbound", "wait"} /\ pc' = [pc EXCEPT ![r] = "close"]
           /\ closing' = [closing EXCEPT ![r] = TRUE]
  <2>1. TypeOK'
    BY <1>1, <1>3, Zenon DEF Inv, TypeOK, fixed, results, Pcs, Accepted
  <2>2. RequestInv(r)'
    BY <1>1, <1>3, Zenon DEF Inv, TypeOK, RequestInv, fixed, AtGate, Accepted, Grpc
  <2>3. Reserves => \A i \in Id : owner'[i] = r <=> id'[r] = i /\ pc'[r] \in Holding
    BY <1>1, <1>3 DEF Inv, TypeOK, PendingExact, Holding, Accepted
  <2>4. pc'[r] = "close" /\ \A s \in Request \ {r} : closing'[s] = closing[s] /\ pc'[s] = pc[s]
    BY <1>3, Zenon DEF Inv, TypeOK
  <2>5. \A i \in Id : owner'[i] = r => id'[r] = i
    BY <1>1, SourceAssumption, Zenon DEF Inv
  <2> QED
    BY <1>1, <2>1, <2>2, <2>3, <2>4, <2>5, OneRequest, Zenon DEF Accepted
<1> QED
  BY <1>2, <1>3, Zenon DEF Drop, To

\* stop of a local source drops the producer's requests and what runs below them.
LEMMA DropLocalInv == ASSUME Inv, NEW r \in Request, DropLocal(r) PROVE Inv'
<1>1. /\ UNCHANGED <<fixed, id, closing, ends, owner>> /\ kind = "local"
      /\ writing' = [writing EXCEPT ![r] = FALSE]
      /\ To(r, "gone") \/ Leave(r, "gone")
  BY Zenon DEF DropLocal
<1>2. /\ pc' \in [Request -> Pcs] /\ pc'[r] = "gone"
      /\ \A s \in Request \ {r} : pc'[s] = pc[s] \/ (pc[s] \in AtGate /\ pc'[s] \in AtGate)
  BY <1>1 DEF To, Leave, Woken, Inv, TypeOK, Pcs, AtGate, Over
<1>3. \A q \in Result : \/ at'[q] = "idle" /\ target'[q] = None /\ by'[q] = None
                        \/ at'[q] = at[q] /\ target'[q] = target[q] /\ by'[q] = by[q]
  BY Zenon DEF DropLocal
<1>4. TypeOK'
  <2>1. /\ at' \in [Result -> {"idle", "got", "call"}]
        /\ target' \in [Result -> Request \cup {None}]
        /\ by' \in [Result -> Request \cup Result \cup {None}]
    BY Zenon DEF DropLocal, Inv, TypeOK
  <2> QED
    BY <1>1, <1>2, <2>1, Zenon DEF Inv, TypeOK, fixed
<1>5. ASSUME NEW s \in Request PROVE RequestInv(s)'
  <2>1. CASE s = r
    BY <1>1, <1>2, <2>1, Zenon DEF Inv, TypeOK, RequestInv, AtGate, Accepted
  <2>2. CASE s # r
    BY <1>1, <1>2, <2>2 DEF Inv, TypeOK, RequestInv, fixed, AtGate, Accepted, Grpc
  <2> QED BY <2>1, <2>2, Zenon
<1>6. ASSUME NEW q \in Result PROVE ResultInv(q)'
  BY <1>1, <1>2, <1>3 DEF Inv, TypeOK, ResultInv, fixed, AtGate, Accepted
<1>7. PendingExact'
  <2> SUFFICES ASSUME NEW s \in Request, NEW i \in Id, pc'[s] # "gone", Reserves
               PROVE  owner'[i] = s <=> id'[s] = i /\ pc'[s] \in Holding
    BY <1>1 DEF PendingExact, Holding, fixed, Reserves, Grpc
  <2>1. s # r
    BY <1>2, Zenon
  <2>2. pc[s] # "gone" /\ (pc'[s] \in Holding <=> pc[s] \in Holding)
    BY <1>2, <2>1, Zenon DEF Holding, AtGate, Accepted
  <2>3. owner[i] = s <=> id[s] = i /\ pc[s] \in Holding
    BY <2>2, Pending, Zenon
  <2> QED
    BY <1>1, <2>2, <2>3, Zenon
<1>8. \A i \in Id : owner'[i] # None => id'[owner'[i]] = i
  BY <1>1, SourceAssumption, Zenon DEF Inv
<1> QED
  BY <1>4, <1>5, <1>6, <1>7, <1>8, Zenon DEF Inv

\* Results: a callback begins only while its request is in the table.
LEMMA ResultInvStep ==
  ASSUME Inv, NEW q \in Result,
         (\E i \in Id : ResultGets(q, i)) \/ ResultTurnedAway(q) \/ ResultReads(q) \/ CallReturns(q)
  PROVE  Inv'
<1>1. UNCHANGED <<fixed, pc, id, closing, writing, ends, owner>>
  BY Zenon DEF ResultGets, ResultTurnedAway, ResultReads, CallReturns, request
<1>2. /\ at' \in [Result -> {"idle", "got", "call"}]
      /\ target' \in [Result -> Request \cup {None}]
      /\ by' \in [Result -> Request \cup Result \cup {None}]
      /\ \A p \in Result \ {q} : at'[p] = at[p] /\ target'[p] = target[p]
  BY DEF ResultGets, ResultTurnedAway, ResultReads, CallReturns, ResultOver, Emitters, Inv, TypeOK
<1>3. TypeOK'
  BY <1>1, <1>2, Zenon DEF Inv, TypeOK, fixed
<1>4. \A r \in Request : RequestInv(r)'
  BY <1>1, Zenon DEF Inv, RequestInv, fixed, Grpc
<1>5. PendingExact'
  BY <1>1, PendingFrame, Zenon DEF Inv, fixed
<1>6. ResultInv(q)'
  <2>1. CASE at'[q] = "idle"
    BY <2>1, Zenon DEF ResultInv
  <2>2. CASE at'[q] = "got"
    <3>1. PICK i \in Id : ResultGets(q, i)
      BY <2>2, Zenon DEF ResultTurnedAway, ResultReads, CallReturns, ResultOver, Inv, TypeOK
    <3>2. hasResult /\ target'[q] = owner[i] /\ owner[i] \in Request /\ id[owner[i]] = i
      BY <3>1, Zenon DEF ResultGets, Inv, TypeOK
    <3> QED BY <1>1, <2>2, <3>2, Zenon DEF ResultInv, fixed
  <2>3. CASE at'[q] = "call"
    <3>1. /\ at[q] = "got" /\ target'[q] = target[q] /\ StillPending(target[q])
          /\ ~writing[target[q]]
      BY <2>3, Zenon DEF ResultGets, ResultTurnedAway, ResultReads, CallReturns, ResultOver, Inv, TypeOK
    <3>2. hasResult /\ target[q] \in Request /\ id[target[q]] \in Id
      BY <3>1, Zenon DEF Inv, ResultInv
    <3>3. pc[target[q]] \in Accepted \cup {"gone"}
      <4>1. CASE pc[target[q]] = "gone"
        BY <4>1, Zenon
      <4>2. CASE pc[target[q]] # "gone"
        <5>1. owner[id[target[q]]] = target[q]
          BY <3>1, Zenon DEF StillPending
        <5>2. pc[target[q]] \in Holding
          BY <3>2, <4>2, <5>1, Pending, Zenon DEF Reserves
        <5>3. pc[target[q]] # "end"
          BY <3>1, <3>2, Zenon DEF Inv, RequestInv
        <5> QED
          BY <5>2, <5>3, Zenon DEF Holding, Accepted
      <4> QED BY <4>1, <4>2, Zenon
    <3> QED BY <1>1, <2>3, <3>1, <3>2, <3>3, Zenon DEF ResultInv, fixed
  <2> QED BY <1>2, <2>1, <2>2, <2>3, Zenon
<1>7. \A p \in Result \ {q} : ResultInv(p)'
  BY <1>1, <1>2, Zenon DEF Inv, ResultInv, fixed
<1>8. \A i \in Id : owner'[i] # None => id'[owner'[i]] = i
  BY <1>1, SourceAssumption, Zenon DEF Inv
<1> QED
  BY <1>3, <1>4, <1>5, <1>6, <1>7, <1>8, Zenon DEF Inv

\* The steps of Next, without the kinds but for what only gRPC does.
RequestStep(r) ==
  \/ Gate(r) \/ Begin(r) \/ End(r) \/ ConsumeReturns(r) \/ Await(r)
  \/ Grpc /\ (Inbound(r) \/ EofReturns(r) \/ Receive(r))

ResultStep(q) == ResultTurnedAway(q) \/ ResultReads(q) \/ CallReturns(q)

LEMMA NextSteps ==
  ASSUME Next
  PROVE  \/ Environment
         \/ \E r \in Request : RequestStep(r)
         \/ \E q \in Result : ResultStep(q)
<1>1. ASSUME NEW r \in Request,
             \/ LocalRequest(r) \/ KafkaRequest(r) \/ HttpRequest(r) \/ UnaryRequest(r)
             \/ ClientStreamingRequest(r) \/ ServerStreamingRequest(r) \/ BidiStreamingRequest(r)
      PROVE  RequestStep(r)
  BY <1>1, Zenon DEF RequestStep, LocalRequest, KafkaRequest, HttpRequest, UnaryRequest,
     ClientStreamingRequest, ServerStreamingRequest, BidiStreamingRequest, Grpc, GrpcKinds
<1>2. ASSUME NEW q \in Result, LocalResult(q) \/ KafkaResult(q) \/ HttpResult(q) \/ GrpcResult(q)
      PROVE  ResultStep(q)
  BY <1>2, Zenon DEF ResultStep, LocalResult, KafkaResult, HttpResult, GrpcResult
<1> QED
  BY <1>1, <1>2, Zenon DEF Next

LEMMA NextInv == Inv /\ [Next]_vars => Inv'
<1> SUFFICES ASSUME Inv, [Next]_vars PROVE Inv'
  BY Zenon
<1>1. CASE UNCHANGED vars
  BY <1>1, NoRequest, Zenon DEF vars, request
<1>2. CASE Stop \/ \E r \in Request : SetCallback(r) \/ Done(r) \/ Send(r) \/ Cancel(r)
  BY <1>2, NoRequest, Zenon DEF Stop, SetCallback, Done, Send, Cancel, request
<1>3. ASSUME NEW r \in Request, Begin(r) \/ End(r) PROVE Inv'
  BY <1>3, LeaveInv, BeginInv, CloseInv, QueueWriteInv, EndBeginsInv, EndReturnsInv, Zenon DEF Begin, End
<1>4. CASE Environment
  BY <1>2, <1>4, DropInv, DropLocalInv, GateInv, ResultInvStep, Zenon DEF Environment
<1>5. ASSUME NEW r \in Request, RequestStep(r) PROVE Inv'
  BY <1>3, <1>5, GateInv, PhaseInv, Zenon DEF RequestStep
<1>6. ASSUME NEW q \in Result, ResultStep(q) PROVE Inv'
  BY <1>6, ResultInvStep, Zenon DEF ResultStep
<1> QED
  BY <1>1, <1>4, <1>5, <1>6, NextSteps, Zenon

\* The inductive invariant of the requests holds in every behaviour, for any
\* number of requests, results and ids and every kind of endpoint.
THEOREM SourceInv == Spec => []Inv
  BY InitInv, NextInv, PTL DEF Spec

\* No result callback runs once end_request has been called.
THEOREM SourceCallbacksDrained == Spec => []CallbacksDrained
<1>1. Inv => CallbacksDrained
  BY Zenon DEF Inv, ResultInv, CallbacksDrained, Accepted
<1> QED
  BY <1>1, SourceInv, PTL

\* Only a local source that was stopped drops a request without its end.
GoneInv == \A r \in Request : pc[r] = "gone" => kind = "local" /\ stopped

\* No other step of a request leads there.
LEMMA Elsewhere ==
  ASSUME NEW r \in Request, RequestStep(r) \/ Arrive(r) \/ Drop(r)
  PROVE  /\ UNCHANGED <<fixed, stopped>>
         /\ pc' = pc \/ \E p : p # "gone" /\ (To(r, p) \/ Leave(r, p))
<1>1. CASE Arrive(r) \/ Gate(r) \/ Drop(r)
  BY <1>1, Zenon DEF Arrive, Gate, GateStopped, GateEnter, GateFull, GateSleep, Drop
<1>2. CASE Begin(r)
  BY <1>2, Zenon DEF Begin, BeginFails, RejectReturns, BeginOk, BeginDuplicate
<1>3. CASE End(r)
  BY <1>3, Zenon DEF End, Close, QueueWrite, EndBegins, EndReturns
<1>4. ASSUME NEW res, NEW p, p # "gone", Advance(r, res, p)
      PROVE  UNCHANGED <<fixed, stopped>> /\ \E l : l # "gone" /\ To(r, l)
  BY <1>4, Zenon DEF Advance
<1>5. CASE Inbound(r) \/ EofReturns(r) \/ Receive(r) \/ Await(r)
  BY <1>4, <1>5, Zenon DEF Inbound, EofReturns, Receive, Await, WaitDone, WaitCancelled
<1>6. CASE ConsumeReturns(r)
  <2>1. PICK res \in {"ok", "err"} : Advance(r, res, AfterConsume(r, res))
    BY <1>6, Zenon DEF ConsumeReturns
  <2>2. AfterConsume(r, res) # "gone"
    BY DEF AfterConsume
  <2> QED
    BY <1>4, <2>1, <2>2, Zenon
<1> QED
  BY <1>1, <1>2, <1>3, <1>5, <1>6, Zenon DEF RequestStep

LEMMA GoneStep == ASSUME TypeOK, GoneInv, [Next]_vars PROVE GoneInv'
<1>1. ASSUME UNCHANGED kind, stopped => stopped',
             \A s \in Request : pc'[s] = "gone" => pc[s] = "gone"
      PROVE  GoneInv'
  BY <1>1, Zenon DEF GoneInv
<1>2. CASE pc' = pc /\ UNCHANGED <<fixed, stopped>>
  BY <1>1, <1>2, Zenon DEF fixed
<1>3. CASE Stop
  BY <1>1, <1>3, Zenon DEF Stop, Woken, fixed
<1>4. ASSUME NEW r \in Request, RequestStep(r) \/ Arrive(r) \/ Drop(r) PROVE GoneInv'
  <2>1. UNCHANGED <<fixed, stopped>>
    BY <1>4, Elsewhere, Zenon
  <2>2. ASSUME NEW p, p # "gone", To(r, p) \/ Leave(r, p), NEW s \in Request, pc'[s] = "gone"
        PROVE  pc[s] = "gone"
    BY <2>2, Zenon DEF To, Leave, Woken, TypeOK
  <2> QED
    BY <1>1, <1>2, <1>4, <2>1, <2>2, Elsewhere, Zenon DEF fixed
<1>5. ASSUME NEW r \in Request, DropLocal(r) PROVE GoneInv'
  BY <1>5, Zenon DEF DropLocal, GoneInv, fixed
<1>6. ASSUME NEW r \in Request, SetCallback(r) \/ Done(r) \/ Send(r) \/ Cancel(r)
      PROVE  pc' = pc /\ UNCHANGED <<fixed, stopped>>
  BY <1>6, Zenon DEF SetCallback, Done, Send, Cancel
<1>7. ASSUME NEW q \in Result, ResultStep(q) \/ \E i \in Id : ResultGets(q, i)
      PROVE  pc' = pc /\ UNCHANGED <<fixed, stopped>>
  BY <1>7, Zenon DEF ResultStep, ResultGets, ResultTurnedAway, ResultReads, CallReturns
<1>8. CASE UNCHANGED vars
  BY <1>2, <1>8, Zenon DEF vars
<1>9. CASE Environment
  BY <1>2, <1>3, <1>4, <1>5, <1>6, <1>7, <1>9, Zenon DEF Environment
<1> QED
  BY <1>2, <1>4, <1>7, <1>8, <1>9, NextSteps, Zenon

\* A request that began is ended exactly once, unless a local source that was
\* stopped has dropped it with its producer, and never twice.
THEOREM SourceEndedOnce == Spec => []EndedOnce
<1>1. Inv /\ GoneInv => EndedOnce
  BY Zenon DEF Inv, RequestInv, GoneInv, EndedOnce, Over
<1>2. Init => GoneInv
  BY DEF Init, GoneInv
<1>3. Inv => TypeOK
  BY Zenon DEF Inv
<1> QED
  BY <1>1, <1>2, <1>3, GoneStep, SourceInv, PTL DEF Spec

\* The table of pending requests holds exactly the requests that own their ids.
THEOREM SourcePendingExact == Spec => []PendingExact
<1>1. Inv => PendingExact
  BY Zenon DEF Inv
<1> QED
  BY <1>1, SourceInv, PTL
-----------------------------------------------------------------------------
(* Nothing waits for itself.                                               *)

\* Who runs what in line: a handler that has not returned, or a callback that
\* runs; and no chain of callbacks closes or goes on for ever.
WaitInv ==
  /\ \A q \in Result :
       /\ at[q] = "idle" => by[q] = None
       /\ by[q] \in Request => pc[by[q]] \in InHandler
       /\ by[q] \in Result => Grpc /\ at[by[q]] = "call"
  /\ \A S \in SUBSET Result : S # {} => \E a \in S : \A q \in S : by[q] # a
  /\ ~Grpc => NoWaitCycle

\* What each task waits for.
ResultWaits(a) ==
  /\ at[a] = "idle" => WaitsFor(a) = {}
  /\ at[a] = "got" =>
       WaitsFor(a) = IF writing[target[a]] /\ ~TurnedAway(a) THEN {target[a]} ELSE {}
  /\ at[a] = "call" => WaitsFor(a) = {q \in Result : by[q] = a}
RequestWaits(a) ==
  /\ pc[a] = "lock" => WaitsFor(a) = Readers(a)
  /\ pc[a] \in InHandler => WaitsFor(a) = {q \in Result : by[q] = a}
  /\ pc[a] \notin InHandler \cup {"lock"} => WaitsFor(a) = {}

LEMMA Waits == (\A a \in Result : ResultWaits(a)) /\ (\A a \in Request : RequestWaits(a))
<1>1. ASSUME NEW a \in Result PROVE ResultWaits(a)
  <2>1. a \notin Request
    BY SourceAssumption, Zenon
  <2> QED BY <2>1, Zenon DEF ResultWaits, WaitsFor
<1>2. ASSUME NEW a \in Request PROVE RequestWaits(a)
  <2>1. a \notin Result
    BY SourceAssumption, Zenon
  <2> QED BY <2>1, Zenon DEF RequestWaits, WaitsFor, InHandler
<1> QED BY <1>1, <1>2, Zenon

\* A step that adds waits only for tasks that wait for nothing, or for tasks that
\* wait for nothing, closes no cycle.
LEMMA NoCycleStep ==
  ASSUME NoWaitCycle,
         \A a \in Request \cup Result : \A b \in WaitsFor(a)' :
           b \in WaitsFor(a) \/ \A c \in WaitsFor(b)' : WaitsFor(c)' = {}
  PROVE  NoWaitCycle'
<1> SUFFICES ASSUME NEW S \in SUBSET (Request \cup Result), S # {}
             PROVE  \E a \in S : WaitsFor(a)' \cap S = {}
  BY Zenon DEF NoWaitCycle
<1>1. CASE \E a \in S : WaitsFor(a)' = {}
  BY <1>1, Zenon
<1>2. CASE /\ \A a \in S : WaitsFor(a)' # {}
           /\ \E b \in S : \A c \in WaitsFor(b)' : WaitsFor(c)' = {}
  BY <1>2, Zenon
<1>3. CASE \A b \in S : ~ \A c \in WaitsFor(b)' : WaitsFor(c)' = {}
  <2>1. PICK a \in S : WaitsFor(a) \cap S = {}
    BY Zenon DEF NoWaitCycle
  <2>2. \A b \in WaitsFor(a)' \cap S : b \in WaitsFor(a)
    BY <1>3, Zenon
  <2> QED BY <2>1, <2>2, Zenon
<1> QED BY <1>1, <1>2, <1>3, Zenon

\* A gRPC result never waits for a writer: where there is one, the request has
\* closed and the result is turned away.  So all waits are in line.
LEMMA GrpcNoCycle == ASSUME Inv, WaitInv, Grpc PROVE NoWaitCycle
<1> SUFFICES ASSUME NEW S \in SUBSET (Request \cup Result), S # {}
             PROVE  \E a \in S : WaitsFor(a) \cap S = {}
  BY Zenon DEF NoWaitCycle
<1>1. \A q \in Result : at[q] = "got" => WaitsFor(q) = {}
  BY Waits, Zenon DEF ResultWaits, TurnedAway, Inv, RequestInv, ResultInv
<1>2. \A q \in Result : WaitsFor(q) \subseteq {p \in Result : by[p] = q}
  BY <1>1, Waits, Zenon DEF ResultWaits, Inv, TypeOK
<1>3. \A r \in Request : WaitsFor(r) \subseteq Result
  BY Waits, Zenon DEF RequestWaits, Readers
<1>4. CASE S \cap Result = {}
  BY <1>3, <1>4, Zenon
<1>5. CASE S \cap Result # {}
  <2>1. PICK a \in S \cap Result : \A q \in S \cap Result : by[q] # a
    BY <1>5, Zenon DEF WaitInv
  <2> QED BY <1>2, <2>1
<1> QED BY <1>4, <1>5, Zenon

\* Of the other kinds no callback emits in line, so a callback waits for nothing;
\* new waits are for a new result, or for a request that waits for callbacks.
LEMMA PlainNoCycle ==
  ASSUME Inv, TypeOK', WaitInv, ~Grpc, kind' = kind,
         \A q \in Result : by'[q] \notin Result,
         \A q \in Result :
           /\ at'[q] = "got" /\ writing'[target'[q]] =>
                \/ at[q] = "got" /\ target'[q] = target[q] /\ writing[target[q]]
                \/ target'[q] \in Request /\ pc'[target'[q]] = "lock"
           /\ by'[q] \in Request =>
                by'[q] = by[q] \/ (at'[q] = "got" /\ ~writing'[target'[q]])
  PROVE  NoWaitCycle'
<1>1. /\ \A a \in Result : ResultWaits(a)' /\ ResultWaits(a)
      /\ \A a \in Request : RequestWaits(a)' /\ RequestWaits(a)
  <2>1. ((\A a \in Result : ResultWaits(a)) /\ (\A a \in Request : RequestWaits(a)))'
    BY Waits, PTL
  <2> QED BY <2>1, Waits, Zenon
<1>2. \A q \in Result : ~TurnedAway(q) /\ ~TurnedAway(q)'
  BY Zenon DEF TurnedAway, Grpc
<1>3. \A q \in Result : at'[q] = "call" => WaitsFor(q)' = {}
  BY <1>1 DEF ResultWaits
<1>4. \A r \in Request : pc'[r] = "lock" => \A c \in WaitsFor(r)' : WaitsFor(c)' = {}
  BY <1>1, <1>3 DEF RequestWaits, Readers
<1>5. ASSUME NEW a \in Request \cup Result, NEW b \in WaitsFor(a)'
      PROVE  b \in WaitsFor(a) \/ \A c \in WaitsFor(b)' : WaitsFor(c)' = {}
  <2>1. CASE a \in Result /\ at'[a] = "got"
    <3>1. b = target'[a] /\ writing'[b]
      BY <1>1, <2>1 DEF ResultWaits
    <3>2. CASE at[a] = "got" /\ target'[a] = target[a] /\ writing[target[a]]
      BY <1>1, <1>2, <2>1, <3>1, <3>2 DEF ResultWaits
    <3>3. CASE b \in Request /\ pc'[b] = "lock"
      BY <1>4, <3>3, Zenon
    <3> QED BY <2>1, <3>1, <3>2, <3>3, Zenon
  <2>2. CASE a \in Request /\ pc'[a] = "lock"
    BY <1>4, <2>2, Zenon
  <2>3. CASE a \in Request /\ pc'[a] \in InHandler
    <3>1. b \in Result /\ by'[b] = a
      BY <1>1, <2>3 DEF RequestWaits
    <3>2. CASE by[b] = a
      BY <1>1, <2>3, <3>1, <3>2 DEF RequestWaits, WaitInv
    <3>3. CASE at'[b] = "got" /\ ~writing'[target'[b]]
      BY <1>1, <3>1, <3>3, Zenon DEF ResultWaits
    <3> QED BY <2>3, <3>1, <3>2, <3>3, Zenon
  <2>4. CASE a \in Result /\ at'[a] # "got"
    BY <1>1, <1>3, <2>4 DEF ResultWaits, TypeOK
  <2>5. CASE a \in Request /\ pc'[a] \notin InHandler \cup {"lock"}
    BY <1>1, <2>5, Zenon DEF RequestWaits
  <2> QED BY <2>1, <2>2, <2>3, <2>4, <2>5, Zenon
<1> QED
  BY <1>5, NoCycleStep, Zenon DEF WaitInv

\* Steps of requests: a handler returns when it runs nothing in line.
LEMMA RequestWaitInv ==
  ASSUME Inv, Inv', WaitInv, UNCHANGED <<kind, results>>,
         \A r \in Request : /\ pc[r] \in InHandler => pc'[r] \in InHandler \/ Alone(r)
                            /\ pc'[r] = "end" => pc[r] \in {"lock", "end"}
  PROVE  WaitInv'
<1>1. UNCHANGED <<at, target, by>> /\ Grpc' = Grpc
  BY Zenon DEF results, Grpc
<1>2. ASSUME NEW q \in Result, by[q] \in Request PROVE pc'[by[q]] \in InHandler
  <2>1. pc[by[q]] \in InHandler /\ ~Alone(by[q])
    BY <1>2, Zenon DEF WaitInv, Alone
  <2> QED BY <1>2, <2>1, Zenon
<1>3. ASSUME ~Grpc PROVE NoWaitCycle'
  <2>1. ASSUME NEW q \in Result, at'[q] = "got", writing'[target'[q]]
        PROVE  \/ at[q] = "got" /\ target'[q] = target[q] /\ writing[target[q]]
               \/ target'[q] \in Request /\ pc'[target'[q]] = "lock"
    <3>1. target[q] \in Request /\ pc'[target[q]] \in {"lock", "end"}
      BY <1>1, <2>1, Zenon DEF Inv, ResultInv, RequestInv
    <3>2. pc'[target[q]] = "end" => writing[target[q]]
      <4>1. pc'[target[q]] = "end" => pc[target[q]] \in {"lock", "end"}
        BY <3>1, Zenon
      <4> QED BY <3>1, <4>1, Zenon DEF Inv, RequestInv
    <3> QED BY <1>1, <2>1, <3>1, <3>2, Zenon
  <2>2. \A q \in Result : by'[q] \notin Result
    BY <1>1, <1>3, Zenon DEF WaitInv
  <2>3. TypeOK'
    BY Zenon DEF Inv
  <2> QED BY <1>1, <1>3, <2>1, <2>2, <2>3, PlainNoCycle, Zenon
<1> QED
  BY <1>1, <1>2, <1>3 DEF WaitInv

\* The in-line chains are kept when a result that nothing runs below changes.
LEMMA ChainStep ==
  ASSUME WaitInv, NEW q \in Result, \A p \in Result : by[p] # q,
         by' = [by EXCEPT ![q] = by'[q]], by'[q] # q,
         by \in [Result -> Request \cup Result \cup {None}]
  PROVE  \A S \in SUBSET Result : S # {} => \E a \in S : \A p \in S : by'[p] # a
<1> SUFFICES ASSUME NEW S \in SUBSET Result, S # {}
             PROVE  \E a \in S : \A p \in S : by'[p] # a
  BY Zenon
<1>1. \A p \in Result \ {q} : by'[p] = by[p]
  BY Zenon
<1>2. CASE q \in S
  BY <1>1, <1>2, Zenon
<1>3. CASE q \notin S
  BY <1>1, <1>3 DEF WaitInv
<1> QED BY <1>2, <1>3, Zenon

\* A result begins in line of a handler or a callback that waits for it.
LEMMA GetsWaitInv ==
  ASSUME Inv, Inv', WaitInv, Recursive \subseteq GrpcKinds,
         NEW q \in Result, NEW i \in Id, ResultGets(q, i)
  PROVE  WaitInv'
<1>1. /\ UNCHANGED <<kind, pc, writing>> /\ Grpc' = Grpc /\ at[q] = "idle" /\ hasResult
      /\ at' = [at EXCEPT ![q] = "got"] /\ target' = [target EXCEPT ![q] = owner[i]]
      /\ owner[i] \in Request
  BY Zenon DEF ResultGets, fixed, request, Grpc, Inv, TypeOK
<1>2. PICK h \in Emitters(i) \ {q} : by' = [by EXCEPT ![q] = h]
  BY Zenon DEF ResultGets
<1>3. by'[q] = h /\ \A p \in Result \ {q} : by'[p] = by[p] /\ at'[p] = at[p] /\ target'[p] = target[p]
  BY <1>1, <1>2 DEF Inv, TypeOK
<1>4. h \notin Result => h = None \/ (h \in Request /\ pc[h] \in InHandler)
  BY <1>2, Zenon DEF Emitters
<1>5. h \in Result => Grpc /\ at[h] = "call" /\ h # q
  BY <1>2, SourceAssumption, Zenon DEF Emitters, Grpc
<1>6. h \in Request => pc[h] \in InHandler
  BY <1>4, SourceAssumption, Zenon
<1>7. \A p \in Result : by[p] # q
  BY <1>1, Zenon DEF WaitInv
<1>8. ASSUME NEW p \in Result
      PROVE  /\ at'[p] = "idle" => by'[p] = None
             /\ by'[p] \in Request => pc'[by'[p]] \in InHandler
             /\ by'[p] \in Result => Grpc' /\ at'[by'[p]] = "call"
  <2>1. CASE p = q
    BY <1>1, <1>3, <1>5, <1>6, <2>1, Zenon DEF Inv, TypeOK
  <2>2. CASE p # q
    BY <1>1, <1>3, <1>7, <2>2 DEF WaitInv, Inv, TypeOK
  <2> QED BY <2>1, <2>2, Zenon
<1>9. by' = [by EXCEPT ![q] = by'[q]] /\ by'[q] # q
  BY <1>2, <1>3, Zenon
<1>10. \A S \in SUBSET Result : S # {} => \E a \in S : \A p \in S : by'[p] # a
  BY <1>7, <1>9, ChainStep, Zenon DEF Inv, TypeOK
<1>11. ASSUME ~Grpc PROVE NoWaitCycle'
  <2>1. \A p \in Result : by'[p] \notin Result
    BY <1>1, <1>8, <1>11, Zenon
  <2>2. ~writing[owner[i]]
    <3>1. pc[owner[i]] \notin {"lock", "end"}
      BY <1>1, <1>11 DEF Inv, PendingExact, Reserves
    <3> QED BY <1>1, <3>1, Zenon DEF Inv, RequestInv
  <2>3. TypeOK' /\ kind' = kind
    BY <1>1, Zenon DEF Inv
  <2>4. \A p \in Result :
           /\ at'[p] = "got" /\ writing'[target'[p]] =>
                at[p] = "got" /\ target'[p] = target[p] /\ writing[target[p]]
           /\ by'[p] \in Request =>
                by'[p] = by[p] \/ (at'[p] = "got" /\ ~writing'[target'[p]])
    BY <1>1, <1>3, <2>2 DEF Inv, TypeOK
  <2> QED BY <1>11, <2>1, <2>3, <2>4, PlainNoCycle, Zenon
<1> QED
  BY <1>8, <1>10, <1>11, <1>1, Zenon DEF WaitInv

\* A result goes on or is over; over only when nothing runs below it.
LEMMA ResultWaitInv ==
  ASSUME Inv, Inv', WaitInv, NEW q \in Result, ResultStep(q)
  PROVE  WaitInv'
<1>1. /\ UNCHANGED <<kind, pc, writing>> /\ Grpc' = Grpc
      /\ \A p \in Result : by[p] # q
  BY Zenon DEF ResultStep, ResultTurnedAway, ResultReads, CallReturns, Alone, WaitInv, fixed, request, Grpc
<1>2. /\ \A p \in Result \ {q} : by'[p] = by[p] /\ at'[p] = at[p] /\ target'[p] = target[p]
      /\ \/ at'[q] = "idle" /\ by'[q] = None
         \/ at'[q] = "call" /\ by'[q] = by[q]
      /\ by' = [by EXCEPT ![q] = by'[q]]
  BY DEF ResultStep, ResultTurnedAway, ResultReads, CallReturns, ResultOver, Inv, TypeOK
<1>3. ASSUME NEW p \in Result
      PROVE  /\ at'[p] = "idle" => by'[p] = None
             /\ by'[p] \in Request => pc'[by'[p]] \in InHandler
             /\ by'[p] \in Result => Grpc' /\ at'[by'[p]] = "call"
  <2>1. CASE p = q
    BY <1>1, <1>2, <2>1, SourceAssumption DEF WaitInv
  <2>2. CASE p # q
    BY <1>1, <1>2, <2>2 DEF WaitInv
  <2> QED BY <2>1, <2>2, Zenon
<1>4. by'[q] # q
  BY <1>1, <1>2, SourceAssumption, Zenon
<1>5. \A S \in SUBSET Result : S # {} => \E a \in S : \A p \in S : by'[p] # a
  <2>1. by \in [Result -> Request \cup Result \cup {None}]
    BY Zenon DEF Inv, TypeOK
  <2>2. by' = [by EXCEPT ![q] = by'[q]] /\ \A p \in Result : by[p] # q
    BY <1>1, <1>2, <2>1, Zenon
  <2> QED
    BY <1>4, <2>1, <2>2, ChainStep, Zenon
<1>6. ASSUME ~Grpc PROVE NoWaitCycle'
  <2>1. \A p \in Result : by'[p] \notin Result
    BY <1>1, <1>3, <1>6, Zenon
  <2>2. TypeOK'
    BY Zenon DEF Inv
  <2>3. \A p \in Result :
           /\ at'[p] = "got" /\ writing'[target'[p]] =>
                at[p] = "got" /\ target'[p] = target[p] /\ writing[target[p]]
           /\ by'[p] \in Request => by'[p] = by[p]
    BY <1>1, <1>2, SourceAssumption, Zenon
  <2> QED BY <1>1, <1>6, <2>1, <2>2, <2>3, PlainNoCycle, Zenon
<1> QED
  BY <1>1, <1>3, <1>5, <1>6, Zenon DEF WaitInv

LEMMA DropLocalWaitInv ==
  ASSUME Inv, Inv', WaitInv, NEW r \in Request, DropLocal(r)
  PROVE  WaitInv'
<1>1. ~Grpc /\ Grpc' = Grpc /\ kind' = kind
  BY Zenon DEF DropLocal, fixed, Grpc, GrpcKinds
<1>2. \A q \in Result :
        IF by[q] = r THEN at'[q] = "idle" /\ by'[q] = None
        ELSE at'[q] = at[q] /\ target'[q] = target[q] /\ by'[q] = by[q]
  <2>1. \A q \in Result : by[q] \notin Result
    BY <1>1, Zenon DEF WaitInv
  <2>2. \A q \in Result : q \in Below(r) <=> by[q] = r
    BY <2>1, Zenon DEF Below
  <2> QED BY <2>2, Zenon DEF DropLocal
<1>3. writing' = [writing EXCEPT ![r] = FALSE]
  BY Zenon DEF DropLocal
<1>4. \A s \in Request \ {r} : pc'[s] = pc[s] \/ (pc[s] \notin InHandler /\ pc'[s] \notin InHandler)
  BY DEF DropLocal, To, Leave, Woken, Inv, TypeOK, InHandler
<1>5. ASSUME NEW p \in Result
      PROVE  /\ at'[p] = "idle" => by'[p] = None
             /\ by'[p] \in Request => pc'[by'[p]] \in InHandler
             /\ by'[p] \notin Result
  BY <1>1, <1>2, <1>4, SourceAssumption, Zenon DEF WaitInv
<1>6. \A S \in SUBSET Result : S # {} => \E a \in S : \A p \in S : by'[p] # a
  BY <1>5
<1>7. NoWaitCycle'
  <2>1. TypeOK'
    BY Zenon DEF Inv
  <2>2. \A p \in Result :
           /\ at'[p] = "got" /\ writing'[target'[p]] =>
                at[p] = "got" /\ target'[p] = target[p] /\ writing[target[p]]
           /\ by'[p] \in Request => by'[p] = by[p]
    BY <1>2, <1>3, SourceAssumption DEF Inv, TypeOK, ResultInv
  <2> QED BY <1>1, <1>5, <2>1, <2>2, PlainNoCycle, Zenon
<1> QED
  BY <1>1, <1>5, <1>6, <1>7, Zenon DEF WaitInv

LEMMA InitWaitInv == ASSUME Init PROVE WaitInv
<1>1. \A q \in Result : at[q] = "idle" /\ by[q] = None /\ by[q] \notin Result \cup Request
  BY SourceAssumption, Zenon DEF Init
<1>2. \A r \in Request : pc[r] = "idle"
  BY Zenon DEF Init
<1>3. \A a \in Request \cup Result : WaitsFor(a) = {}
  BY <1>1, <1>2, Waits, Zenon DEF ResultWaits, RequestWaits, InHandler
<1> QED
  BY <1>1, <1>3 DEF WaitInv, NoWaitCycle

LEMMA NextWaitInv ==
  ASSUME Recursive \subseteq GrpcKinds, Inv, Inv', WaitInv, [Next]_vars
  PROVE  WaitInv'
<1>1. CASE UNCHANGED vars
  BY <1>1, RequestWaitInv, Zenon DEF vars, fixed
<1>2. CASE Stop
  BY <1>2, RequestWaitInv, Zenon DEF Stop, Woken, fixed, InHandler
<1>3. ASSUME NEW r \in Request, SetCallback(r) \/ Done(r) \/ Send(r) \/ Cancel(r)
      PROVE  WaitInv'
  BY <1>3, RequestWaitInv, Zenon DEF SetCallback, Done, Send, Cancel, fixed
<1>4. ASSUME NEW r \in Request, Arrive(r) \/ Drop(r) \/ RequestStep(r)
      PROVE  WaitInv'
  <2>1. UNCHANGED <<kind, results>>
    BY <1>4, Zenon DEF Arrive, Drop, RequestStep, Gate, GateStopped, GateEnter, GateFull, GateSleep,
       Begin, BeginFails, RejectReturns, BeginOk, BeginDuplicate, End, Close, QueueWrite, EndBegins,
       EndReturns, ConsumeReturns, Await, WaitDone, WaitCancelled, Inbound, EofReturns, Receive,
       Advance, fixed
  <2>2. pc[r] \in InHandler => pc'[r] \in InHandler \/ Alone(r)
    BY <1>4, Zenon DEF Arrive, Drop, RequestStep, Gate, GateStopped, GateEnter, GateFull, GateSleep,
       Begin, BeginFails, RejectReturns, BeginOk, BeginDuplicate, End, Close, QueueWrite, EndBegins,
       EndReturns, ConsumeReturns, Await, WaitDone, WaitCancelled, Inbound, EofReturns, Receive,
       InHandler, Accepted
  <2>3. \/ pc' = pc
        \/ \E p \in Pcs : /\ To(r, p) \/ Leave(r, p)
                          /\ p = "end" => pc[r] = "lock"
    <3> USE DEF Pcs, AtGate, Accepted, Over
    <3>1. CASE Arrive(r) \/ Gate(r)
      BY <3>1 DEF Arrive, Gate, GateStopped, GateEnter, GateFull, GateSleep
    <3>2. CASE Begin(r)
      BY <3>2 DEF Begin, BeginFails, RejectReturns, BeginOk, BeginDuplicate
    <3>3. CASE Drop(r) \/ End(r)
      <4>1. CASE Drop(r) \/ QueueWrite(r)
        BY <4>1 DEF Drop, QueueWrite
      <4>2. CASE Close(r)
        <5>1. To(r, "queue")
          BY <4>2, Zenon DEF Close
        <5> QED BY <5>1
      <4>3. CASE EndBegins(r)
        <5>1. To(r, "end") /\ pc[r] = "lock"
          BY <4>3, Zenon DEF EndBegins
        <5> QED BY <5>1, Zenon
      <4>4. CASE EndReturns(r)
        <5>1. Leave(r, "over")
          BY <4>4, Zenon DEF EndReturns
        <5> QED BY <5>1
      <4> QED
        BY <3>3, <4>1, <4>2, <4>3, <4>4, Zenon DEF End
    <3>4. ASSUME NEW res, NEW p \in {"inbound", "consume", "eof", "wait", "close"}, Advance(r, res, p)
          PROVE  \E x \in Pcs : To(r, x) /\ x # "end"
      BY <3>4, Zenon DEF Advance
    <3>5. CASE ConsumeReturns(r)
      BY <3>4, <3>5, Zenon DEF ConsumeReturns, AfterConsume
    <3>6. CASE Await(r) \/ Inbound(r) \/ EofReturns(r) \/ Receive(r)
      BY <3>4, <3>6, Zenon DEF Await, WaitDone, WaitCancelled, Inbound, EofReturns, Receive
    <3> QED
      BY <1>4, <3>1, <3>2, <3>3, <3>5, <3>6, Zenon DEF RequestStep
  <2>4. /\ pc'[r] = "end" => pc[r] \in {"lock", "end"}
        /\ \A s \in Request \ {r} : pc'[s] = pc[s] \/ (pc[s] \in AtGate /\ pc'[s] \in AtGate)
    BY <2>3, Zenon DEF To, Leave, Woken, AtGate, Inv, TypeOK
  <2> QED
    BY <2>1, <2>2, <2>4, RequestWaitInv, Zenon DEF AtGate, InHandler
<1>5. CASE Environment
  BY <1>2, <1>3, <1>4, <1>5, DropLocalWaitInv, GetsWaitInv, Zenon DEF Environment
<1> QED
  BY <1>1, <1>4, <1>5, ResultWaitInv, NextSteps, Zenon

\* Nothing waits for itself, in requests of any number and kind: results behind a
\* writer, a writer behind callbacks, handlers and callbacks behind what they emit
\* in line.  Of local, Kafka and HTTP sources this is shown for callbacks that do
\* not emit in line; with them it is false.
THEOREM SourceNoWaitCycle ==
  ASSUME Recursive \subseteq GrpcKinds
  PROVE  Spec => []NoWaitCycle
<1>1. Init => WaitInv
  BY InitWaitInv, Zenon
<1>2. Inv /\ Inv' /\ WaitInv /\ [Next]_vars => WaitInv'
  BY NextWaitInv, Zenon
<1>3. Inv /\ WaitInv => NoWaitCycle
  BY GrpcNoCycle, Zenon DEF WaitInv
<1> QED
  BY <1>1, <1>2, <1>3, SourceInv, PTL DEF Spec
=============================================================================
