---------------------------- MODULE StoreProofs ----------------------------
(***************************************************************************)
(* Theorems about what the graph stores: RotatingMap, for every set of     *)
(* keys and values, every number of shards, every hash and every capacity; *)
(* the registry of serializers and the join storage, for every value of    *)
(* the constants that their modules assume.                                *)
(***************************************************************************)
EXTENDS RotatingMap, RuntimeRegistry, RuntimeJoin, FiniteSetTheorems, TLAPS

\* The number of entries of a shard is a natural number.
LEMMA ShardLenType == ASSUME NEW m, NEW s PROVE ShardLen(m, s) \in Nat
<1>1. IsFiniteSet({k \in Key : ShardOf[k] = s /\ m[k] # None})
  BY MapAssumption, FS_Subset, Zenon
<1> QED
  BY <1>1, FS_CardinalityType, Zenon DEF ShardLen

\* Inserting under a key that has no entry, removing, and moving a shard's
\* entries: the invariant holds after them, and what they do to contents.
LEMMA InsertStep ==
  ASSUME Inv, NEW k \in Key, NEW v \in Value, Lookup(k) = None, Insert(k, v)
  PROVE  Inv' /\ contents' = [contents EXCEPT ![k] = v]
<1>1. current' = [current EXCEPT ![k] = v] /\ previous' = previous
  BY Zenon DEF Insert
<1>2. v # None /\ previous[k] = None
  BY MapAssumption, Zenon DEF Lookup, Inv, OneEntry
<1>3. TypeOK'
  <2>1. current' \in [Key -> Value \cup {None}] /\ previous' \in [Key -> Value \cup {None}]
    BY <1>1, Zenon DEF Inv, TypeOK
  <2>2. high_water_mark' \in [Shard -> Nat]
    BY Zenon DEF Insert, Inv, TypeOK
  <2>3. buckets' \in [Shard -> [current : Nat, previous : Nat]]
    <3> DEFINE s == ShardOf[k]
               n == ShardLen([current EXCEPT ![k] = v], s)
    <3>1. n \in Nat /\ s \in Shard
      BY ShardLenType, MapAssumption, Zenon
    <3>2. buckets' = [buckets EXCEPT ![s].current = IF n > @ THEN n ELSE @]
      BY Zenon DEF Insert
    <3> HIDE DEF n, s
    <3> QED
      BY <3>1, <3>2 DEF Inv, TypeOK
  <2> QED BY <2>1, <2>2, <2>3, Zenon DEF TypeOK
<1>4. OneEntry'
  BY <1>1, <1>2, Zenon DEF Inv, TypeOK, OneEntry
<1>5. contents' = [contents EXCEPT ![k] = v]
  BY <1>1, <1>2, Zenon DEF Inv, TypeOK, contents, Lookup
<1> QED BY <1>3, <1>4, <1>5, Zenon DEF Inv

LEMMA RemoveStep ==
  ASSUME Inv, NEW k \in Key, Remove(k)
  PROVE  Inv' /\ contents' = [contents EXCEPT ![k] = None]
<1>1. TypeOK'
  BY Zenon DEF Remove, Inv, TypeOK
<1>2. OneEntry'
  BY Zenon DEF Remove, Inv, TypeOK, OneEntry
<1>3. contents' = [contents EXCEPT ![k] = None]
  BY Zenon DEF Remove, Inv, TypeOK, OneEntry, contents, Lookup
<1> QED BY <1>1, <1>2, <1>3, Zenon DEF Inv

LEMMA RotateStep ==
  ASSUME Inv, NEW s \in Shard, RotateShard(s)
  PROVE  Inv' /\ contents' = contents
<1>0. Total(s) \in Nat /\ Mark(s) \in Nat
  BY ShardLenType DEF Total, Mark, Inv, TypeOK
<1>1. CASE MoveEntries(s)
  <2>1. /\ previous' = [k \in Key |-> IF ShardOf[k] = s THEN Lookup(k) ELSE previous[k]]
        /\ current' = [k \in Key |-> IF ShardOf[k] = s THEN None ELSE current[k]]
    BY <1>1, Zenon DEF MoveEntries
  <2>2. current' \in [Key -> Value \cup {None}] /\ previous' \in [Key -> Value \cup {None}]
    BY <2>1, Zenon DEF Lookup, Inv, TypeOK
  <2>3. high_water_mark' \in [Shard -> Nat]
    BY <1>0, <1>1, Zenon DEF MoveEntries, Inv, TypeOK
  <2>4. buckets' \in [Shard -> [current : Nat, previous : Nat]]
    BY <1>0, <1>1, Zenon DEF MoveEntries, Inv, TypeOK
  <2>5. OneEntry'
    BY <2>1, Zenon DEF OneEntry, Inv
  <2>6. contents' = contents
    BY <2>1, Zenon DEF contents, Lookup
  <2> QED BY <2>2, <2>3, <2>4, <2>5, <2>6, Zenon DEF Inv, TypeOK
<1>2. CASE /\ high_water_mark' = [high_water_mark EXCEPT ![s] = Mark(s)]
           /\ UNCHANGED <<current, previous, buckets>>
  <2>1. TypeOK'
    BY <1>0, <1>2, Zenon DEF Inv, TypeOK
  <2>2. OneEntry' /\ contents' = contents
    BY <1>2, Zenon DEF Inv, OneEntry, contents, Lookup
  <2> QED BY <2>1, <2>2, Zenon DEF Inv
<1> QED BY <1>1, <1>2, Zenon DEF RotateShard

\* A call does to contents what it does to a plain map.
LEMMA CallStep ==
  ASSUME Inv, NEW k \in Key, UserCall(k)
  PROVE  Inv' /\ Plain!Next
<1>1. /\ Lookup(k) \in Value \cup {None} /\ contents[k] = Lookup(k) /\ None \notin Value
      /\ contents \in [Key -> Value \cup {None}]
  BY MapAssumption, Zenon DEF contents, Lookup, Inv, TypeOK
<1>2. UNCHANGED mapVars => Inv' /\ contents' = contents
  BY Zenon DEF mapVars, Inv, TypeOK, OneEntry, contents, Lookup
<1>3. ASSUME NEW v \in Value, Set(k, v) PROVE Inv' /\ Plain!Set(k, v)
  <2>1. CASE Lookup(k) # None
    BY <1>1, <1>2, <1>3, <2>1, Zenon DEF Set, Return, Plain!Set, Plain!Return
  <2>2. CASE Lookup(k) = None
    BY <1>1, <1>3, <2>2, InsertStep, Zenon DEF Set, Return, Plain!Set, Plain!Return
  <2> QED BY <2>1, <2>2, Zenon
<1>4. ASSUME NEW v \in Value, GetOrCreate(k, v) PROVE Inv' /\ Plain!GetOrCreate(k, v)
  <2>1. CASE Lookup(k) # None
    BY <1>1, <1>2, <1>4, <2>1, Zenon DEF GetOrCreate, Return, Plain!GetOrCreate, Plain!Return
  <2>2. CASE Lookup(k) = None
    <3>1. Inv' /\ contents' = [contents EXCEPT ![k] = v] /\ Return(k, v, FALSE)
      BY <1>4, <2>2, InsertStep, Zenon DEF GetOrCreate
    <3>2. contents'[k] = v
      BY <1>1, <3>1, Zenon
    <3> QED
      BY <1>1, <2>2, <3>1, <3>2, Zenon DEF Return, Plain!GetOrCreate, Plain!Return
  <2> QED BY <2>1, <2>2, Zenon
<1>5. ASSUME Get(k) PROVE Inv' /\ Plain!Get(k)
  BY <1>1, <1>2, <1>5, Zenon DEF Get, Return, Plain!Get, Plain!Return
<1>6. ASSUME Pop(k) PROVE Inv' /\ Plain!PopIf(k, Value)
  <2>1. Inv' /\ contents' = [contents EXCEPT ![k] = None] /\ Return(k, Lookup(k), Lookup(k) # None)
    BY <1>6, RemoveStep, Zenon DEF Pop
  <2>2. CASE Lookup(k) \in Value
    BY <1>1, <2>1, <2>2, Zenon DEF Return, Plain!PopIf, Plain!Return
  <2>3. CASE Lookup(k) = None
    <3>1. contents' = contents
      BY <1>1, <2>1, <2>3, Zenon
    <3> QED
      BY <1>1, <2>1, <2>3, <3>1, Zenon DEF Return, Plain!PopIf, Plain!Return
  <2> QED BY <1>1, <2>2, <2>3, Zenon
<1>7. ASSUME NEW Q \in SUBSET Value, PopIf(k, Q) PROVE Inv' /\ Plain!PopIf(k, Q)
  <2>1. CASE Lookup(k) \in Q
    BY <1>1, <1>7, <2>1, RemoveStep, Zenon DEF PopIf, Return, Plain!PopIf, Plain!Return
  <2>2. CASE Lookup(k) \notin Q
    BY <1>1, <1>2, <1>7, <2>2, Zenon DEF PopIf, Return, Plain!PopIf, Plain!Return
  <2> QED BY <2>1, <2>2, Zenon
<1>8. CASE \E v \in Value : Set(k, v) \/ GetOrCreate(k, v)
  BY <1>3, <1>4, <1>8, Zenon DEF Plain!Next
<1>9. CASE Get(k)
  BY <1>5, <1>9, Zenon DEF Plain!Next
<1>10. CASE Pop(k)
  BY <1>6, <1>10, Zenon DEF Plain!Next
<1>11. CASE \E Q \in SUBSET Value : PopIf(k, Q)
  BY <1>7, <1>11, Zenon DEF Plain!Next
<1> QED
  BY <1>8, <1>9, <1>10, <1>11, Zenon DEF UserCall

\* Every step keeps the invariant and is a step of a plain map, or none.
LEMMA Step ==
  ASSUME Inv, [Next]_vars
  PROVE  Inv' /\ [Plain!Next]_<<contents, ret>>
<1>1. CASE \E k \in Key : UserCall(k)
  BY <1>1, CallStep, Zenon
<1>2. CASE \E s \in Shard : RotateShard(s) /\ UNCHANGED ret
  BY <1>2, RotateStep, Zenon
<1>3. CASE UNCHANGED <<mapVars, ret>>
  BY <1>3, Zenon DEF mapVars, Inv, TypeOK, OneEntry, contents, Lookup
<1> QED
  BY <1>1, <1>2, <1>3, Zenon DEF Next, vars, CallRotate, LoopShard, StopBegin, StopTake, StopJoin, Start,
     StartStore, LoopWake, LoopEnd

LEMMA InitStep == Init => Inv /\ Plain!Init
<1> SUFFICES ASSUME Init PROVE Inv /\ Plain!Init
  BY Zenon
<1>1. TypeOK
  BY Zenon DEF Init, TypeOK
<1>2. OneEntry
  BY Zenon DEF Init, OneEntry
<1>3. Plain!Init
  BY Zenon DEF Init, Plain!Init, contents, Lookup
<1> QED BY <1>1, <1>2, <1>3, Zenon DEF Inv

\* A key never has an entry in both maps, however calls and rotations
\* interleave.
THEOREM MapInv == Spec => []Inv
<1>1. Init => Inv
  BY InitStep, Zenon
<1>2. Inv /\ [Next]_vars => Inv'
  BY Step, Zenon
<1> QED
  BY <1>1, <1>2, PTL DEF Spec

\* Rotation never expires entries: users see one plain map.
THEOREM MapIsOneMap == Spec => IsOneMap
<1>1. Init => Plain!Init
  BY InitStep, Zenon
<1>2. Inv /\ [Next]_vars => [Plain!Next]_<<contents, ret>>
  BY Step, Zenon
<1> QED
  BY <1>1, <1>2, MapInv, PTL DEF Spec, IsOneMap, Plain!Spec
-----------------------------------------------------------------------------
(* The registry of serializers.                                            *)

\* Who has a serde has the one that is stored.
RegistryInv ==
  /\ serializers \in [Type -> Serializer \cup {NoSerde}]
  /\ getter \in [Getter -> [pc : {"new", "select", "store", "over"}, provided : BOOLEAN,
                            serde : Serializer \cup {NoSerde}]]
  /\ provider \in BOOLEAN
  /\ \A g \in Getter :
       /\ getter[g].pc \in {"store", "over"} => getter[g].serde # NoSerde
       /\ getter[g].pc = "over" => getter[g].serde = serializers[TypeOf[g]]

LEMMA RegistryStep ==
  ASSUME RegistryInv, [P!Next]_(P!vars)
  PROVE  RegistryInv'
<1>1. CASE UNCHANGED P!vars
  BY <1>1, Zenon DEF P!vars, RegistryInv
<1>2. CASE P!SetProvider
  BY <1>2, Zenon DEF P!SetProvider, RegistryInv
<1>3. ASSUME NEW g \in Getter, P!Look(g) PROVE RegistryInv'
  <2> DEFINE s == serializers[TypeOf[g]]
             r == IF s # NoSerde THEN [pc |-> "over", provided |-> FALSE, serde |-> s]
                  ELSE [getter[g] EXCEPT !.pc = "select", !.provided = provider]
  <2>1. getter' = [getter EXCEPT ![g] = r] /\ UNCHANGED <<provider, serializers>>
    BY <1>3, Zenon DEF P!Look
  <2>2. s \in Serializer \cup {NoSerde}
    BY RegistryAssumption, Zenon DEF RegistryInv
  <2>3. r \in [pc : {"select", "over"}, provided : BOOLEAN, serde : Serializer \cup {NoSerde}]
    BY <2>2, ZenonT(40) DEF RegistryInv
  <2>4. r.pc = "over" => r.serde = serializers[TypeOf[g]] /\ r.serde # NoSerde
    BY DEF RegistryInv
  <2>5. r.pc # "store"
    BY <2>3, Zenon
  <2> HIDE DEF r, s
  <2> QED
    BY <2>1, <2>3, <2>4, <2>5 DEF RegistryInv
<1>4. ASSUME NEW g \in Getter, P!Select(g) PROVE RegistryInv'
  <2>1. PICK s \in Serializer :
          getter' = [getter EXCEPT ![g].pc = "store", ![g].serde = s]
    <3>1. {P!Default(g), P!Made("custom", g), P!Fallback(g)} \subseteq Serializer
      BY DEF P!Default, P!Made, P!Fallback, Serializer
    <3> QED
      BY <1>4, <3>1, Zenon DEF P!Select
  <2> DEFINE r == [getter[g] EXCEPT !.pc = "store", !.serde = s]
  <2>2. getter' = [getter EXCEPT ![g] = r] /\ UNCHANGED <<provider, serializers>>
    BY <1>4, <2>1, Zenon DEF P!Select, RegistryInv
  <2>3. /\ r \in [pc : {"store"}, provided : BOOLEAN, serde : Serializer \cup {NoSerde}]
        /\ r.serde = s
    BY ZenonT(40) DEF RegistryInv
  <2>4. r.pc = "store" /\ r.serde # NoSerde
    BY <2>3, RegistryAssumption, Zenon DEF Serializer
  <2> HIDE DEF r
  <2> QED
    BY <2>2, <2>3, <2>4, Zenon DEF RegistryInv
<1>5. ASSUME NEW g \in Getter, P!Store(g) PROVE RegistryInv'
  <2> DEFINE t == TypeOf[g]
             s == IF serializers[t] = NoSerde THEN getter[g].serde ELSE serializers[t]
             r == [getter[g] EXCEPT !.pc = "over", !.serde = s]
  <2>1. t \in Type /\ s \in Serializer /\ (serializers[t] # NoSerde => s = serializers[t])
    BY <1>5, RegistryAssumption, Zenon DEF P!Store, RegistryInv
  <2>2. /\ serializers' = [serializers EXCEPT ![t] = s] /\ UNCHANGED provider
        /\ getter' = [getter EXCEPT ![g] = r]
    BY <1>5, Zenon DEF P!Store, RegistryInv
  <2>3. /\ r \in [pc : {"over"}, provided : BOOLEAN, serde : Serializer \cup {NoSerde}]
        /\ r.serde = s
    BY <2>1, ZenonT(40) DEF RegistryInv
  <2>4. s # NoSerde
    BY <2>1, RegistryAssumption, Zenon DEF Serializer
  <2> HIDE DEF r, s
  <2>5. ASSUME NEW h \in Getter
        PROVE  /\ getter'[h].pc \in {"store", "over"} => getter'[h].serde # NoSerde
               /\ getter'[h].pc = "over" => getter'[h].serde = serializers'[TypeOf[h]]
    BY <2>1, <2>2, <2>3, <2>4, RegistryAssumption DEF RegistryInv
  <2> QED
    BY <2>1, <2>2, <2>3, <2>5, Zenon DEF RegistryInv
<1> QED
  BY <1>1, <1>2, <1>3, <1>4, <1>5, Zenon DEF P!Next

\* The streams of a service that carry one type share one serde (registry.rs), for
\* any types, streams and interleaving of their constructions.
THEOREM RegistryOneSerde == P!Spec => []OneSerde
<1>1. ASSUME P!Init PROVE RegistryInv
  <2>1. \A g \in Getter : getter[g] = [pc |-> "new", provided |-> FALSE, serde |-> NoSerde]
    BY <1>1, Zenon DEF P!Init
  <2>2. \A g \in Getter : getter[g].pc = "new"
    BY <2>1
  <2>3. /\ provider \in BOOLEAN /\ serializers \in [Type -> Serializer \cup {NoSerde}]
        /\ getter \in [Getter -> [pc : {"new", "select", "store", "over"}, provided : BOOLEAN,
                                  serde : Serializer \cup {NoSerde}]]
    BY <1>1, Zenon DEF P!Init
  <2> QED
    BY <2>2, <2>3, Zenon DEF RegistryInv
<1>2. RegistryInv => OneSerde
  BY DEF RegistryInv, OneSerde, P!OneSerde
<1> QED
  BY <1>1, <1>2, RegistryStep, PTL DEF P!Spec
-----------------------------------------------------------------------------
(* The join storage.                                                       *)

\* A group that is over for good: its callback or its expiry has completed it, or
\* it has expired and nobody is left in it who could renew it.
Over(e) == e \in processed \/ (J!Expired(e) /\ holder[e] = {})

JoinType ==
  /\ now \in Nat /\ config \in Configs /\ created \in 0 .. MaxEntries
  /\ pc \in [JoinCall -> {"new", "lookup", "lock", "retire", "invoke", "skip", "remove", "done", "panicked"}]
  /\ ttl \in [JoinCall -> Nat]
  /\ items \in [JoinKey -> 0 .. created] /\ item \in [JoinCall -> 0 .. created]
  /\ deadline \in [J!Entry -> SUBSET Nat] /\ holder \in [J!Entry -> SUBSET JoinCall]
  /\ timer \in [J!Entry -> {"none", "armed", "locking", "delivering", "removing", "done"}]
  /\ processed \subseteq J!Entry

CallInv(c) ==
  /\ pc[c] \in {"lock", "retire", "invoke", "skip", "remove"} => item[c] # 0
  /\ pc[c] \in {"invoke", "skip"} => holder[item[c]] = {c}
  /\ pc[c] = "retire" => Over(item[c])
  /\ pc[c] = "remove" => item[c] \in processed

JoinInv ==
  /\ JoinType
  /\ \A c \in JoinCall : CallInv(c)
  /\ \A e \in J!Entry : timer[e] \in {"delivering", "removing"} => e \in processed

\* What is over stays over while nobody works in the group.
LEMMA OverFrame ==
  ASSUME JoinType, NEW e \in J!Entry, Over(e), processed \subseteq processed',
         now' \in Nat, now' >= now, deadline'[e] = deadline[e], holder'[e] = holder[e]
  PROVE  e \in processed' \/ (holder'[e] = {} /\ \E d \in deadline'[e] : d <= now')
BY DEF Over, J!Expired, J!Passed, JoinType

\* The item of a call that has one is an entry.
LEMMA ItemEntry ==
  ASSUME JoinInv, NEW c \in JoinCall, pc[c] \in {"lock", "retire", "invoke", "skip", "remove"}
  PROVE  item[c] \in J!Entry /\ item[c] \in 1 .. created
BY JoinAssumption DEF JoinInv, JoinType, CallInv, J!Entry

\* A call that neither moves nor changes its item is as it was, if no step is taken
\* in its group.
LEMMA CallFrame ==
  ASSUME JoinInv, NEW c \in JoinCall, pc'[c] = pc[c], item'[c] = item[c],
         processed \subseteq processed', now' \in Nat, now' >= now,
         pc[c] \in {"retire", "invoke", "skip"} =>
           deadline'[item[c]] = deadline[item[c]] /\ holder'[item[c]] = holder[item[c]]
  PROVE  CallInv(c)'
<1>1. CASE pc[c] \in {"retire", "invoke", "skip", "remove", "lock"}
  <2>1. item[c] \in J!Entry
    BY <1>1, ItemEntry, Zenon
  <2> DEFINE e == item[c]
  <2>2. pc[c] = "retire" =>
          e \in processed' \/ (holder'[e] = {} /\ \E d \in deadline'[e] : d <= now')
    BY <2>1, OverFrame, Zenon DEF JoinInv, CallInv
  <2> QED
    BY <2>2, Zenon DEF JoinInv, CallInv, Over, J!Expired, J!Passed
<1>2. CASE pc[c] \notin {"retire", "invoke", "skip", "remove", "lock"}
  BY <1>2, Zenon DEF CallInv
<1> QED
  BY <1>1, <1>2, Zenon

LEMMA JoinClock ==
  ASSUME JoinInv, 
         UNCHANGED J!vars \/ J!Tick \/ (\E f \in Configs : J!Reload(f)) \/ \E c \in JoinCall : J!Cancel(c)
  PROVE  JoinInv'
<1>1. now' \in Nat /\ now' >= now
  BY DEF J!vars, J!clockVars, J!Tick, J!Reload, J!Cancel, JoinInv, JoinType
<1>2. UNCHANGED <<J!callVars, J!mapVars, J!groupVars, J!timerVars>> /\ config' \in Configs
  BY ZenonT(40) DEF J!vars, J!clockVars, J!Tick, J!Reload, J!Cancel, JoinInv, JoinType
<1>3. UNCHANGED <<pc, ttl, item, items, created, deadline, processed, holder, timer>>
  BY <1>2, Zenon DEF J!callVars, J!mapVars, J!groupVars, J!timerVars
<1>4. \A c \in JoinCall : CallInv(c)'
  BY <1>1, <1>3, CallFrame, Zenon
<1>5. JoinType'
  BY <1>1, <1>2, <1>3, Zenon DEF JoinInv, JoinType
<1> QED
  BY <1>3, <1>4, <1>5, Zenon DEF JoinInv

LEMMA JoinBegin == ASSUME JoinInv, NEW c \in JoinCall, J!Begin(c) PROVE JoinInv'
<1>1. UNCHANGED <<now, config, item, items, created, deadline, processed, holder, timer>>
  BY Zenon DEF J!Begin, J!clockVars, J!mapVars, J!groupVars, J!timerVars
<1>2. pc[c] = "new" /\ pc' = [pc EXCEPT ![c] = "lookup"]
  BY Zenon DEF J!Begin
<1> DEFINE D == J!Remaining(Deadline[c], now) \cup (IF Deadline[c] = {} THEN {config.ttl} ELSE {})
<1>3. D \in SUBSET Nat
  BY JoinAssumption DEF J!Remaining, JoinInv, JoinType
<1>4. D # {}
  <2>1. CASE Deadline[c] = {}
    BY <2>1, Zenon
  <2>2. CASE Deadline[c] # {}
    BY <2>2, Zenon DEF J!Remaining
  <2> QED
    BY <2>1, <2>2, Zenon
<1>5. ttl' = [ttl EXCEPT ![c] = CHOOSE d \in D : TRUE]
  BY Zenon DEF J!Begin
<1>6. (CHOOSE d \in D : TRUE) \in Nat
  BY <1>3, <1>4, Zenon
<1> HIDE DEF D
<1>7. ttl' \in [JoinCall -> Nat]
  BY <1>5, <1>6, Zenon DEF JoinInv, JoinType
<1>8. ASSUME NEW b \in JoinCall PROVE CallInv(b)'
  <2>1. CASE b = c
    BY <1>2, <2>1, Zenon DEF CallInv, JoinInv, JoinType
  <2>2. CASE b # c
    <3>1. pc'[b] = pc[b]
      BY <1>2, <2>2 DEF JoinInv, JoinType
    <3> QED
      BY <1>1, <3>1, CallFrame DEF JoinInv, JoinType
  <2> QED
    BY <2>1, <2>2, Zenon
<1>9. JoinType'
  BY <1>1, <1>2, <1>7, ZenonT(40) DEF JoinInv, JoinType
<1> QED
  BY <1>1, <1>8, <1>9, Zenon DEF JoinInv

LEMMA JoinLookup == ASSUME JoinInv, NEW c \in JoinCall, J!Lookup(c) PROVE JoinInv'
<1>1. UNCHANGED <<now, config, ttl, processed, holder, timer>>
  BY Zenon DEF J!Lookup, J!clockVars, J!timerVars
<1>2. pc[c] = "lookup" /\ pc' = [pc EXCEPT ![c] = "lock"]
  BY Zenon DEF J!Lookup
<1>3. \/ /\ items[KeyOf[c]] # 0 /\ item' = [item EXCEPT ![c] = items[KeyOf[c]]]
         /\ UNCHANGED <<items, created, deadline>>
      \/ /\ created < MaxEntries /\ created' = created + 1
         /\ items' = [items EXCEPT ![KeyOf[c]] = created + 1]
         /\ deadline' = [deadline EXCEPT ![created + 1] = IF ttl[c] > 0 THEN {now + ttl[c]} ELSE {}]
         /\ item' = [item EXCEPT ![c] = created + 1]
  BY Zenon DEF J!Lookup, J!Insert, J!mapVars
<1>4. JoinType'
  <2>1. pc' \in [JoinCall -> {"new", "lookup", "lock", "retire", "invoke", "skip", "remove", "done", "panicked"}]
    BY <1>2, Zenon DEF JoinInv, JoinType
  <2>2. created' \in 0 .. MaxEntries /\ created' >= created
    BY <1>3, JoinAssumption DEF JoinInv, JoinType
  <2>3. items' \in [JoinKey -> 0 .. created'] /\ item' \in [JoinCall -> 0 .. created']
    BY <1>3, JoinAssumption DEF JoinInv, JoinType
  <2>4. deadline' \in [J!Entry -> SUBSET Nat]
    <3>1. (IF ttl[c] > 0 THEN {now + ttl[c]} ELSE {}) \in SUBSET Nat
      BY DEF JoinInv, JoinType
    <3> QED
      BY <1>3, <3>1 DEF JoinInv, JoinType
  <2> QED
    BY <1>1, <2>1, <2>2, <2>3, <2>4 DEF JoinInv, JoinType
<1>5. ASSUME NEW b \in JoinCall PROVE CallInv(b)'
  <2>1. CASE b = c
    <3>1. pc'[c] = "lock" /\ item'[c] # 0
      BY <1>2, <1>3 DEF JoinInv, JoinType
    <3> QED
      BY <2>1, <3>1, Zenon DEF CallInv
  <2>2. CASE b # c
    <3>1. pc'[b] = pc[b] /\ item'[b] = item[b]
      BY <1>2, <1>3, <2>2, Zenon DEF JoinInv, JoinType
    <3>2. ASSUME pc[b] \in {"retire", "invoke", "skip"} PROVE deadline'[item[b]] = deadline[item[b]]
      <4>1. item[b] \in J!Entry /\ item[b] \in 1 .. created
        BY <3>2, ItemEntry, Zenon
      <4>2. item[b] # created + 1
        BY <4>1 DEF JoinInv, JoinType
      <4> QED
        BY <1>3, <4>1, <4>2, Zenon DEF JoinInv, JoinType
    <3> QED
      BY <1>1, <3>1, <3>2, CallFrame DEF JoinInv, JoinType
  <2> QED
    BY <2>1, <2>2, Zenon
<1> QED
  BY <1>1, <1>4, <1>5 DEF JoinInv

LEMMA JoinLockLate == ASSUME JoinInv, NEW c \in JoinCall, J!LockLate(c) PROVE JoinInv'
<1>1. UNCHANGED <<now, config, ttl, item, items, created, deadline, processed, holder, timer>>
  BY Zenon DEF J!LockLate, J!clockVars, J!mapVars, J!groupVars, J!timerVars
<1>2. pc[c] = "lock" /\ pc' = [pc EXCEPT ![c] = "retire"] /\ Over(item[c])
  BY Zenon DEF J!LockLate, Over
<1>3. ASSUME NEW b \in JoinCall PROVE CallInv(b)'
  <2>1. CASE b = c
    <3>1. item[c] \in J!Entry /\ item[c] # 0
      BY <1>2, ItemEntry
    <3> DEFINE e == item[c]
    <3>2. e \in processed' \/ (holder'[e] = {} /\ \E d \in deadline'[e] : d <= now')
      BY <1>1, <1>2, <3>1, OverFrame DEF JoinInv, JoinType
    <3>3. pc'[c] = "retire"
      BY <1>2, Zenon DEF JoinInv, JoinType
    <3> QED
      BY <1>1, <2>1, <3>1, <3>2, <3>3 DEF CallInv, Over, J!Expired, J!Passed
  <2>2. CASE b # c
    <3>1. pc'[b] = pc[b]
      BY <1>2, <2>2, Zenon DEF JoinInv, JoinType
    <3> QED
      BY <1>1, <3>1, CallFrame DEF JoinInv, JoinType
  <2> QED
    BY <2>1, <2>2, Zenon
<1>4. JoinType'
  BY <1>1, <1>2, Zenon DEF JoinInv, JoinType
<1> QED
  BY <1>1, <1>3, <1>4, Zenon DEF JoinInv

LEMMA JoinPush == ASSUME JoinInv, NEW c \in JoinCall, J!Push(c) PROVE JoinInv'
<1> DEFINE e == item[c]
<1>1. UNCHANGED <<now, config, ttl, item, items, created, deadline, processed>>
  BY Zenon DEF J!Push, J!clockVars, J!mapVars
<1>2. /\ pc[c] = "lock" /\ holder[e] = {} /\ e \notin processed /\ ~J!Expired(e)
      /\ \/ pc' = [pc EXCEPT ![c] = "panicked"] /\ UNCHANGED <<holder, timer>>
         \/ /\ \E l \in {"invoke", "skip"} : pc' = [pc EXCEPT ![c] = l]
            /\ holder' = [holder EXCEPT ![e] = {c}]
            /\ \E l \in {"armed", timer[e]} : timer' = [timer EXCEPT ![e] = l]
  BY Zenon DEF J!Push, J!Open
<1>3. e \in J!Entry
  BY <1>2, ItemEntry, Zenon
<1>4. JoinType'
  <2>1. /\ pc' \in [JoinCall -> {"new", "lookup", "lock", "retire", "invoke", "skip", "remove", "done", "panicked"}]
        /\ holder' \in [J!Entry -> SUBSET JoinCall]
    BY <1>2 DEF JoinInv, JoinType
  <2>2. timer' \in [J!Entry -> {"none", "armed", "locking", "delivering", "removing", "done"}]
    BY <1>2, <1>3, Zenon DEF JoinInv, JoinType
  <2> QED
    BY <1>1, <2>1, <2>2, Zenon DEF JoinInv, JoinType
<1>5. \A f \in J!Entry : timer'[f] \in {"delivering", "removing"} => f \in processed'
  BY <1>1, <1>2, <1>3 DEF JoinInv, JoinType
<1>6. ASSUME NEW b \in JoinCall PROVE CallInv(b)'
  <2>1. CASE b = c
    <3>1. pc'[c] = "panicked" \/ (pc'[c] \in {"invoke", "skip"} /\ holder'[e] = {c})
      BY <1>2, <1>3, Zenon DEF JoinInv, JoinType
    <3>2. e # 0
      BY <1>2 DEF JoinInv, CallInv
    <3> QED
      BY <1>1, <2>1, <3>1, <3>2, Zenon DEF CallInv
  <2>2. CASE b # c
    <3>1. pc'[b] = pc[b]
      BY <1>2, <2>2, Zenon DEF JoinInv, JoinType
    <3>2. pc[b] \in {"retire", "invoke", "skip"} => item[b] # e
      BY <1>2, Zenon DEF JoinInv, CallInv, Over
    <3>3. pc[b] \in {"retire", "invoke", "skip"} => holder'[item[b]] = holder[item[b]]
      BY <1>2, <3>2, ItemEntry, Zenon DEF JoinInv, JoinType
    <3> QED
      BY <1>1, <3>1, <3>3, CallFrame DEF JoinInv, JoinType
  <2> QED
    BY <2>1, <2>2, Zenon
<1> QED
  BY <1>4, <1>5, <1>6, Zenon DEF JoinInv

LEMMA JoinInvoked ==
  ASSUME JoinInv, NEW c \in JoinCall, NEW done \in BOOLEAN, J!Invoked(c, done)
  PROVE  JoinInv'
<1> DEFINE e == item[c]
<1>1. UNCHANGED <<now, config, ttl, item, items, created, timer>>
  BY Zenon DEF J!Invoked, J!clockVars, J!mapVars
<1>2. /\ pc[c] \in {"invoke", "skip"} /\ pc' = [pc EXCEPT ![c] = IF done THEN "remove" ELSE "done"]
      /\ holder' = [holder EXCEPT ![e] = {}]
      /\ processed' = IF done THEN processed \cup {e} ELSE processed
      /\ \E d \in {{now + ttl[c]}, deadline[e]} : deadline' = [deadline EXCEPT ![e] = d]
  BY Zenon DEF J!Invoked
<1>3. e \in J!Entry /\ holder[e] = {c} /\ e # 0
  BY <1>2, ItemEntry DEF JoinInv, CallInv
<1>4. JoinType'
  <2>1. /\ pc' \in [JoinCall -> {"new", "lookup", "lock", "retire", "invoke", "skip", "remove", "done", "panicked"}]
        /\ holder' \in [J!Entry -> SUBSET JoinCall] /\ processed' \subseteq J!Entry
    BY <1>2, <1>3 DEF JoinInv, JoinType
  <2>2. deadline' \in [J!Entry -> SUBSET Nat]
    <3>1. PICK d \in {{now + ttl[c]}, deadline[e]} : deadline' = [deadline EXCEPT ![e] = d]
      BY <1>2, Zenon
    <3>2. d \in SUBSET Nat
      BY <1>3, <3>1 DEF JoinInv, JoinType
    <3> QED
      BY <3>1, <3>2, ZenonT(40) DEF JoinInv, JoinType
  <2> QED
    BY <1>1, <2>1, <2>2 DEF JoinInv, JoinType
<1>5. \A f \in J!Entry : timer'[f] \in {"delivering", "removing"} => f \in processed'
  BY <1>1, <1>2, Zenon DEF JoinInv, JoinType
<1>6. ASSUME NEW b \in JoinCall PROVE CallInv(b)'
  <2>1. CASE b = c
    <3>1. pc'[c] = "done" \/ (pc'[c] = "remove" /\ e \in processed')
      BY <1>2, Zenon DEF JoinInv, JoinType
    <3> QED
      BY <1>1, <1>3, <2>1, <3>1, Zenon DEF CallInv
  <2>2. CASE b # c
    <3>1. pc'[b] = pc[b]
      BY <1>2, <2>2, Zenon DEF JoinInv, JoinType
    <3>2. pc[b] \in {"invoke", "skip"} => item[b] # e
      BY <1>3, <2>2 DEF JoinInv, CallInv
    <3>3. CASE item[b] # e
      <4>1. pc[b] \in {"retire", "invoke", "skip"} =>
              deadline'[item[b]] = deadline[item[b]] /\ holder'[item[b]] = holder[item[b]]
        BY <1>2, <3>3, ItemEntry, Zenon DEF JoinInv, JoinType
      <4> QED
        BY <1>1, <1>2, <3>1, <4>1, CallFrame DEF JoinInv, JoinType
    <3>4. CASE item[b] = e
      <4>1. pc[b] \in {"retire", "remove"} => e \in processed
        BY <1>3, <3>4, Zenon DEF JoinInv, CallInv, Over
      <4> QED
        BY <1>1, <1>2, <1>3, <3>1, <3>2, <3>4, <4>1, Zenon DEF CallInv, Over
    <3> QED
      BY <3>3, <3>4, Zenon
  <2> QED
    BY <2>1, <2>2, Zenon
<1> QED
  BY <1>4, <1>5, <1>6, Zenon DEF JoinInv

LEMMA JoinRetire == ASSUME JoinInv, NEW c \in JoinCall, J!Retire(c) PROVE JoinInv'
<1>1. UNCHANGED <<now, config, ttl, item, created, deadline, processed, holder, timer>>
  BY Zenon DEF J!Retire, J!RemoveIfSame, J!clockVars, J!groupVars, J!timerVars
<1>2. /\ \E v \in {0, items[KeyOf[c]]} : items' = [items EXCEPT ![KeyOf[c]] = v]
      /\ \E l \in {"lookup", "done"} : pc' = [pc EXCEPT ![c] = l]
  BY Zenon DEF J!Retire, J!RemoveIfSame
<1>3. JoinType'
  <2>1. items' \in [JoinKey -> 0 .. created]
    <3>1. items \in [JoinKey -> 0 .. created] /\ 0 \in 0 .. created
      BY DEF JoinInv, JoinType
    <3>2. KeyOf[c] \in JoinKey
      BY JoinAssumption, Zenon
    <3> QED
      BY <1>2, <3>1, <3>2, ZenonT(40)
  <2> QED
    BY <1>1, <1>2, <2>1 DEF JoinInv, JoinType
<1>4. ASSUME NEW b \in JoinCall PROVE CallInv(b)'
  <2>1. CASE b = c
    BY <1>2, <2>1 DEF CallInv, JoinInv, JoinType
  <2>2. CASE b # c
    <3>1. pc'[b] = pc[b]
      BY <1>2, <2>2 DEF JoinInv, JoinType
    <3> QED
      BY <1>1, <3>1, CallFrame DEF JoinInv, JoinType
  <2> QED
    BY <2>1, <2>2, Zenon
<1> QED
  BY <1>1, <1>3, <1>4, Zenon DEF JoinInv

LEMMA JoinTimer == ASSUME JoinInv, NEW e \in J!Entry, J!TimerStep(e) PROVE JoinInv'
<1>1. UNCHANGED <<now, config, pc, ttl, item, created, deadline, holder>>
  BY Zenon DEF J!TimerStep, J!TimerStop, J!TimerWake, J!TimerLock, J!TimerDelivered, J!TimerRemove,
       J!RemoveIfSame, J!clockVars, J!callVars, J!mapVars, J!groupVars
<1>2. \/ /\ \E l \in {"done", "locking", "armed"} : timer' = [timer EXCEPT ![e] = l]
         /\ processed' = processed
      \/ timer' = [timer EXCEPT ![e] = "delivering"] /\ processed' = processed \cup {e}
      \/ timer[e] = "delivering" /\ timer' = [timer EXCEPT ![e] = "removing"] /\ processed' = processed
  BY Zenon DEF J!TimerStep, J!TimerStop, J!TimerWake, J!TimerLock, J!TimerDelivered, J!TimerRemove,
       J!groupVars
<1>3. items' \in [JoinKey -> 0 .. created]
  <2>1. items' = items \/ \E k : items' = [items EXCEPT ![k] = IF @ = e THEN 0 ELSE @]
    BY Zenon DEF J!TimerStep, J!TimerStop, J!TimerWake, J!TimerLock, J!TimerDelivered, J!TimerRemove,
       J!RemoveIfSame, J!mapVars
  <2> QED
    BY <2>1 DEF JoinInv, JoinType
<1>4. JoinType'
  BY <1>1, <1>2, <1>3 DEF JoinInv, JoinType
<1>5. \A c \in JoinCall : CallInv(c)'
  BY <1>1, <1>2, CallFrame DEF JoinInv, JoinType
<1>6. \A f \in J!Entry : timer'[f] \in {"delivering", "removing"} => f \in processed'
  BY <1>2, Zenon DEF JoinInv, JoinType
<1> QED
  BY <1>4, <1>5, <1>6 DEF JoinInv

LEMMA JoinStep == ASSUME JoinInv, [J!Next]_(J!vars) PROVE JoinInv'
BY JoinClock, JoinBegin, JoinLookup, JoinLockLate, JoinPush, JoinInvoked, JoinRetire, JoinTimer, Zenon
   DEF J!Next, J!CallStep

LEMMA JoinInit == ASSUME J!Init PROVE JoinInv
<1>1. /\ \A c \in JoinCall : pc[c] = "new" /\ \A e \in J!Entry : timer[e] = "none"
  BY Zenon DEF J!Init
<1>2. JoinType
  BY JoinAssumption DEF J!Init, JoinType
<1>3. \A c \in JoinCall : CallInv(c)
  BY <1>1, Zenon DEF CallInv
<1>4. \A e \in J!Entry : timer[e] = "none"
  BY Zenon DEF J!Init
<1> QED
  BY <1>2, <1>3, <1>4 DEF JoinInv

\* What a step does to a group that is completed: its expiry does not deliver it
\* again, and no call takes its lock for long.
LEMMA OnceStep ==
  ASSUME JoinInv, J!Next, NEW e \in J!Entry, e \in processed
  PROVE  /\ timer[e] # "delivering" => timer'[e] # "delivering"
         /\ holder[e] = {} => holder'[e] = {}
<1>1. CASE UNCHANGED <<timer, holder>>
  BY <1>1, Zenon
<1>2. ASSUME NEW c \in JoinCall, J!Push(c)
      PROVE  /\ timer[e] # "delivering" => timer'[e] # "delivering"
             /\ holder[e] = {} => holder'[e] = {}
  <2>1. item[c] # e
    BY <1>2, Zenon DEF J!Push, J!Open
  <2>2. \/ UNCHANGED <<holder, timer>>
        \/ \E l : /\ holder' = [holder EXCEPT ![item[c]] = {c}]
                  /\ timer' = [timer EXCEPT ![item[c]] = l]
    BY <1>2, Zenon DEF J!Push
  <2> QED
    BY <2>1, <2>2, Zenon DEF JoinInv, JoinType
<1>3. ASSUME NEW c \in JoinCall, NEW done \in BOOLEAN, J!Invoked(c, done)
      PROVE  timer' = timer /\ (holder[e] = {} => holder'[e] = {})
  <2>1. timer' = timer /\ holder' = [holder EXCEPT ![item[c]] = {}]
    BY <1>3, Zenon DEF J!Invoked
  <2> QED
    BY <2>1, Zenon DEF JoinInv, JoinType
<1>4. ASSUME NEW f \in J!Entry, J!TimerStep(f)
      PROVE  holder' = holder /\ (timer[e] # "delivering" => timer'[e] # "delivering")
  <2>1. holder' = holder
    BY <1>4, Zenon DEF J!TimerStep, J!TimerStop, J!TimerWake, J!TimerLock, J!TimerDelivered,
         J!TimerRemove, J!groupVars
  <2>2. \/ \E l \in {"done", "locking", "armed", "removing"} : timer' = [timer EXCEPT ![f] = l]
        \/ f \notin processed /\ timer' = [timer EXCEPT ![f] = "delivering"]
    BY <1>4, Zenon DEF J!TimerStep, J!TimerStop, J!TimerWake, J!TimerLock, J!TimerDelivered,
         J!TimerRemove
  <2> QED
    BY <2>1, <2>2 DEF JoinInv, JoinType
<1>5. ASSUME J!Tick \/ (\E f \in Configs : J!Reload(f)) \/
             (\E c \in JoinCall : J!Cancel(c) \/ J!Begin(c) \/ J!Lookup(c) \/ J!LockLate(c) \/ J!Retire(c))
      PROVE  UNCHANGED <<timer, holder>>
  BY <1>5, Zenon DEF J!Tick, J!Reload, J!Cancel, J!Begin, J!Lookup, J!LockLate, J!Retire, J!groupVars,
       J!timerVars
<1> QED
  BY <1>1, <1>2, <1>3, <1>4, <1>5, Zenon DEF J!Next, J!CallStep

\* What a step removes from the map is completed or has expired.
LEMMA KeptStep ==
  ASSUME JoinInv, J!Next, NEW k \in JoinKey, items[k] # 0, items'[k] # items[k]
  PROVE  items[k] \in processed \/ J!Expired(items[k])
<1>1. ASSUME NEW c \in JoinCall, J!Lookup(c) PROVE J!Expired(items[k])
  <2>1. \/ items' = items
        \/ /\ items[KeyOf[c]] # 0 => J!Expired(items[KeyOf[c]])
           /\ items' = [items EXCEPT ![KeyOf[c]] = created + 1]
    BY <1>1, Zenon DEF J!Lookup, J!Insert, J!mapVars
  <2>2. k = KeyOf[c]
    BY <2>1 DEF JoinInv, JoinType
  <2> QED
    BY <2>1, <2>2, Zenon
<1>2. ASSUME NEW c \in JoinCall, J!Retire(c) PROVE items[k] \in processed \/ J!Expired(items[k])
  <2>1. /\ pc[c] \in {"retire", "remove"}
        /\ items' = [items EXCEPT ![KeyOf[c]] = IF @ = item[c] THEN 0 ELSE @]
    BY <1>2, Zenon DEF J!Retire, J!RemoveIfSame
  <2>2. items[k] = item[c]
    BY <2>1, Zenon DEF JoinInv, JoinType
  <2> QED
    BY <2>1, <2>2, Zenon DEF JoinInv, CallInv, Over
<1>3. ASSUME NEW e \in J!Entry, J!TimerStep(e) PROVE items[k] \in processed
  <2>1. \/ items' = items
        \/ /\ timer[e] = "removing"
           /\ \E l : items' = [items EXCEPT ![l] = IF @ = e THEN 0 ELSE @]
    BY <1>3, Zenon DEF J!TimerStep, J!TimerStop, J!TimerWake, J!TimerLock, J!TimerDelivered,
         J!TimerRemove, J!RemoveIfSame, J!mapVars
  <2>2. items[k] = e /\ timer[e] = "removing"
    BY <2>1, Zenon DEF JoinInv, JoinType
  <2> QED
    BY <2>2, Zenon DEF JoinInv
<1>4. ASSUME J!Tick \/ (\E f \in Configs : J!Reload(f)) \/
             (\E c \in JoinCall : J!Cancel(c) \/ J!Begin(c) \/ J!LockLate(c) \/ J!Push(c)
                                \/ \E done \in BOOLEAN : J!Invoked(c, done))
      PROVE  FALSE
  <2>1. items' = items
    BY <1>4, Zenon DEF J!Tick, J!Reload, J!Cancel, J!Begin, J!LockLate, J!Push, J!Invoked, J!mapVars
  <2> QED
    BY <2>1, Zenon
<1> QED
  BY <1>1, <1>2, <1>3, <1>4, Zenon DEF J!Next, J!CallStep

LEMMA JoinAlways == J!Spec => []JoinInv
BY JoinInit, JoinStep, PTL DEF J!Spec

\* A group of hashmap.rs is completed once, by a callback or by its expiry, for any
\* calls, keys, configurations and number of reloads.
THEOREM JoinCompletedOnce == J!Spec => CompletedOnce
<1> DEFINE Once == \A e \in J!Entry \cap processed :
                     /\ timer[e] # "delivering" => timer'[e] # "delivering"
                     /\ holder[e] = {} => holder'[e] = {}
<1>1. ASSUME JoinInv, J!Next PROVE Once
  BY <1>1, OnceStep, Zenon
<1> HIDE DEF Once
<1>2. JoinInv /\ [J!Next]_(J!vars) => [Once]_(J!vars)
  BY <1>1, Zenon
<1>3. J!Spec => [][Once]_(J!vars)
  BY <1>2, JoinAlways, PTL DEF J!Spec
<1> QED
  BY <1>3, PTL DEF Once, CompletedOnce, J!CompletedOnce

\* Only groups that are completed or have expired leave the map of hashmap.rs.
THEOREM JoinLiveGroupKept == J!Spec => LiveGroupKept
<1> DEFINE Kept == \A k \in JoinKey : items[k] # 0 /\ items'[k] # items[k] =>
                     items[k] \in processed \/ J!Expired(items[k])
<1>1. ASSUME JoinInv, J!Next PROVE Kept
  BY <1>1, KeptStep, Zenon
<1> HIDE DEF Kept
<1>2. JoinInv /\ [J!Next]_(J!vars) => [Kept]_(J!vars)
  BY <1>1, Zenon
<1>3. J!Spec => [][Kept]_(J!vars)
  BY <1>2, JoinAlways, PTL DEF J!Spec
<1> QED
  BY <1>3, PTL DEF Kept, LiveGroupKept, J!LiveGroupKept
-----------------------------------------------------------------------------
(* Groups that are replaced.                                               *)

\* A callback of the group has returned false and moved its deadline.
Renewed(e) == \E b \in values[e] : renew[b] /\ pc[b] = "done"

\* A call that is about to lock has the group of its key, or one that is over or was
\* renewed; a call that runs its callback is in its group.
CurrentInv ==
  /\ renew \in [JoinCall -> BOOLEAN] /\ values \in [J!Entry -> SUBSET JoinCall]
  /\ \A c \in JoinCall : pc[c] \in {"invoke", "skip"} => c \in values[item[c]]
  /\ \A c \in JoinCall : pc[c] = "lock" =>
       \/ items[KeyOf[c]] = item[c]
       \/ item[c] \in processed \/ J!Expired(item[c]) \/ Renewed(item[c])

\* What a step does to the settings of a call, to where it is and to its group.
LEMMA CallMoves ==
  ASSUME JoinInv, CurrentInv, [J!Next]_(J!vars)
  PROVE  /\ \A e \in J!Entry : values[e] \subseteq values'[e]
         /\ renew' \in [JoinCall -> BOOLEAN] /\ values' \in [J!Entry -> SUBSET JoinCall]
         /\ \A b \in JoinCall : /\ pc[b] = "done" => pc'[b] = "done" /\ renew'[b] = renew[b]
                                /\ pc'[b] \in {"invoke", "skip"} => b \in values'[item'[b]]
<1> USE DEF JoinInv, JoinType, CurrentInv
<1>1. CASE UNCHANGED <<pc, renew, values, item>>
  BY <1>1, Zenon
<1>2. ASSUME NEW c \in JoinCall, J!Begin(c)
      PROVE  /\ pc[c] = "new" /\ pc' = [pc EXCEPT ![c] = "lookup"] /\ UNCHANGED <<values, item>>
             /\ renew' = [renew EXCEPT ![c] = config.renew] /\ config.renew \in BOOLEAN
  <2>1. config \in [ttl : Nat, renew : BOOLEAN, type : J!JoinType]
    BY JoinAssumption, Zenon
  <2>2. config.renew \in BOOLEAN
    BY <2>1, Zenon
  <2> QED
    BY <1>2, <2>2, Zenon DEF J!Begin, J!groupVars
<1>3. ASSUME NEW c \in JoinCall, J!Lookup(c)
      PROVE  /\ pc[c] = "lookup" /\ pc' = [pc EXCEPT ![c] = "lock"] /\ UNCHANGED <<values, renew>>
             /\ \E v : item' = [item EXCEPT ![c] = v]
  BY <1>3, Zenon DEF J!Lookup
<1>4. ASSUME NEW c \in JoinCall,
             J!LockLate(c) \/ J!Retire(c) \/ \E done \in BOOLEAN : J!Invoked(c, done)
      PROVE  /\ pc[c] # "done" /\ UNCHANGED <<values, renew, item>>
             /\ \E l \in {"lookup", "retire", "remove", "done"} : pc' = [pc EXCEPT ![c] = l]
  BY <1>4, Zenon DEF J!LockLate, J!Retire, J!Invoked, J!groupVars
<1>5. ASSUME NEW c \in JoinCall, J!Push(c)
      PROVE  /\ pc[c] = "lock" /\ UNCHANGED <<renew, item>>
             /\ values' = [values EXCEPT ![item[c]] = values[item[c]] \cup {c}]
             /\ \E l \in {"panicked", "invoke", "skip"} : pc' = [pc EXCEPT ![c] = l]
  BY <1>5, Zenon DEF J!Push
<1>6. ASSUME NEW c \in JoinCall, NEW b \in JoinCall, J!Begin(c)
      PROVE  /\ pc[b] = "done" => pc'[b] = "done" /\ renew'[b] = renew[b]
             /\ renew' \in [JoinCall -> BOOLEAN]
             /\ pc'[b] \in {"invoke", "skip"} => pc'[b] = pc[b]
  BY <1>2, <1>6, Zenon
<1>7. ASSUME NEW c \in JoinCall, NEW b \in JoinCall, J!Lookup(c)
      PROVE  /\ pc[b] = "done" => pc'[b] = "done"
             /\ pc'[b] \in {"invoke", "skip"} => pc'[b] = pc[b] /\ item'[b] = item[b]
  BY <1>3, <1>7, ZenonT(40)
<1>8. ASSUME NEW c \in JoinCall, NEW b \in JoinCall,
             J!LockLate(c) \/ J!Retire(c) \/ \E done \in BOOLEAN : J!Invoked(c, done)
      PROVE  /\ pc[b] = "done" => pc'[b] = "done"
             /\ pc'[b] \in {"invoke", "skip"} => pc'[b] = pc[b]
  BY <1>4, <1>8, Zenon
<1>9. ASSUME NEW c \in JoinCall, NEW b \in JoinCall, J!Push(c)
      PROVE  /\ pc[b] = "done" => pc'[b] = "done"
             /\ \A e \in J!Entry : values[e] \subseteq values'[e]
             /\ values' \in [J!Entry -> SUBSET JoinCall]
             /\ pc'[b] \in {"invoke", "skip"} => b \in values'[item'[b]]
  <2>1. item[c] \in J!Entry
    BY <1>5, <1>9, ItemEntry, Zenon
  <2>2. \A e \in J!Entry : values[e] \subseteq values'[e] /\ c \in values'[item[c]]
    BY <1>5, <1>9, <2>1
  <2>3. values' \in [J!Entry -> SUBSET JoinCall]
    BY <1>5, <1>9, <2>1
  <2>4. pc[b] = "done" => pc'[b] = "done"
    BY <1>5, <1>9, Zenon
  <2>5. ASSUME pc'[b] \in {"invoke", "skip"} PROVE b \in values'[item'[b]]
    <3>1. CASE b = c
      <4>1. item' = item /\ c \in values'[item[c]]
        BY <1>5, <1>9, <2>1, <2>2, Zenon
      <4> QED
        BY <3>1, <4>1, Zenon
    <3>2. CASE b # c
      <4>1. pc[b] \in {"invoke", "skip"}
        BY <1>5, <1>9, <2>5, <3>2, Zenon
      <4>2. item[b] \in J!Entry
        BY <4>1, ItemEntry, Zenon
      <4> QED
        BY <1>5, <1>9, <2>2, <4>1, <4>2, Zenon
    <3> QED
      BY <3>1, <3>2, Zenon
  <2> QED
    BY <2>2, <2>3, <2>4, <2>5, Zenon
<1>10. CASE J!Tick \/ (\E f \in Configs : J!Reload(f)) \/ (\E c \in JoinCall : J!Cancel(c))
            \/ (\E e \in J!Entry : J!TimerStep(e)) \/ UNCHANGED J!vars
  <2>1. UNCHANGED <<pc, renew, values, item>>
    BY <1>10, Zenon DEF J!vars, J!callVars, J!groupVars, J!Tick, J!Reload, J!Cancel, J!TimerStep,
       J!TimerStop, J!TimerWake, J!TimerLock, J!TimerDelivered, J!TimerRemove
  <2> QED
    BY <1>1, <2>1, Zenon
<1> DEFINE Goal == /\ \A e \in J!Entry : values[e] \subseteq values'[e]
                   /\ renew' \in [JoinCall -> BOOLEAN] /\ values' \in [J!Entry -> SUBSET JoinCall]
                   /\ \A b \in JoinCall : /\ pc[b] = "done" => pc'[b] = "done" /\ renew'[b] = renew[b]
                                          /\ pc'[b] \in {"invoke", "skip"} => b \in values'[item'[b]]
<1>11. ASSUME NEW c \in JoinCall, J!Begin(c) PROVE Goal
  BY <1>2, <1>6, <1>11, ZenonT(40)
<1>12. ASSUME NEW c \in JoinCall, J!Lookup(c) PROVE Goal
  BY <1>3, <1>7, <1>12, ZenonT(40)
<1>13. ASSUME NEW c \in JoinCall,
              J!LockLate(c) \/ J!Retire(c) \/ \E done \in BOOLEAN : J!Invoked(c, done)
       PROVE  Goal
  BY <1>4, <1>8, <1>13, ZenonT(40)
<1>14. ASSUME NEW c \in JoinCall, J!Push(c) PROVE Goal
  BY <1>5, <1>9, <1>14, ZenonT(40)
<1>15. \/ J!Tick \/ (\E f \in Configs : J!Reload(f)) \/ (\E c \in JoinCall : J!Cancel(c))
            \/ (\E e \in J!Entry : J!TimerStep(e)) \/ UNCHANGED J!vars
       \/ \E c \in JoinCall : \/ J!Begin(c) \/ J!Lookup(c) \/ J!Push(c)
                             \/ J!LockLate(c) \/ J!Retire(c) \/ \E done \in BOOLEAN : J!Invoked(c, done)
  BY ZenonT(40) DEF J!Next, J!CallStep
<1> HIDE DEF JoinInv, JoinType, CurrentInv, Goal
<1>16. ASSUME NEW c \in JoinCall,
              \/ J!Begin(c) \/ J!Lookup(c) \/ J!Push(c)
              \/ J!LockLate(c) \/ J!Retire(c) \/ \E done \in BOOLEAN : J!Invoked(c, done)
       PROVE  Goal
  BY <1>11, <1>12, <1>13, <1>14, <1>16, Zenon
<1>17. CASE J!Tick \/ (\E f \in Configs : J!Reload(f)) \/ (\E c \in JoinCall : J!Cancel(c))
            \/ (\E e \in J!Entry : J!TimerStep(e)) \/ UNCHANGED J!vars
  BY <1>10, <1>17, Zenon DEF Goal
<1>18. Goal
  BY <1>15, <1>16, <1>17, Zenon DEF Goal
<1> QED
  BY <1>18 DEF Goal

\* No step revives a group but a renewal.
LEMMA GoneStep ==
  ASSUME JoinInv, CurrentInv, [J!Next]_(J!vars), NEW e \in 1 .. created,
         e \in processed \/ J!Expired(e) \/ Renewed(e)
  PROVE  e \in processed' \/ (\E d \in deadline'[e] : d <= now') \/ Renewed(e)'
<1>1. processed \subseteq processed'
  BY ZenonT(40) DEF J!vars, J!groupVars, J!Next, J!CallStep, J!Tick, J!Reload, J!Cancel, J!Begin, J!Lookup,
       J!LockLate, J!Push, J!Invoked, J!Retire, J!TimerStep, J!TimerStop, J!TimerWake, J!TimerLock,
       J!TimerDelivered, J!TimerRemove
<1>2. now' >= now
  <2>1. now' = now \/ now' = now + 1
    BY ZenonT(40) DEF J!vars, J!clockVars, J!Next, J!CallStep, J!Tick, J!Reload, J!Cancel, J!Begin, J!Lookup,
       J!LockLate, J!Push, J!Invoked, J!Retire, J!TimerStep, J!TimerStop, J!TimerWake, J!TimerLock,
       J!TimerDelivered, J!TimerRemove
  <2> QED
    BY <2>1 DEF JoinInv, JoinType
<1>3. e # created + 1 /\ e \in J!Entry
  BY JoinAssumption DEF JoinInv, JoinType, J!Entry
<1>4. CASE Renewed(e)
  <2>1. PICK b \in values[e] : renew[b] /\ pc[b] = "done"
    BY <1>4, Zenon DEF Renewed
  <2>2. b \in JoinCall
    BY <1>3, <2>1, Zenon DEF CurrentInv
  <2>3. b \in values'[e] /\ renew'[b] /\ pc'[b] = "done"
    BY <1>3, <2>1, <2>2, CallMoves, Zenon
  <2> QED
    BY <2>3, Zenon DEF Renewed
<1>5. deadline'[e] = deadline[e] \/ Renewed(e)'
  <2>1. ASSUME NEW c \in JoinCall, NEW done \in BOOLEAN, J!Invoked(c, done)
        PROVE  deadline'[e] = deadline[e] \/ Renewed(e)'
    <3>1. CASE item[c] # e \/ done \/ ~renew[c]
      <4>1. deadline' = [deadline EXCEPT ![item[c]] = IF ~done /\ renew[c] THEN {now + ttl[c]} ELSE @]
        BY <2>1, Zenon DEF J!Invoked
      <4> QED
        BY <1>3, <3>1, <4>1, Zenon DEF JoinInv, JoinType
    <3>2. CASE item[c] = e /\ ~done /\ renew[c]
      <4>1. /\ pc[c] \in {"invoke", "skip"} /\ pc' = [pc EXCEPT ![c] = "done"]
            /\ values' = values /\ renew' = renew
        BY <2>1, <3>2, Zenon DEF J!Invoked
      <4>2. c \in values'[e] /\ pc'[c] = "done" /\ renew'[c]
        BY <3>2, <4>1, Zenon DEF JoinInv, JoinType, CurrentInv
      <4> QED
        BY <4>2, Zenon DEF Renewed
    <3> QED
      BY <3>1, <3>2, Zenon
  <2>2. ASSUME NEW c \in JoinCall, J!Lookup(c) PROVE deadline'[e] = deadline[e]
    <3>1. deadline' = deadline \/ \E d : deadline' = [deadline EXCEPT ![created + 1] = d]
      BY <2>2, Zenon DEF J!Lookup, J!Insert
    <3> QED
      BY <1>3, <3>1, Zenon DEF JoinInv, JoinType
  <2> QED
    BY <2>1, <2>2, Zenon DEF J!vars, J!groupVars, J!Next, J!CallStep, J!Tick, J!Reload, J!Cancel,
       J!Begin, J!LockLate, J!Push, J!Retire, J!TimerStep, J!TimerStop, J!TimerWake, J!TimerLock,
       J!TimerDelivered, J!TimerRemove
<1>6. CASE e \in processed \/ (J!Expired(e) /\ deadline'[e] = deadline[e])
  BY <1>1, <1>2, <1>3, <1>6, JoinStep DEF JoinInv, JoinType, J!Expired, J!Passed
<1> QED
  BY <1>4, <1>5, <1>6, Zenon

LEMMA CurrentStep ==
  ASSUME JoinInv, CurrentInv, [J!Next]_(J!vars)
  PROVE  CurrentInv'
<1>1. /\ renew' \in [JoinCall -> BOOLEAN] /\ values' \in [J!Entry -> SUBSET JoinCall]
      /\ \A c \in JoinCall : pc'[c] \in {"invoke", "skip"} => c \in values'[item'[c]]
  BY CallMoves, Zenon
<1>2. ASSUME NEW c \in JoinCall, pc'[c] = "lock"
      PROVE  \/ items'[KeyOf[c]] = item'[c] \/ item'[c] \in processed'
             \/ (\E d \in deadline'[item'[c]] : d <= now') \/ Renewed(item[c])'
  <2>1. CASE J!Lookup(c)
    <3>1. \/ item' = [item EXCEPT ![c] = items[KeyOf[c]]] /\ items' = items
          \/ /\ items' = [items EXCEPT ![KeyOf[c]] = created + 1]
             /\ item' = [item EXCEPT ![c] = created + 1]
      BY <2>1, Zenon DEF J!Lookup, J!Insert, J!mapVars
    <3> QED
      BY <3>1, JoinAssumption DEF JoinInv, JoinType
  <2>2. CASE ~J!Lookup(c)
    <3>1. pc[c] = "lock" /\ item'[c] = item[c]
      <4>1. \/ UNCHANGED <<pc, item>>
            \/ \E b \in JoinCall, l \in {"lookup", "retire", "panicked", "invoke", "skip", "remove", "done"} :
                 pc' = [pc EXCEPT ![b] = l] /\ item' = item
            \/ \E b \in JoinCall : \E v : J!Lookup(b) /\ pc' = [pc EXCEPT ![b] = "lock"] /\ item' = [item EXCEPT ![b] = v]
        <5>1. ASSUME NEW b \in JoinCall, J!Lookup(b)
              PROVE  pc' = [pc EXCEPT ![b] = "lock"] /\ \E v : item' = [item EXCEPT ![b] = v]
          BY <5>1, Zenon DEF J!Lookup
        <5>2. ASSUME NEW b \in JoinCall, J!Begin(b) \/ J!LockLate(b) \/ J!Push(b) \/ J!Retire(b)
                                       \/ \E done \in BOOLEAN : J!Invoked(b, done)
              PROVE  \E l \in {"lookup", "retire", "panicked", "invoke", "skip", "remove", "done"} :
                       pc' = [pc EXCEPT ![b] = l] /\ item' = item
          BY <5>2, Zenon DEF J!Begin, J!LockLate, J!Push, J!Retire, J!Invoked
        <5> QED
          BY <5>1, <5>2, Zenon DEF J!vars, J!callVars, J!Next, J!CallStep, J!Tick, J!Reload, J!Cancel,
             J!TimerStep, J!TimerStop, J!TimerWake, J!TimerLock, J!TimerDelivered, J!TimerRemove
      <4> QED
        BY <1>2, <2>2, <4>1, Zenon DEF JoinInv, JoinType
    <3>2. item[c] \in 1 .. created
      BY <3>1, ItemEntry
    <3>3. CASE item[c] \in processed \/ J!Expired(item[c]) \/ Renewed(item[c])
      <4>1. PICK e \in 1 .. created : e = item[c]
        BY <3>2, Zenon
      <4>2. e \in processed' \/ (\E d \in deadline'[e] : d <= now') \/ Renewed(e)'
        BY <3>3, <4>1, GoneStep, Zenon
      <4> QED
        BY <3>1, <4>1, <4>2, Zenon DEF Renewed
    <3>4. CASE items[KeyOf[c]] = item[c] /\ item[c] \notin processed /\ ~J!Expired(item[c])
      <4>1. KeyOf[c] \in JoinKey /\ items[KeyOf[c]] # 0
        BY <3>2, <3>4, JoinAssumption DEF JoinInv, JoinType
      <4>2. UNCHANGED J!vars => items' = items
        BY ZenonT(40) DEF J!vars, J!mapVars
      <4> QED
        BY <3>1, <3>4, <4>1, <4>2, KeptStep, Zenon
    <3> QED
      BY <3>1, <3>3, <3>4, Zenon DEF CurrentInv
  <2> QED
    BY <2>1, <2>2, Zenon
<1> QED
  BY <1>1, <1>2, Zenon DEF CurrentInv, J!Expired, J!Passed

\* Values are only added to the group their key maps to or to one that a callback
\* has renewed, never to one that was completed, expired or replaced otherwise while
\* the caller waited for its lock (hashmap.rs), whatever the TTLs and the reloads.
THEOREM JoinJoinsCurrentGroup == J!Spec => JoinsCurrentGroup
<1> DEFINE Joins == \A c \in JoinCall : pc[c] = "lock" /\ pc'[c] \in {"invoke", "skip", "panicked"} =>
                      \/ items[KeyOf[c]] = item[c]
                      \/ \E b \in values[item[c]] : renew[b] /\ pc[b] = "done"
<1>1. ASSUME JoinInv, CurrentInv, J!Next PROVE Joins
  <2> SUFFICES ASSUME NEW c \in JoinCall, pc[c] = "lock", pc'[c] \in {"invoke", "skip", "panicked"}
               PROVE  items[KeyOf[c]] = item[c] \/ \E b \in values[item[c]] : renew[b] /\ pc[b] = "done"
    BY Zenon
  <2>1. J!Push(c)
    <3>1. \/ pc' = pc \/ J!Push(c)
          \/ \E b \in JoinCall, l \in {"lookup", "lock", "retire", "remove", "done"} : pc' = [pc EXCEPT ![b] = l]
          \/ \E b \in JoinCall : \E l : b # c /\ pc' = [pc EXCEPT ![b] = l]
      <4>1. ASSUME NEW b \in JoinCall, J!Push(b) PROVE \E l : pc' = [pc EXCEPT ![b] = l]
        BY <4>1, Zenon DEF J!Push
      <4>2. ASSUME NEW b \in JoinCall, J!Begin(b) \/ J!Lookup(b) \/ J!LockLate(b) \/ J!Retire(b)
                                     \/ \E done \in BOOLEAN : J!Invoked(b, done)
            PROVE  \E l \in {"lookup", "lock", "retire", "remove", "done"} : pc' = [pc EXCEPT ![b] = l]
        BY <4>2, Zenon DEF J!Begin, J!Lookup, J!LockLate, J!Retire, J!Invoked
      <4> QED
        BY <1>1, <4>1, <4>2, Zenon DEF J!callVars, J!Next, J!CallStep, J!Tick, J!Reload, J!Cancel,
           J!TimerStep, J!TimerStop, J!TimerWake, J!TimerLock, J!TimerDelivered, J!TimerRemove
    <3> QED
      BY <1>1, <3>1, Zenon DEF JoinInv, JoinType
  <2> QED
    BY <1>1, <2>1, Zenon DEF J!Push, J!Open, CurrentInv, Renewed
<1>2. ASSUME J!Init PROVE CurrentInv
  BY <1>2 DEF J!Init, CurrentInv
<1> HIDE DEF Joins
<1>3. JoinInv /\ CurrentInv /\ [J!Next]_(J!vars) => [Joins]_(J!vars)
  BY <1>1, Zenon
<1>4. J!Spec => []CurrentInv
  BY <1>2, CurrentStep, JoinAlways, PTL DEF J!Spec
<1>5. J!Spec => [][Joins]_(J!vars)
  BY <1>3, <1>4, JoinAlways, PTL DEF J!Spec
<1> QED
  BY <1>5, PTL DEF Joins, JoinsCurrentGroup, J!JoinsCurrentGroup
=============================================================================
