---------------------------- MODULE RotatingMap -----------------------------
(***************************************************************************)
(* runtime/store/rotatingmap.rs: a map whose shards keep their entries in  *)
(* two hash maps, current and previous, so that a rotation can move them   *)
(* to a map with fewer buckets, and the task that rotates at intervals.    *)
(* Every call of a user is one step, under the lock of the key's shard; a  *)
(* rotation locks one shard after another.                                 *)
(***************************************************************************)
EXTENDS Integers, FiniteSets

CONSTANTS Key, Value, None,
          Shard, ShardOf,    \* the shards, and the shard a key hashes to
          MinCapacity,       \* min_capacity
          ShrinkFactor,      \* ROTATING_MAP_SHRINK_FACTOR
          Stopper            \* the calls of stop

ASSUME MapAssumption ==
  /\ None \notin Value /\ ShardOf \in [Key -> Shard] /\ IsFiniteSet(Key)
  /\ MinCapacity \in Nat /\ ShrinkFactor \in Nat

VARIABLES current, previous,     \* Maps: key to value, None without entry
          high_water_mark,       \* of each shard
          buckets,               \* of each shard's current and previous
          ret,                   \* what the last call returned
          started, stopped, starter, stopper,
          rotation_task,         \* the handle: "none", "stored", "taken"
          loop, todo             \* the rotation loop and the shards it has still to do

mapVars == <<current, previous, high_water_mark, buckets>>
lifeVars == <<started, stopped, starter, stopper, rotation_task, loop, todo>>
vars == <<mapVars, ret, lifeVars>>

Init ==
  /\ current = [k \in Key |-> None] /\ previous = [k \in Key |-> None]
  /\ high_water_mark = [s \in Shard |-> 0]
  /\ buckets = [s \in Shard |-> [current |-> 0, previous |-> 0]]
  /\ ret = [key |-> None, value |-> None, found |-> FALSE]
  /\ started = FALSE /\ stopped = FALSE /\ starter = "new"
  /\ stopper = [s \in Stopper |-> "new"]
  /\ rotation_task = "none" /\ loop = "off" /\ todo = {}
-----------------------------------------------------------------------------
(* The map.                                                                *)

\* The number of entries of a shard.
ShardLen(m, s) == Cardinality({k \in Key : ShardOf[k] = s /\ m[k] # None})

Lookup(k) == IF current[k] # None THEN current[k] ELSE previous[k]

Return(k, v, found) == ret' = [key |-> k, value |-> v, found |-> found]

\* current.insert; a hash map grows as it needs and does not shrink.
Insert(k, v) ==
  LET s == ShardOf[k]
      n == ShardLen([current EXCEPT ![k] = v], s)
  IN /\ current' = [current EXCEPT ![k] = v]
     /\ buckets' = [buckets EXCEPT ![s].current = IF n > @ THEN n ELSE @]
     /\ UNCHANGED <<previous, high_water_mark>>

Set(k, v) ==
  IF Lookup(k) # None
    THEN UNCHANGED mapVars /\ Return(k, None, TRUE)
    ELSE Insert(k, v) /\ Return(k, None, FALSE)

GetOrCreate(k, v) ==
  IF Lookup(k) # None
    THEN UNCHANGED mapVars /\ Return(k, Lookup(k), TRUE)
    ELSE Insert(k, v) /\ Return(k, v, FALSE)

Get(k) == UNCHANGED mapVars /\ Return(k, Lookup(k), Lookup(k) # None)

Remove(k) ==
  /\ IF current[k] # None
       THEN current' = [current EXCEPT ![k] = None] /\ UNCHANGED previous
       ELSE previous' = [previous EXCEPT ![k] = None] /\ UNCHANGED current
  /\ UNCHANGED <<high_water_mark, buckets>>

Pop(k) == Remove(k) /\ Return(k, Lookup(k), Lookup(k) # None)

\* The predicate is given by the values for which it holds.
PopIf(k, P) ==
  IF Lookup(k) \in P
    THEN Remove(k) /\ Return(k, Lookup(k), TRUE)
    ELSE UNCHANGED mapVars /\ Return(k, None, FALSE)

Total(s) == ShardLen(current, s) + ShardLen(previous, s)

\* Whether the rotation moves the shard's entries, and its mark after that.
MustRotate(s) == high_water_mark[s] = 0 \/ Total(s) * ShrinkFactor < high_water_mark[s]

Mark(s) == IF Total(s) > high_water_mark[s] THEN Total(s) ELSE high_water_mark[s]

\* current.drain() empties the map and keeps its buckets.
MoveEntries(s) ==
  /\ previous' = [k \in Key |-> IF ShardOf[k] = s THEN Lookup(k) ELSE previous[k]]
  /\ current' = [k \in Key |-> IF ShardOf[k] = s THEN None ELSE current[k]]
  /\ buckets' = [buckets EXCEPT ![s].previous = Total(s)]
  /\ high_water_mark' = [high_water_mark EXCEPT ![s] = Total(s)]

\* Mutant: the entries of previous are thrown away, as in a map that expires
\* what it has not seen for two intervals.
RotateExpires(s) ==
  IF Mark(s) >= MinCapacity /\ MustRotate(s)
    THEN /\ previous' = [k \in Key |-> IF ShardOf[k] = s THEN current[k] ELSE previous[k]]
         /\ current' = [k \in Key |-> IF ShardOf[k] = s THEN None ELSE current[k]]
         /\ buckets' = [buckets EXCEPT ![s].previous = Total(s)]
         /\ high_water_mark' = [high_water_mark EXCEPT ![s] = Total(s)]
    ELSE /\ high_water_mark' = [high_water_mark EXCEPT ![s] = Mark(s)]
         /\ UNCHANGED <<current, previous, buckets>>

RotateShard(s) ==
  IF Mark(s) >= MinCapacity /\ MustRotate(s)
    THEN MoveEntries(s)
    ELSE /\ high_water_mark' = [high_water_mark EXCEPT ![s] = Mark(s)]
         /\ UNCHANGED <<current, previous, buckets>>

UserCall(k) ==
  /\ \/ \E v \in Value : Set(k, v) \/ GetOrCreate(k, v)
     \/ Get(k) \/ Pop(k)
     \/ \E P \in SUBSET Value : PopIf(k, P)
  /\ UNCHANGED lifeVars

\* A step of rotate() called by a user.
CallRotate(s) == RotateShard(s) /\ UNCHANGED <<ret, lifeVars>>
-----------------------------------------------------------------------------
(* The rotation task.                                                      *)

\* start up to the spawn, and its errors.
Start ==
  /\ starter = "new"
  /\ IF stopped \/ started
       THEN starter' = "failed" /\ UNCHANGED <<started, loop>>
       ELSE starter' = "spawned" /\ started' = TRUE /\ loop' = "sleep"
  /\ UNCHANGED <<mapVars, ret, stopped, stopper, rotation_task, todo>>

\* stop keeps the lock of rotation_task while it waits for the task.
Locked == \E s \in Stopper : stopper[s] = "joining"

StartStore ==
  /\ starter = "spawned" /\ ~Locked
  /\ rotation_task' = "stored" /\ starter' = "done"
  /\ UNCHANGED <<mapVars, ret, started, stopped, stopper, loop, todo>>

StopBegin(s) ==
  /\ stopper[s] = "new"
  /\ stopped' = TRUE /\ stopper' = [stopper EXCEPT ![s] = "locking"]
  /\ UNCHANGED <<mapVars, ret, started, starter, rotation_task, loop, todo>>

StopTake(s) ==
  /\ stopper[s] = "locking" /\ ~Locked
  /\ IF rotation_task = "stored"
       THEN rotation_task' = "taken" /\ stopper' = [stopper EXCEPT ![s] = "joining"]
       ELSE stopper' = [stopper EXCEPT ![s] = "returned"] /\ UNCHANGED rotation_task
  /\ UNCHANGED <<mapVars, ret, started, stopped, starter, loop, todo>>

StopJoin(s) ==
  /\ stopper[s] = "joining" /\ loop = "ended"
  /\ stopper' = [stopper EXCEPT ![s] = "returned"]
  /\ UNCHANGED <<mapVars, ret, started, stopped, starter, rotation_task, loop, todo>>

\* The interval is over.  A sleep that began before stop may still win the
\* select!, a later one finds the cancellation first.
LoopWake ==
  /\ loop = "sleep" /\ loop' = "rotate" /\ todo' = Shard
  /\ UNCHANGED <<mapVars, ret, started, stopped, starter, stopper, rotation_task>>

LoopShard(s) ==
  /\ loop = "rotate" /\ s \in todo /\ RotateShard(s)
  /\ todo' = todo \ {s}
  /\ loop' = IF todo' # {} THEN loop ELSE IF stopped THEN "leave" ELSE "sleep"
  /\ UNCHANGED <<ret, started, stopped, starter, stopper, rotation_task>>

LoopEnd ==
  /\ loop \in {"sleep", "leave"} /\ stopped /\ loop' = "ended"
  /\ UNCHANGED <<mapVars, ret, started, stopped, starter, stopper, rotation_task, todo>>

Next ==
  \/ \E k \in Key : UserCall(k)
  \/ \E s \in Shard : CallRotate(s) \/ LoopShard(s)
  \/ \E s \in Stopper : StopBegin(s) \/ StopTake(s) \/ StopJoin(s)
  \/ Start \/ StartStore \/ LoopWake \/ LoopEnd

Spec == Init /\ [][Next]_vars
-----------------------------------------------------------------------------
(* Properties.                                                             *)

TypeOK ==
  /\ current \in [Key -> Value \cup {None}] /\ previous \in [Key -> Value \cup {None}]
  /\ high_water_mark \in [Shard -> Nat]
  /\ buckets \in [Shard -> [current : Nat, previous : Nat]]

\* A key has at most one entry: pop and pop_if remove the entry they find
\* first, and would otherwise bring an older one back to life.
OneEntry == \A k \in Key : current[k] = None \/ previous[k] = None

\* The two together are inductive.
Inv == TypeOK /\ OneEntry

\* "Rotation never expires entries.": what users see of the two maps is one
\* map, on which rotations and the rotation task have no effect.
contents == [k \in Key |-> Lookup(k)]

Plain == INSTANCE KeyedMap WITH map <- contents

IsOneMap == Plain!Spec
=============================================================================
