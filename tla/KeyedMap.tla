------------------------------ MODULE KeyedMap ------------------------------
(***************************************************************************)
(* What the users of RotatingMap rely on: one map, in which every call is  *)
(* one step.  map[k] is None for a key without entry, ret is what the last *)
(* call returned.                                                          *)
(***************************************************************************)
CONSTANTS Key, Value, None

VARIABLES map, ret

Init == map = [k \in Key |-> None] /\ ret = [key |-> None, value |-> None, found |-> FALSE]

Return(k, v, found) == ret' = [key |-> k, value |-> v, found |-> found]

\* set: an error, and no change, when the key is there.
Set(k, v) ==
  /\ map' = IF map[k] = None THEN [map EXCEPT ![k] = v] ELSE map
  /\ Return(k, None, map[k] # None)

\* get_or_create: the value, and whether it was there.
GetOrCreate(k, v) ==
  /\ map' = IF map[k] = None THEN [map EXCEPT ![k] = v] ELSE map
  /\ Return(k, map'[k], map[k] # None)

Get(k) == UNCHANGED map /\ Return(k, map[k], map[k] # None)

\* pop_if; pop is the case of a predicate that holds for every value.
PopIf(k, P) ==
  IF map[k] \in P
    THEN map' = [map EXCEPT ![k] = None] /\ Return(k, map[k], TRUE)
    ELSE UNCHANGED map /\ Return(k, None, FALSE)

Next == \E k \in Key :
          \/ \E v \in Value : Set(k, v) \/ GetOrCreate(k, v)
          \/ Get(k)
          \/ \E P \in SUBSET Value : PopIf(k, P)

Spec == Init /\ [][Next]_<<map, ret>>
=============================================================================
