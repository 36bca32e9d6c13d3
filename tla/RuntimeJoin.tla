---------------------------- MODULE RuntimeJoin -----------------------------
(* The join storage as a part of the runtime, with what it asks of its     *)
(* constants and what it promises.                                         *)
EXTENDS Naturals

CONSTANTS JoinCall, JoinKey, KeyOf, Deadline, Side, Configs, MaxReloads, MaxTime,
          MaxEntries

VARIABLES now, config, reloads, token, pc, ttl, renew, item, items, count, created, deadline,
          values, owner, processed, holder, timer, wake, expiry

J == INSTANCE JoinStorage WITH Call <- JoinCall, Key <- JoinKey

ASSUME JoinAssumption ==
  /\ KeyOf \in [JoinCall -> JoinKey]
  /\ Deadline \in [JoinCall -> SUBSET Nat]
  /\ Side \in [JoinCall -> Nat]
  /\ Configs \subseteq [ttl : Nat, renew : BOOLEAN, type : J!JoinType]
  /\ MaxReloads \in Nat /\ MaxTime \in Nat /\ MaxEntries \in Nat

joinVars == <<now, config, reloads, token, pc, ttl, renew, item, items, count, created, deadline,
              values, owner, processed, holder, timer, wake, expiry>>

\* A group is completed once, by a callback or by its expiry (hashmap.rs).
CompletedOnce == J!CompletedOnce

\* A group that is neither processed nor expired stays in the map.
LiveGroupKept == J!LiveGroupKept

\* A value joins the group its key maps to, or one that a callback has renewed.
JoinsCurrentGroup == J!JoinsCurrentGroup
=============================================================================
