---------------------------- MODULE JoinStorage -----------------------------
(***************************************************************************)
(* Join and MultiJoin (src/operators/join.rs, multijoin.rs) and the store  *)
(* behind them, src/runtime/store/hashmap.rs.                              *)
(*                                                                         *)
(* A key maps to an entry, which collects the values of one group.  A call *)
(* of join_value_with looks the entry up under the map's lock, releases    *)
(* it, and then takes the entry's own lock for as long as the business     *)
(* callback runs.  Between the two locks the entry may be completed,       *)
(* expire, be removed or be replaced.  The first value of a group with a   *)
(* positive TTL spawns the group's expiry task.                            *)
(*                                                                         *)
(* Entries are numbered in the order of their creation; a number is the    *)
(* identity Arc::ptr_eq compares.  The values of a group are the calls     *)
(* that pushed them.  An optional instant is a set with at most one        *)
(* element.                                                                *)
(***************************************************************************)
EXTENDS MessageContext

CONSTANTS
  Call,        \* the calls of join_value_with
  Key, KeyOf,  \* KeyOf[c], the key of the call
  Deadline,    \* Deadline[c], the deadline of the context of the call, if any
  Side,        \* Side[c], the input of the operator the value of the call came by
  Configs,     \* the configurations: records with the fields ttl, renew and type
  MaxReloads,  \* bound on the reloads
  MaxTime,     \* bound on the clock
  MaxEntries   \* bound on the entries ever created

JoinType == {"inner", "left", "right", "outer", "undefined", "multi"}

ASSUME ConstantsAssumption ==
  /\ KeyOf \in [Call -> Key]
  /\ Deadline \in [Call -> SUBSET Nat]
  /\ Side \in [Call -> Nat]
  /\ Configs \subseteq [ttl : Nat, renew : BOOLEAN, type : JoinType]
  /\ MaxReloads \in Nat /\ MaxTime \in Nat /\ MaxEntries \in Nat

Entry == 1 .. MaxEntries

VARIABLES
  now, config, reloads,
  token,      \* the calls whose context was cancelled by its owner
  pc,         \* pc[c], progress of the call
  ttl,        \* ttl[c], effective_ttl
  renew,      \* renew[c], renew_ttl
  item,       \* item[c], the entry the call has looked up; 0: none
  items,      \* items[k], the entry in the map; 0: none
  count,      \* the gauge of the map's size
  created,    \* the number of entries created so far
  deadline,   \* deadline[e], Entry::deadline
  values,     \* values[e], the calls whose value is in e
  owner,      \* owner[e], the call whose context and callback e keeps
  processed,  \* the entries that are processed
  holder,     \* holder[e], the call holding the lock of e, if any
  timer,      \* timer[e], the expiry task of e
  wake,       \* wake[e], the instant the expiry task sleeps until
  expiry      \* the entries whose expiry token was cancelled

clockVars == <<now, config, reloads, token>>
callVars  == <<pc, ttl, renew, item>>
mapVars   == <<items, count, created>>
groupVars == <<deadline, values, owner, processed, holder>>
timerVars == <<timer, wake, expiry>>
vars == <<clockVars, callVars, mapVars, groupVars, timerVars>>

Init ==
  /\ now = 0 /\ config \in Configs /\ reloads = 0 /\ token = {}
  /\ pc = [c \in Call |-> "new"]
  /\ ttl = [c \in Call |-> 0] /\ renew = [c \in Call |-> FALSE]
  /\ item = [c \in Call |-> 0]
  /\ items = [k \in Key |-> 0] /\ count = 0 /\ created = 0
  /\ deadline = [e \in Entry |-> {}] /\ values = [e \in Entry |-> {}]
  /\ owner = [e \in Entry |-> {}] /\ processed = {} /\ holder = [e \in Entry |-> {}]
  /\ timer = [e \in Entry |-> "none"] /\ wake = [e \in Entry |-> 0] /\ expiry = {}

Expired(e) == Passed(deadline[e], now)

Tick ==
  /\ now < MaxTime
  /\ now' = now + 1
  /\ UNCHANGED <<config, reloads, token, callVars, mapVars, groupVars, timerVars>>

\* A Join stays one, and so does a MultiJoin.
Reload(f) ==
  /\ reloads < MaxReloads /\ f # config /\ (f.type = "multi" <=> config.type = "multi")
  /\ config' = f /\ reloads' = reloads + 1
  /\ UNCHANGED <<now, token, callVars, mapVars, groupVars, timerVars>>

\* The owner of a context cancels it; only expiry tasks look at it.
Cancel(c) ==
  /\ c \notin token
  /\ \E e \in Entry : owner[e] = {c} /\ timer[e] = "armed" /\ Deadline[c] # {}
  /\ token' = token \cup {c}
  /\ UNCHANGED <<now, config, reloads, callVars, mapVars, groupVars, timerVars>>

-----------------------------------------------------------------------------
(* join_value_with                                                         *)

\* The settings are read once.  The context's deadline replaces the
\* configured TTL.
Begin(c) ==
  /\ pc[c] = "new"
  /\ pc' = [pc EXCEPT ![c] = "lookup"]
  /\ ttl' = [ttl EXCEPT ![c] =
               CHOOSE d \in Remaining(Deadline[c], now) \cup
                            (IF Deadline[c] = {} THEN {config.ttl} ELSE {}) : TRUE]
  /\ renew' = [renew EXCEPT ![c] = config.renew]
  /\ UNCHANGED <<item, clockVars, mapVars, groupVars, timerVars>>

\* A new entry takes the key.
Insert(c, e) ==
  /\ items' = [items EXCEPT ![KeyOf[c]] = e]
  /\ count' = count + (IF items[KeyOf[c]] = 0 THEN 1 ELSE 0)
  /\ created' = e
  /\ deadline' = [deadline EXCEPT ![e] = IF ttl[c] > 0 THEN {now + ttl[c]} ELSE {}]
  /\ owner' = [owner EXCEPT ![e] = {c}]

\* Under the map's lock: the entry of the key unless it has expired.
Lookup(c) ==
  /\ pc[c] = "lookup"
  /\ pc' = [pc EXCEPT ![c] = "lock"]
  /\ LET e == items[KeyOf[c]] IN
       \/ /\ e # 0 /\ ~Expired(e)
          /\ item' = [item EXCEPT ![c] = e]
          /\ UNCHANGED <<mapVars, deadline, owner>>
       \/ /\ e # 0 => Expired(e)
          /\ created < MaxEntries
          /\ Insert(c, created + 1)
          /\ item' = [item EXCEPT ![c] = created + 1]
  /\ UNCHANGED <<ttl, renew, clockVars, values, processed, holder, timerVars>>

\* The entry's lock is taken, but the group is over: release it and retry.
LockLate(c) ==
  /\ pc[c] = "lock" /\ holder[item[c]] = {}
  /\ item[c] \in processed \/ Expired(item[c])
  /\ pc' = [pc EXCEPT ![c] = "retire"]
  /\ UNCHANGED <<ttl, renew, item, clockVars, mapVars, groupVars, timerVars>>

\* Mutant of Open: the group is not looked at again under its lock.
OpenAlways(e) == holder[e] = {}

\* The lock is free and the group neither processed nor expired.
Open(e) == holder[e] = {} /\ e \notin processed /\ ~Expired(e)

\* call_function: the sides a group has to have for the user's function to be
\* called, by the type the operator has when its callback starts.
Has(group, i) == \E c \in group : Side[c] = i

CanJoin(group) ==
  \/ config.type = "inner" /\ Has(group, 0) /\ Has(group, 1)
  \/ config.type = "left" /\ Has(group, 0)
  \/ config.type = "right" /\ Has(group, 1)
  \/ config.type = "outer"

CanMultiJoin(group) == config.type = "multi" /\ Has(group, 0)

\* The entry's lock is taken, the value pushed and the callback started.  The
\* first value makes the group the caller's, and arms the expiry task if the
\* caller has a TTL.  The expect on the entry's deadline panics if the entry was
\* created by a caller without one.
Push(c) ==
  /\ pc[c] = "lock"
  /\ LET e == item[c]
         first == values[e] = {}
         group == values[e] \cup {c}
         arm == first /\ ttl[c] > 0
     IN
       /\ Open(e)
       /\ values' = [values EXCEPT ![e] = group]
       /\ owner' = [owner EXCEPT ![e] = IF first THEN {c} ELSE @]
       /\ IF arm /\ deadline[e] = {}
          THEN pc' = [pc EXCEPT ![c] = "panicked"] /\ UNCHANGED <<holder, timer, wake>>
          ELSE /\ pc' = [pc EXCEPT ![c] = IF CanJoin(group) \/ CanMultiJoin(group) THEN "invoke"
                                        ELSE "skip"]
               /\ holder' = [holder EXCEPT ![e] = {c}]
               /\ timer' = [timer EXCEPT ![e] = IF arm THEN "armed" ELSE @]
               /\ wake' = [wake EXCEPT ![e] = IF arm THEN CHOOSE d \in deadline[e] : TRUE
                                              ELSE @]
  /\ UNCHANGED <<ttl, renew, item, clockVars, mapVars, deadline, processed, expiry>>

\* Mutant of Invoked: the expiry is cancelled although the group goes on.
InvokedCancels(c, done) ==
  /\ pc[c] = "invoke" \/ (pc[c] = "skip" /\ ~done)
  /\ LET e == item[c] IN
       /\ holder' = [holder EXCEPT ![e] = {}]
       /\ processed' = IF done THEN processed \cup {e} ELSE processed
       /\ expiry' = IF timer[e] \notin {"none", "done"} THEN expiry \cup {e} ELSE expiry
       /\ deadline' = [deadline EXCEPT ![e] = IF ~done /\ renew[c] THEN {now + ttl[c]} ELSE @]
  /\ pc' = [pc EXCEPT ![c] = IF done THEN "remove" ELSE "done"]
  /\ UNCHANGED <<ttl, renew, item, clockVars, mapVars, values, owner, timer, wake>>

\* The callback returns done, and false if the user's function was not called.
Invoked(c, done) ==
  /\ pc[c] = "invoke" \/ (pc[c] = "skip" /\ ~done)
  /\ LET e == item[c] IN
       /\ holder' = [holder EXCEPT ![e] = {}]
       /\ processed' = IF done THEN processed \cup {e} ELSE processed
       /\ expiry' = IF done /\ timer[e] \notin {"none", "done"} THEN expiry \cup {e} ELSE expiry
       /\ deadline' = [deadline EXCEPT ![e] = IF ~done /\ renew[c] THEN {now + ttl[c]} ELSE @]
  /\ pc' = [pc EXCEPT ![c] = IF done THEN "remove" ELSE "done"]
  /\ UNCHANGED <<ttl, renew, item, clockVars, mapVars, values, owner, timer, wake>>

\* Mutants of RemoveIfSame: whatever the key maps to is removed; nothing is.
RemoveAny(k, e) ==
  /\ items' = [items EXCEPT ![k] = 0]
  /\ count' = IF items[k] # 0 THEN count - 1 ELSE count
  /\ UNCHANGED created
RemoveNever(k, e) == UNCHANGED mapVars

\* remove_if_same: only the entry the caller worked on is removed.
RemoveIfSame(k, e) ==
  /\ items' = [items EXCEPT ![k] = IF @ = e THEN 0 ELSE @]
  /\ count' = IF items[k] = e THEN count - 1 ELSE count
  /\ UNCHANGED created

Retire(c) ==
  /\ pc[c] \in {"retire", "remove"}
  /\ RemoveIfSame(KeyOf[c], item[c])
  /\ pc' = [pc EXCEPT ![c] = IF @ = "retire" THEN "lookup" ELSE "done"]
  /\ UNCHANGED <<ttl, renew, item, clockVars, groupVars, timerVars>>

CallStep(c) ==
  \/ Lookup(c) \/ LockLate(c) \/ Push(c) \/ Retire(c)
  \/ \E done \in BOOLEAN : Invoked(c, done)

-----------------------------------------------------------------------------
(* The expiry task of an entry                                             *)

\* The task's own context is that of the call that armed it.
TimerContext(e) == UNION {Deadline[c] : c \in owner[e]}

\* biased: a cancelled expiry token ends the task before its timer is polled.
TimerStop(e) ==
  /\ timer[e] = "armed" /\ e \in expiry
  /\ timer' = [timer EXCEPT ![e] = "done"]
  /\ UNCHANGED <<wake, expiry, clockVars, callVars, mapVars, groupVars>>

\* With a context deadline the task waits for the end of the context,
\* otherwise for the instant it sleeps until.
TimerWake(e) ==
  /\ timer[e] = "armed" /\ e \notin expiry
  /\ IF TimerContext(e) # {}
     THEN IsCancelled(owner[e] \subseteq token, TimerContext(e), now)
     ELSE wake[e] <= now
  /\ timer' = [timer EXCEPT ![e] = "locking"]
  /\ UNCHANGED <<wake, expiry, clockVars, callVars, mapVars, groupVars>>

\* Mutant of TimerLock: the group may have been completed meanwhile.
TimerLockAgain(e) ==
  /\ timer[e] = "locking" /\ holder[e] = {}
  /\ timer' = [timer EXCEPT ![e] = "delivering"]
  /\ processed' = processed \cup {e}
  /\ UNCHANGED <<wake, expiry, clockVars, callVars, mapVars, deadline, values, owner, holder>>

\* Under the entry's lock: the group was completed, or its deadline was moved,
\* or it is now processed and its values are handed to the callback, which
\* runs without the lock.
TimerLock(e) ==
  /\ timer[e] = "locking" /\ holder[e] = {}
  /\ LET renewed == TimerContext(e) = {} /\ deadline[e] # {} /\ ~Expired(e) IN
       \/ /\ e \in processed
          /\ timer' = [timer EXCEPT ![e] = "done"]
          /\ UNCHANGED <<wake, processed>>
       \/ /\ e \notin processed /\ renewed
          /\ timer' = [timer EXCEPT ![e] = "armed"]
          /\ wake' = [wake EXCEPT ![e] = CHOOSE d \in deadline[e] : TRUE]
          /\ UNCHANGED processed
       \/ /\ e \notin processed /\ ~renewed
          /\ timer' = [timer EXCEPT ![e] = "delivering"]
          /\ processed' = processed \cup {e}
          /\ UNCHANGED wake
  /\ UNCHANGED <<expiry, clockVars, callVars, mapVars, deadline, values, owner, holder>>

\* The callback of the expired group returns.
TimerDelivered(e) ==
  /\ timer[e] = "delivering"
  /\ timer' = [timer EXCEPT ![e] = "removing"]
  /\ UNCHANGED <<wake, expiry, clockVars, callVars, mapVars, groupVars>>

TimerRemove(e) ==
  /\ timer[e] = "removing"
  /\ \E c \in owner[e] : RemoveIfSame(KeyOf[c], e)
  /\ timer' = [timer EXCEPT ![e] = "done"]
  /\ UNCHANGED <<wake, expiry, clockVars, callVars, groupVars>>

TimerStep(e) ==
  TimerStop(e) \/ TimerWake(e) \/ TimerLock(e) \/ TimerDelivered(e) \/ TimerRemove(e)

Next ==
  \/ Tick \/ \E f \in Configs : Reload(f)
  \/ \E c \in Call : Cancel(c) \/ Begin(c) \/ CallStep(c)
  \/ \E e \in Entry : TimerStep(e)

Spec == Init /\ [][Next]_vars

\* Time passes, tokio polls woken tasks, a fair mutex serves its waiters and
\* callbacks return.
FairSpec ==
  /\ Spec
  /\ WF_vars(Tick)
  /\ \A c \in Call : SF_vars(CallStep(c))
  /\ \A e \in Entry : SF_vars(TimerStep(e))

-----------------------------------------------------------------------------
(* Properties                                                              *)

\* A group is completed once: by the callback that returns true or by its
\* expiry, never by both, although the expiry may already wait for the lock.
CompletedOnce ==
  [][\A e \in Entry \cap processed :
       /\ timer[e] # "delivering" => timer'[e] # "delivering"
       /\ holder[e] = {} => holder'[e] = {}]_vars

\* A group that is neither processed nor expired stays in the map: a retry, a
\* completion or an expiry that comes late removes only its own group.
LiveGroupKept ==
  [][\A k \in Key : items[k] # 0 /\ items'[k] # items[k] =>
       items[k] \in processed \/ Expired(items[k])]_vars

\* Values are added to the group the key maps to, not to one that was completed,
\* expired, removed or replaced while the caller waited for its lock.  The one
\* exception is a group that a callback has renewed: it may have been replaced
\* while its deadline had passed, and callers that wait at its lock still join it.
JoinsCurrentGroup ==
  [][\A c \in Call : pc[c] = "lock" /\ pc'[c] \in {"invoke", "skip", "panicked"} =>
       \/ items[KeyOf[c]] = item[c]
       \/ \E b \in values[item[c]] : renew[b] /\ pc[b] = "done"]_vars

\* "positive TTL has a deadline" (the expect in join_value_with).
PositiveTtlHasDeadline == \A c \in Call : pc[c] # "panicked"

\* Every call returns: the retry loop ends.
CallsReturn == \A c \in Call : pc[c] # "new" ~> pc[c] \in {"done", "panicked"}

\* A timed group is processed, at the latest by its expiry, unless the expiry
\* or the deadline is beyond the end of the clock.
TimedGroupProcessed ==
  \A e \in Entry : timer[e] = "armed" ~>
    e \in processed \/ \E d \in deadline[e] \cup {wake[e]} : d > MaxTime
=============================================================================
