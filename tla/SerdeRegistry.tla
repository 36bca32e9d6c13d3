--------------------------- MODULE SerdeRegistry ----------------------------
(***************************************************************************)
(* The serdes of a service (runtime/serde/registry.rs, and make_serde of   *)
(* runtime/environment/mod.rs).  The registry's lock is not held while a   *)
(* serde is looked for: that runs the service's provider, which may ask    *)
(* the registry for the serdes of elements.                                *)
(***************************************************************************)
CONSTANTS Type,         \* the types asked for
          Known,        \* those with a default serializer
          Getter,       \* the calls of make_serde
          TypeOf,       \* TypeOf[g]
          None

VARIABLES
  provider,       \* set_provider has installed one
  serializers,    \* of each type the cached serializer
  getter          \* of each call: where it is, what it selected and returned

vars == <<provider, serializers, getter>>

\* A serializer: its kind, and the call that made it.
Made(kind, g) == [kind |-> kind, by |-> g]

Init ==
  /\ provider = FALSE
  /\ serializers = [t \in Type |-> None]
  /\ getter = [g \in Getter |-> [pc |-> "new", provided |-> FALSE, serde |-> None]]

\* Only before the service has a serializer.
SetProvider ==
  /\ ~provider /\ \A t \in Type : serializers[t] = None
  /\ provider' = TRUE
  /\ UNCHANGED <<serializers, getter>>

\* get, under the read lock.
Look(g) ==
  /\ getter[g].pc = "new"
  /\ LET s == serializers[TypeOf[g]] IN
       getter' = [getter EXCEPT ![g] = IF s # None THEN [pc |-> "over", provided |-> FALSE, serde |-> s]
                                       ELSE [@ EXCEPT !.pc = "select", !.provided = provider]]
  /\ UNCHANGED <<provider, serializers>>

\* default_serializer, or else the stub.
Default(g) == Made(IF TypeOf[g] \in Known THEN "default" ELSE "stub", g)

\* make_serde: what cannot be resolved fails only when it is to be serialized.
Fallback(g) == Made("stub", g)

\* Without the lock: the provider has one, has none, or fails; one for another
\* type is a failure too.
Select(g) ==
  /\ getter[g].pc = "select"
  /\ \E s \in {Default(g)} \cup (IF getter[g].provided THEN {Made("custom", g), Fallback(g)} ELSE {}) :
       getter' = [getter EXCEPT ![g].pc = "store", ![g].serde = s]
  /\ UNCHANGED <<provider, serializers>>

\* Mutant: insert.
StoreLast(g) ==
  /\ getter[g].pc = "store"
  /\ serializers' = [serializers EXCEPT ![TypeOf[g]] = getter[g].serde]
  /\ getter' = [getter EXCEPT ![g].pc = "over"]
  /\ UNCHANGED provider

\* or_insert, under the write lock, of get and of cache.
Store(g) ==
  /\ getter[g].pc = "store"
  /\ LET s == IF serializers[TypeOf[g]] = None THEN getter[g].serde ELSE serializers[TypeOf[g]] IN
       /\ serializers' = [serializers EXCEPT ![TypeOf[g]] = s]
       /\ getter' = [getter EXCEPT ![g].pc = "over", ![g].serde = s]
  /\ UNCHANGED provider

Next == SetProvider \/ \E g \in Getter : Look(g) \/ Select(g) \/ Store(g)

Spec == Init /\ [][Next]_vars
-----------------------------------------------------------------------------
(* Properties.                                                             *)

\* The streams of a service that carry one type share one serde, however their
\* constructions interleave with each other, with a provider that is installed
\* between two lookups and with a provider that fails: both ends of a link
\* encode alike.
OneSerde ==
  \A g, h \in Getter :
    getter[g].pc = "over" /\ getter[h].pc = "over" /\ TypeOf[g] = TypeOf[h] =>
      getter[g].serde = getter[h].serde
=============================================================================
