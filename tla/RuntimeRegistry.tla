-------------------------- MODULE RuntimeRegistry ---------------------------
(* The registry of serializers as a part of the runtime, with what it asks *)
(* of its constants and what it promises.                                  *)
CONSTANTS Type, Known, Getter, TypeOf, NoSerde

Serializer == [kind : {"default", "stub", "custom"}, by : Getter]

ASSUME RegistryAssumption == TypeOf \in [Getter -> Type] /\ NoSerde \notin Serializer

VARIABLES provider, serializers, getter

P == INSTANCE SerdeRegistry WITH None <- NoSerde

registryVars == <<provider, serializers, getter>>

\* The streams that carry one type share one serde (registry.rs).
OneSerde == P!OneSerde
=============================================================================
