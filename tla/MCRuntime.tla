----------------------------- MODULE MCRuntime ------------------------------
(* The rotating map, the join storage, the graph of operators, the cron,   *)
(* Kafka and HTTP sources, the configuration, the serializers and their    *)
(* registry, for TLC: each behaviour is one of one of them, chosen in the  *)
(* initial state.                                                          *)
EXTENDS RotatingMap, RuntimeJoin, RuntimeGraph, RuntimeCron, RuntimeConfig, RuntimeRegistry,
        RuntimeSources, TLC

CONSTANTS a, c1, c2, c3, j1, Radix, SizeBytes, WideBytes

VARIABLES part, serde, value, wire, whole, got

\* Every key is in the same shard, and of the same group.
OneShard == [k \in Key |-> a]
OneGroup == CHOOSE k \in Key : TRUE

JoinKeys == {OneGroup}
JoinKeyOf == [c \in JoinCall |-> OneGroup]
NoDeadline == [c \in JoinCall |-> {}]
OneSide == [c \in JoinCall |-> 0]
JoinConfigs == {[ttl |-> 1, renew |-> TRUE, type |-> "left"],
                [ttl |-> 0, renew |-> TRUE, type |-> "outer"]}

\* Each kind of operator, with forks and joins of the graph.
GraphShapes == {<<"split", "sink", "sink">>, <<"map", "case", "sink">>,
                <<"filter", "process", "sink">>, <<"merge", "sink">>, <<"link", "sink">>,
                <<"keyby", "sink">>, <<"flatmap", "sink">>, <<"iterable", "sink">>,
                <<"sinkResult", "result">>}

M == INSTANCE StreamMeaning

\* One job at an interval, which skips an occurrence while it runs, and one
\* with a calendar.
CronInterval == [j \in Job |-> IF j = j1 THEN 1 ELSE 0]
CronCalendar == [j \in Job |-> {1, 2}]
CronPolicies ==
  {p \in [Job -> [skip : BOOLEAN, once : BOOLEAN, result : BOOLEAN]] :
     /\ p[j1].skip /\ p[j1].once = p[j1].result
     /\ \A j \in Job \ {j1} : p[j] = [skip |-> FALSE, once |-> FALSE, result |-> FALSE]}

Named(i, n) == [id |-> i, name |-> n]
Yaml(settings, sections) ==
  [p \in {<<"settings", k>> : k \in DOMAIN settings} \cup {<<s>> : s \in DOMAIN sections} |->
     IF p[1] = "settings" THEN settings[p[2]] ELSE sections[p[1]]]
BaseConfig ==
  Yaml([port |-> 0, limit |-> 3],
       [services |-> <<[id |-> 1, name |-> "s", pool |-> "q"]>>,
        streams |-> <<Named(1, "a"), Named(2, "b")>>, pools |-> <<[name |-> "p", executors |-> 2]>>,
        connectors |-> <<[id |-> 1, name |-> "k", type |-> "cron"]>>,
        endpoints |-> <<[id |-> 1, name |-> "e", connector |-> 1, type |-> "cron",
                         scheduled |-> TRUE, utc |-> TRUE]>>,
        links |-> <<[from |-> 1, to |-> 2, pool |-> Absent]>>,
        modules |-> <<Named(1, "m")>>, types |-> <<>>, default_call_semantics |-> Absent])
Variables == [limit |-> 1]
OneSetting == Yaml([port |-> 1, spare |-> 1], <<>>)

\* A setting, beside a key that the base has not; a link and the default with pools
\* that are only referenced; and what no snapshot may have: no file, a port beyond
\* the limit, which the file does not raise, a mapping for a list, an id or a name
\* twice, an endpoint without connector, another service.
OverrideFiles == {Absent, OneSetting,
  Yaml(<<>>, [links |-> <<[from |-> 1, to |-> 2, pool |-> "r"]>>, default_call_semantics |-> "d"]),
  Yaml([port |-> 2, limit |-> 3], <<>>),
  [p \in {<<"streams", "a">>} |-> 1],
  Yaml(<<>>, [streams |-> <<Named(1, "a"), Named(1, "b")>>]),
  Yaml(<<>>, [modules |-> <<Named(1, "m"), Named(2, "m")>>]),
  Yaml(<<>>, [connectors |-> <<[id |-> 1, name |-> "k", type |-> "http"]>>]),
  Yaml(<<>>, [services |-> <<[id |-> 2, name |-> "s", pool |-> Absent]>>])}

\* Every serde, and containers of some of them, with the default limits and with
\* narrow ones.
Narrow == [max_string_bytes |-> 1, max_bytes |-> 1, max_container_elements |-> 1,
           max_total_bytes |-> 5]
With(s) == {s, [limits |-> Narrow] @@ s}
Of(t) == [type |-> t]
ArrayOf(t, e) == [type |-> t, of |-> e]
Serdes ==
  {Of(t) : t \in {"bool", "int8", "int16", "uint8", "uint16", "rune", "float", "stub"}}
  \cup UNION {With(Of(t)) : t \in {"string", "bytes", "string array"}}
  \cup UNION {With(ArrayOf("fixed array", Of(t))) : t \in {"bool", "int16"}}
  \cup UNION {With(ArrayOf("array", e)) : e \in With(Of("string"))}
  \cup {[type |-> "key value", key |-> Of("int16"), value |-> Of("string")],
        [type |-> "map", key |-> ArrayOf("fixed array", Of("uint8")),
         value |-> ArrayOf("array", Of("bool"))]}

D == INSTANCE Serde WITH Strings <- {<<>>, <<1>>, <<5>>, <<0, 5>>, <<2, 1>>}

\* One type has a default serializer, one has none.
GetterType == [g \in Getter |-> IF g = 1 THEN "event" ELSE "int"]

rotatingVars == <<current, previous, high_water_mark, buckets, ret, started, stopped, starter,
                  stopper, rotation_task, loop, todo>>
serdeVars == <<serde, value, wire, whole, got>>
sourceVars == <<kafkaVars, httpVars>>
runtimeVars == <<part, rotatingVars, joinVars, graphVars, cronVars, configVars, serdeVars,
                 registryVars, sourceVars>>

\* Of a part that does not run only one initial state is of interest.
Still(V, S) == V = CHOOSE x \in S : TRUE

RuntimeInit ==
  /\ part \in {"map", "join", "graph", "cron", "config", "serde", "registry", "kafka", "http"}
  /\ Init /\ J!Init /\ G!Init /\ C!Init /\ L!Init /\ P!Init /\ K!Init /\ H!Init
  /\ IF part = "serde" THEN D!Init
     ELSE serde = Of("bool") /\ value = TRUE /\ wire = None /\ whole = TRUE /\ got = None
  /\ part # "join" => Still(config, Configs)
  /\ part # "graph" => Still(op, Shapes)
  /\ part # "cron" => Still(policy, Policies)
  /\ part # "http" => ~dedicated
  /\ part # "config" => file = OneSetting

RuntimeNext ==
  /\ part' = part
  /\ \/ /\ part = "map" /\ Next
        /\ UNCHANGED <<joinVars, graphVars, cronVars, configVars, serdeVars, registryVars, sourceVars>>
     \/ /\ part = "join" /\ J!Next
        /\ UNCHANGED <<rotatingVars, graphVars, cronVars, configVars, serdeVars, registryVars, sourceVars>>
     \/ /\ part = "graph" /\ G!Next
        /\ UNCHANGED <<rotatingVars, joinVars, cronVars, configVars, serdeVars, registryVars, sourceVars>>
     \/ /\ part = "cron" /\ C!Next
        /\ UNCHANGED <<rotatingVars, joinVars, graphVars, configVars, serdeVars, registryVars, sourceVars>>
     \/ /\ part = "config" /\ L!Next
        /\ UNCHANGED <<rotatingVars, joinVars, graphVars, cronVars, serdeVars, registryVars, sourceVars>>
     \/ /\ part = "serde" /\ D!Next
        /\ UNCHANGED <<rotatingVars, joinVars, graphVars, cronVars, configVars, registryVars, sourceVars>>
     \/ /\ part = "registry" /\ P!Next
        /\ UNCHANGED <<rotatingVars, joinVars, graphVars, cronVars, configVars, serdeVars, sourceVars>>
     \/ /\ \/ part = "kafka" /\ K!Next /\ UNCHANGED httpVars
           \/ part = "http" /\ H!Next /\ UNCHANGED kafkaVars
        /\ UNCHANGED <<rotatingVars, joinVars, graphVars, cronVars, configVars, serdeVars, registryVars>>

RuntimeSpec == RuntimeInit /\ [][RuntimeNext]_runtimeVars

Calls == Permutations(JoinCall) \cup Permutations(CronStop)

\* Nothing is lost and nothing doubled on the way through the graph.
Conserved == part = "graph" => M!Conserved

\* What was serialized is read back, and of a part of it nothing; the bytes of
\* integers are ordered as the integers are.
WireExact == part = "serde" => D!DecodesExactly /\ D!EncodingSorts
=============================================================================
