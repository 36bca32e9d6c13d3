---------------------------- MODULE ConfigLoader ----------------------------
(***************************************************************************)
(* The configuration: what a snapshot must satisfy to be published         *)
(* (runtime/config/runtime.rs), and the loader that watches the override   *)
(* file and publishes what it reads (runtime/config/loader.rs).            *)
(*                                                                         *)
(* A YAML mapping is a function from the paths of its leaves, sequences of *)
(* keys, to the scalars and lists there.  A configuration is a record of   *)
(* lists, one per section, and of the settings of the application.         *)
(***************************************************************************)
EXTENDS Naturals, Sequences, Functions

CONSTANTS Defaults,     \* the defaults and the base file, merged
          Environment,  \* the settings that environment variables give
          Files,        \* the contents of the override file, None: unreadable
          Reloader,     \* the watch task, "watch", and the callers of reload
          MaxWrites,    \* bound: the changes of the directory
          None

VARIABLES
  file,           \* what the override file holds
  link,           \* which file its path leads to: a number per replacement
  writes,
  events,         \* of the watched directory, not yet received: TRUE names the path
  task,           \* the watch task: none, run, stopping, ended
  watched_target,
  written,        \* the file was changed since the watch began
  reloader,       \* of each: where its reload is, and its candidate
  current, runtime_config

vars == <<file, link, writes, events, task, watched_target, written, reloader, current, runtime_config>>
fileVars == <<file, link, writes>>
published == <<current, runtime_config>>
-----------------------------------------------------------------------------
(* Snapshots.                                                              *)

\* merge_yaml: mappings are merged at every depth, and anything else is replaced: a
\* leaf stays unless the override has it, something within it or something around it.
MergeYaml(base, override) ==
  LET Overlap(p, q) == \A i \in DOMAIN p \cap DOMAIN q : p[i] = q[i]
      kept == {p \in DOMAIN base : \A q \in DOMAIN override : ~Overlap(p, q)}
  IN [p \in kept \cup DOMAIN override |-> IF p \in kept THEN base[p] ELSE override[p]]

Section == {"services", "streams", "pools", "connectors", "endpoints", "links", "modules", "types",
            "default_call_semantics"}

\* from_value, of a mapping that has every section as a leaf.
FromValue(y) ==
  [s \in Section \cup {"settings"} |->
     IF s \in Section THEN y[<<s>>]
     ELSE [k \in {p[2] : p \in {p \in DOMAIN y : Len(p) = 2 /\ p[1] = s}} |-> y[<<s, k>>]]]

\* The application's own: the environment goes before the files, and a setting may
\* be out of bounds.
ApplyEnvironment(c) ==
  [c EXCEPT !.settings = [k \in DOMAIN @ \cup DOMAIN Environment |->
                            IF k \in DOMAIN Environment THEN Environment[k] ELSE @[k]]]
Validate(c) == c.settings["port"] <= c.settings["limit"]

\* load_snapshot; None is an error.
Snapshot(f) ==
  LET y == MergeYaml(Defaults, f)
      c == ApplyEnvironment(FromValue(y))
  IN IF f # None /\ (\A s \in Section : <<s>> \in DOMAIN y) /\ Validate(c) THEN c ELSE None

Unique(list, field) == \A i, j \in DOMAIN list : list[i][field] = list[j][field] => i = j

\* An endpoint names a connector of its type, and a scheduled one runs in UTC.
EndpointResolves(c, e) ==
  /\ \E k \in Range(c.connectors) : k.id = e.connector /\ k.type = e.type
  /\ e.scheduled => e.utc

\* The checks of from_parts and new, of what load_snapshot gives.
Accepts(c) ==
  /\ c # None
  /\ \A s \in {"services", "streams", "connectors", "endpoints"} : Unique(c[s], "id") /\ Unique(c[s], "name")
  /\ \A s \in {"pools", "modules", "types"} : Unique(c[s], "name")
  /\ \A e \in Range(c.endpoints) : EndpointResolves(c, e)
  /\ \A i, j \in DOMAIN c.links :
       c.links[i].from = c.links[j].from /\ c.links[i].to = c.links[j].to => i = j

Index(list, field) ==
  [v \in {x[field] : x \in Range(list)} |-> CHOOSE x \in Range(list) : x[field] = v]

\* The pools that the default call semantics and those of the services and the links
\* name.
Referenced(c) ==
  ({c.default_call_semantics} \cup {x.pool : x \in Range(c.services) \cup Range(c.links)}) \ {None}

\* A pool that is only referenced has one executor.
Pools(c) ==
  [n \in {x.name : x \in Range(c.pools)} \cup Referenced(c) |->
     IF \E x \in Range(c.pools) : x.name = n THEN Index(c.pools, "name")[n]
     ELSE [name |-> n, executors |-> 1]]

\* RuntimeConfig::new of an accepted configuration.
RuntimeConfig(c) ==
  [default_call_semantics |-> c.default_call_semantics,
   streams_by_id |-> Index(c.streams, "id"), streams_by_name |-> Index(c.streams, "name"),
   endpoints_by_id |-> Index(c.endpoints, "id"), connectors_by_id |-> Index(c.connectors, "id"),
   pools_by_name |-> Pools(c), links |-> Range(c.links)]

\* What a service demands of a reload, from its reload handler.
ValidateReload(c, new) ==
  \A i \in DOMAIN c.services : \E j \in DOMAIN new.services :
    c.services[i].id = new.services[j].id /\ c.services[i].name = new.services[j].name
-----------------------------------------------------------------------------
(* The file, and the watch on its directory.                               *)

Idle == [pc |-> "idle", candidate |-> None]

\* The first load.
Init ==
  /\ file \in {f \in Files \ {None} : Accepts(Snapshot(f))} /\ link = 0 /\ writes = 0
  /\ events = <<>> /\ task = "none" /\ watched_target = None /\ written = FALSE
  /\ reloader = [r \in Reloader |-> Idle]
  /\ current = file /\ runtime_config = RuntimeConfig(Snapshot(file))

Watching == task = "run"

Event(named) == events' = IF Watching THEN Append(events, named) ELSE events

\* The file is written in place, or removed; the event names it.  Or its path
\* is made to lead elsewhere, with an event that names another path.  Or some
\* other file of the directory changes.
Write(f) ==
  /\ writes < MaxWrites /\ writes' = writes + 1
  /\ \/ f # file /\ file' = f /\ Event(TRUE) /\ UNCHANGED link /\ written' = Watching
     \/ f # file /\ file' = f /\ Event(FALSE) /\ link' = writes' /\ written' = Watching
     \/ f = file /\ Event(FALSE) /\ UNCHANGED <<file, link, written>>
  /\ UNCHANGED <<task, watched_target, reloader, published>>

Start ==
  /\ task \in {"none", "ended"} /\ task' = "run"
  /\ watched_target' = link /\ events' = <<>> /\ written' = FALSE
  /\ UNCHANGED <<fileVars, reloader, published>>

\* stop: the token, and the watcher is dropped; then the task is awaited.
Stop ==
  /\ Watching /\ task' = "stopping"
  /\ UNCHANGED <<fileVars, events, watched_target, written, reloader, published>>

TaskEnds ==
  /\ task = "stopping" /\ reloader["watch"].pc = "idle" /\ task' = "ended"
  /\ UNCHANGED <<fileVars, events, watched_target, written, reloader, published>>
-----------------------------------------------------------------------------
(* Reloads.                                                                *)

At(r, l) == reloader' = [reloader EXCEPT ![r].pc = l]

\* Mutant: an event must name the file.
RelevantNamed(named) == named

\* is_relevant_event, with the target looked up when the event is received.
Relevant(named) == named \/ link # watched_target

\* A reload begins: in the watch task with an event it has received, also with
\* one left when the token is cancelled; in another caller at any time.
Begin(r) ==
  /\ reloader[r].pc = "idle"
  /\ IF r = "watch"
       THEN /\ task \in {"run", "stopping"} /\ events # <<>>
            /\ events' = Tail(events) /\ watched_target' = link
            /\ IF Relevant(Head(events)) THEN At(r, "load") ELSE UNCHANGED reloader
       ELSE At(r, "load") /\ UNCHANGED <<events, watched_target>>
  /\ UNCHANGED <<fileVars, task, written, published>>

\* load_snapshot and RuntimeConfig::new; an error ends the reload.
Load(r) ==
  /\ reloader[r].pc = "load"
  /\ reloader' = [reloader EXCEPT ![r] =
       IF file # None /\ Accepts(Snapshot(file)) THEN [pc |-> "handle", candidate |-> file] ELSE Idle]
  /\ UNCHANGED <<fileVars, events, task, watched_target, written, published>>

\* The reload handler has the last word.
Handle(r) ==
  /\ reloader[r].pc = "handle"
  /\ IF ValidateReload(Snapshot(current), Snapshot(reloader[r].candidate)) THEN At(r, "current")
     ELSE reloader' = [reloader EXCEPT ![r] = Idle]
  /\ UNCHANGED <<fileVars, events, task, watched_target, written, published>>

\* The two stores.
StoreCurrent(r) ==
  /\ reloader[r].pc = "current" /\ At(r, "runtime")
  /\ current' = reloader[r].candidate
  /\ UNCHANGED <<fileVars, events, task, watched_target, written, runtime_config>>

StoreRuntime(r) ==
  /\ reloader[r].pc = "runtime" /\ reloader' = [reloader EXCEPT ![r] = Idle]
  /\ runtime_config' = RuntimeConfig(Snapshot(reloader[r].candidate))
  /\ UNCHANGED <<fileVars, events, task, watched_target, written, current>>

Next ==
  \/ \E f \in Files : Write(f)
  \/ Start \/ Stop \/ TaskEnds
  \/ \E r \in Reloader : Begin(r) \/ Load(r) \/ Handle(r) \/ StoreCurrent(r) \/ StoreRuntime(r)

Spec == Init /\ [][Next]_vars
-----------------------------------------------------------------------------
(* Properties.                                                             *)

Settled == Watching /\ events = <<>> /\ \A r \in Reloader : reloader[r].pc = "idle"

Publishable(f) == f # None /\ Accepts(Snapshot(f)) /\ ValidateReload(Snapshot(current), Snapshot(f))

\* Once the watch task has nothing left to do, the file as it was last left is
\* what is published, if it can be: no change is lost to the events that come
\* before it, to an event that names another path or to a reload that was under
\* way.  And the two halves of what is published are of one snapshot.
LastWriteApplied ==
  Settled =>
    /\ written /\ Publishable(file) => current = file
    /\ runtime_config = RuntimeConfig(Snapshot(current))

\* "A failed attempt leaves the previous snapshot active": what is published has
\* passed every check, and so has all that the graph looks up by reference: the
\* connector of an endpoint, the pool of a link and of the default, a stream under
\* both its keys.
PublishedResolves ==
  LET c == Snapshot(current) r == runtime_config IN
  /\ \A e \in DOMAIN r.endpoints_by_id :
       r.endpoints_by_id[e].connector \in DOMAIN r.connectors_by_id
  /\ \A p \in {l.pool : l \in r.links} \cup {r.default_call_semantics} :
       p # None => p \in DOMAIN r.pools_by_name
  /\ \A i \in DOMAIN r.streams_by_id : r.streams_by_name[r.streams_by_id[i].name] = r.streams_by_id[i]
  /\ Accepts(c)

\* What is published is the file as it was last left, if it can be, and resolves.
PublishedExact == LastWriteApplied /\ PublishedResolves
=============================================================================
