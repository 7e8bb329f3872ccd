-------------------------- MODULE ContainerNames ---------------------------
(***************************************************************************)
(* From a process to the container its row shows: src/src/cgroup_info.rs,  *)
(* the cgroup_source of src/src/monitor.rs that drives it, one lookup per  *)
(* listed pid, all of a pass at once, with the cache of names they share,  *)
(* and the join by pid that puts what it publishes into the rows.          *)
(*                                                                         *)
(* The lookups are futures on one thread: each runs to its next await, the *)
(* read of /proc/<pid>/cgroup or the docker (pct exec) process.  The       *)
(* cache's lock is never held across one, so a check and a put are each    *)
(* part of a step.  Processes end meanwhile, and others take their pids.   *)
(* /proc, sysinfo, NVML, docker and pct are external.                      *)
(*                                                                         *)
(* A process is told apart by the container it is in, a name by whether    *)
(* docker gave it; NAME_RETRY_AFTER passes when Lapse says so.  The cache  *)
(* is its keys, most recently used first.                                  *)
(***************************************************************************)
EXTENDS Integers, Sequences, FiniteSets

CONSTANTS
  Pids,
  Containers,   \* docker container ids
  NoContainer,  \* where a process outside docker is
  NoProcess,    \* holds a free pid
  FirstOwner,   \* where the process of each pid is at first
  Mortal,       \* pids whose process may exit, and another take its place
  Successors,   \* where the processes that take a pid may be
  OnGpu,        \* pids the driver reports
  Top,          \* rows of the process table: 10
  Hanging,      \* containers whose docker inspect may never end
  Cap           \* size of the cache

Places == Containers \cup {NoContainer}

ASSUME ConstantsTyped ==
  /\ IsFiniteSet(Pids) /\ IsFiniteSet(Containers)
  /\ NoContainer \notin Containers /\ NoProcess \notin Places
  /\ FirstOwner \in [Pids -> Places] /\ Successors \subseteq Places
  /\ Mortal \subseteq Pids /\ OnGpu \subseteq Pids
  /\ Hanging \subseteq Containers
  /\ Top \in Nat \ {0} /\ Cap \in Nat \ {0}

VARIABLES
  processes,  \* pids in the processes section
  gpus,       \* pids in the GPU section
  pass,       \* "resting" or "looking"
  lookup,     \* per pid: "idle", "reading", "inspecting" or "done"
  asked,      \* per pid: the container docker is asked about for it
  cgroups,    \* what the pass has found so far, by pid
  published,  \* the cgroups section, by pid
  cache,      \* keys of the cache
  entry,      \* per container: "none", "known", "failed" or "lapsed"
  owner,      \* per pid: where its process is, or NoProcess
  answering,  \* containers docker would name just now
  resting,    \* containers that failed within NAME_RETRY_AFTER, cached or not
  held        \* per pid: where its processes have been during the pass

lists == <<processes, gpus>>
lookups == <<pass, lookup, asked, cgroups>>
names == <<cache, entry>>
world == <<owner, answering>>
vars == <<lists, lookups, published, names, world, resting, held>>

\* ProcessCGroupInfo, its VM id and LXC name left out.
Info(place, named) == [docker_container_id |-> place, named |-> named]

Nowhere == [p \in {} |-> Info(NoContainer, FALSE)]

Listed == processes \cup gpus

Cached(c) == \E i \in DOMAIN cache : cache[i] = c

-----------------------------------------------------------------------------
(* The sections whose pids are looked up. *)

Running == {p \in Pids : owner[p] # NoProcess}

\* fill_processes: the busiest, of which there are Top unless fewer run.
Busiest(S) == Cardinality(S) <= Top /\ (S = Running \/ Cardinality(S) = Top)

ListProcesses ==
  /\ \E S \in SUBSET Running : Busiest(S) /\ processes' = S
  /\ UNCHANGED <<gpus, lookups, published, names, world, resting, held>>

\* fetch_gpu_stats.
ListGpus ==
  /\ gpus' = Running \cap OnGpu
  /\ UNCHANGED <<processes, lookups, published, names, world, resting, held>>

-----------------------------------------------------------------------------
(* The cache. *)

\* Where c is, or where a key that is not cached would be next.
Position(c) == IF Cached(c) THEN CHOOSE i \in DOMAIN cache : cache[i] = c ELSE Len(cache) + 1

\* c goes to the front, and those that were before it move back by one.
Recent(c) == [i \in DOMAIN cache \cup {Position(c)} |->
                IF i = 1 THEN c ELSE IF i <= Position(c) THEN cache[i - 1] ELSE cache[i]]

\* cache.get: a hit becomes the most recently used.
Get(c) == IF Cached(c) THEN Recent(c) ELSE cache

\* The least recently used entry makes room.
Trimmed(keys) == IF Len(keys) > Cap THEN SubSeq(keys, 1, Cap) ELSE keys

Store(keys, c, what) ==
  /\ cache' = keys
  /\ entry' = [k \in Containers |->
                 IF k = c THEN what
                 ELSE IF \E i \in DOMAIN keys : keys[i] = k THEN entry[k] ELSE "none"]

\* Fault: a cache without CAP.
PutUnbounded(c, what) == Store(Recent(c), c, what)

Put(c, what) == Store(Trimmed(Recent(c)), c, what)

\* Fault: a failure stands for the run.
SettledForGood(c) == entry[c] # "none"

\* Docker has answered, or has failed too recently to ask again.
SettledFor(c) == entry[c] \in {"known", "failed"}

-----------------------------------------------------------------------------
(* A pass of cgroup_source. *)

\* Fault: the map kept from one pass to the next.
CarriedOver == published

\* let mut cgroups = HashMap::new(), in the loop.
EmptyMap == Nowhere

\* One lookup per pid, whichever sections list it.
Begin ==
  /\ pass = "resting"
  /\ pass' = "looking"
  /\ lookup' = [p \in Pids |-> IF p \in Listed THEN "reading" ELSE "idle"]
  /\ cgroups' = EmptyMap
  /\ held' = [p \in Pids |-> {owner[p]}]
  /\ UNCHANGED <<asked, lists, published, names, world, resting>>

Done(p) == /\ lookup' = [lookup EXCEPT ![p] = "done"]
           /\ asked' = [asked EXCEPT ![p] = NoContainer]

Found(p, place, named) ==
  /\ Done(p)
  /\ cgroups' = [q \in DOMAIN cgroups \cup {p} |->
                   IF q = p THEN Info(place, named) ELSE cgroups[q]]

\* The process ended between being listed and being looked up: there is no entry.
Gone(p) ==
  /\ lookup[p] = "reading" /\ owner[p] = NoProcess
  /\ Done(p)
  /\ UNCHANGED <<pass, cgroups, lists, published, names, world, resting, held>>

\* get_cgroup_info_from_pid is back with no container id: there is no name to ask for.
Uncontained(p) ==
  /\ lookup[p] = "reading" /\ owner[p] = NoContainer
  /\ Found(p, NoContainer, FALSE)
  /\ UNCHANGED <<pass, lists, published, names, world, resting, held>>

\* It is back with one: the cache settles the name, or docker is asked.
Read(p) ==
  LET c == owner[p] IN
  /\ lookup[p] = "reading" /\ c \in Containers
  /\ cache' = Get(c)
  /\ IF SettledFor(c)
       THEN Found(p, c, entry[c] = "known")
       ELSE /\ lookup' = [lookup EXCEPT ![p] = "inspecting"]
            /\ asked' = [asked EXCEPT ![p] = c]
            /\ UNCHANGED cgroups
  /\ UNCHANGED <<pass, lists, published, entry, world, resting, held>>

Named(p) ==
  LET c == asked[p] IN
  /\ lookup[p] = "inspecting" /\ c \in answering
  /\ Put(c, "known")
  /\ Found(p, c, TRUE)
  /\ resting' = resting \ {c}
  /\ UNCHANGED <<pass, lists, published, world, held>>

\* Fault: a failure is not remembered.
UnnamedForgotten(p) ==
  LET c == asked[p] IN
  /\ lookup[p] = "inspecting" /\ c \notin answering
  /\ Found(p, c, FALSE)
  /\ resting' = resting \cup {c}
  /\ UNCHANGED <<pass, lists, published, names, world, held>>

\* The inspect failed: whatever the cache holds by now gives way to Failed.
Unnamed(p) ==
  LET c == asked[p] IN
  /\ lookup[p] = "inspecting" /\ c \notin answering
  /\ Put(c, "failed")
  /\ Found(p, c, FALSE)
  /\ resting' = resting \cup {c}
  /\ UNCHANGED <<pass, lists, published, world, held>>

\* futures.next() has been through all of them.
Publish ==
  /\ pass = "looking" /\ \A p \in Pids : lookup[p] \in {"idle", "done"}
  /\ published' = cgroups
  /\ pass' = "resting"
  /\ lookup' = [p \in Pids |-> "idle"]
  /\ cgroups' = Nowhere /\ held' = [p \in Pids |-> {}]
  /\ UNCHANGED <<asked, lists, names, world, resting>>

-----------------------------------------------------------------------------
(* The join. *)

\* cgroup_info_for: what the row of pid p shows.
Row(p) == IF p \in DOMAIN published THEN published[p] ELSE Info(NoContainer, FALSE)

-----------------------------------------------------------------------------
(* The world: time, processes and docker. *)

Lapse(c) ==
  /\ c \in resting \/ entry[c] = "failed"
  /\ entry' = [entry EXCEPT ![c] = IF @ = "failed" THEN "lapsed" ELSE @]
  /\ resting' = resting \ {c}
  /\ UNCHANGED <<lists, lookups, published, cache, world, held>>

Holds(p, place) ==
  /\ owner' = [owner EXCEPT ![p] = place]
  /\ held' = [held EXCEPT ![p] = IF pass = "looking" THEN @ \cup {place} ELSE @]
  /\ UNCHANGED <<lists, lookups, published, names, answering, resting>>

Exit(p) == p \in Mortal /\ owner[p] # NoProcess /\ Holds(p, NoProcess)

\* A new process is given a free pid.
Start(p) == owner[p] = NoProcess /\ \E place \in Successors : Holds(p, place)

DockerTurns(c) ==
  /\ answering' = IF c \in answering THEN answering \ {c} ELSE answering \cup {c}
  /\ UNCHANGED <<lists, lookups, published, names, owner, resting, held>>

-----------------------------------------------------------------------------
Init ==
  /\ processes = {} /\ gpus = {}
  /\ pass = "resting"
  /\ lookup = [p \in Pids |-> "idle"] /\ asked = [p \in Pids |-> NoContainer]
  /\ cgroups = Nowhere /\ published = Nowhere
  /\ cache = <<>> /\ entry = [c \in Containers |-> "none"]
  /\ owner = FirstOwner
  /\ answering \in SUBSET Containers
  /\ resting = {}
  /\ held = [p \in Pids |-> {}]

Looks(p) == Gone(p) \/ Uncontained(p) \/ Read(p)

Inspected(p) == Named(p) \/ Unnamed(p)

Next ==
  \/ ListProcesses \/ ListGpus
  \/ Begin \/ Publish
  \/ \E p \in Pids : Looks(p) \/ Inspected(p) \/ Exit(p) \/ Start(p)
  \/ \E c \in Containers : Lapse(c) \/ DockerTurns(c)

Spec == Init /\ [][Next]_vars

\* Someone watches, so passes follow each other; a read of /proc and an inspect
\* of a container that does not hang end; sixty seconds pass.
FairSpec ==
  /\ Spec
  /\ WF_vars(Begin) /\ WF_vars(Publish)
  /\ \A p \in Pids : /\ WF_vars(Looks(p))
                      /\ WF_vars(asked[p] \notin Hanging /\ Inspected(p))
  /\ \A c \in Containers : WF_vars(Lapse(c))

-----------------------------------------------------------------------------
(* Properties. *)

Infos == [docker_container_id : Places, named : BOOLEAN]

Sections == UNION {[S -> Infos] : S \in SUBSET Pids}

(* Every variable stays in its type; the cache holds each key once, keeps to *)
(* its size, and has an entry for exactly its keys.                          *)
TypeOK ==
  /\ processes \subseteq Pids /\ gpus \subseteq Pids
  /\ pass \in {"resting", "looking"}
  /\ lookup \in [Pids -> {"idle", "reading", "inspecting", "done"}]
  /\ asked \in [Pids -> Places]
  /\ cgroups \in Sections /\ published \in Sections
  /\ entry \in [Containers -> {"none", "known", "failed", "lapsed"}]
  /\ Len(cache) = Cardinality({c \in Containers : Cached(c)}) /\ Len(cache) <= Cap
  /\ \A c \in Containers : Cached(c) <=> entry[c] # "none"
  /\ owner \in [Pids -> Places \cup {NoProcess}]
  /\ answering \subseteq Containers /\ resting \subseteq Containers
  /\ held \in [Pids -> SUBSET (Places \cup {NoProcess})]

(* A container whose inspect failed is not asked about again within          *)
(* NAME_RETRY_AFTER, by this pass or a later one, unless more containers     *)
(* than the cache holds have pushed its failure out (CachedName::Failed).    *)
FailedAreLeftAlone ==
  [][\A p \in Pids :
       lookup[p] = "reading" /\ lookup'[p] = "inspecting" /\ asked'[p] \in resting
         => ~Cached(asked'[p]) /\ Len(cache) = Cap]_vars

(* No pass publishes for a pid a container none of its processes has been in *)
(* since that pass began: what an earlier process of the pid was in is gone  *)
(* from its row a pass after the pid has been reused (cgroup_source).        *)
NoEntryOutlivesItsPass ==
  [][pass = "looking" /\ pass' = "resting" =>
       \A p \in DOMAIN published' : published'[p].docker_container_id \in held[p]]_vars

(* A row shows the container its process is in, and its name, in the end,    *)
(* once docker answers for it, whatever failed, was pushed out of the cache  *)
(* or held the pid before (publish, cgroup_info_for).                        *)
RowsComeRight ==
  \A p \in Pids, c \in Places :
    <>[](owner[p] = c /\ p \in Listed /\ c \in answering \cup {NoContainer})
      => <>[](Row(p) = Info(c, c # NoContainer))

(* A name docker gave stands for the run, as long as the cache has room.     *)
KnownStands ==
  [][\A c \in Containers :
       entry[c] = "known" => entry'[c] = "known" \/ (entry'[c] = "none" /\ Len(cache) = Cap)]_vars

(* A lookup that hangs costs names on its own rows: the others are shown.    *)
HangCostsItsRows ==
  \A p \in Pids :
    <>[](owner[p] \in Places \ Hanging /\ p \in Listed) => <>(p \in DOMAIN published)
=============================================================================
