----------------------- MODULE ContainerNamesProofs ------------------------
(***************************************************************************)
(* Theorems about ContainerNames.  Of the constants they assume nothing    *)
(* but ConstantsTyped: the pids and containers are any finite sets, the    *)
(* cache has any size.                                                     *)
(***************************************************************************)
EXTENDS ContainerNames, TLAPS, FiniteSetTheorems

-----------------------------------------------------------------------------
(* Keys of a cache: none twice. *)

Distinct(keys) == \A i, j \in DOMAIN keys : keys[i] = keys[j] => i = j

Keys == cache \in Seq(Containers) /\ Distinct(cache)

(* As many keys as containers that are cached. *)
LEMMA KeysCount ==
  ASSUME Keys
  PROVE  Len(cache) = Cardinality({c \in Containers : Cached(c)})
<1> DEFINE S == {c \in Containers : Cached(c)}
<1>1. Len(cache) \in Nat /\ DOMAIN cache = 1 .. Len(cache)
  BY DEF Keys
<1>2. \A i \in DOMAIN cache : cache[i] \in S
  BY DEF Keys, Cached
<1>3. \A c \in S : \E i \in DOMAIN cache : cache[i] = c
  BY DEF Cached
<1>4. cache \in Bijection(1 .. Len(cache), S)
  <2>1. cache \in [1 .. Len(cache) -> S]
    BY <1>1, <1>2 DEF Keys
  <2>2. \A i, j \in 1 .. Len(cache) : cache[i] = cache[j] => i = j
    BY <1>1 DEF Keys, Distinct
  <2> QED  BY <2>1, <2>2, <1>1, <1>3 DEF Bijection, Injection, Surjection, IsInjective
<1>5. ExistsBijection(1 .. Len(cache), S)
  BY <1>4 DEF ExistsBijection
<1> QED  BY <1>1, <1>5, FS_CountingElements

(* Where a cached key is, and that another goes behind the last. *)
LEMMA PositionOf ==
  ASSUME Keys, NEW c \in Containers
  PROVE  /\ Cached(c) => Position(c) \in DOMAIN cache /\ cache[Position(c)] = c
         /\ ~Cached(c) => Position(c) = Len(cache) + 1
<1>1. CASE Cached(c)
  <2>1. PICK i \in DOMAIN cache : cache[i] = c
    BY <1>1 DEF Cached
  <2> QED  BY <1>1, <2>1 DEF Position
<1>2. CASE ~Cached(c)
  BY <1>2 DEF Position
<1> QED  BY <1>1, <1>2

(* Making a key the most recent keeps the others, each once. *)
LEMMA RecentOf ==
  ASSUME Keys, NEW c \in Containers
  PROVE  /\ Recent(c) \in Seq(Containers) /\ Distinct(Recent(c))
         /\ Len(Recent(c)) = IF Cached(c) THEN Len(cache) ELSE Len(cache) + 1
         /\ Len(Recent(c)) >= 1 /\ Recent(c)[1] = c
         /\ \A k : (\E i \in DOMAIN Recent(c) : Recent(c)[i] = k) <=> (k = c \/ Cached(k))
<1> DEFINE n == Len(cache)
           m == IF Cached(c) THEN n ELSE n + 1
           at == Position(c)
<1>1. n \in Nat /\ DOMAIN cache = 1 .. n /\ \A i \in 1 .. n : cache[i] \in Containers
  BY DEF Keys
<1>2. m \in Nat /\ at \in 1 .. m /\ (~Cached(c) => at = n + 1)
  BY <1>1, PositionOf
<1>3. DOMAIN cache \cup {at} = 1 .. m
  BY <1>1, <1>2, PositionOf
<1>4. Recent(c) = [i \in 1 .. m |-> IF i = 1 THEN c
                                    ELSE IF i <= at THEN cache[i - 1] ELSE cache[i]]
  BY <1>3 DEF Recent
<1>5. \A i \in 1 .. n : i # at => cache[i] # c
  BY <1>1, PositionOf DEF Keys, Distinct, Cached
<1>6. Cached(c) => cache[at] = c
  BY PositionOf
<1>7. /\ Cached(c) => m = n
      /\ ~Cached(c) => m = n + 1 /\ at = n + 1
  BY <1>2
<1>8. n = Len(cache)
  OBVIOUS
<1> HIDE DEF at, m, n
<1>9. /\ Recent(c)[1] = c
      /\ \A i \in 2 .. m : Recent(c)[i] = IF i <= at THEN cache[i - 1] ELSE cache[i]
  BY <1>2, <1>4
<1>10. ASSUME NEW i \in 2 .. m
      PROVE  /\ i <= at => i - 1 \in 1 .. n
             /\ i > at => i \in 1 .. n
  BY <1>1, <1>2, <1>7
<1>11. \A i \in 1 .. m : Recent(c)[i] \in Containers
  BY <1>1, <1>2, <1>9, <1>10
<1>12. Recent(c) \in Seq(Containers) /\ Len(Recent(c)) = m /\ DOMAIN Recent(c) = 1 .. m
  <2>1. DOMAIN Recent(c) = 1 .. m /\ Recent(c) \in [1 .. m -> Containers]
    BY <1>4, <1>11
  <2> QED  BY <2>1, <1>2
<1>13. Distinct(Recent(c))
  <2> SUFFICES ASSUME NEW i \in 1 .. m, NEW j \in 1 .. m, Recent(c)[i] = Recent(c)[j], i < j
               PROVE  FALSE
    BY <1>2, <1>12 DEF Distinct
  <2> DEFINE before(x) == IF x <= at THEN x - 1 ELSE x
  <2>1. /\ Recent(c)[j] = cache[before(j)]
        /\ before(j) \in 1 .. n /\ before(j) # at
    BY <1>2, <1>9, <1>10
  <2>2. CASE i = 1
    BY <2>1, <2>2, <1>5, <1>9
  <2>3. CASE i # 1
    <3>1. /\ Recent(c)[i] = cache[before(i)]
          /\ before(i) \in 1 .. n
      BY <2>3, <1>2, <1>9, <1>10
    <3>2. before(i) < before(j)
      BY <1>2
    <3> QED  BY <2>1, <3>1, <3>2, <1>1 DEF Keys, Distinct
  <2> QED  BY <2>2, <2>3
<1>14. ASSUME NEW k
       PROVE  (\E i \in DOMAIN Recent(c) : Recent(c)[i] = k) <=> (k = c \/ Cached(k))
  <2>1. ASSUME NEW i \in 1 .. m, Recent(c)[i] = k  PROVE k = c \/ Cached(k)
    <3>1. CASE i = 1
      BY <2>1, <3>1, <1>9
    <3>2. CASE i \in 2 .. m
      <4>1. \E x \in 1 .. n : Recent(c)[i] = cache[x]
        <5>1. CASE i <= at
          BY <3>2, <5>1, <1>9, <1>10
        <5>2. CASE i > at
          BY <3>2, <5>2, <1>2, <1>9, <1>10
        <5> QED  BY <5>1, <5>2, <1>2
      <4> QED  BY <2>1, <4>1, <1>1 DEF Cached
    <3> QED  BY <3>1, <3>2, <1>2
  <2>2. 1 \in 1 .. m
    BY <1>2
  <2>3. ASSUME Cached(k), k # c  PROVE \E i \in 1 .. m : Recent(c)[i] = k
    <3>1. PICK i \in 1 .. n : cache[i] = k
      BY <1>1, <2>3 DEF Cached
    <3>2. i # at
      BY <3>1, <2>3, <1>1, <1>2, <1>6
    <3>3. CASE i < at
      <4>1. i + 1 \in 2 .. m /\ i + 1 <= at
        BY <3>1, <3>3, <1>1, <1>2
      <4> QED  BY <3>1, <4>1, <1>2, <1>9
    <3>4. CASE i > at
      <4>1. i \in 2 .. m
        BY <3>1, <3>4, <1>1, <1>2, <1>7
      <4> QED  BY <3>1, <3>4, <4>1, <1>2, <1>9
    <3> QED  BY <3>2, <3>3, <3>4, <1>1, <1>2
  <2> QED  BY <2>1, <2>2, <2>3, <1>9, <1>12
<1> QED  BY <1>1, <1>7, <1>8, <1>9, <1>12, <1>13, <1>14

(* Trimming leaves the most recent keys, at most Cap. *)
LEMMA TrimmedOf ==
  ASSUME NEW keys \in Seq(Containers), Distinct(keys), Len(keys) >= 1
  PROVE  /\ Trimmed(keys) \in Seq(Containers) /\ Distinct(Trimmed(keys))
         /\ Len(Trimmed(keys)) = IF Len(keys) > Cap THEN Cap ELSE Len(keys)
         /\ Len(Trimmed(keys)) >= 1 /\ Trimmed(keys)[1] = keys[1]
         /\ \A i \in DOMAIN Trimmed(keys) : i \in DOMAIN keys /\ Trimmed(keys)[i] = keys[i]
<1>1. Cap \in Nat /\ Cap >= 1
  BY ConstantsTyped
<1>2. CASE Len(keys) > Cap
  <2>1. Trimmed(keys) = SubSeq(keys, 1, Cap)
    BY <1>2 DEF Trimmed
  <2>2. /\ SubSeq(keys, 1, Cap) \in Seq(Containers)
        /\ Len(SubSeq(keys, 1, Cap)) = Cap
        /\ \A i \in 1 .. Cap : SubSeq(keys, 1, Cap)[i] = keys[i]
    BY <1>1, <1>2
  <2> QED  BY <1>1, <1>2, <2>1, <2>2 DEF Distinct
<1>3. CASE ~(Len(keys) > Cap)
  BY <1>3 DEF Trimmed
<1> QED  BY <1>2, <1>3

(* A put keeps the cache to its size and in step with its entries, the key   *)
(* put in, and the others unless the cache was full.                         *)
LEMMA PutOf ==
  ASSUME Keys, Len(cache) <= Cap, NEW c \in Containers, NEW what, Put(c, what),
         \A k \in Containers : Cached(k) <=> entry[k] # "none", what # "none"
  PROVE  /\ Keys' /\ (Len(cache) <= Cap)'
         /\ Len(cache') >= Len(cache)
         /\ entry' \in [Containers -> {"none", what} \cup {entry[k] : k \in Containers}]
         /\ \A k \in Containers : Cached(k)' <=> entry'[k] # "none"
         /\ entry'[c] = what
         /\ \A k \in Containers \ {c} :
              \/ entry'[k] = entry[k]
              \/ entry'[k] = "none" /\ Len(cache') = Cap
<1> DEFINE recent == Recent(c)
           keys == Trimmed(recent)
<1>1. /\ recent \in Seq(Containers) /\ Distinct(recent)
      /\ Len(recent) \in Nat /\ Len(recent) >= 1 /\ Len(recent) >= Len(cache) /\ recent[1] = c
      /\ \A k : (\E i \in DOMAIN recent : recent[i] = k) <=> (k = c \/ Cached(k))
  <2>1. Len(cache) \in Nat
    BY DEF Keys
  <2>2. Len(recent) = Len(cache) \/ Len(recent) = Len(cache) + 1
    BY RecentOf
  <2>3. \A k : (\E i \in DOMAIN recent : recent[i] = k) <=> (k = c \/ Cached(k))
    BY RecentOf, Zenon
  <2>4. recent \in Seq(Containers) /\ Distinct(recent) /\ Len(recent) >= 1 /\ recent[1] = c
    BY RecentOf
  <2> HIDE DEF recent
  <2> QED  BY <2>1, <2>2, <2>3, <2>4
<1> HIDE DEF recent
<1>2. /\ keys \in Seq(Containers) /\ Distinct(keys)
      /\ Len(keys) = IF Len(recent) > Cap THEN Cap ELSE Len(recent)
      /\ Len(keys) >= 1 /\ keys[1] = c
      /\ \A i \in DOMAIN keys : i \in DOMAIN recent /\ keys[i] = recent[i]
  BY <1>1, TrimmedOf
<1>3. ~(Len(recent) > Cap) => keys = recent
  BY DEF Trimmed
<1>4. /\ cache' = keys
      /\ entry' = [k \in Containers |->
                     IF k = c THEN what
                     ELSE IF \E i \in DOMAIN keys : keys[i] = k THEN entry[k] ELSE "none"]
  BY DEF Put, Store, recent
<1> HIDE DEF keys
<1>5. Cap \in Nat /\ Len(cache) \in Nat
  BY ConstantsTyped DEF Keys
<1>6. Keys' /\ (Len(cache) <= Cap)' /\ Len(cache') >= Len(cache)
  BY <1>1, <1>2, <1>4, <1>5 DEF Keys, Distinct
<1>7. ASSUME NEW k \in Containers
      PROVE  /\ Cached(k)' <=> entry'[k] # "none"
             /\ k = c => entry'[k] = what
             /\ k # c => entry'[k] = entry[k] \/ (entry'[k] = "none" /\ Len(cache') = Cap)
  <2> DEFINE there == \E i \in DOMAIN keys : keys[i] = k
  <2>1. Cached(k)' <=> there
    BY <1>4 DEF Cached
  <2>2. (k = c => there) /\ (there => k = c \/ Cached(k))
    <3>1. 1 \in DOMAIN keys
      BY <1>2
    <3> QED  BY <3>1, <1>1, <1>2
  <2>3. ~there /\ Cached(k) => Len(cache') = Cap
    <3>1. CASE Len(recent) > Cap
      BY <3>1, <1>2, <1>4
    <3>2. CASE ~(Len(recent) > Cap)
      BY <3>2, <1>1, <1>3
    <3> QED  BY <3>1, <3>2
  <2>4. entry'[k] = IF k = c THEN what ELSE IF there THEN entry[k] ELSE "none"
    BY <1>4
  <2> HIDE DEF there
  <2>5. CASE k = c
    BY <2>1, <2>2, <2>4, <2>5
  <2>6. CASE k # c /\ there
    BY <2>1, <2>2, <2>4, <2>6
  <2>7. CASE k # c /\ ~there
    BY <2>1, <2>3, <2>4, <2>7
  <2> QED  BY <2>5, <2>6, <2>7
<1>8. entry' \in [Containers -> {"none", what} \cup {entry[k] : k \in Containers}]
  BY <1>4
<1> QED  BY <1>6, <1>7, <1>8

(* A hit changes the order of the keys, and nothing else. *)
LEMMA GetOf ==
  ASSUME Keys, NEW c \in Containers, cache' = Get(c)
  PROVE  /\ Keys' /\ Len(cache') = Len(cache)
         /\ \A k : Cached(k)' <=> Cached(k)
<1>1. CASE Cached(c)
  <2>1. cache' = Recent(c)
    BY <1>1 DEF Get
  <2>2. \A k : Cached(k)' <=> \E i \in DOMAIN Recent(c) : Recent(c)[i] = k
    BY <2>1 DEF Cached
  <2> QED  BY <1>1, <2>1, <2>2, RecentOf DEF Keys, Distinct
<1>2. CASE ~Cached(c)
  BY <1>2 DEF Get, Keys, Distinct, Cached
<1> QED  BY <1>1, <1>2

-----------------------------------------------------------------------------
(* The sections are functions from pids. *)

LEMMA SectionsAre ==
  ASSUME NEW f
  PROVE  f \in Sections <=> /\ f = [p \in DOMAIN f |-> f[p]]
                           /\ DOMAIN f \subseteq Pids
                           /\ \A p \in DOMAIN f : f[p] \in Infos
BY DEF Sections

LEMMA FoundOf ==
  ASSUME cgroups \in Sections, NEW p \in Pids, NEW place \in Places, NEW named \in BOOLEAN,
         Found(p, place, named)
  PROVE  /\ cgroups' \in Sections
         /\ \A q \in DOMAIN cgroups' :
              \/ q = p /\ cgroups'[q].docker_container_id = place
              \/ q \in DOMAIN cgroups /\ cgroups'[q] = cgroups[q]
<1>1. Info(place, named) \in Infos /\ Info(place, named).docker_container_id = place
  BY DEF Info, Infos
<1>2. cgroups' = [q \in DOMAIN cgroups \cup {p} |->
                   IF q = p THEN Info(place, named) ELSE cgroups[q]]
  BY DEF Found
<1>3. DOMAIN cgroups \subseteq Pids /\ \A q \in DOMAIN cgroups : cgroups[q] \in Infos
  BY SectionsAre
<1> HIDE DEF Info
<1>4. \A q \in DOMAIN cgroups' :
         \/ q = p /\ cgroups'[q] = Info(place, named)
         \/ q \in DOMAIN cgroups /\ cgroups'[q] = cgroups[q]
  BY <1>2
<1>5. cgroups' = [q \in DOMAIN cgroups' |-> cgroups'[q]] /\ DOMAIN cgroups' \subseteq Pids
  BY <1>2, <1>3
<1> QED  BY <1>1, <1>3, <1>4, <1>5, SectionsAre

-----------------------------------------------------------------------------
(* The types. *)

CacheInv ==
  /\ Keys /\ Len(cache) <= Cap
  /\ \A c \in Containers : Cached(c) <=> entry[c] # "none"

LookupInv ==
  /\ pass \in {"resting", "looking"}
  /\ lookup \in [Pids -> {"idle", "reading", "inspecting", "done"}]
  /\ asked \in [Pids -> Places]
  /\ \A p \in Pids : lookup[p] = "inspecting" => asked[p] \in Containers
  /\ cgroups \in Sections /\ published \in Sections

WorldInv ==
  /\ processes \subseteq Pids /\ gpus \subseteq Pids
  /\ entry \in [Containers -> {"none", "known", "failed", "lapsed"}]
  /\ owner \in [Pids -> Places \cup {NoProcess}]
  /\ answering \subseteq Containers /\ resting \subseteq Containers
  /\ held \in [Pids -> SUBSET (Places \cup {NoProcess})]

TypeInv == CacheInv /\ LookupInv /\ WorldInv

LEMMA TypeInvIsStronger == TypeInv => TypeOK
BY KeysCount DEF TypeInv, CacheInv, LookupInv, WorldInv, TypeOK

LEMMA NowhereIsASection == Nowhere \in Sections
BY SectionsAre DEF Nowhere

LEMMA TypeInit == Init => TypeInv
<1> SUFFICES ASSUME Init PROVE TypeInv
  OBVIOUS
<1>1. CacheInv
  BY ConstantsTyped DEF Init, CacheInv, Keys, Distinct, Cached
<1>2. LookupInv
  BY ConstantsTyped, NowhereIsASection DEF Init, LookupInv, Places
<1>3. WorldInv
  BY ConstantsTyped DEF Init, WorldInv, Places
<1> QED  BY <1>1, <1>2, <1>3 DEF TypeInv

LEMMA CacheKept == ASSUME CacheInv, UNCHANGED names PROVE CacheInv'
BY DEF CacheInv, Keys, Distinct, Cached, names

LEMMA CachePut ==
  ASSUME CacheInv, WorldInv, NEW c \in Containers, NEW what \in {"known", "failed"}, Put(c, what)
  PROVE  /\ CacheInv'
         /\ entry' \in [Containers -> {"none", "known", "failed", "lapsed"}]
<1>1. what # "none"
  OBVIOUS
<1>2. Keys /\ Len(cache) <= Cap /\ \A k \in Containers : Cached(k) <=> entry[k] # "none"
  BY DEF CacheInv
<1>3. /\ Keys' /\ (Len(cache) <= Cap)'
      /\ \A k \in Containers : Cached(k)' <=> entry'[k] # "none"
      /\ entry' \in [Containers -> {"none", what} \cup {entry[k] : k \in Containers}]
  BY <1>1, <1>2, PutOf
<1> QED  BY <1>3 DEF CacheInv, WorldInv

LEMMA TypeStep == TypeInv /\ [Next]_vars => TypeInv'
<1> SUFFICES ASSUME TypeInv, [Next]_vars PROVE TypeInv'
  OBVIOUS
<1> USE DEF TypeInv
<1>1. CASE ListProcesses
  BY <1>1, CacheKept DEF ListProcesses, lookups, names, world, LookupInv, WorldInv, Running
<1>2. CASE ListGpus
  BY <1>2, CacheKept DEF ListGpus, lookups, names, world, LookupInv, WorldInv, Running
<1>3. CASE Begin
  <2>1. LookupInv'
    BY <1>3, NowhereIsASection DEF Begin, EmptyMap, LookupInv
  <2>2. WorldInv'
    BY <1>3 DEF Begin, lists, names, world, WorldInv
  <2> QED  BY <2>1, <2>2, <1>3, CacheKept DEF Begin
<1>4. CASE Publish
  <2>1. LookupInv'
    BY <1>4, NowhereIsASection DEF Publish, LookupInv
  <2>2. WorldInv'
    BY <1>4 DEF Publish, lists, names, world, WorldInv
  <2> QED  BY <2>1, <2>2, <1>4, CacheKept DEF Publish
<1>5. ASSUME NEW p \in Pids, Gone(p) PROVE TypeInv'
  <2>1. LookupInv'
    BY <1>5 DEF Gone, Done, LookupInv, Places
  <2> QED  BY <2>1, <1>5, CacheKept DEF Gone, lists, names, world, WorldInv
<1>6. ASSUME NEW p \in Pids, Uncontained(p) PROVE TypeInv'
  <2>1. cgroups' \in Sections
    BY <1>6, FoundOf DEF Uncontained, LookupInv, Places
  <2>2. LookupInv'
    BY <2>1, <1>6 DEF Uncontained, Found, Done, LookupInv, Places
  <2> QED  BY <2>2, <1>6, CacheKept DEF Uncontained, lists, names, world, WorldInv
<1>7. ASSUME NEW p \in Pids, Read(p) PROVE TypeInv'
  <2> DEFINE c == owner[p]
  <2>1. c \in Containers /\ cache' = Get(c) /\ UNCHANGED entry
    BY <1>7 DEF Read
  <2>2. CacheInv'
    BY <2>1, GetOf DEF CacheInv
  <2>3. CASE SettledFor(c)
    <3>1. Found(p, c, entry[c] = "known") /\ UNCHANGED <<pass, published>>
      BY <1>7, <2>3 DEF Read
    <3>2. cgroups' \in Sections
      BY <2>1, <3>1, FoundOf DEF LookupInv, Places
    <3> QED  BY <2>2, <3>1, <3>2, <1>7 DEF Read, Found, Done, LookupInv, Places, lists, world, WorldInv
  <2>4. CASE ~SettledFor(c)
    BY <2>1, <2>2, <2>4, <1>7 DEF Read, LookupInv, Places, lists, world, WorldInv
  <2> QED  BY <2>3, <2>4
<1>8. ASSUME NEW p \in Pids, Named(p) PROVE TypeInv'
  <2> DEFINE c == asked[p]
  <2>1. c \in Containers /\ Put(c, "known") /\ Found(p, c, TRUE)
    BY <1>8 DEF Named, LookupInv
  <2>2. cgroups' \in Sections
    BY <2>1, FoundOf DEF LookupInv, Places
  <2>3. LookupInv'
    BY <2>1, <2>2, <1>8 DEF Named, Found, Done, LookupInv, Places
  <2>4. CacheInv' /\ entry' \in [Containers -> {"none", "known", "failed", "lapsed"}]
    BY <2>1, CachePut
  <2> QED  BY <2>3, <2>4, <1>8 DEF Named, lists, world, WorldInv
<1>9. ASSUME NEW p \in Pids, Unnamed(p) PROVE TypeInv'
  <2> DEFINE c == asked[p]
  <2>1. c \in Containers /\ Put(c, "failed") /\ Found(p, c, FALSE)
    BY <1>9 DEF Unnamed, LookupInv
  <2>2. cgroups' \in Sections
    BY <2>1, FoundOf DEF LookupInv, Places
  <2>3. LookupInv'
    BY <2>1, <2>2, <1>9 DEF Unnamed, Found, Done, LookupInv, Places
  <2>4. CacheInv' /\ entry' \in [Containers -> {"none", "known", "failed", "lapsed"}]
    BY <2>1, CachePut
  <2> QED  BY <2>1, <2>3, <2>4, <1>9 DEF Unnamed, lists, world, WorldInv
<1>10. ASSUME NEW p \in Pids, Exit(p) \/ Start(p) PROVE TypeInv'
  <2>1. PICK place \in Places \cup {NoProcess} : Holds(p, place)
    BY <1>10, ConstantsTyped DEF Exit, Start
  <2>2. UNCHANGED <<lookups, published>> /\ UNCHANGED names
    BY <2>1 DEF Holds
  <2>3. LookupInv'
    BY <2>2 DEF LookupInv, lookups
  <2>4. WorldInv'
    BY <2>1 DEF Holds, lists, names, WorldInv
  <2> QED  BY <2>2, <2>3, <2>4, CacheKept
<1>11. ASSUME NEW c \in Containers, Lapse(c) PROVE TypeInv'
  <2>1. \A k \in Containers : entry'[k] # "none" <=> entry[k] # "none"
    BY <1>11 DEF Lapse, WorldInv
  <2>2. CacheInv'
    BY <2>1, <1>11 DEF Lapse, CacheInv, Keys, Distinct, Cached
  <2> QED  BY <2>2, <1>11 DEF Lapse, lists, lookups, world, LookupInv, WorldInv
<1>12. ASSUME NEW c \in Containers, DockerTurns(c) PROVE TypeInv'
  BY <1>12, CacheKept DEF DockerTurns, lists, lookups, names, LookupInv, WorldInv
<1>13. CASE UNCHANGED vars
  BY <1>13, CacheKept DEF vars, lists, lookups, names, world, LookupInv, WorldInv
<1> QED
  BY <1>1, <1>2, <1>3, <1>4, <1>5, <1>6, <1>7, <1>8, <1>9, <1>10, <1>11, <1>12, <1>13
  DEF Next, Looks, Inspected

LEMMA TypesHold == Spec => []TypeInv
BY TypeInit, TypeStep, PTL DEF Spec

(* Whatever is listed, reused, evicted and answered, every variable stays in  *)
(* its type, and the cache in its size and in step with its entries.          *)
THEOREM TypeCorrect == Spec => []TypeOK
BY TypesHold, TypeInvIsStronger, PTL

-----------------------------------------------------------------------------
(* What a pass knows of a pid, it has learnt since it began: of a lookup     *)
(* under way, the container it asks about; of an entry, its container.       *)

PassInv ==
  /\ \A p \in Pids : lookup[p] \in {"reading", "inspecting"} => pass = "looking"
  /\ pass = "looking" => \A p \in Pids : owner[p] \in held[p]
  /\ \A p \in Pids : lookup[p] = "inspecting" => asked[p] \in held[p]
  /\ \A p \in DOMAIN cgroups : cgroups[p].docker_container_id \in held[p]

LEMMA FoundIsHeld ==
  ASSUME LookupInv, PassInv, NEW p \in Pids, NEW place \in Places, NEW named \in BOOLEAN,
         Found(p, place, named), place \in held[p], lookup[p] \in {"reading", "inspecting"},
         UNCHANGED <<pass, owner, held>>
  PROVE  PassInv'
<1>1. \A q \in DOMAIN cgroups' : cgroups'[q].docker_container_id \in held'[q]
  BY FoundOf DEF LookupInv, PassInv
<1>2. lookup' = [lookup EXCEPT ![p] = "done"] /\ asked' = [asked EXCEPT ![p] = NoContainer]
  BY DEF Found, Done
<1> QED  BY <1>1, <1>2 DEF PassInv, LookupInv

LEMMA PassStep == TypeInv /\ PassInv /\ [Next]_vars => PassInv'
<1> SUFFICES ASSUME TypeInv, PassInv, [Next]_vars PROVE PassInv'
  OBVIOUS
<1> USE DEF TypeInv
<1>1. CASE ListProcesses \/ ListGpus
  BY <1>1 DEF ListProcesses, ListGpus, lookups, world, PassInv
<1>2. CASE Begin
  <2>1. /\ pass' = "looking" /\ cgroups' = Nowhere /\ UNCHANGED <<asked, owner>>
        /\ lookup' = [p \in Pids |-> IF p \in Listed THEN "reading" ELSE "idle"]
        /\ held' = [p \in Pids |-> {owner[p]}]
    BY <1>2 DEF Begin, EmptyMap, world
  <2> QED  BY <2>1 DEF PassInv, Nowhere
<1>3. CASE Publish
  BY <1>3 DEF Publish, world, PassInv, Nowhere
<1>4. ASSUME NEW p \in Pids, Gone(p) PROVE PassInv'
  BY <1>4 DEF Gone, Done, world, PassInv, LookupInv
<1>5. ASSUME NEW p \in Pids, Uncontained(p) PROVE PassInv'
  <2>1. NoContainer \in held[p] /\ NoContainer \in Places
    BY <1>5 DEF Uncontained, PassInv, Places
  <2> QED  BY <2>1, <1>5, FoundIsHeld DEF Uncontained, world
<1>6. ASSUME NEW p \in Pids, Read(p) PROVE PassInv'
  <2> DEFINE c == owner[p]
  <2>1. c \in Places /\ c \in held[p] /\ UNCHANGED <<pass, owner, held>> /\ lookup[p] = "reading"
    BY <1>6 DEF Read, PassInv, Places, world
  <2>2. CASE SettledFor(c)
    <3>1. Found(p, c, entry[c] = "known")
      BY <1>6, <2>2 DEF Read
    <3> QED  BY <2>1, <3>1, FoundIsHeld
  <2>3. CASE ~SettledFor(c)
    <3>1. /\ lookup' = [lookup EXCEPT ![p] = "inspecting"]
          /\ asked' = [asked EXCEPT ![p] = c] /\ UNCHANGED cgroups
      BY <1>6, <2>3 DEF Read
    <3> HIDE DEF c
    <3> QED  BY <2>1, <3>1 DEF PassInv, LookupInv
  <2> QED  BY <2>2, <2>3
<1>7. ASSUME NEW p \in Pids, Inspected(p) PROVE PassInv'
  <2>1. asked[p] \in Places /\ asked[p] \in held[p]
    BY <1>7 DEF Inspected, Named, Unnamed, LookupInv, PassInv
  <2>2. \E named \in BOOLEAN : Found(p, asked[p], named)
    BY <1>7 DEF Inspected, Named, Unnamed
  <2> QED  BY <2>1, <2>2, <1>7, FoundIsHeld DEF Inspected, Named, Unnamed, world
<1>8. ASSUME NEW p \in Pids, Exit(p) \/ Start(p) PROVE PassInv'
  <2>1. PICK place \in Places \cup {NoProcess} : Holds(p, place)
    BY <1>8, ConstantsTyped DEF Exit, Start
  <2>2. /\ owner' = [owner EXCEPT ![p] = place]
        /\ held' = [held EXCEPT ![p] = IF pass = "looking" THEN @ \cup {place} ELSE @]
        /\ UNCHANGED lookups
    BY <2>1 DEF Holds
  <2>3. \A q \in Pids : held[q] \subseteq held'[q] /\ (pass = "looking" => owner'[q] \in held'[q])
    BY <2>2 DEF PassInv, WorldInv
  <2>4. \A q \in DOMAIN cgroups : q \in Pids
    BY SectionsAre DEF LookupInv
  <2> QED  BY <2>2, <2>3, <2>4 DEF PassInv, lookups
<1>9. ASSUME NEW c \in Containers, Lapse(c) \/ DockerTurns(c) PROVE PassInv'
  BY <1>9 DEF Lapse, DockerTurns, lookups, world, PassInv
<1>10. CASE UNCHANGED vars
  BY <1>10 DEF vars, lookups, world, PassInv
<1> QED
  BY <1>1, <1>2, <1>3, <1>4, <1>5, <1>6, <1>7, <1>8, <1>9, <1>10 DEF Next, Looks, Inspected

LEMMA PassHolds == Spec => []PassInv
<1>1. Init => PassInv
  BY DEF Init, PassInv, Nowhere
<1> QED  BY <1>1, PassStep, TypesHold, PTL DEF Spec

(* No pass publishes for a pid a container none of its processes has been in *)
(* since that pass began, however processes come, go and take each other's   *)
(* pids.                                                                     *)
THEOREM PassesForget == Spec => NoEntryOutlivesItsPass
<1>1. ASSUME TypeInv, PassInv, [Next]_vars, pass = "looking", pass' = "resting"
      PROVE  \A p \in DOMAIN published' : published'[p].docker_container_id \in held[p]
  <2>1. published' = cgroups
    BY <1>1 DEF Next, ListProcesses, ListGpus, Begin, Publish, Looks, Gone, Uncontained, Read,
       Inspected, Named, Unnamed, Exit, Start, Holds, Lapse, DockerTurns, lookups, vars
  <2> QED  BY <2>1, <1>1 DEF PassInv
<1> QED  BY <1>1, TypesHold, PassHolds, PTL DEF Spec, NoEntryOutlivesItsPass

-----------------------------------------------------------------------------
(* A failure within NAME_RETRY_AFTER is in the cache, unless the cache has   *)
(* filled up since.                                                          *)

RestingInv ==
  \A c \in resting : entry[c] = "failed" \/ (entry[c] = "none" /\ Len(cache) = Cap)

LEMMA PutKeepsResting ==
  ASSUME TypeInv, RestingInv, NEW c \in Containers, NEW what \in {"known", "failed"}, Put(c, what),
         resting' \subseteq IF what = "failed" THEN resting \cup {c} ELSE resting \ {c}
  PROVE  RestingInv'
<1>1. /\ Len(cache') \in Nat /\ Len(cache) \in Nat /\ Len(cache') <= Cap /\ Cap \in Nat
      /\ Len(cache') >= Len(cache) /\ entry'[c] = what
      /\ \A k \in Containers \ {c} : entry'[k] = entry[k] \/ (entry'[k] = "none" /\ Len(cache') = Cap)
  <2>1. what # "none"
    OBVIOUS
  <2>2. Keys /\ Len(cache) <= Cap /\ \A k \in Containers : Cached(k) <=> entry[k] # "none"
    BY DEF TypeInv, CacheInv
  <2>3. Keys' /\ (Len(cache) <= Cap)'
    BY <2>1, <2>2, PutOf
  <2> QED  BY <2>1, <2>2, <2>3, PutOf, ConstantsTyped DEF Keys
<1>2. Len(cache) = Cap => Len(cache') = Cap
  BY <1>1
<1>3. ASSUME NEW k \in resting', k # c
      PROVE  entry'[k] = "failed" \/ (entry'[k] = "none" /\ Len(cache') = Cap)
  <2>1. k \in resting /\ k \in Containers
    BY <1>3 DEF TypeInv, WorldInv
  <2> QED  BY <2>1, <1>1, <1>2, <1>3 DEF RestingInv
<1>4. c \in resting' => what = "failed"
  OBVIOUS
<1> QED  BY <1>1, <1>3, <1>4 DEF RestingInv

LEMMA RestingStep == TypeInv /\ RestingInv /\ [Next]_vars => RestingInv'
<1> SUFFICES ASSUME TypeInv, RestingInv, [Next]_vars PROVE RestingInv'
  OBVIOUS
<1>1. ASSUME UNCHANGED <<names, resting>> PROVE RestingInv'
  BY <1>1 DEF RestingInv, names
<1>2. ASSUME NEW p \in Pids, Read(p) PROVE RestingInv'
  <2>1. Len(cache') = Len(cache) /\ UNCHANGED <<entry, resting>>
    BY <1>2, GetOf DEF Read, TypeInv, CacheInv
  <2> QED  BY <2>1 DEF RestingInv
<1>3. ASSUME NEW p \in Pids, Named(p) PROVE RestingInv'
  BY <1>3, PutKeepsResting DEF Named, TypeInv, LookupInv
<1>4. ASSUME NEW p \in Pids, Unnamed(p) PROVE RestingInv'
  BY <1>4, PutKeepsResting DEF Unnamed, TypeInv, LookupInv
<1>5. ASSUME NEW c \in Containers, Lapse(c) PROVE RestingInv'
  BY <1>5 DEF Lapse, RestingInv, TypeInv, WorldInv
<1>6. ASSUME NEW p \in Pids, Gone(p) \/ Uncontained(p) \/ Exit(p) \/ Start(p)
      PROVE  UNCHANGED <<names, resting>>
  BY <1>6 DEF Gone, Uncontained, Exit, Start, Holds
<1>7. ASSUME \/ ListProcesses \/ ListGpus \/ Begin \/ Publish \/ UNCHANGED vars
             \/ \E c \in Containers : DockerTurns(c)
      PROVE  UNCHANGED <<names, resting>>
  BY <1>7 DEF ListProcesses, ListGpus, Begin, Publish, DockerTurns, vars
<1> QED
  BY <1>1, <1>2, <1>3, <1>4, <1>5, <1>6, <1>7 DEF Next, Looks, Inspected

LEMMA RestingHolds == Spec => []RestingInv
<1>1. Init => RestingInv
  BY DEF Init, RestingInv
<1> QED  BY <1>1, RestingStep, TypesHold, PTL DEF Spec

(* Docker is asked again about a container that failed within                *)
(* NAME_RETRY_AFTER only if the failure has been pushed out of a full cache, *)
(* however the lookups of a pass, and of later ones, interleave.             *)
THEOREM FailuresRest == Spec => FailedAreLeftAlone
<1>1. ASSUME TypeInv, RestingInv, [Next]_vars, NEW p \in Pids,
             lookup[p] = "reading", lookup'[p] = "inspecting", asked'[p] \in resting
      PROVE  ~Cached(asked'[p]) /\ Len(cache) = Cap
  <2>1. ASSUME NEW q \in Pids, Read(q) PROVE ~Cached(asked'[p]) /\ Len(cache) = Cap
    <3>1. ~SettledFor(owner[q])
      BY <1>1, <2>1 DEF Read, Found, Done, TypeInv, LookupInv
    <3>2. /\ lookup' = [lookup EXCEPT ![q] = "inspecting"]
          /\ asked' = [asked EXCEPT ![q] = owner[q]] /\ owner[q] \in Containers
      BY <2>1, <3>1 DEF Read
    <3>3. p = q /\ asked'[p] = owner[p]
      BY <1>1, <3>2 DEF TypeInv, LookupInv
    <3> QED  BY <1>1, <3>1, <3>2, <3>3 DEF SettledFor, RestingInv, TypeInv, CacheInv
  <2>2. ASSUME NEW q \in Pids, Gone(q) \/ Uncontained(q) \/ Inspected(q) \/ Exit(q) \/ Start(q)
        PROVE  FALSE
    BY <1>1, <2>2 DEF Gone, Uncontained, Inspected, Named, Unnamed, Found, Done, Exit, Start, Holds,
       lookups, TypeInv, LookupInv
  <2>3. ASSUME \/ ListProcesses \/ ListGpus \/ Begin \/ Publish \/ UNCHANGED vars
               \/ \E c \in Containers : Lapse(c) \/ DockerTurns(c)
        PROVE  FALSE
    BY <1>1, <2>3 DEF ListProcesses, ListGpus, Begin, Publish, Lapse, DockerTurns, lookups, vars
  <2> QED  BY <1>1, <2>1, <2>2, <2>3 DEF Next, Looks
<1>2. ASSUME TypeInv, RestingInv, [Next]_vars
      PROVE  \A p \in Pids : (lookup[p] = "reading" /\ lookup'[p] = "inspecting" /\ asked'[p] \in resting)
                               => ~Cached(asked'[p]) /\ Len(cache) = Cap
  BY <1>1, <1>2
<1> QED  BY <1>2, TypesHold, RestingHolds, PTL DEF Spec, FailedAreLeftAlone
=============================================================================
