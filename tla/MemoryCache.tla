----------------------------- MODULE MemoryCache -----------------------------
(***************************************************************************)
(* The per-process LRU cache of lib/redis.ts.  A JavaScript Map keeps its  *)
(* keys in insertion order, so the entries are a sequence: reads and       *)
(* writes take a key out and put it back at the end, eviction takes the    *)
(* first.  hits and misses are counters for the metrics and are left out.  *)
(***************************************************************************)
EXTENDS Naturals, Sequences, SequencesExt, Sums

CONSTANTS CacheKeys, CacheValues, maxItems, ttlSeconds,
          MaxCacheClock   \* bound on the clock

Miss == "null"

ASSUME CacheAssumption ==
  /\ {maxItems, ttlSeconds} \subseteq Nat \ {0} /\ MaxCacheClock \in Nat
  /\ Miss \notin CacheValues     \* a value is JSON; null is the answer of a miss

VARIABLES
  cache,       \* the Map: entries in insertion order
  cacheClock,
  recency,     \* history: every key ever used, in order of its last use
  lastSet,     \* history: per key the value and time of its last set, or NoSet
  lastGet      \* the last get: its key, its answer, its time

cacheVars == <<cache, cacheClock, recency, lastSet, lastGet>>

NoSet == [value |-> "none", at |-> 0]

Entry == [key : CacheKeys, value : CacheValues, createdAt : 0..MaxCacheClock,
          expiresAt : 0..(MaxCacheClock + ttlSeconds)]

CacheTypeOK ==
  /\ cache \in Seq(Entry) /\ Len(cache) <= maxItems
  /\ cacheClock \in 0..MaxCacheClock
  /\ recency \in Seq(CacheKeys)
  /\ lastSet \in [CacheKeys -> [value : CacheValues, at : 0..MaxCacheClock] \cup {NoSet}]
  /\ lastGet \in [key : CacheKeys \cup {Miss}, value : CacheValues \cup {Miss}]

CacheInit ==
  /\ cache = <<>> /\ cacheClock = 0 /\ recency = <<>>
  /\ lastSet = [k \in CacheKeys |-> NoSet]
  /\ lastGet = [key |-> Miss, value |-> Miss]

HasKey(key) == \E i \in DOMAIN cache : cache[i].key = key
ItemOf(key) == CHOOSE e \in Range(cache) : e.key = key
WithoutKey(key) == AtPositions(cache, {i \in DOMAIN cache : cache[i].key # key})
Expired(e) == cacheClock >= e.expiresAt
Touched(key) == Append(AtPositions(recency, {i \in DOMAIN recency : recency[i] # key}), key)

\* A variant: reading a key leaves it where it is.
NotRefreshed(key) == cache

(* The Map once `key` was looked up: an expired entry is dropped, a live one
   moves to the end. *)
Refreshed(key) ==
  IF ~HasKey(key) THEN cache
  ELSE IF Expired(ItemOf(key)) THEN WithoutKey(key)
  ELSE Append(WithoutKey(key), ItemOf(key))

CachedValue(key) == IF HasKey(key) /\ ~Expired(ItemOf(key)) THEN ItemOf(key).value ELSE Miss

CacheGet(key) ==
  /\ cache' = Refreshed(key)
  /\ lastGet' = [key |-> key, value |-> CachedValue(key)]
  /\ recency' = IF CachedValue(key) = Miss THEN recency ELSE Touched(key)
  /\ UNCHANGED <<cacheClock, lastSet>>

(* getMetadata drops and refreshes as get does, and counts nothing. *)
GetMetadata(key) ==
  /\ cache' = Refreshed(key)
  /\ recency' = IF CachedValue(key) = Miss THEN recency ELSE Touched(key)
  /\ UNCHANGED <<cacheClock, lastSet, lastGet>>

\* A variant: nothing is evicted.
NeverEvicts(s) == s

EvictIfOverCapacity(s) ==
  IF Len(s) > maxItems THEN SubSeq(s, Len(s) - maxItems + 1, Len(s)) ELSE s

CacheSet(key, value) ==
  /\ cache' = EvictIfOverCapacity(Append(WithoutKey(key),
       [key |-> key, value |-> value, createdAt |-> cacheClock, expiresAt |-> cacheClock + ttlSeconds]))
  /\ recency' = Touched(key)
  /\ lastSet' = [lastSet EXCEPT ![key] = [value |-> value, at |-> cacheClock]]
  /\ lastGet' = [key |-> Miss, value |-> Miss]
  /\ UNCHANGED cacheClock

CacheDel(key) ==
  /\ HasKey(key)
  /\ cache' = WithoutKey(key)
  /\ lastSet' = [lastSet EXCEPT ![key] = NoSet]
  /\ lastGet' = [key |-> Miss, value |-> Miss]
  /\ UNCHANGED <<cacheClock, recency>>

(* The timed sweep. *)
CacheCleanup ==
  /\ cache # <<>>
  /\ cache' = EvictIfOverCapacity(AtPositions(cache, {i \in DOMAIN cache : ~Expired(cache[i])}))
  /\ UNCHANGED <<cacheClock, recency, lastSet, lastGet>>

CacheTick ==
  /\ cacheClock < MaxCacheClock
  /\ cacheClock' = cacheClock + 1
  /\ lastGet' = [key |-> Miss, value |-> Miss]
  /\ UNCHANGED <<cache, recency, lastSet>>

CacheNext ==
  \/ \E key \in CacheKeys :
       \/ CacheGet(key) \/ GetMetadata(key) \/ CacheDel(key)
       \/ \E value \in CacheValues : CacheSet(key, value)
  \/ CacheCleanup \/ CacheTick

CacheSpec == CacheInit /\ [][CacheNext]_cacheVars

-----------------------------------------------------------------------------
(* A hit is the value of the last set that no del undid, and that set is less
   than the time to live ago: no read, refresh, eviction or sweep brings an old
   value or an expired one back (get, redis.ts:60). *)
CacheHitsAreCurrent ==
  lastGet.value # Miss =>
    /\ lastGet.value = lastSet[lastGet.key].value
    /\ cacheClock - lastSet[lastGet.key].at < ttlSeconds

(* "Entries are ordered by recency" (redis.ts:39): the Map's keys stand in the
   order of their last use, so that what eviction takes is the least recently
   used, and a live entry is lost to anything but del only while the cache is
   full of entries used after it. *)
CacheIsLru ==
  LET kept == {e.key : e \in Range(cache')}
      after(k) == {j \in CacheKeys : \E m, n \in DOMAIN recency' :
                     m < n /\ recency'[m] = k /\ recency'[n] = j}
  IN \A e \in Range(cache) :
       (e.key \notin kept /\ cacheClock < e.expiresAt /\ lastSet'[e.key] # NoSet) =>
         Len(cache') = maxItems /\ kept \subseteq after(e.key)
=============================================================================
