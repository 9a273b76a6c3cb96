------------------------------ MODULE TtlCache ------------------------------
(***************************************************************************)
(* The caches of core/cache.py, as operators on their contents:            *)
(* InMemoryTTLCache, a dictionary in order of use with an expiry for every *)
(* key, and the Redis server behind RedisTTLCache.                         *)
(*                                                                         *)
(* Abstraction: instead of expires_at an entry keeps the ticks it has      *)
(* left.                                                                   *)
(***************************************************************************)
EXTENDS UseOrder

CONSTANTS
    Ttl,        \* settings.cache_ttl_seconds
    MaxEntries, \* settings.cache_max_entries
    Nothing     \* None, in Python

ASSUME TtlCacheConfig == Ttl \in Nat \ {0} /\ MaxEntries \in Nat

-----------------------------------------------------------------------------
(***************************************************************************)
(* InMemoryTTLCache: order holds the keys of self._values, least recently  *)
(* used first.  A key that is not there has Nothing for its value; one     *)
(* that has expired stays until somebody asks for it.                      *)
(***************************************************************************)
Expired == -1

EmptyMemory(keys) == [order |-> <<>>,
                      value |-> [k \in keys |-> Nothing],
                      left  |-> [k \in keys |-> Expired]]

\* An entry is good up to and including its expires_at.
InMemory(m, k) == m.left[k] # Expired

\* The dictionary with the keys of order alone.
Holding(m, order) ==
    [order |-> order,
     value |-> [k \in DOMAIN m.value |->
                  IF Contains(order, k) THEN m.value[k] ELSE Nothing],
     left  |-> [k \in DOMAIN m.left |->
                  IF Contains(order, k) THEN m.left[k] ELSE Expired]]

\* Mutant: a hit does not refresh the key's place.
MemoryGet_NoRefresh(m, k) ==
    IF InMemory(m, k) THEN m ELSE Holding(m, Drop(m.order, k))

\* get_json: a hit moves the key to the end, an expired entry is dropped.
MemoryGet(m, k) ==
    IF InMemory(m, k) THEN [m EXCEPT !.order = MoveToEnd(@, k)]
    ELSE Holding(m, Drop(m.order, k))

\* set_json: the key becomes the most recent one, whether it was there or not,
\* and keys are popped from the other end while there are too many.
MemorySet(m, k, v) ==
    Holding([m EXCEPT !.value = [@ EXCEPT ![k] = v], !.left = [@ EXCEPT ![k] = Ttl]],
            Latest(MoveToEnd(m.order, k), MaxEntries))

MemoryElapse(m) ==
    [m EXCEPT !.left = [k \in DOMAIN m.left |->
                          IF m.left[k] = Expired THEN Expired ELSE m.left[k] - 1]]

-----------------------------------------------------------------------------
(***************************************************************************)
(* Redis: a key set with ex=Ttl is there for Ttl ticks.                    *)
(***************************************************************************)
EmptyRedis(keys) == [value |-> [k \in keys |-> Nothing],
                     left  |-> [k \in keys |-> 0]]

InRedis(s, k) == s.left[k] > 0

\* Mutant: the entry is set without an expiry worth the name.
RedisSet_Longer(s, k, v) == [value |-> [s.value EXCEPT ![k] = v],
                             left  |-> [s.left EXCEPT ![k] = Ttl + 1]]

RedisSet(s, k, v) == [value |-> [s.value EXCEPT ![k] = v],
                      left  |-> [s.left EXCEPT ![k] = Ttl]]

RedisElapse(s) ==
    [value |-> [k \in DOMAIN s.value |->
                  IF s.left[k] > 1 THEN s.value[k] ELSE Nothing],
     left  |-> [k \in DOMAIN s.left |-> IF s.left[k] > 1 THEN s.left[k] - 1 ELSE 0]]

=============================================================================
