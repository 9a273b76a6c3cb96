------------------------ MODULE EmbeddingCache_proofs ------------------------
(***************************************************************************)
(* Theorems about EmbeddingCache, for any requests, texts, provider        *)
(* settings, batch size, number of attempts, time to live and size of the  *)
(* dictionary, over any number of restarts.                                *)
(***************************************************************************)
EXTENDS EmbeddingCache, UseOrder_proofs, FiniteSetTheorems

-----------------------------------------------------------------------------
(***************************************************************************)
(* The inductive invariant, in three parts.                                *)
(***************************************************************************)
\* The dictionary m of a process with settings c, and the uses u: who has an
\* expiry has a place, the places are the latest uses, and every vector is this
\* provider's.
Dictionaries ==
    [order : Seq(Keys),
     value : [Keys -> Vectors \union {Nothing}],
     left  : [Keys -> Expired..Ttl]]

Ordered(m) ==
    /\ m \in Dictionaries
    /\ IsInjective(m.order)
    /\ Len(m.order) <= MaxEntries
    /\ \A k \in Keys :
          /\ Contains(m.order, k) <=> m.value[k] # Nothing
          /\ InMemory(m, k) => Contains(m.order, k)

Own(c, k, v) == \E text \in Texts : k = Key(c, text) /\ v = Vector(c, text)

Dictionary(c, m, u) ==
    /\ Ordered(m)
    /\ u \in Seq(Keys)
    /\ IsInjective(u)
    /\ EndsLike(m.order, u)
    /\ \A k \in Keys : m.value[k] # Nothing => Own(c, k, m.value[k])

\* The Redis server s, idle being idleFor: an entry of model d was set when a
\* process with d had Redis, and has lost at least the ticks since.
Servers == [value : [Keys -> Vectors \union {Nothing}], left : [Keys -> 0..Ttl]]

Left(s, idle, k, d) ==
    \E text \in Texts :
        /\ k = Key(d, text)
        /\ s.value[k] = Vector(d, text)
        /\ s.left[k] + idle[d] <= Ttl

Server(c, b, s, idle) ==
    /\ s \in Servers
    /\ idle \in [Configs -> 0..Ttl]
    /\ b = "redis" => idle[c] = 0
    /\ \A k \in Keys : InRedis(s, k) => \E d \in Configs : Left(s, idle, k, d)

\* A request t of a process with settings c: every result is its text's vector,
\* every vector that came belongs to its miss, and a place without a result is a
\* miss that is still to be stored, or is still to be looked up.
Result(c, t, i) ==
    \E d \in Configs :
        /\ t.results[i] = Vector(d, t.texts[i])
        /\ Class[d] = Class[c]
        /\ t.clean => d = c

Settled(t, i, from) ==
    \/ t.results[i] # Nothing
    \/ \E j \in from..Len(t.misses) : t.misses[j] = i

Matching(c, t) ==
    /\ Len(t.results) = Len(t.texts)
    /\ \A i \in 1..Len(t.texts) : t.results[i] # Nothing => Result(c, t, i)
    /\ \A j \in 1..Len(t.misses) : t.misses[j] \in 1..Len(t.texts)
    /\ Len(t.vectors) <= Len(t.misses)
    /\ \A j \in 1..Len(t.vectors) : t.vectors[j] = Vector(c, t.texts[t.misses[j]])

AtWork(t) ==
    /\ t.pc = "looking" =>
          /\ t.at \in 1..Len(t.texts) /\ t.vectors = <<>>
          /\ \A i \in 1..(t.at - 1) : Settled(t, i, 1)
    /\ t.pc \in {"calling", "sleeping"} =>
          /\ Len(t.vectors) < Len(t.misses) /\ t.attempt \in 1..Attempts
          /\ \A i \in 1..Len(t.texts) : Settled(t, i, 1)
    /\ t.pc = "storing" =>
          /\ Len(t.vectors) = Len(t.misses) /\ t.at \in 1..Len(t.misses)
          /\ \A i \in 1..Len(t.texts) : Settled(t, i, t.at)
    /\ t.pc = "done" => \A i \in 1..Len(t.texts) : t.results[i] # Nothing

TaskInv(c, t) == t \in Task /\ Matching(c, t) /\ AtWork(t)

CacheInv ==
    /\ config \in Configs
    /\ backend \in {"memory", "redis"}
    /\ restarts \in 0..MaxRestarts
    /\ Dictionary(config, memory, uses)
    /\ Server(config, backend, redis, idleFor)
    /\ task \in [Requests -> Task]
    /\ \A r \in Requests :
          /\ TaskInv(config, task[r])
          /\ task[r].pc # "idle" /\ task[r].clean => Clean

-----------------------------------------------------------------------------
(***************************************************************************)
(* Keys and vectors.                                                       *)
(***************************************************************************)
LEMMA KeyFacts ==
    ASSUME NEW c \in Configs, NEW x \in Texts
    PROVE  /\ Key(c, x) \in Keys /\ Vector(c, x) \in Vectors /\ Vector(c, x) # Nothing
           /\ \A d \in Configs, y \in Texts :
                 Key(c, x) = Key(d, y) => Class[c] = Class[d] /\ x = y
  <1>1. Vector(c, x) \in Vectors
    BY DEF Vector, Vectors
  <1>2. Vector(c, x) # Nothing
    BY <1>1, NothingIsNoVector
  <1>3. Key(c, x) \in Keys
    BY DEF Keys
  <1>4. \A d \in Configs, y \in Texts :
           Key(c, x) = Key(d, y) => Class[c] = Class[d] /\ x = y
    BY DEF Key
  <1> QED BY <1>1, <1>2, <1>3, <1>4

-----------------------------------------------------------------------------
(***************************************************************************)
(* The dictionary.                                                         *)
(***************************************************************************)
LEMMA HoldingFacts ==
    ASSUME NEW m \in Dictionaries, NEW o \in Seq(Keys), IsInjective(o),
           Len(o) <= MaxEntries, \A k \in Keys : Contains(o, k) => m.value[k] # Nothing
    PROVE  LET h == Holding(m, o)
           IN /\ Ordered(h) /\ h.order = o
              /\ \A k \in Keys : h.value[k] # Nothing => h.value[k] = m.value[k]
  <1> DEFINE h == Holding(m, o)
  <1>1. /\ m.value \in [Keys -> Vectors \union {Nothing}]
        /\ m.left \in [Keys -> Expired..Ttl]
    BY DEF Dictionaries
  <1>2. DOMAIN m.value = Keys /\ DOMAIN m.left = Keys
    BY <1>1
  <1>3. h = [order |-> o,
             value |-> [k \in Keys |-> IF Contains(o, k) THEN m.value[k] ELSE Nothing],
             left  |-> [k \in Keys |-> IF Contains(o, k) THEN m.left[k] ELSE Expired]]
    BY <1>2 DEF Holding
  <1> HIDE DEF h
  <1>4. /\ h.order = o
        /\ \A k \in Keys : h.value[k] = IF Contains(o, k) THEN m.value[k] ELSE Nothing
        /\ \A k \in Keys : h.left[k] = IF Contains(o, k) THEN m.left[k] ELSE Expired
    BY <1>3
  <1>5. h \in Dictionaries
    <2>1. Expired \in Expired..Ttl
      BY TtlCacheConfig DEF Expired
    <2>2. /\ [k \in Keys |-> IF Contains(o, k) THEN m.value[k] ELSE Nothing]
                \in [Keys -> Vectors \union {Nothing}]
          /\ [k \in Keys |-> IF Contains(o, k) THEN m.left[k] ELSE Expired]
                \in [Keys -> Expired..Ttl]
      BY <1>1, <2>1
    <2> QED BY <1>3, <2>2 DEF Dictionaries
  <1>6. \A k \in Keys : InMemory(h, k) => Contains(o, k)
    BY <1>4 DEF InMemory
  <1> QED BY <1>4, <1>5, <1>6 DEF Ordered, h

\* get_json.
LEMMA GetFacts ==
    ASSUME NEW m, Ordered(m), NEW k \in Keys
    PROVE  LET g == MemoryGet(m, k)
           IN /\ Ordered(g)
              /\ g.order = IF InMemory(m, k) THEN MoveToEnd(m.order, k) ELSE Drop(m.order, k)
              /\ \A x \in Keys : g.value[x] # Nothing => g.value[x] = m.value[x]
  <1>1. /\ m \in Dictionaries /\ m.order \in Seq(Keys) /\ IsInjective(m.order)
        /\ Len(m.order) <= MaxEntries /\ Len(m.order) \in Nat /\ MaxEntries \in Nat
        /\ \A x \in Keys : /\ Contains(m.order, x) <=> m.value[x] # Nothing
                           /\ InMemory(m, x) => Contains(m.order, x)
    BY LenProperties, TtlCacheConfig DEF Ordered, Dictionaries
  <1>2. CASE InMemory(m, k)
    <2> DEFINE o == MoveToEnd(m.order, k)
               g == [m EXCEPT !.order = o]
    <2>1. /\ o \in Seq(Keys) /\ IsInjective(o) /\ Len(o) = Len(m.order)
          /\ \A x : Contains(o, x) <=> x = k \/ Contains(m.order, x)
      BY <1>1, <1>2, MoveFacts
    <2> HIDE DEF o
    <2>2. g \in Dictionaries /\ g.order = o /\ g.value = m.value /\ g.left = m.left
      BY <1>1, <2>1 DEF Dictionaries
    <2>3. MemoryGet(m, k) = g
      BY <1>2 DEF MemoryGet, o
    <2> HIDE DEF g
    <2>4. Ordered(g)
      BY <1>1, <1>2, <2>1, <2>2 DEF Ordered, InMemory
    <2> QED BY <1>2, <2>2, <2>3, <2>4 DEF o
  <1>3. CASE ~InMemory(m, k)
    <2> DEFINE o == Drop(m.order, k)
    <2>1. /\ o \in Seq(Keys) /\ IsInjective(o)
          /\ Len(o) = IF Contains(m.order, k) THEN Len(m.order) - 1 ELSE Len(m.order)
          /\ \A x : Contains(o, x) => Contains(m.order, x)
      BY <1>1, DropFacts
    <2>2. MemoryGet(m, k) = Holding(m, o)
      BY <1>3 DEF MemoryGet
    <2> HIDE DEF o
    <2>3. Len(o) <= MaxEntries
      BY <1>1, <2>1
    <2> QED BY <1>1, <1>3, <2>1, <2>2, <2>3, HoldingFacts DEF o
  <1> QED BY <1>2, <1>3

\* set_json.
LEMMA SetFacts ==
    ASSUME NEW m, Ordered(m), NEW k \in Keys, NEW v \in Vectors
    PROVE  LET g == MemorySet(m, k, v)
           IN /\ Ordered(g)
              /\ g.order = Latest(MoveToEnd(m.order, k), MaxEntries)
              /\ \A x \in Keys : g.value[x] # Nothing =>
                                    g.value[x] = IF x = k THEN v ELSE m.value[x]
  <1> DEFINE o == MoveToEnd(m.order, k)
             l == Latest(o, MaxEntries)
             value == [m.value EXCEPT ![k] = v]
             left  == [m.left EXCEPT ![k] = Ttl]
             n == [m EXCEPT !.value = value, !.left = left]
  <1>1. /\ m \in Dictionaries /\ m.order \in Seq(Keys) /\ IsInjective(m.order)
        /\ MaxEntries \in Nat
        /\ \A x \in Keys : Contains(m.order, x) => m.value[x] # Nothing
    BY TtlCacheConfig DEF Ordered, Dictionaries
  <1>2. /\ o \in Seq(Keys) /\ IsInjective(o)
        /\ \A x : Contains(o, x) => x = k \/ Contains(m.order, x)
    BY <1>1, MoveFacts
  <1> HIDE DEF o
  <1>3. l \in Seq(Keys) /\ Len(l) <= MaxEntries /\ EndsLike(l, o)
    BY <1>1, <1>2, LatestFacts
  <1>4. IsInjective(l) /\ \A x : Contains(l, x) => Contains(o, x)
    BY <1>2, <1>3, EndsKeep
  <1> HIDE DEF l
  <1>5. /\ n \in Dictionaries
        /\ \A x \in Keys : n.value[x] = IF x = k THEN v ELSE m.value[x]
    <2>1. m.value \in [Keys -> Vectors \union {Nothing}] /\ m.left \in [Keys -> Expired..Ttl]
      BY <1>1 DEF Dictionaries
    <2>2. Ttl \in Expired..Ttl
      BY TtlCacheConfig DEF Expired
    <2>3. /\ value \in [Keys -> Vectors \union {Nothing}] /\ left \in [Keys -> Expired..Ttl]
          /\ \A x \in Keys : value[x] = IF x = k THEN v ELSE m.value[x]
      BY <2>1, <2>2
    <2> HIDE DEF value, left
    <2>4. n.value = value /\ n \in Dictionaries
      BY <1>1, <2>3 DEF Dictionaries
    <2> QED BY <2>3, <2>4
  <1>6. MemorySet(m, k, v) = Holding(n, l)
    BY DEF MemorySet, l, o
  <1> HIDE DEF n
  <1>7. \A x \in Keys : Contains(l, x) => n.value[x] # Nothing
    BY <1>1, <1>2, <1>4, <1>5, NothingIsNoVector
  <1> QED BY <1>3, <1>4, <1>5, <1>6, <1>7, HoldingFacts DEF l, o

\* time.monotonic.
LEMMA ElapseFacts ==
    ASSUME NEW m, Ordered(m)
    PROVE  LET g == MemoryElapse(m)
           IN Ordered(g) /\ g.order = m.order /\ g.value = m.value
  <1> DEFINE g == MemoryElapse(m)
             left == [k \in Keys |-> IF m.left[k] = Expired THEN Expired ELSE m.left[k] - 1]
  <1>1. m \in Dictionaries /\ m.left \in [Keys -> Expired..Ttl] /\ DOMAIN m.left = Keys
    BY DEF Ordered, Dictionaries
  <1>2. left \in [Keys -> Expired..Ttl]
    <2> SUFFICES ASSUME NEW k \in Keys
                 PROVE  (IF m.left[k] = Expired THEN Expired ELSE m.left[k] - 1) \in Expired..Ttl
      OBVIOUS
    <2>1. m.left[k] \in -1..Ttl
      BY <1>1 DEF Expired
    <2> QED BY <2>1, TtlCacheConfig DEF Expired
  <1>3. g = [m EXCEPT !.left = left]
    BY <1>1 DEF MemoryElapse
  <1>4. \A k \in Keys : left[k] # Expired => m.left[k] # Expired
    OBVIOUS
  <1> HIDE DEF left, g
  <1>5. g \in Dictionaries /\ g.order = m.order /\ g.value = m.value /\ g.left = left
    BY <1>1, <1>2, <1>3 DEF Dictionaries
  <1>6. Ordered(g)
    BY <1>4, <1>5 DEF Ordered, InMemory
  <1> QED BY <1>5, <1>6 DEF g

\* A process that starts.
LEMMA EmptyDictionary ==
    ASSUME NEW c \in Configs
    PROVE  Dictionary(c, EmptyMemory(Keys), <<>>)
  <1> DEFINE m == EmptyMemory(Keys)
  <1>1. /\ m.order = <<>> /\ m.value = [k \in Keys |-> Nothing]
        /\ m.left = [k \in Keys |-> Expired]
    BY DEF EmptyMemory
  <1>2. /\ <<>> \in Seq(Keys) /\ IsInjective(<<>>) /\ Len(<<>>) = 0
        /\ EndsLike(<<>>, <<>>) /\ \A k : ~Contains(<<>>, k)
    BY DEF IsInjective, EndsLike, Contains
  <1>3. Expired \in Expired..Ttl /\ 0 <= MaxEntries
    BY TtlCacheConfig DEF Expired
  <1>4. m \in Dictionaries
    BY <1>2, <1>3 DEF Dictionaries, EmptyMemory
  <1> HIDE DEF m
  <1>5. Ordered(m)
    BY <1>1, <1>2, <1>3, <1>4 DEF Ordered, InMemory
  <1> QED BY <1>1, <1>2, <1>5 DEF Dictionary, m

LEMMA GetKeeps ==
    ASSUME NEW c, NEW m, NEW u, Dictionary(c, m, u), NEW k \in Keys
    PROVE  Dictionary(c, MemoryGet(m, k),
                      IF InMemory(m, k) THEN MoveToEnd(u, k) ELSE Drop(u, k))
  <1> DEFINE g == MemoryGet(m, k)
             o == m.order
  <1>1. /\ Ordered(m) /\ u \in Seq(Keys) /\ IsInjective(u) /\ EndsLike(o, u)
        /\ o \in Seq(Keys) /\ IsInjective(o)
        /\ \A x \in Keys : m.value[x] # Nothing => Own(c, x, m.value[x])
    BY DEF Dictionary, Ordered, Dictionaries
  <1>2. /\ Ordered(g)
        /\ g.order = IF InMemory(m, k) THEN MoveToEnd(o, k) ELSE Drop(o, k)
        /\ \A x \in Keys : g.value[x] # Nothing => g.value[x] = m.value[x]
    BY <1>1, GetFacts
  <1> HIDE DEF g, o
  <1>3. CASE InMemory(m, k)
    <2>1. /\ MoveToEnd(u, k) \in Seq(Keys) /\ IsInjective(MoveToEnd(u, k))
          /\ EndsLike(MoveToEnd(o, k), MoveToEnd(u, k))
      BY <1>1, MoveFacts, MoveEnds
    <2> QED BY <1>1, <1>2, <1>3, <2>1 DEF Dictionary, g
  <1>4. CASE ~InMemory(m, k)
    <2>1. /\ Drop(u, k) \in Seq(Keys) /\ IsInjective(Drop(u, k))
          /\ EndsLike(Drop(o, k), Drop(u, k))
      BY <1>1, DropFacts, DropEnds
    <2> QED BY <1>1, <1>2, <1>4, <2>1 DEF Dictionary, g
  <1> QED BY <1>3, <1>4

LEMMA SetKeeps ==
    ASSUME NEW c \in Configs, NEW m, NEW u, Dictionary(c, m, u), NEW text \in Texts
    PROVE  Dictionary(c, MemorySet(m, Key(c, text), Vector(c, text)),
                      MoveToEnd(u, Key(c, text)))
  <1> DEFINE k == Key(c, text)
             v == Vector(c, text)
             g == MemorySet(m, k, v)
             o == m.order
             moved == MoveToEnd(o, k)
             q == MoveToEnd(u, k)
  <1>1. /\ Ordered(m) /\ u \in Seq(Keys) /\ IsInjective(u) /\ EndsLike(o, u)
        /\ o \in Seq(Keys) /\ IsInjective(o) /\ MaxEntries \in Nat
        /\ \A x \in Keys : m.value[x] # Nothing => Own(c, x, m.value[x])
    BY TtlCacheConfig DEF Dictionary, Ordered, Dictionaries
  <1>2. k \in Keys /\ v \in Vectors /\ Own(c, k, v)
    BY KeyFacts DEF Own
  <1> HIDE DEF k, v
  <1>3. /\ Ordered(g) /\ g.order = Latest(moved, MaxEntries)
        /\ \A x \in Keys : g.value[x] # Nothing => g.value[x] = IF x = k THEN v ELSE m.value[x]
    BY <1>1, <1>2, SetFacts
  <1> HIDE DEF g, o
  <1>4. /\ moved \in Seq(Keys) /\ q \in Seq(Keys) /\ IsInjective(q)
        /\ EndsLike(moved, q)
    BY <1>1, <1>2, MoveFacts, MoveEnds
  <1> HIDE DEF moved, q
  <1>5. Latest(moved, MaxEntries) \in Seq(Keys) /\ EndsLike(Latest(moved, MaxEntries), moved)
    BY <1>1, <1>4, LatestFacts
  <1>6. EndsLike(g.order, q)
    BY <1>3, <1>4, <1>5, EndsTransitive
  <1>7. \A x \in Keys : g.value[x] # Nothing => Own(c, x, g.value[x])
    BY <1>1, <1>2, <1>3
  <1> QED BY <1>3, <1>4, <1>6, <1>7 DEF Dictionary, g, q, k, v

LEMMA ElapseKeeps ==
    ASSUME NEW c, NEW m, NEW u, Dictionary(c, m, u)
    PROVE  Dictionary(c, MemoryElapse(m), u)
  BY ElapseFacts DEF Dictionary

\* A hit is the text's own vector.
LEMMA HitInDictionary ==
    ASSUME NEW c \in Configs, NEW m, NEW u, Dictionary(c, m, u), NEW text \in Texts,
           InMemory(m, Key(c, text))
    PROVE  m.value[Key(c, text)] = Vector(c, text)
  <1> DEFINE k == Key(c, text)
  <1>1. k \in Keys
    BY KeyFacts
  <1>2. m.value[k] # Nothing /\ Own(c, k, m.value[k])
    BY <1>1 DEF Dictionary, Ordered
  <1>3. PICK other \in Texts : k = Key(c, other) /\ m.value[k] = Vector(c, other)
    BY <1>2 DEF Own
  <1>4. other = text
    BY <1>3, KeyFacts
  <1> QED BY <1>3, <1>4

-----------------------------------------------------------------------------
(***************************************************************************)
(* The Redis server.                                                       *)
(***************************************************************************)
LEMMA EmptyServer ==
    ASSUME NEW c \in Configs, NEW b \in {"memory", "redis"}
    PROVE  Server(c, b, EmptyRedis(Keys),
                  [d \in Configs |-> IF d = c /\ b = "redis" THEN 0 ELSE Ttl])
  <1>1. 0 \in 0..Ttl /\ Ttl \in 0..Ttl
    BY TtlCacheConfig
  <1>2. \A k \in Keys : ~InRedis(EmptyRedis(Keys), k)
    BY DEF InRedis, EmptyRedis
  <1>3. EmptyRedis(Keys) \in Servers
    BY <1>1 DEF EmptyRedis, Servers
  <1> QED BY <1>1, <1>2, <1>3 DEF Server

\* Another process, which may have Redis.
LEMMA RestartKeepsServer ==
    ASSUME NEW c, NEW b, NEW s, NEW idle, Server(c, b, s, idle),
           NEW d \in Configs, NEW e
    PROVE  Server(d, e, s, [x \in Configs |-> IF x = d /\ e = "redis" THEN 0 ELSE idle[x]])
  <1> DEFINE now == [x \in Configs |-> IF x = d /\ e = "redis" THEN 0 ELSE idle[x]]
  <1>1. /\ s \in Servers /\ idle \in [Configs -> 0..Ttl]
        /\ \A k \in Keys : InRedis(s, k) => \E x \in Configs : Left(s, idle, k, x)
    BY DEF Server
  <1>2. /\ now \in [Configs -> 0..Ttl] /\ (e = "redis" => now[d] = 0)
        /\ \A x \in Configs : now[x] <= idle[x] /\ now[x] \in Nat /\ idle[x] \in Nat
    BY <1>1, TtlCacheConfig
  <1> HIDE DEF now
  <1>3. ASSUME NEW k \in Keys, NEW x \in Configs, Left(s, idle, k, x)
        PROVE  Left(s, now, k, x)
    <2>1. PICK text \in Texts : /\ k = Key(x, text) /\ s.value[k] = Vector(x, text)
                                /\ s.left[k] + idle[x] <= Ttl
      BY <1>3 DEF Left
    <2>2. s.left[k] \in Nat
      BY <1>1 DEF Servers
    <2>3. s.left[k] + now[x] <= Ttl
      BY <1>2, <2>1, <2>2, TtlCacheConfig
    <2> QED BY <2>1, <2>3 DEF Left
  <1> QED BY <1>1, <1>2, <1>3 DEF Server, now

\* set_json.
LEMMA SetKeepsServer ==
    ASSUME NEW c \in Configs, NEW s, NEW idle, Server(c, "redis", s, idle),
           NEW text \in Texts
    PROVE  Server(c, "redis", RedisSet(s, Key(c, text), Vector(c, text)), idle)
  <1> DEFINE k == Key(c, text)
             v == Vector(c, text)
             g == RedisSet(s, k, v)
  <1>1. /\ s \in Servers /\ idle \in [Configs -> 0..Ttl] /\ idle[c] = 0
        /\ \A x \in Keys : InRedis(s, x) => \E d \in Configs : Left(s, idle, x, d)
    BY DEF Server
  <1>2. k \in Keys /\ v \in Vectors
    BY KeyFacts
  <1>3. s.value \in [Keys -> Vectors \union {Nothing}] /\ s.left \in [Keys -> 0..Ttl]
    BY <1>1 DEF Servers
  <1>4. /\ g = [value |-> [s.value EXCEPT ![k] = v], left |-> [s.left EXCEPT ![k] = Ttl]]
        /\ [s.value EXCEPT ![k] = v] \in [Keys -> Vectors \union {Nothing}]
        /\ [s.left EXCEPT ![k] = Ttl] \in [Keys -> 0..Ttl]
    BY <1>2, <1>3, TtlCacheConfig DEF RedisSet
  <1>5. g \in Servers
    BY <1>4 DEF Servers
  <1>6. /\ g.value[k] = v /\ g.left[k] = Ttl
        /\ \A x \in Keys : x # k => g.value[x] = s.value[x] /\ g.left[x] = s.left[x]
    BY <1>2, <1>3, <1>4
  <1>7. Left(g, idle, k, c)
    <2>1. g.left[k] + idle[c] <= Ttl
      BY <1>1, <1>6, TtlCacheConfig
    <2> HIDE DEF g
    <2> QED BY <1>6, <2>1 DEF Left
  <1> HIDE DEF g, k
  <1>8. ASSUME NEW x \in Keys, InRedis(g, x)
        PROVE  \E d \in Configs : Left(g, idle, x, d)
    <2>1. CASE x = k
      BY <1>7, <2>1
    <2>2. CASE x # k
      <3>1. InRedis(s, x)
        BY <1>6, <1>8, <2>2 DEF InRedis
      <3>2. PICK d \in Configs : Left(s, idle, x, d)
        BY <1>1, <3>1
      <3>3. Left(g, idle, x, d)
        BY <1>6, <2>2, <3>2 DEF Left
      <3> QED BY <3>3
    <2> QED BY <2>1, <2>2
  <1> QED BY <1>1, <1>5, <1>8 DEF Server, g, k

\* A tick: entries lose it, and a model that is away is so for one more.
LEMMA ElapseKeepsServer ==
    ASSUME NEW c \in Configs, NEW b, NEW s, NEW idle, Server(c, b, s, idle)
    PROVE  Server(c, b, RedisElapse(s),
                  [d \in Configs |-> IF d = c /\ b = "redis" THEN 0
                                     ELSE Min({idle[d] + 1, Ttl})])
  <1> DEFINE g == RedisElapse(s)
             now == [d \in Configs |-> IF d = c /\ b = "redis" THEN 0
                                       ELSE Min({idle[d] + 1, Ttl})]
  <1>1. /\ s \in Servers /\ idle \in [Configs -> 0..Ttl]
        /\ \A x \in Keys : InRedis(s, x) => \E d \in Configs : Left(s, idle, x, d)
    BY DEF Server
  <1>2. s.value \in [Keys -> Vectors \union {Nothing}] /\ s.left \in [Keys -> 0..Ttl]
    BY <1>1 DEF Servers
  <1>3. ASSUME NEW d \in Configs
        PROVE  now[d] \in 0..Ttl /\ now[d] <= idle[d] + 1
    <2>1. idle[d] \in 0..Ttl /\ idle[d] + 1 \in Int /\ Ttl \in Nat
      BY <1>1, TtlCacheConfig
    <2>2. Min({idle[d] + 1, Ttl}) = IF idle[d] + 1 <= Ttl THEN idle[d] + 1 ELSE Ttl
      BY <2>1, MinMaxOfTwo
    <2> QED BY <2>1, <2>2
  <1>4. now \in [Configs -> 0..Ttl] /\ (b = "redis" => now[c] = 0)
    BY <1>3
  <1> HIDE DEF now
  <1>5. /\ DOMAIN s.value = Keys /\ DOMAIN s.left = Keys
        /\ \A k \in Keys : s.left[k] \in Nat /\ s.left[k] <= Ttl
    BY <1>2
  <1>6. g = [value |-> [k \in Keys |-> IF s.left[k] > 1 THEN s.value[k] ELSE Nothing],
             left  |-> [k \in Keys |-> IF s.left[k] > 1 THEN s.left[k] - 1 ELSE 0]]
    BY <1>5 DEF RedisElapse
  <1>7. /\ [k \in Keys |-> IF s.left[k] > 1 THEN s.value[k] ELSE Nothing]
              \in [Keys -> Vectors \union {Nothing}]
        /\ [k \in Keys |-> IF s.left[k] > 1 THEN s.left[k] - 1 ELSE 0] \in [Keys -> 0..Ttl]
    BY <1>2, <1>5, TtlCacheConfig
  <1>8. g \in Servers
    BY <1>6, <1>7 DEF Servers
  <1> HIDE DEF g
  <1>9. ASSUME NEW k \in Keys, InRedis(g, k)
        PROVE  \E d \in Configs : Left(g, now, k, d)
    <2>1. s.left[k] > 1 /\ g.left[k] = s.left[k] - 1 /\ g.value[k] = s.value[k]
      BY <1>5, <1>6, <1>9 DEF InRedis
    <2>2. InRedis(s, k)
      BY <1>5, <2>1 DEF InRedis
    <2>3. PICK d \in Configs : Left(s, idle, k, d)
      BY <1>1, <2>2
    <2>4. PICK text \in Texts : /\ k = Key(d, text) /\ s.value[k] = Vector(d, text)
                                /\ s.left[k] + idle[d] <= Ttl
      BY <2>3 DEF Left
    <2>5. g.left[k] + now[d] <= Ttl
      <3>1. now[d] \in Nat /\ idle[d] \in Nat /\ now[d] <= idle[d] + 1
        BY <1>1, <1>3
      <3> QED BY <1>5, <2>1, <2>4, <3>1, TtlCacheConfig
    <2> QED BY <2>1, <2>4, <2>5 DEF Left
  <1> QED BY <1>4, <1>8, <1>9 DEF Server, g, now

\* A hit is the text's vector, by some model of the class; by this one, if every
\* other has been away for Ttl.
LEMMA HitInRedis ==
    ASSUME NEW c \in Configs, NEW b, NEW s, NEW idle, Server(c, b, s, idle),
           NEW text \in Texts, InRedis(s, Key(c, text))
    PROVE  \E d \in Configs :
              /\ s.value[Key(c, text)] = Vector(d, text)
              /\ Class[d] = Class[c] /\ idle[d] < Ttl
  <1> DEFINE k == Key(c, text)
  <1>1. k \in Keys
    BY KeyFacts
  <1>2. /\ s.left[k] \in Nat /\ idle \in [Configs -> 0..Ttl]
    BY <1>1 DEF Server, Servers
  <1>3. PICK d \in Configs : Left(s, idle, k, d)
    BY <1>1 DEF Server
  <1>4. PICK other \in Texts : /\ k = Key(d, other) /\ s.value[k] = Vector(d, other)
                               /\ s.left[k] + idle[d] <= Ttl
    BY <1>3 DEF Left
  <1>5. Class[d] = Class[c] /\ other = text
    BY <1>4, KeyFacts
  <1>6. s.left[k] > 0
    BY DEF InRedis
  <1>7. idle[d] < Ttl
    <2>1. idle[d] \in Nat /\ Ttl \in Nat
      BY <1>2, TtlCacheConfig
    <2> HIDE DEF k
    <2> QED BY <1>2, <1>4, <1>6, <2>1
  <1> QED BY <1>4, <1>5, <1>7

-----------------------------------------------------------------------------
(***************************************************************************)
(* A request.                                                              *)
(***************************************************************************)
LEMMA TaskTypes ==
    ASSUME NEW t \in Task
    PROVE  /\ t.texts \in Seq(Texts) /\ Len(t.texts) \in Nat
           /\ t.results \in Seq(Vectors \union {Nothing}) /\ Len(t.results) \in Nat
           /\ t.misses \in Seq(Nat \ {0}) /\ Len(t.misses) \in Nat
           /\ t.vectors \in Seq(Vectors) /\ Len(t.vectors) \in Nat
           /\ t.at \in Nat /\ t.attempt \in 0..Attempts /\ t.clean \in BOOLEAN
           /\ \A i \in 1..Len(t.texts) : t.texts[i] \in Texts
           /\ Attempts \in Nat \ {0}
  BY LenProperties, ElementOfSeq, EmbeddingConfig DEF Task

\* No request.
LEMMA IdleTask ==
    ASSUME NEW c
    PROVE  TaskInv(c, Idle)
  <1>1. /\ <<>> \in Seq(Texts) /\ <<>> \in Seq(Vectors \union {Nothing})
        /\ <<>> \in Seq(Nat \ {0}) /\ <<>> \in Seq(Vectors) /\ Len(<<>>) = 0
        /\ 0 \in 0..Attempts
    BY EmbeddingConfig
  <1>2. Idle \in Task
    BY <1>1 DEF Idle, Task
  <1>3. Matching(c, Idle)
    BY <1>1 DEF Idle, Matching
  <1>4. AtWork(Idle)
    BY DEF Idle, AtWork
  <1> QED BY <1>2, <1>3, <1>4 DEF TaskInv

LEMMA StartedTask ==
    ASSUME NEW c, NEW texts \in Seq(Texts), texts # <<>>, NEW clean \in BOOLEAN
    PROVE  TaskInv(c, Start(texts, clean)) /\ Start(texts, clean).clean = clean
  <1> DEFINE t == Start(texts, clean)
             n == Len(texts)
             results == [i \in 1..n |-> Nothing]
  <1>1. n \in Nat \ {0}
    BY EmptySeq, LenProperties
  <1>2. results \in Seq(Vectors \union {Nothing}) /\ Len(results) = n
    <2>1. results \in [1..n -> Vectors \union {Nothing}]
      OBVIOUS
    <2> QED BY <1>1, <2>1, SeqDef, LenProperties
  <1>3. \A i \in 1..n : results[i] = Nothing
    OBVIOUS
  <1>4. /\ <<>> \in Seq(Nat \ {0}) /\ <<>> \in Seq(Vectors) /\ Len(<<>>) = 0
        /\ 0 \in 0..Attempts
    BY EmbeddingConfig
  <1>5. t = [pc |-> "looking", texts |-> texts, at |-> 1, results |-> results,
             misses |-> <<>>, vectors |-> <<>>, attempt |-> 0, clean |-> clean]
    BY DEF Start
  <1> HIDE DEF t, results, n
  <1>6. t \in Task
    BY <1>2, <1>4, <1>5 DEF Task
  <1>7. Matching(c, t)
    BY <1>2, <1>3, <1>4, <1>5 DEF Matching, n
  <1>8. AtWork(t)
    BY <1>1, <1>5 DEF AtWork, n
  <1> QED BY <1>5, <1>6, <1>7, <1>8 DEF TaskInv, t

\* What get_json may return for the text at hand, if it is there.
Hit(c, t, cached) ==
    \E d \in Configs :
        /\ cached = Vector(d, t.texts[t.at])
        /\ Class[d] = Class[c]
        /\ t.clean => d = c

\* What one text changes: a result, or a miss.
Got(t, cached) ==
    IF cached = Nothing THEN [t EXCEPT !.misses = Append(@, t.at)]
    ELSE [t EXCEPT !.results = [@ EXCEPT ![t.at] = cached]]

LEMMA GotFacts ==
    ASSUME NEW c \in Configs, NEW t, TaskInv(c, t), t.pc = "looking", NEW cached,
           cached # Nothing => Hit(c, t, cached)
    PROVE  LET got == Got(t, cached)
           IN /\ got \in Task /\ Matching(c, got)
              /\ got.texts = t.texts /\ got.vectors = <<>> /\ got.at = t.at
              /\ got.clean = t.clean /\ got.pc = t.pc
              /\ \A i \in 1..t.at : Settled(got, i, 1)
  <1> DEFINE n == Len(t.texts)
             got == Got(t, cached)
  <1>1. /\ t \in Task /\ t.at \in 1..n /\ t.vectors = <<>> /\ n \in Nat
        /\ t.results \in Seq(Vectors \union {Nothing}) /\ Len(t.results) = n
        /\ t.misses \in Seq(Nat \ {0}) /\ Len(t.misses) \in Nat
        /\ \A i \in 1..n : t.results[i] # Nothing => Result(c, t, i)
        /\ \A j \in 1..Len(t.misses) : t.misses[j] \in 1..n
        /\ \A i \in 1..(t.at - 1) : Settled(t, i, 1)
    BY TaskTypes DEF TaskInv, Matching, AtWork
  <1>2. \A i \in 1..t.at : i = t.at \/ i \in 1..(t.at - 1)
    BY <1>1
  <1>3. CASE cached = Nothing
    <2> DEFINE misses == Append(t.misses, t.at)
    <2>1. got = [t EXCEPT !.misses = misses]
      BY <1>3 DEF Got
    <2>2. /\ misses \in Seq(Nat \ {0}) /\ Len(misses) = Len(t.misses) + 1
          /\ \A j \in 1..Len(t.misses) : misses[j] = t.misses[j]
          /\ misses[Len(misses)] = t.at
      BY <1>1, AppendProperties
    <2> HIDE DEF misses, got
    <2>3. /\ got \in Task /\ got.misses = misses /\ got.results = t.results
          /\ got.texts = t.texts /\ got.vectors = <<>> /\ got.at = t.at
          /\ got.clean = t.clean /\ got.pc = t.pc
      BY <1>1, <2>1, <2>2 DEF Task
    <2>4. \A j \in 1..Len(misses) : j = Len(misses) \/ j \in 1..Len(t.misses)
      BY <1>1, <2>2
    <2>5. \A j \in 1..Len(misses) : misses[j] \in 1..n
      BY <1>1, <2>2, <2>4
    <2>6. \A i \in 1..n : got.results[i] # Nothing => Result(c, got, i)
      BY <1>1, <2>3 DEF Result
    <2>7. Matching(c, got)
      <3>1. Len(got.vectors) = 0 /\ Len(misses) \in Nat
        BY <1>1, <2>2, <2>3
      <3>2. Len(got.vectors) <= Len(got.misses) /\ 1..Len(got.vectors) = {}
        BY <2>3, <3>1
      <3> QED BY <1>1, <2>3, <2>5, <2>6, <3>2 DEF Matching
    <2>8. ASSUME NEW i \in 1..t.at
          PROVE  Settled(got, i, 1)
      <3>1. Len(misses) \in 1..Len(misses) /\ \A j \in 1..Len(t.misses) : j \in 1..Len(misses)
        BY <1>1, <2>2
      <3>2. CASE i = t.at
        BY <2>2, <2>3, <3>1, <3>2 DEF Settled
      <3>3. CASE i \in 1..(t.at - 1)
        <4>1. Settled(t, i, 1)
          BY <1>1, <3>3
        <4> QED BY <2>2, <2>3, <3>1, <4>1 DEF Settled
      <3> QED BY <1>2, <3>2, <3>3
    <2> QED BY <2>3, <2>7, <2>8 DEF got
  <1>4. CASE cached # Nothing
    <2> DEFINE results == [t.results EXCEPT ![t.at] = cached]
    <2>1. got = [t EXCEPT !.results = results]
      BY <1>4 DEF Got
    <2>2. PICK d \in Configs : /\ cached = Vector(d, t.texts[t.at])
                               /\ Class[d] = Class[c] /\ (t.clean => d = c)
      BY <1>4 DEF Hit
    <2>3. cached \in Vectors
      BY <1>1, <2>2, TaskTypes, KeyFacts
    <2>4. /\ results \in Seq(Vectors \union {Nothing}) /\ Len(results) = n
          /\ results[t.at] = cached
          /\ \A i \in 1..n : i # t.at => results[i] = t.results[i]
      BY <1>1, <2>3, ExceptSeq, LenProperties
    <2> HIDE DEF results, got
    <2>5. /\ got \in Task /\ got.misses = t.misses /\ got.results = results
          /\ got.texts = t.texts /\ got.vectors = <<>> /\ got.at = t.at
          /\ got.clean = t.clean /\ got.pc = t.pc
      BY <1>1, <2>1, <2>4 DEF Task
    <2>6. ASSUME NEW i \in 1..n, got.results[i] # Nothing
          PROVE  Result(c, got, i)
      <3>1. CASE i = t.at
        BY <2>2, <2>4, <2>5, <3>1 DEF Result
      <3>2. CASE i # t.at
        BY <1>1, <2>4, <2>5, <2>6, <3>2 DEF Result
      <3> QED BY <3>1, <3>2
    <2>7. Matching(c, got)
      <3>1. Len(got.vectors) = 0
        BY <2>5
      <3>2. Len(got.vectors) <= Len(got.misses) /\ 1..Len(got.vectors) = {}
        BY <1>1, <2>5, <3>1
      <3> QED BY <1>1, <2>4, <2>5, <2>6, <3>2 DEF Matching
    <2>8. ASSUME NEW i \in 1..t.at
          PROVE  Settled(got, i, 1)
      <3>1. CASE i = t.at
        BY <1>4, <2>4, <2>5, <3>1 DEF Settled
      <3>2. CASE i \in 1..(t.at - 1)
        <4>1. Settled(t, i, 1) /\ i # t.at /\ i \in 1..n
          BY <1>1, <3>2
        <4> QED BY <2>4, <2>5, <4>1 DEF Settled
      <3> QED BY <1>2, <3>1, <3>2
    <2> QED BY <2>5, <2>7, <2>8 DEF got
  <1> QED BY <1>3, <1>4

LEMMA LookedKeeps ==
    ASSUME NEW c \in Configs, NEW t, TaskInv(c, t), t.pc = "looking", NEW cached,
           cached # Nothing => Hit(c, t, cached)
    PROVE  TaskInv(c, Looked(t, cached)) /\ Looked(t, cached).clean = t.clean
  <1> DEFINE got == Got(t, cached)
             g == Looked(t, cached)
             n == Len(t.texts)
  <1>1. g = CASE t.at < n -> [got EXCEPT !.at = @ + 1]
              [] t.at = n /\ got.misses = <<>> -> [got EXCEPT !.pc = "done"]
              [] OTHER -> [got EXCEPT !.pc = "calling", !.attempt = 1]
    BY DEF Looked, Got
  <1> HIDE DEF g, n
  <1>2. /\ got \in Task /\ Matching(c, got)
        /\ got.texts = t.texts /\ got.vectors = <<>> /\ got.at = t.at
        /\ got.clean = t.clean /\ got.pc = "looking"
        /\ \A i \in 1..t.at : Settled(got, i, 1)
    BY GotFacts
  <1> HIDE DEF got
  <1>3. n \in Nat /\ t.at \in 1..n /\ Len(got.misses) \in Nat /\ Attempts \in Nat \ {0}
    BY <1>2, TaskTypes DEF TaskInv, AtWork, n
  <1>4. \/ t.at < n /\ g = [got EXCEPT !.at = @ + 1]
        \/ t.at = n /\ got.misses = <<>> /\ g = [got EXCEPT !.pc = "done"]
        \/ t.at = n /\ got.misses # <<>> /\ g = [got EXCEPT !.pc = "calling", !.attempt = 1]
    BY <1>3, <1>1
  <1>5. /\ g.texts = got.texts /\ g.results = got.results /\ g.misses = got.misses
        /\ g.vectors = got.vectors /\ g.clean = got.clean
    BY <1>2, <1>4 DEF Task
  <1>6. Matching(c, g)
    BY <1>2, <1>5 DEF Matching, Result
  <1>7. \A i \in 1..t.at : Settled(g, i, 1)
    BY <1>2, <1>5 DEF Settled
  <1>8. CASE t.at < n /\ g = [got EXCEPT !.at = @ + 1]
    <2>1. g \in Task /\ g.pc = "looking" /\ g.at = t.at + 1
      <3>1. g = [got EXCEPT !.at = t.at + 1] /\ t.at + 1 \in Nat
        BY <1>2, <1>3, <1>8
      <3> QED BY <1>2, <3>1 DEF Task
    <2>2. g.at \in 1..n /\ g.at - 1 = t.at
      BY <1>3, <1>8, <2>1
    <2>3. AtWork(g)
      BY <1>2, <1>5, <1>7, <2>1, <2>2 DEF AtWork, n
    <2> QED BY <1>2, <1>5, <1>6, <2>1, <2>3 DEF TaskInv, g
  <1>9. CASE t.at = n /\ got.misses = <<>> /\ g = [got EXCEPT !.pc = "done"]
    <2>1. g \in Task /\ g.pc = "done"
      BY <1>2, <1>9 DEF Task
    <2>2. ASSUME NEW i \in 1..n PROVE g.results[i] # Nothing
      <3>1. Settled(g, i, 1) /\ Len(g.misses) = 0
        BY <1>5, <1>7, <1>9
      <3> QED BY <3>1 DEF Settled
    <2>3. AtWork(g)
      BY <1>2, <1>5, <2>1, <2>2 DEF AtWork, n
    <2> QED BY <1>2, <1>5, <1>6, <2>1, <2>3 DEF TaskInv, g
  <1>10. CASE /\ t.at = n /\ got.misses # <<>>
              /\ g = [got EXCEPT !.pc = "calling", !.attempt = 1]
    <2>1. 1 \in 0..Attempts /\ 1 \in 1..Attempts
      BY <1>3
    <2>2. g \in Task /\ g.pc = "calling" /\ g.attempt = 1
      BY <1>2, <1>10, <2>1 DEF Task
    <2>3. Len(g.vectors) = 0 /\ Len(g.misses) > 0
      <3>1. got.misses \in Seq(Nat \ {0})
        BY <1>2, TaskTypes
      <3> QED BY <1>2, <1>3, <1>5, <1>10, <3>1, EmptySeq
    <2>4. AtWork(g)
      BY <1>2, <1>5, <1>7, <1>10, <2>1, <2>2, <2>3 DEF AtWork, n
    <2> QED BY <1>2, <1>5, <1>6, <2>2, <2>4 DEF TaskInv, g
  <1> QED BY <1>4, <1>8, <1>9, <1>10

-----------------------------------------------------------------------------
(***************************************************************************)
(* A request and its provider.                                             *)
(***************************************************************************)
\* Indices 1..n in any order: none is left out.
LEMMA EveryIndex ==
    ASSUME NEW n \in Nat, NEW arrival \in Arrivals(n), NEW i \in 1..n
    PROVE  \E j \in 1..n : arrival[j] = i
  <1>1. arrival \in Injection(1..n, 1..n)
    BY DEF Arrivals, Injection
  <1>2. IsFiniteSet(1..n)
    BY FS_Interval
  <1>3. arrival \in Surjection(1..n, 1..n)
    BY <1>1, <1>2, FS_Injection
  <1> QED BY <1>3 DEF Surjection

\* Whatever the order of the items, their embeddings come out in that of the
\* texts, v.
LEMMA SortedFacts ==
    ASSUME NEW n \in Nat, NEW arrival \in Arrivals(n), NEW V, NEW v \in [1..n -> V],
           NEW items, DOMAIN items = 1..n,
           \A j \in 1..n : items[j].index = arrival[j] /\ items[j].embedding = v[arrival[j]]
    PROVE  Sorted(items) = v
  <1>1. ASSUME NEW i \in 1..n
        PROVE  (CHOOSE item \in Range(items) : item.index = i).embedding = v[i]
    <2> DEFINE item == CHOOSE x \in Range(items) : x.index = i
    <2>1. PICK j \in 1..n : arrival[j] = i
      BY EveryIndex
    <2>2. items[j] \in Range(items) /\ items[j].index = i
      BY <2>1 DEF Range
    <2>3. item \in Range(items) /\ item.index = i
      BY <2>2
    <2> HIDE DEF item
    <2>4. PICK l \in 1..n : item = items[l]
      BY <2>3 DEF Range
    <2>5. item.index = arrival[l] /\ item.embedding = v[arrival[l]]
      BY <2>4
    <2>6. item.embedding = v[i]
      BY <2>3, <2>5
    <2> QED BY <2>6 DEF item
  <1>2. Sorted(items) =
          [i \in 1..n |-> (CHOOSE item \in Range(items) : item.index = i).embedding]
    BY DEF Sorted
  <1>3. \A i \in 1..n : Sorted(items)[i] = v[i]
    BY <1>1, <1>2
  <1>4. Sorted(items) = [i \in 1..n |-> Sorted(items)[i]] /\ v = [i \in 1..n |-> v[i]]
    BY <1>2
  <1> QED BY ONLY <1>3, <1>4

LEMMA BatchFacts ==
    ASSUME NEW t, TaskInv(config, t), Len(t.vectors) < Len(t.misses)
    PROVE  LET batch == Batch(t)
           IN /\ Len(batch) \in Nat \ {0} /\ Len(t.vectors) + Len(batch) <= Len(t.misses)
              /\ \A i \in 1..Len(batch) :
                    /\ batch[i] = t.misses[Len(t.vectors) + i]
                    /\ batch[i] \in 1..Len(t.texts)
  <1> DEFINE d == Len(t.vectors)
             n == Len(t.misses)
             upTo == IF config \in Local THEN n ELSE Min({d + MaxBatch, n})
             batch == Batch(t)
  <1>1. /\ d \in Nat /\ n \in Nat /\ d < n /\ MaxBatch \in Nat \ {0}
        /\ t.misses \in Seq(Nat \ {0})
        /\ \A j \in 1..n : t.misses[j] \in 1..Len(t.texts)
    BY TaskTypes, EmbeddingConfig DEF TaskInv, Matching
  <1>2. batch = SubSeq(t.misses, d + 1, upTo)
    BY DEF Batch
  <1>3. \A j \in 1..n : t.misses[j] \in Nat \ {0}
    BY <1>1, ElementOfSeq
  <1> HIDE DEF d, n, batch
  <1>4. upTo \in (d + 1)..n
    <2>1. d + MaxBatch \in Int /\ n \in Int /\ d + MaxBatch >= d + 1
      BY <1>1
    <2>2. Min({d + MaxBatch, n}) = IF d + MaxBatch <= n THEN d + MaxBatch ELSE n
      BY <2>1, MinMaxOfTwo
    <2> QED BY <1>1, <2>1, <2>2
  <1> HIDE DEF upTo
  <1>5. /\ Len(batch) = upTo - d
        /\ \A i \in 1..(upTo - d) : batch[i] = t.misses[d + i]
    <2>1. \A j \in (d + 1)..upTo : t.misses[j] \in Nat \ {0}
      BY <1>1, <1>3, <1>4
    <2>2. /\ Len(batch) = IF d + 1 <= upTo THEN upTo - (d + 1) + 1 ELSE 0
          /\ \A i \in 1..(upTo - (d + 1) + 1) : batch[i] = t.misses[(d + 1) + i - 1]
      BY <1>1, <1>2, <1>4, <2>1, SubSeqProperties
    <2>3. upTo - (d + 1) + 1 = upTo - d /\ d + 1 <= upTo
          /\ \A i \in 1..(upTo - d) : (d + 1) + i - 1 = d + i
      BY <1>1, <1>4
    <2> QED BY <2>2, <2>3
  <1>6. ASSUME NEW i \in 1..Len(batch)
        PROVE  batch[i] = t.misses[d + i] /\ batch[i] \in 1..Len(t.texts)
    <2>1. d + i \in 1..n
      BY <1>1, <1>4, <1>5
    <2> QED BY <1>1, <1>5, <2>1
  <1>7. Len(batch) \in Nat \ {0} /\ d + Len(batch) <= n
    BY <1>1, <1>4, <1>5
  <1> QED BY <1>6, <1>7 DEF d, n, batch

\* Some more elements, in the order of w, of which there are some already.
LEMMA MoreVectors ==
    ASSUME NEW V, NEW s \in Seq(V), NEW more \in Seq(V), NEW w,
           \A j \in 1..Len(s) : s[j] = w[j],
           \A i \in 1..Len(more) : more[i] = w[Len(s) + i]
    PROVE  /\ s \o more \in Seq(V) /\ Len(s \o more) = Len(s) + Len(more)
           /\ \A j \in 1..(Len(s) + Len(more)) : (s \o more)[j] = w[j]
  <1> DEFINE d == Len(s)
             n == Len(more)
  <1>1. d \in Nat /\ n \in Nat
    BY LenProperties
  <1>3. /\ s \o more \in Seq(V) /\ Len(s \o more) = d + n
        /\ \A j \in 1..(d + n) : (s \o more)[j] = IF j <= d THEN s[j] ELSE more[j - d]
    BY <1>1, ConcatProperties
  <1>4. \A i \in 1..n : more[i] = w[d + i]
    OBVIOUS
  <1> HIDE DEF d, n
  <1>5. ASSUME NEW j \in 1..(d + n)
        PROVE  (s \o more)[j] = w[j]
    <2>1. CASE j <= d
      <3>1. j \in 1..Len(s)
        BY <1>1, <2>1 DEF d
      <3> QED BY <1>3, <2>1, <3>1
    <2>2. CASE ~(j <= d)
      <3>1. j - d \in 1..n /\ d + (j - d) = j
        BY <1>1, <2>2
      <3> QED BY <1>3, <1>4, <2>2, <3>1
    <2> QED BY <2>1, <2>2
  <1> QED BY <1>3, <1>5 DEF d, n

\* The batch is embedded, and was the last one or was not.
\* What a batch of vectors makes of request t.
Further(t, g) ==
    /\ g.texts = t.texts /\ g.misses = t.misses
    /\ \/ g.pc = "calling" /\ g.attempt = 1 /\ Len(g.vectors) > Len(t.vectors)
       \/ g.pc = "storing" /\ g.at = 1

LEMMA EmbeddedKeeps ==
    ASSUME config \in Configs, NEW r \in Requests, TaskInv(config, task[r]),
           task[r].pc = "calling", Embedded(r)
    PROVE  \E g : /\ Goes(r, g) /\ TaskInv(config, g) /\ g.clean = task[r].clean
                  /\ Further(task[r], g)
  <1> DEFINE t == task[r]
             batch == Batch(t)
             n == Len(batch)
             v == [i \in 1..n |-> Vector(config, t.texts[batch[i]])]
  <1>1. /\ t \in Task /\ Matching(config, t) /\ Len(t.vectors) < Len(t.misses)
        /\ Len(t.vectors) \in Nat /\ Len(t.misses) \in Nat /\ Attempts \in Nat \ {0}
        /\ TaskInv(config, t) /\ t.pc = "calling"
        /\ \A i \in 1..Len(t.texts) : Settled(t, i, 1)
    BY TaskTypes DEF TaskInv, AtWork
  <1>2. /\ n \in Nat \ {0} /\ Len(t.vectors) + n <= Len(t.misses)
        /\ \A i \in 1..n : /\ batch[i] = t.misses[Len(t.vectors) + i]
                            /\ batch[i] \in 1..Len(t.texts)
    BY <1>1, BatchFacts
  <1>3. PICK p \in Arrivals(n) :
           Goes(r, Extended(t, t.vectors \o Sorted(Items(t, p))))
    BY DEF Embedded
  <1> DEFINE items == Items(t, p)
             more == Sorted(items)
             vectors == t.vectors \o more
             g == Extended(t, vectors)
  <1>4. Goes(r, g)
    BY <1>3
  <1> HIDE DEF t, batch, n
  <1>5. /\ v \in [1..n -> Vectors]
        /\ \A i \in 1..n : v[i] = Vector(config, t.texts[t.misses[Len(t.vectors) + i]])
    <2>1. ASSUME NEW i \in 1..n
          PROVE  /\ v[i] = Vector(config, t.texts[t.misses[Len(t.vectors) + i]])
                 /\ v[i] \in Vectors
      <3>1. batch[i] \in 1..Len(t.texts)
        BY <1>2
      <3>2. t.texts[batch[i]] \in Texts
        BY <1>1, <3>1, TaskTypes
      <3> QED BY <1>2, <3>2, KeyFacts
    <2> QED BY <2>1
  <1>6. /\ DOMAIN items = 1..n
        /\ \A j \in 1..n : items[j].index = p[j] /\ items[j].embedding = v[p[j]]
    <2>1. \A j \in 1..n : p[j] \in 1..n
      BY DEF Arrivals
    <2>2. items = [j \in 1..n |-> [index |-> p[j],
                                   embedding |-> Vector(config, t.texts[batch[p[j]]])]]
      BY DEF Items, batch, n
    <2> QED BY <2>1, <2>2
  <1> HIDE DEF items, v
  <1>7. more = v
    <2>1. n \in Nat /\ v \in [1..n -> Vectors]
      BY <1>2, <1>5
    <2> QED BY ONLY <1>6, <2>1, p \in Arrivals(n), SortedFacts
  <1> HIDE DEF more
  <1> DEFINE w == [j \in 1..Len(t.misses) |-> Vector(config, t.texts[t.misses[j]])]
  <1>8. /\ vectors \in Seq(Vectors) /\ Len(vectors) = Len(t.vectors) + n
        /\ \A j \in 1..Len(vectors) : vectors[j] = Vector(config, t.texts[t.misses[j]])
    <2>1. \A j \in 1..Len(t.vectors) : t.vectors[j] = w[j]
      BY <1>1 DEF Matching
    <2>2. \A i \in 1..n : more[i] = w[Len(t.vectors) + i]
      BY <1>1, <1>2, <1>5, <1>7
    <2>3. t.vectors \in Seq(Vectors) /\ more \in Seq(Vectors) /\ Len(more) = n
      <3>1. n \in Nat /\ more \in [1..n -> Vectors]
        BY <1>2, <1>5, <1>7
      <3>2. more \in Seq(Vectors) /\ DOMAIN more = 1..n
        BY ONLY SeqDef, <3>1
      <3> QED BY <1>1, <3>1, <3>2, TaskTypes, LenProperties
    <2> HIDE DEF w
    <2>4. /\ vectors \in Seq(Vectors) /\ Len(vectors) = Len(t.vectors) + n
          /\ \A j \in 1..(Len(t.vectors) + n) : vectors[j] = w[j]
      <3>1. PICK old, new, all : old = t.vectors /\ new = more /\ all = w
        OBVIOUS
      <3>2. /\ old \in Seq(Vectors) /\ new \in Seq(Vectors)
            /\ \A j \in 1..Len(old) : old[j] = all[j]
            /\ \A i \in 1..Len(new) : new[i] = all[Len(old) + i]
        BY <2>1, <2>2, <2>3, <3>1
      <3>3. /\ old \o new \in Seq(Vectors) /\ Len(old \o new) = Len(old) + Len(new)
            /\ \A j \in 1..(Len(old) + Len(new)) : (old \o new)[j] = all[j]
        BY ONLY <3>2, MoreVectors
      <3> QED BY <2>3, <3>1, <3>3
    <2>5. \A j \in 1..(Len(t.vectors) + n) : j \in 1..Len(t.misses)
      BY <1>1, <1>2
    <2> QED BY <2>4, <2>5 DEF w
  <1> HIDE DEF vectors
  <1>9. Len(vectors) \in Nat /\ Len(vectors) <= Len(t.misses)
    BY <1>1, <1>2, <1>8
  <1>10. CASE Len(vectors) < Len(t.misses)
    <2>1. g = [t EXCEPT !.vectors = vectors, !.attempt = 1]
      BY <1>10 DEF Extended
    <2>2. 1 \in 0..Attempts /\ 1 \in 1..Attempts
      BY <1>1
    <2> HIDE DEF g
    <2>3. /\ g \in Task /\ g.pc = "calling" /\ g.vectors = vectors /\ g.attempt = 1
          /\ g.texts = t.texts /\ g.results = t.results /\ g.misses = t.misses
          /\ g.clean = t.clean
      BY <1>1, <1>8, <2>1, <2>2 DEF Task
    <2>4. Matching(config, g)
      BY <1>1, <1>8, <1>9, <2>3 DEF Matching, Result
    <2>5. AtWork(g)
      BY <1>1, <1>10, <2>2, <2>3 DEF AtWork, Settled
    <2>6. Further(t, g)
      <3>1. Len(vectors) > Len(t.vectors)
        BY <1>1, <1>2, <1>8
      <3> QED BY <2>3, <3>1 DEF Further
    <2> QED BY <1>4, <2>3, <2>4, <2>5, <2>6 DEF TaskInv, g, t
  <1>11. CASE ~(Len(vectors) < Len(t.misses))
    <2>1. g = [t EXCEPT !.vectors = vectors, !.pc = "storing", !.attempt = 0, !.at = 1]
      BY <1>11 DEF Extended
    <2>2. 0 \in 0..Attempts /\ Len(vectors) = Len(t.misses) /\ 1 \in 1..Len(t.misses)
      BY <1>1, <1>9, <1>11
    <2> HIDE DEF g
    <2>3. /\ g \in Task /\ g.pc = "storing" /\ g.vectors = vectors /\ g.at = 1
          /\ g.texts = t.texts /\ g.results = t.results /\ g.misses = t.misses
          /\ g.clean = t.clean
      BY <1>1, <1>8, <2>1, <2>2 DEF Task
    <2>4. Matching(config, g)
      BY <1>1, <1>8, <1>9, <2>3 DEF Matching, Result
    <2>5. AtWork(g)
      BY <1>1, <2>2, <2>3 DEF AtWork, Settled
    <2>6. Further(t, g)
      BY <2>3 DEF Further
    <2> QED BY <1>4, <2>3, <2>4, <2>5, <2>6 DEF TaskInv, g, t
  <1> QED BY <1>10, <1>11

\* Between attempts nothing else changes.
LEMMA RetryKeeps ==
    ASSUME NEW c, NEW t, TaskInv(c, t), t.pc \in {"calling", "sleeping"}
    PROVE  /\ LET g == [t EXCEPT !.pc = "sleeping"]
              IN TaskInv(c, g) /\ g.clean = t.clean
           /\ t.attempt < Attempts =>
                 LET g == [t EXCEPT !.pc = "calling", !.attempt = @ + 1]
                 IN TaskInv(c, g) /\ g.clean = t.clean
  <1>1. /\ t \in Task /\ Matching(c, t) /\ Len(t.vectors) < Len(t.misses)
        /\ t.attempt \in 1..Attempts /\ Attempts \in Nat \ {0}
        /\ \A i \in 1..Len(t.texts) : Settled(t, i, 1)
    BY TaskTypes DEF TaskInv, AtWork
  <1>2. ASSUME NEW g, NEW pc \in {"calling", "sleeping"}, NEW a \in 1..Attempts,
               g = [t EXCEPT !.pc = pc, !.attempt = a]
        PROVE  TaskInv(c, g) /\ g.clean = t.clean
    <2>1. a \in 0..Attempts
      BY <1>1
    <2>2. /\ g \in Task /\ g.pc = pc /\ g.vectors = t.vectors /\ g.attempt = a
          /\ g.texts = t.texts /\ g.results = t.results /\ g.misses = t.misses
          /\ g.clean = t.clean
      BY <1>1, <1>2, <2>1 DEF Task
    <2>3. Matching(c, g)
      BY <1>1, <2>2 DEF Matching, Result
    <2>4. AtWork(g)
      BY <1>1, <2>2 DEF AtWork, Settled
    <2> QED BY <2>2, <2>3, <2>4 DEF TaskInv
  <1>3. [t EXCEPT !.pc = "sleeping"] = [t EXCEPT !.pc = "sleeping", !.attempt = t.attempt]
    BY <1>1 DEF Task
  <1>4. TaskInv(c, [t EXCEPT !.pc = "sleeping"])
        /\ [t EXCEPT !.pc = "sleeping"].clean = t.clean
    BY <1>1, <1>2, <1>3
  <1>5. ASSUME t.attempt < Attempts
        PROVE  LET g == [t EXCEPT !.pc = "calling", !.attempt = @ + 1]
               IN TaskInv(c, g) /\ g.clean = t.clean
    <2>1. t.attempt + 1 \in 1..Attempts
      BY <1>1, <1>5
    <2> QED BY <1>2, <2>1
  <1> QED BY <1>4, <1>5

\* One more vector is a result.
LEMMA StoredKeeps ==
    ASSUME NEW c \in Configs, NEW t, TaskInv(c, t), t.pc = "storing"
    PROVE  TaskInv(c, Stored(t)) /\ Stored(t).clean = t.clean
  <1> DEFINE n == Len(t.texts)
             m == Len(t.misses)
             place == t.misses[t.at]
             results == [t.results EXCEPT ![place] = t.vectors[t.at]]
             done == [t EXCEPT !.results = results]
             g == Stored(t)
  <1>1. /\ t \in Task /\ Matching(c, t) /\ Len(t.vectors) = m /\ t.at \in 1..m
        /\ m \in Nat /\ n \in Nat /\ t.results \in Seq(Vectors \union {Nothing})
        /\ Len(t.results) = n
        /\ \A i \in 1..n : t.results[i] # Nothing => Result(c, t, i)
        /\ \A j \in 1..m : t.misses[j] \in 1..n
        /\ \A j \in 1..m : t.vectors[j] = Vector(c, t.texts[t.misses[j]])
        /\ \A i \in 1..n : Settled(t, i, t.at)
        /\ \A i \in 1..n : t.texts[i] \in Texts
    BY TaskTypes DEF TaskInv, Matching, AtWork
  <1>2. place \in 1..n /\ t.vectors[t.at] = Vector(c, t.texts[place])
    BY <1>1
  <1>3. Vector(c, t.texts[place]) \in Vectors /\ Vector(c, t.texts[place]) # Nothing
    BY <1>1, <1>2, KeyFacts
  <1>4. g = IF t.at < m THEN [done EXCEPT !.at = @ + 1] ELSE [done EXCEPT !.pc = "done"]
    BY DEF Stored
  <1>5. /\ results \in Seq(Vectors \union {Nothing}) /\ Len(results) = n
        /\ results[place] = Vector(c, t.texts[place])
        /\ \A i \in 1..n : i # place => results[i] = t.results[i]
    BY <1>1, <1>2, <1>3, ExceptSeq, LenProperties
  <1> HIDE DEF results, g
  <1>6. /\ done \in Task /\ done.pc = "storing" /\ done.at = t.at
        /\ done.texts = t.texts /\ done.results = results /\ done.misses = t.misses
        /\ done.vectors = t.vectors /\ done.clean = t.clean
    BY <1>1, <1>5 DEF Task
  <1> HIDE DEF done
  <1>7. /\ g.texts = t.texts /\ g.results = results /\ g.misses = t.misses
        /\ g.vectors = t.vectors /\ g.clean = t.clean
        /\ g \in Task
        /\ t.at < m => g.pc = "storing" /\ g.at = t.at + 1
        /\ ~(t.at < m) => g.pc = "done"
    <2>1. CASE t.at < m
      <3>1. g = [done EXCEPT !.at = t.at + 1] /\ t.at + 1 \in Nat
        BY <1>1, <1>4, <1>6, <2>1
      <3> QED BY <1>6, <2>1, <3>1 DEF Task
    <2>2. CASE ~(t.at < m)
      BY <1>4, <1>6, <2>2 DEF Task
    <2> QED BY <2>1, <2>2
  <1>8. ASSUME NEW i \in 1..n, results[i] # Nothing
        PROVE  Result(c, g, i)
    <2>1. CASE i = place
      BY <1>5, <1>7, <2>1 DEF Result
    <2>2. CASE i # place
      <3>1. Result(c, t, i)
        BY <1>1, <1>5, <1>8, <2>2
      <3> QED BY <1>5, <1>7, <2>2, <3>1 DEF Result
    <2> QED BY <2>1, <2>2
  <1>9. Matching(c, g)
    BY <1>1, <1>5, <1>7, <1>8 DEF Matching
  <1>10. ASSUME NEW i \in 1..n
         PROVE  results[i] # Nothing \/ \E j \in (t.at + 1)..m : t.misses[j] = i
    <2>1. CASE i = place
      BY <1>3, <1>5, <2>1
    <2>2. CASE i # place
      <3>1. t.results[i] # Nothing \/ \E j \in t.at..m : t.misses[j] = i
        BY <1>1 DEF Settled
      <3>2. ASSUME NEW j \in t.at..m, t.misses[j] = i
            PROVE  j \in (t.at + 1)..m
        <4>1. j # t.at
          BY <2>2, <3>2
        <4> QED BY <1>1, <4>1
      <3> QED BY <1>5, <2>2, <3>1, <3>2
    <2> QED BY <2>1, <2>2
  <1>11. AtWork(g)
    <2>1. CASE t.at < m
      <3>1. t.at + 1 \in 1..m
        BY <1>1, <2>1
      <3>2. \A i \in 1..n : Settled(g, i, t.at + 1)
        BY <1>7, <1>10 DEF Settled
      <3> QED BY <1>1, <1>7, <2>1, <3>1, <3>2 DEF AtWork
    <2>2. CASE ~(t.at < m)
      <3>1. (t.at + 1)..m = {}
        BY <1>1, <2>2
      <3>2. \A i \in 1..n : results[i] # Nothing
        BY <1>10, <3>1
      <3> QED BY <1>7, <2>2, <3>2 DEF AtWork
    <2> QED BY <2>1, <2>2
  <1> QED BY <1>7, <1>9, <1>11 DEF TaskInv, g

-----------------------------------------------------------------------------
(***************************************************************************)
(* The steps.                                                              *)
(***************************************************************************)
\* One request goes on, in the same process.
LEMMA Onward ==
    ASSUME CacheInv, NEW r \in Requests, NEW g, Goes(r, g), TaskInv(config, g),
           g.pc # "idle" /\ g.clean => Clean,
           UNCHANGED <<config, backend, idleFor>>
    PROVE  /\ task' \in [Requests -> Task]
           /\ \A s \in Requests :
                 /\ TaskInv(config', task'[s])
                 /\ task'[s].pc # "idle" /\ task'[s].clean => Clean'
  <1>1. /\ task \in [Requests -> Task]
        /\ \A s \in Requests : /\ TaskInv(config, task[s])
                               /\ task[s].pc # "idle" /\ task[s].clean => Clean
    BY DEF CacheInv
  <1>2. task' = [task EXCEPT ![r] = g] /\ g \in Task
    BY DEF Goes, TaskInv
  <1>3. config' = config /\ (Clean => Clean')
    BY DEF Clean
  <1>4. ASSUME NEW s \in Requests
        PROVE  /\ TaskInv(config, task'[s])
               /\ task'[s].pc # "idle" /\ task'[s].clean => Clean
    <2>1. CASE s = r
      BY <1>1, <1>2, <2>1
    <2>2. CASE s # r
      BY <1>1, <1>2, <2>2
    <2> QED BY <2>1, <2>2
  <1> QED BY <1>1, <1>2, <1>3, <1>4

\* A request goes on that was as clean before, and touches no cache.
LEMMA OnwardAlone ==
    ASSUME CacheInv, NEW r \in Requests, NEW g, Goes(r, g), TaskInv(config, g),
           g.pc # "idle" => g.clean = task[r].clean /\ task[r].pc # "idle",
           UNCHANGED <<config, backend, memory, redis, restarts, uses, idleFor>>
    PROVE  CacheInv'
  <1>1. g.pc # "idle" /\ g.clean => Clean
    BY DEF CacheInv
  <1>2. UNCHANGED <<config, backend, idleFor>>
    OBVIOUS
  <1>3. /\ task' \in [Requests -> Task]
        /\ \A s \in Requests :
              /\ TaskInv(config', task'[s])
              /\ task'[s].pc # "idle" /\ task'[s].clean => Clean'
    BY <1>1, <1>2, Onward
  <1>4. /\ Dictionary(config', memory', uses') /\ Server(config', backend', redis', idleFor')
        /\ config' \in Configs /\ backend' \in {"memory", "redis"}
        /\ restarts' \in 0..MaxRestarts
    BY DEF CacheInv
  <1> QED BY <1>3, <1>4 DEF CacheInv

LEMMA InitHolds == Init => CacheInv
  <1> SUFFICES ASSUME Init PROVE CacheInv
    OBVIOUS
  <1>1. config \in Configs /\ backend \in {"memory", "redis"} /\ restarts \in 0..MaxRestarts
    BY EmbeddingConfig DEF Init
  <1>2. Dictionary(config, memory, uses)
    BY <1>1, EmptyDictionary DEF Init
  <1>3. Server(config, backend, redis, idleFor)
    BY <1>1, EmptyServer DEF Init
  <1>4. \A r \in Requests : task[r] = Idle
    BY DEF Init
  <1>5. task \in [Requests -> Task]
    BY IdleTask DEF Init, TaskInv
  <1>6. \A r \in Requests : TaskInv(config, task[r])
    BY <1>4, IdleTask
  <1>7. \A r \in Requests : task[r].pc = "idle"
    BY <1>4 DEF Idle
  <1> QED BY <1>1, <1>2, <1>3, <1>5, <1>6, <1>7 DEF CacheInv

LEMMA TickKeeps ==
    ASSUME CacheInv, Tick
    PROVE  CacheInv'
  <1>1. /\ config \in Configs /\ config' = config /\ backend' = backend /\ task' = task
        /\ restarts' = restarts /\ uses' = uses
        /\ memory' = MemoryElapse(memory) /\ redis' = RedisElapse(redis)
    BY DEF CacheInv, Tick
  <1>2. Dictionary(config, memory', uses)
    BY <1>1, ElapseKeeps DEF CacheInv
  <1>3. idleFor' = [c \in Configs |-> IF c = config /\ backend = "redis" THEN 0
                                      ELSE Min({idleFor[c] + 1, Ttl})]
    BY DEF Tick
  <1>4. Server(config, backend, redis', idleFor')
    BY <1>1, <1>3, ElapseKeepsServer DEF CacheInv
  <1>5. Clean => Clean'
    <2>1. ASSUME NEW c \in Configs \ {config}, idleFor[c] = Ttl
          PROVE  idleFor'[c] = Ttl
      <3>1. Ttl + 1 \in Int /\ Ttl \in Int /\ ~(Ttl + 1 <= Ttl)
        BY TtlCacheConfig
      <3>2. Min({Ttl + 1, Ttl}) = Ttl
        BY <3>1, MinMaxOfTwo
      <3> QED BY <1>3, <2>1, <3>2
    <2> QED BY <1>1, <2>1 DEF Clean
  <1> QED BY <1>1, <1>2, <1>4, <1>5 DEF CacheInv

LEMMA RestartKeeps ==
    ASSUME CacheInv, Restart
    PROVE  CacheInv'
  <1>1. /\ config' \in Configs /\ backend' \in {"memory", "redis"}
        /\ memory' = EmptyMemory(Keys) /\ uses' = <<>> /\ redis' = redis
        /\ task' = [r \in Requests |-> Idle]
        /\ idleFor' = [c \in Configs |-> IF c = config' /\ backend' = "redis" THEN 0
                                         ELSE idleFor[c]]
    BY DEF Restart
  <1>2. restarts' \in 0..MaxRestarts
    BY EmbeddingConfig DEF CacheInv, Restart
  <1>3. Dictionary(config', memory', uses')
    BY <1>1, EmptyDictionary
  <1>4. Server(config', backend', redis', idleFor')
    <2>1. Server(config, backend, redis, idleFor)
      BY DEF CacheInv
    <2> QED BY <1>1, <2>1, RestartKeepsServer
  <1>5. \A r \in Requests : task'[r] = Idle
    BY <1>1
  <1>6. task' \in [Requests -> Task]
    BY <1>1, IdleTask DEF TaskInv
  <1>7. \A r \in Requests : TaskInv(config', task'[r])
    BY <1>5, IdleTask
  <1>8. \A r \in Requests : task'[r].pc = "idle"
    BY <1>5 DEF Idle
  <1> QED BY <1>1, <1>2, <1>3, <1>4, <1>6, <1>7, <1>8 DEF CacheInv

LEMMA SubmitKeeps ==
    ASSUME CacheInv, NEW r \in Requests, Submit(r)
    PROVE  CacheInv'
  <1>1. PICK texts \in Asks[r] : Goes(r, Start(texts, Clean))
    BY DEF Submit
  <1>2. texts \in Seq(Texts) /\ texts # <<>>
    BY EmbeddingConfig
  <1>3. Clean \in BOOLEAN
    BY DEF Clean
  <1> DEFINE g == Start(texts, Clean)
  <1>4. TaskInv(config, g) /\ (g.clean <=> Clean)
    BY <1>2, <1>3, StartedTask
  <1> HIDE DEF g
  <1>5. Goes(r, g)
    BY <1>1 DEF g
  <1>6. /\ config' = config /\ backend' = backend /\ memory' = memory /\ redis' = redis
        /\ restarts' = restarts /\ uses' = uses /\ idleFor' = idleFor
    BY DEF Submit
  <1>7. /\ task' \in [Requests -> Task]
        /\ \A s \in Requests :
              /\ TaskInv(config', task'[s])
              /\ task'[s].pc # "idle" /\ task'[s].clean => Clean'
    BY <1>4, <1>5, <1>6, Onward
  <1> QED BY <1>6, <1>7 DEF CacheInv

LEMMA LookKeeps ==
    ASSUME CacheInv, NEW r \in Requests, Look(r)
    PROVE  CacheInv'
  <1> DEFINE t == task[r]
             text == t.texts[t.at]
             k == Key(config, text)
  <1>1. /\ config \in Configs /\ t.pc = "looking" /\ TaskInv(config, t) /\ t.clean \in BOOLEAN
        /\ Dictionary(config, memory, uses) /\ Server(config, backend, redis, idleFor)
        /\ t.clean => Clean
    BY TaskTypes DEF CacheInv, Look, TaskInv
  <1>2. text \in Texts
    BY <1>1, TaskTypes DEF TaskInv, AtWork
  <1>3. k \in Keys
    BY <1>1, <1>2, KeyFacts
  <1>4. /\ config' = config /\ backend' = backend /\ redis' = redis
        /\ restarts' = restarts /\ idleFor' = idleFor
    BY DEF Look
  <1>5. ASSUME NEW cached, Goes(r, Looked(t, cached)),
               cached # Nothing => Hit(config, t, cached)
        PROVE  /\ task' \in [Requests -> Task]
               /\ \A s \in Requests :
                     /\ TaskInv(config', task'[s])
                     /\ task'[s].pc # "idle" /\ task'[s].clean => Clean'
    <2>1. TaskInv(config, Looked(t, cached)) /\ Looked(t, cached).clean = t.clean
      BY <1>1, <1>5, LookedKeeps
    <2> QED BY <1>1, <1>4, <1>5, <2>1, Onward
  <1>6. CASE backend = "memory"
    <2> DEFINE cached == IF InMemory(memory, k) THEN memory.value[k] ELSE Nothing
    <2>1. /\ Goes(r, Looked(t, cached)) /\ memory' = MemoryGet(memory, k)
          /\ uses' = IF InMemory(memory, k) THEN MoveToEnd(uses, k) ELSE Drop(uses, k)
      BY <1>6 DEF Look
    <2>2. cached # Nothing => Hit(config, t, cached)
      BY <1>1, <1>2, HitInDictionary DEF Hit
    <2>3. Dictionary(config, memory', uses')
      BY <1>1, <1>3, <2>1, GetKeeps
    <2>4. /\ task' \in [Requests -> Task]
          /\ \A s \in Requests :
                /\ TaskInv(config', task'[s])
                /\ task'[s].pc # "idle" /\ task'[s].clean => Clean'
      BY <1>5, <2>1, <2>2
    <2> QED BY <1>4, <2>3, <2>4 DEF CacheInv
  <1>7. CASE backend = "redis"
    <2> DEFINE cached == IF InRedis(redis, k) THEN redis.value[k] ELSE Nothing
    <2>1. Goes(r, Looked(t, cached)) /\ memory' = memory /\ uses' = uses
      BY <1>7 DEF Look
    <2>2. ASSUME cached # Nothing PROVE Hit(config, t, cached)
      <3>1. InRedis(redis, k) /\ cached = redis.value[k]
        BY <2>2
      <3>2. PICK d \in Configs : /\ redis.value[k] = Vector(d, text)
                                 /\ Class[d] = Class[config] /\ idleFor[d] < Ttl
        BY <1>1, <1>2, <3>1, HitInRedis
      <3>3. t.clean => d = config
        <4>1. ASSUME t.clean, d # config PROVE FALSE
          <5>1. idleFor[d] = Ttl
            BY <1>1, <1>7, <3>2, <4>1 DEF Clean
          <5> QED BY <3>2, <5>1, TtlCacheConfig
        <4> QED BY <4>1
      <3> QED BY <3>1, <3>2, <3>3 DEF Hit
    <2>3. /\ task' \in [Requests -> Task]
          /\ \A s \in Requests :
                /\ TaskInv(config', task'[s])
                /\ task'[s].pc # "idle" /\ task'[s].clean => Clean'
      BY <1>5, <2>1, <2>2
    <2> QED BY <1>1, <1>4, <2>1, <2>3 DEF CacheInv
  <1> QED BY <1>6, <1>7 DEF CacheInv

LEMMA ReplyKeeps ==
    ASSUME CacheInv, NEW r \in Requests, Reply(r)
    PROVE  CacheInv'
  <1>1. /\ config \in Configs /\ task[r].pc = "calling" /\ TaskInv(config, task[r])
    BY DEF CacheInv, Reply
  <1>2. UNCHANGED <<config, backend, memory, redis, restarts, uses, idleFor>>
    BY DEF Reply
  <1>3. CASE Embedded(r)
    <2>1. PICK g : Goes(r, g) /\ TaskInv(config, g) /\ g.clean = task[r].clean
      BY <1>1, <1>3, EmbeddedKeeps
    <2> QED BY <1>1, <1>2, <2>1, OnwardAlone
  <1>4. CASE Goes(r, [task[r] EXCEPT !.pc = "sleeping"])
    <2>1. /\ TaskInv(config, [task[r] EXCEPT !.pc = "sleeping"])
          /\ [task[r] EXCEPT !.pc = "sleeping"].clean = task[r].clean
      BY <1>1, RetryKeeps
    <2> QED BY <1>1, <1>2, <1>4, <2>1, OnwardAlone
  <1>5. CASE Goes(r, Idle)
    <2>1. TaskInv(config, Idle) /\ Idle.pc = "idle"
      BY IdleTask DEF Idle
    <2> QED BY <1>2, <1>5, <2>1, OnwardAlone
  <1> QED BY <1>3, <1>4, <1>5 DEF Reply

LEMMA WakeKeeps ==
    ASSUME CacheInv, NEW r \in Requests, Wake(r)
    PROVE  CacheInv'
  <1>1. config \in Configs /\ task[r].pc = "sleeping" /\ TaskInv(config, task[r])
    BY DEF CacheInv, Wake
  <1>2. UNCHANGED <<config, backend, memory, redis, restarts, uses, idleFor>>
    BY DEF Wake
  <1>3. CASE task[r].attempt < Attempts
    <2> DEFINE g == [task[r] EXCEPT !.pc = "calling", !.attempt = @ + 1]
    <2>1. TaskInv(config, g) /\ g.clean = task[r].clean
      BY <1>1, <1>3, RetryKeeps
    <2>2. Goes(r, g)
      BY <1>3 DEF Wake
    <2> HIDE DEF g
    <2> QED BY <1>1, <1>2, <2>1, <2>2, OnwardAlone
  <1>4. CASE ~(task[r].attempt < Attempts)
    <2>1. TaskInv(config, Idle) /\ Idle.pc = "idle"
      BY IdleTask DEF Idle
    <2>2. Goes(r, Idle)
      BY <1>4 DEF Wake
    <2> QED BY <1>2, <2>1, <2>2, OnwardAlone
  <1> QED BY <1>3, <1>4

LEMMA StoreKeeps ==
    ASSUME CacheInv, NEW r \in Requests, Store(r)
    PROVE  CacheInv'
  <1> DEFINE t == task[r]
             text == t.texts[t.misses[t.at]]
             k == Key(config, text)
             v == t.vectors[t.at]
  <1>1. /\ config \in Configs /\ t.pc = "storing" /\ TaskInv(config, t)
        /\ Dictionary(config, memory, uses) /\ Server(config, backend, redis, idleFor)
        /\ t.clean => Clean
    BY DEF CacheInv, Store
  <1>2. text \in Texts /\ v = Vector(config, text)
    BY <1>1, TaskTypes DEF TaskInv, Matching, AtWork
  <1>3. TaskInv(config, Stored(t)) /\ Stored(t).clean = t.clean
    BY <1>1, StoredKeeps
  <1>4. /\ config' = config /\ backend' = backend /\ restarts' = restarts
        /\ idleFor' = idleFor /\ Goes(r, Stored(t))
    BY DEF Store
  <1>5. /\ task' \in [Requests -> Task]
        /\ \A s \in Requests :
              /\ TaskInv(config', task'[s])
              /\ task'[s].pc # "idle" /\ task'[s].clean => Clean'
    BY <1>1, <1>3, <1>4, Onward
  <1>6. CASE backend = "memory"
    <2>1. /\ memory' = MemorySet(memory, k, v) /\ uses' = MoveToEnd(uses, k)
          /\ redis' = redis
      BY <1>6 DEF Store, MissKey
    <2>2. Dictionary(config, memory', uses')
      BY <1>1, <1>2, <2>1, SetKeeps
    <2> QED BY <1>1, <1>4, <1>5, <2>1, <2>2 DEF CacheInv
  <1>7. CASE backend = "redis"
    <2>1. redis' = RedisSet(redis, k, v) /\ memory' = memory /\ uses' = uses
      BY <1>7 DEF Store, MissKey
    <2>2. Server(config, backend, redis', idleFor)
      BY <1>1, <1>2, <1>7, <2>1, SetKeepsServer
    <2> QED BY <1>1, <1>4, <1>5, <2>1, <2>2 DEF CacheInv
  <1> QED BY <1>6, <1>7 DEF CacheInv

LEMMA RedisFailsKeeps ==
    ASSUME CacheInv, NEW r \in Requests, RedisFails(r)
    PROVE  CacheInv'
  <1>1. TaskInv(config, Idle) /\ Idle.pc = "idle"
    BY IdleTask DEF Idle
  <1>2. /\ Goes(r, Idle)
        /\ UNCHANGED <<config, backend, memory, redis, restarts, uses, idleFor>>
    BY DEF RedisFails
  <1> QED BY <1>1, <1>2, OnwardAlone

LEMMA StutterKeeps ==
    ASSUME CacheInv, UNCHANGED vars
    PROVE  CacheInv'
  <1>1. /\ config' = config /\ backend' = backend /\ memory' = memory /\ redis' = redis
        /\ task' = task /\ restarts' = restarts /\ uses' = uses /\ idleFor' = idleFor
    BY DEF vars
  <1> QED BY <1>1 DEF CacheInv, Clean

LEMMA StepHolds == CacheInv /\ [Next]_vars => CacheInv'
  <1> SUFFICES ASSUME CacheInv, [Next]_vars
               PROVE  CacheInv'
    OBVIOUS
  <1>1. CASE Tick
    BY <1>1, TickKeeps
  <1>2. CASE Restart
    BY <1>2, RestartKeeps
  <1>3. ASSUME NEW r \in Requests,
               Submit(r) \/ Look(r) \/ Reply(r) \/ Wake(r) \/ Store(r) \/ RedisFails(r)
        PROVE  CacheInv'
    BY <1>3, SubmitKeeps, LookKeeps, ReplyKeeps, WakeKeeps, StoreKeeps, RedisFailsKeeps
  <1>4. CASE UNCHANGED vars
    BY <1>4, StutterKeeps
  <1> QED BY <1>1, <1>2, <1>3, <1>4 DEF Next

LEMMA CacheAlways == Spec => []CacheInv
  <1>1. Init => CacheInv
    BY InitHolds
  <1>2. CacheInv /\ [Next]_vars => CacheInv'
    BY StepHolds
  <1> QED BY <1>1, <1>2, PTL DEF Spec

-----------------------------------------------------------------------------
(***************************************************************************)
(* The theorems.                                                           *)
(***************************************************************************)
\* The caches, the requests and what is observed of them have their types, and
\* the dictionary's order has each of its keys once (InMemoryTTLCache).
THEOREM Types == Spec => []TypeOK
  <1>1. CacheInv => TypeOK
    <2> SUFFICES ASSUME CacheInv PROVE TypeOK
      OBVIOUS
    <2>1. /\ Dictionary(config, memory, uses) /\ Server(config, backend, redis, idleFor)
          /\ config \in Configs /\ backend \in {"memory", "redis"}
          /\ task \in [Requests -> Task] /\ restarts \in 0..MaxRestarts
      BY DEF CacheInv
    <2>2. /\ memory.order \in Seq(Keys) /\ IsInjective(memory.order)
          /\ memory.value \in [Keys -> Vectors \union {Nothing}]
          /\ memory.left \in [Keys -> Expired..Ttl] /\ uses \in Seq(Keys)
          /\ \A k \in Keys : Contains(memory.order, k) <=> memory.value[k] # Nothing
      BY <2>1 DEF Dictionary, Ordered, Dictionaries
    <2>3. /\ redis.value \in [Keys -> Vectors \union {Nothing}]
          /\ redis.left \in [Keys -> 0..Ttl] /\ idleFor \in [Configs -> 0..Ttl]
      BY <2>1 DEF Server, Servers
    <2> QED BY <2>1, <2>2, <2>3 DEF TypeOK
  <1> QED BY <1>1, CacheAlways, PTL

\* embed_texts returns for each text that text's vector, whatever hits, misses,
\* batches, replies in disorder, evictions, expiries and other requests there
\* were (rag/embeddings.py).
THEOREM EveryTextItsVector == Spec => []ResultsFaithful
  <1>1. CacheInv => ResultsFaithful
    <2> SUFFICES ASSUME CacheInv, NEW r \in Requests, NEW i \in 1..Len(task[r].texts)
                 PROVE  /\ task[r].results[i] = Nothing => task[r].pc # "done"
                        /\ task[r].results[i] # Nothing =>
                              \E c \in Configs :
                                 /\ task[r].results[i] = Vector(c, task[r].texts[i])
                                 /\ Class[c] = Class[config]
                                 /\ task[r].clean => c = config
      BY DEF ResultsFaithful
    <2>1. Matching(config, task[r]) /\ AtWork(task[r])
      BY DEF CacheInv, TaskInv
    <2>2. task[r].results[i] = Nothing => task[r].pc # "done"
      BY <2>1 DEF AtWork
    <2>3. task[r].results[i] # Nothing => Result(config, task[r], i)
      BY <2>1 DEF Matching
    <2> QED BY <2>2, <2>3 DEF Result
  <1> QED BY <1>1, CacheAlways, PTL

\* The dictionary holds this provider's vectors alone, each under its key.  An
\* entry of Redis is its key's vector by some model, and what is left of its time
\* is no more than Ttl less the ticks since that model last had Redis
\* (RedisTTLCache.set_json).
THEOREM EveryKeyItsVector == Spec => []CacheFaithful
  <1>1. CacheInv => CacheFaithful
    <2> SUFFICES ASSUME CacheInv PROVE CacheFaithful
      OBVIOUS
    <2>1. Dictionary(config, memory, uses) /\ Server(config, backend, redis, idleFor)
      BY DEF CacheInv
    <2>2. \A k \in Keys : memory.value[k] # Nothing => Own(config, k, memory.value[k])
      BY <2>1 DEF Dictionary
    <2>3. \A k \in Keys : InRedis(redis, k) => \E c \in Configs : Left(redis, idleFor, k, c)
      BY <2>1 DEF Server
    <2> QED BY <2>2, <2>3 DEF CacheFaithful, Own, Left
  <1> QED BY <1>1, CacheAlways, PTL

\* The dictionary never has more than MaxEntries keys, and they are the ones
\* that get_json hit or set_json wrote last.
THEOREM RecentlyUsedStay == Spec => []KeepsRecentlyUsed
  <1>1. CacheInv => KeepsRecentlyUsed
    <2> SUFFICES ASSUME CacheInv PROVE KeepsRecentlyUsed
      OBVIOUS
    <2>1. /\ Len(memory.order) <= MaxEntries /\ memory.order \in Seq(Keys)
          /\ uses \in Seq(Keys) /\ EndsLike(memory.order, uses)
      BY DEF CacheInv, Dictionary, Ordered, Dictionaries
    <2>2. IsSuffix(memory.order, uses)
      BY <2>1, SuffixFromEnd
    <2> QED BY <2>1, <2>2 DEF KeepsRecentlyUsed
  <1> QED BY <1>1, CacheAlways, PTL

-----------------------------------------------------------------------------
(***************************************************************************)
(* The event loop.                                                         *)
(***************************************************************************)
\* A request that is not at an await is the only one: it can always go on, and
\* no two requests that expect to keep the loop ever wait for each other.
NobodyBlocksTheLoop == \A r \in Requests : ~AtAwait(r) => Runs(r)

LEMMA StepOfRequest ==
    ASSUME CacheInv, NEW r \in Requests, Submit(r) \/ Step(r)
    PROVE  /\ Runs(r) /\ config' = config /\ backend' = backend
           /\ \A s \in Requests \ {r} : task'[s] = task[s]
  <1>1. Runs(r) /\ config' = config /\ backend' = backend
    BY DEF Submit, Step, Look, Reply, Wake, Store, RedisFails
  <1>2. \E t : Goes(r, t)
    BY DEF Submit, Step, Look, Reply, Embedded, Wake, Store, RedisFails
  <1>3. task \in [Requests -> Task]
    BY DEF CacheInv
  <1>4. \A s \in Requests \ {r} : task'[s] = task[s]
    BY <1>2, <1>3 DEF Goes
  <1> QED BY <1>1, <1>4

\* A coroutine keeps the loop from one await to the next: with the dictionary, or
\* with HashEmbeddingProvider, all through a loop of embed_texts.
THEOREM LoopIsFree == Spec => []NobodyBlocksTheLoop
  <1>1. Init => NobodyBlocksTheLoop
    <2> SUFFICES ASSUME Init, NEW r \in Requests PROVE AtAwait(r)
      BY DEF NobodyBlocksTheLoop
    <2>1. task[r].pc = "idle"
      BY DEF Init, Idle
    <2> QED BY <2>1 DEF AtAwait
  <1>2. CacheInv /\ NobodyBlocksTheLoop /\ [Next]_vars => NobodyBlocksTheLoop'
    <2> SUFFICES ASSUME CacheInv, NobodyBlocksTheLoop, [Next]_vars
                 PROVE  NobodyBlocksTheLoop'
      OBVIOUS
    <2>1. ASSUME config' = config, backend' = backend, NEW s \in Requests,
                 task'[s] = task[s], AtAwait(s)
          PROVE  AtAwait(s)'
      BY <2>1 DEF AtAwait
    <2>2. ASSUME config' = config, backend' = backend, task' = task
          PROVE  NobodyBlocksTheLoop'
      BY <2>2 DEF NobodyBlocksTheLoop, Runs, AtAwait
    <2>3. ASSUME NEW r \in Requests, Submit(r) \/ Step(r)
          PROVE  NobodyBlocksTheLoop'
      <3>1. \A s \in Requests \ {r} : AtAwait(s)'
        BY <2>1, <2>3, StepOfRequest DEF Runs
      <3> QED BY <3>1 DEF NobodyBlocksTheLoop, Runs
    <2>4. CASE Restart
      <3>1. \A s \in Requests : task'[s].pc = "idle"
        BY <2>4 DEF Restart, Idle
      <3>2. \A s \in Requests : AtAwait(s)'
        BY <3>1 DEF AtAwait
      <3> QED BY <3>2 DEF NobodyBlocksTheLoop
    <2>5. CASE Tick \/ UNCHANGED vars
      BY <2>2, <2>5 DEF Tick, vars
    <2> QED BY <2>3, <2>4, <2>5 DEF Next, Step
  <1> QED BY <1>1, <1>2, CacheAlways, PTL DEF Spec

-----------------------------------------------------------------------------
(***************************************************************************)
(* How long a request takes.                                               *)
(***************************************************************************)
\* The steps for one batch: a call and a back-off for every attempt.
Tries == 2 * Attempts

\* n texts to look up and m misses: each text takes the look-up, a batch of its
\* own and the storing of its vector, each miss the last two.
ToLook(n, m) == n * (Tries + 2) + m * (Tries + 1)

\* Some calls and back-offs for this batch, k batches after it, m vectors to store.
ToCall(k, calls, m) == k * Tries + calls + m

\* The steps request t has yet to take, at most.
StepsLeft(t) ==
    LET later == Len(t.misses) - Len(t.vectors) - 1
        again == 2 * (Attempts - t.attempt)
    IN CASE t.pc = "looking"  -> ToLook(Len(t.texts) - t.at + 1, Len(t.misses))
         [] t.pc = "calling"  -> ToCall(later, again + 2, Len(t.misses))
         [] t.pc = "sleeping" -> ToCall(later, again + 1, Len(t.misses))
         [] t.pc = "storing"  -> Len(t.misses) - t.at + 1
         [] OTHER             -> 0

\* A call of embed_texts for n texts takes n * (Tries + 2) steps at most.
ShortCalls ==
    \A r \in Requests : Busy(r) =>
        StepsLeft(task[r]) \in 1..ToLook(Len(task[r].texts), 0)

\* Every step of a call leaves it fewer to take, whatever the provider and Redis
\* answer, and nobody else gives it any.
StepsRunOut ==
    [][\A r \in Requests : Busy(r) =>
          IF Step(r) THEN StepsLeft(task'[r]) < StepsLeft(task[r])
                     ELSE task'[r] \in {task[r], Idle}]_vars

LEMMA TriesFacts == Attempts \in Nat \ {0} /\ Tries = 2 * Attempts /\ Tries \in Nat
  BY EmbeddingConfig DEF Tries

LEMMA Product ==
    ASSUME NEW x \in Nat, NEW n \in Nat
    PROVE  x * n \in Nat /\ (x + 1) * n = x * n + n
  OBVIOUS

LEMMA ToLookFacts ==
    ASSUME NEW n \in Nat, NEW m \in Nat
    PROVE  /\ ToLook(n, m) \in Nat
           /\ ToLook(n, m) < ToLook(n + 1, m)
           /\ ToLook(n, m + 1) < ToLook(n + 1, m)
  <1> DEFINE a == Tries + 2
             b == Tries + 1
             x == n * a
             y == m * b
  <1>1. a \in Nat /\ b \in Nat /\ a = b + 1
    BY TriesFacts
  <1>2. /\ ToLook(n, m) = x + y /\ ToLook(n + 1, m) = (n + 1) * a + y
        /\ ToLook(n, m + 1) = x + (m + 1) * b
    BY DEF ToLook
  <1> HIDE DEF a, b
  <1>3. x \in Nat /\ (n + 1) * a = x + a
    BY <1>1, Product
  <1>4. y \in Nat /\ (m + 1) * b = y + b
    BY <1>1, Product
  <1> HIDE DEF x, y
  <1>5. /\ ToLook(n, m) = x + y /\ ToLook(n + 1, m) = (x + a) + y
        /\ ToLook(n, m + 1) = x + (y + b)
    BY <1>2, <1>3, <1>4
  <1> QED BY <1>1, <1>3, <1>4, <1>5

LEMMA ToCallFacts ==
    ASSUME NEW k \in Nat, NEW calls \in Nat \ {0}, NEW m \in Nat
    PROVE  /\ ToCall(k, calls, m) \in Nat
           /\ m < ToCall(k, calls, m)
           /\ ToCall(k, calls, m) < ToCall(k, calls + 1, m)
           /\ \A j \in 0..(k - 1) : ToCall(j, Tries, m) < ToCall(k, calls, m)
  <1> DEFINE x == k * Tries
  <1>1. Tries \in Nat /\ x \in Nat
    BY TriesFacts, Product
  <1>2. ToCall(k, calls, m) = x + calls + m /\ ToCall(k, calls + 1, m) = x + (calls + 1) + m
    BY DEF ToCall
  <1>3. ASSUME NEW j \in 0..(k - 1)
        PROVE  ToCall(j, Tries, m) < ToCall(k, calls, m)
    <2> DEFINE y == j * Tries
               d == k - (j + 1)
               z == d * Tries
    <2>1. j \in Nat /\ d \in Nat /\ k = (j + 1) + d
      BY <1>3
    <2>2. y \in Nat /\ (j + 1) * Tries = y + Tries /\ z \in Nat
      BY <1>1, <2>1, Product
    <2> HIDE DEF d
    <2>3. x = (j + 1) * Tries + z
      BY <1>1, <2>1
    <2>4. ToCall(j, Tries, m) = y + Tries + m
      BY DEF ToCall
    <2> HIDE DEF x, y, z
    <2> QED BY <1>1, <1>2, <2>2, <2>3, <2>4
  <1> HIDE DEF x
  <1> QED BY <1>1, <1>2, <1>3

\* When all texts are looked up and k + 1 of them missed.
LEMMA FirstCall ==
    ASSUME NEW k \in Nat
    PROVE  ToCall(k, Tries, k + 1) = ToLook(0, k + 1)
  <1>1. k * Tries \in Nat /\ k * (Tries + 1) \in Nat /\ k * (Tries + 1) = k * Tries + k
    BY TriesFacts, Product
  <1>2. (k + 1) * (Tries + 1) = k * (Tries + 1) + (Tries + 1)
    BY TriesFacts, Product
  <1>3. /\ ToLook(0, k + 1) = (k + 1) * (Tries + 1)
        /\ ToCall(k, Tries, k + 1) = k * Tries + Tries + (k + 1)
    BY TriesFacts, <1>1, <1>2 DEF ToLook, ToCall
  <1> QED BY TriesFacts, <1>1, <1>2, <1>3

\* A request at work has steps to take; another one has none.
LEMMA StepsLeftFacts ==
    ASSUME NEW c, NEW t, TaskInv(c, t)
    PROVE  /\ StepsLeft(t) \in Nat
           /\ t.pc \notin {"idle", "done"} => StepsLeft(t) > 0
           /\ t.pc \in {"idle", "done"} => StepsLeft(t) = 0
  <1>1. /\ Len(t.texts) \in Nat /\ Len(t.misses) \in Nat /\ Len(t.vectors) \in Nat
        /\ t.at \in Nat /\ t.attempt \in 0..Attempts /\ Attempts \in Nat
        /\ t.pc \in {"idle", "looking", "calling", "sleeping", "storing", "done"}
    BY TaskTypes DEF TaskInv, Task
  <1>2. CASE t.pc = "looking"
    <2>1. t.at \in 1..Len(t.texts)
      BY <1>2 DEF TaskInv, AtWork
    <2>2. Len(t.texts) - t.at \in Nat
      BY <1>1, <2>1
    <2>3. StepsLeft(t) = ToLook(Len(t.texts) - t.at + 1, Len(t.misses))
      BY <1>2 DEF StepsLeft
    <2>4. /\ ToLook(Len(t.texts) - t.at, Len(t.misses)) \in Nat
          /\ ToLook(Len(t.texts) - t.at, Len(t.misses)) < StepsLeft(t)
      BY <1>1, <2>2, <2>3, ToLookFacts
    <2>5. StepsLeft(t) \in Nat
      <3>1. Len(t.texts) - t.at + 1 \in Nat
        BY <2>2
      <3> QED BY <1>1, <2>3, <3>1, ToLookFacts
    <2> QED BY <1>2, <2>4, <2>5
  <1>3. CASE t.pc \in {"calling", "sleeping"}
    <2> DEFINE k == Len(t.misses) - Len(t.vectors) - 1
               more == 2 * (Attempts - t.attempt)
    <2>1. k \in Nat /\ more \in Nat
      BY <1>1, <1>3 DEF TaskInv, AtWork
    <2>2. \/ StepsLeft(t) = ToCall(k, more + 2, Len(t.misses))
          \/ StepsLeft(t) = ToCall(k, more + 1, Len(t.misses))
      BY <1>3 DEF StepsLeft
    <2> HIDE DEF k, more
    <2>3. more + 2 \in Nat \ {0} /\ more + 1 \in Nat \ {0}
      BY <2>1
    <2>4. \A calls \in Nat \ {0} : /\ ToCall(k, calls, Len(t.misses)) \in Nat
                                   /\ Len(t.misses) < ToCall(k, calls, Len(t.misses))
      BY <1>1, <2>1, ToCallFacts
    <2>5. StepsLeft(t) \in Nat /\ Len(t.misses) < StepsLeft(t)
      BY <2>2, <2>3, <2>4
    <2> QED BY <1>1, <1>3, <2>5
  <1>4. CASE t.pc = "storing"
    <2>1. t.at \in 1..Len(t.misses)
      BY <1>4 DEF TaskInv, AtWork
    <2> QED BY <1>1, <1>4, <2>1 DEF StepsLeft
  <1>5. CASE t.pc \in {"idle", "done"}
    BY <1>5 DEF StepsLeft
  <1> QED BY <1>1, <1>2, <1>3, <1>4, <1>5

\* get_json: one text fewer, and a miss more at most.
LEMMA LookedShortens ==
    ASSUME NEW c, NEW t, TaskInv(c, t), t.pc = "looking", NEW cached,
           TaskInv(c, Looked(t, cached))
    PROVE  /\ StepsLeft(Looked(t, cached)) < StepsLeft(t)
           /\ Looked(t, cached).texts = t.texts
  <1> DEFINE n == Len(t.texts)
             m == Len(t.misses)
             got == Got(t, cached)
             g == Looked(t, cached)
             l == Len(g.misses)
  <1>1. /\ t \in Task /\ t.at \in 1..n /\ t.vectors = <<>> /\ n \in Nat /\ m \in Nat
        /\ t.misses \in Seq(Nat \ {0}) /\ t.at \in Nat \ {0}
    BY TaskTypes DEF TaskInv, AtWork
  <1>2. g = CASE t.at < n -> [got EXCEPT !.at = @ + 1]
              [] t.at = n /\ got.misses = <<>> -> [got EXCEPT !.pc = "done"]
              [] OTHER -> [got EXCEPT !.pc = "calling", !.attempt = 1]
    BY DEF Looked, Got
  <1>3. /\ got.texts = t.texts /\ got.vectors = <<>> /\ got.at = t.at /\ got.pc = "looking"
        /\ DOMAIN got = DOMAIN t
        /\ Len(got.misses) \in {m, m + 1}
    <2>1. Len(Append(t.misses, t.at)) = m + 1
      BY <1>1, AppendProperties
    <2> QED BY <1>1, <2>1 DEF Got, Task
  <1>4. DOMAIN t = {"pc", "texts", "at", "results", "misses", "vectors", "attempt", "clean"}
    BY <1>1 DEF Task
  <1> HIDE DEF g, n, m, got
  <1>5. \/ t.at < n /\ g = [got EXCEPT !.at = t.at + 1]
        \/ t.at = n /\ g = [got EXCEPT !.pc = "done"]
        \/ t.at = n /\ g = [got EXCEPT !.pc = "calling", !.attempt = 1]
    BY <1>1, <1>2, <1>3
  <1>6. /\ g.texts = t.texts /\ l \in {m, m + 1} /\ g.vectors = <<>>
        /\ \/ t.at < n /\ g.pc = "looking" /\ g.at = t.at + 1
           \/ t.at = n /\ g.pc = "done"
           \/ t.at = n /\ g.pc = "calling" /\ g.attempt = 1
    BY <1>3, <1>4, <1>5
  <1> DEFINE rest == n - t.at
  <1>7. rest \in Nat /\ (t.at = n => rest = 0) /\ n - (t.at + 1) + 1 = rest
    BY <1>1
  <1>8. StepsLeft(t) = ToLook(rest + 1, m)
    BY DEF StepsLeft, n, m
  <1> HIDE DEF rest
  <1>9. ToLook(rest, l) \in Nat /\ ToLook(rest, l) < StepsLeft(t) /\ StepsLeft(t) \in Nat
    <2>1. /\ ToLook(rest, m) < ToLook(rest + 1, m) /\ ToLook(rest, m + 1) < ToLook(rest + 1, m)
          /\ ToLook(rest, m) \in Nat
      BY <1>1, <1>7, ToLookFacts
    <2>2. rest + 1 \in Nat /\ m + 1 \in Nat
      BY <1>1, <1>7
    <2>3. ToLook(rest + 1, m) \in Nat /\ ToLook(rest, m + 1) \in Nat
      BY <1>1, <1>7, <2>2, ToLookFacts
    <2> QED BY <1>6, <1>8, <2>1, <2>3
  <1> HIDE DEF l
  <1>10. StepsLeft(g) <= ToLook(rest, l)
    <2>1. CASE g.pc = "looking" /\ g.at = t.at + 1
      <3>1. StepsLeft(g) = ToLook(n - (t.at + 1) + 1, l)
        BY <1>6, <2>1 DEF StepsLeft, n, l
      <3> QED BY <1>7, <1>9, <3>1
    <2>2. CASE g.pc = "done"
      BY <1>9, <2>2 DEF StepsLeft
    <2>3. CASE t.at = n /\ g.pc = "calling" /\ g.attempt = 1
      <3>1. l \in Nat \ {0}
        BY <1>1, <1>6, <2>3 DEF TaskInv, AtWork, g, l
      <3>2. StepsLeft(g) = ToCall(l - 0 - 1, 2 * (Attempts - 1) + 2, l)
        BY <1>6, <2>3 DEF StepsLeft, l
      <3>3. 2 * (Attempts - 1) + 2 = Tries /\ l - 0 - 1 = l - 1 /\ l - 1 \in Nat /\ (l - 1) + 1 = l
        BY <3>1, TriesFacts
      <3>4. ToCall(l - 1, Tries, l) = ToLook(0, l)
        BY <3>3, FirstCall
      <3> QED BY <1>7, <1>9, <2>3, <3>2, <3>3, <3>4
    <2> QED BY <1>6, <2>1, <2>2, <2>3
  <1>11. StepsLeft(g) \in Nat
    BY StepsLeftFacts DEF g
  <1> QED BY <1>6, <1>9, <1>10, <1>11 DEF g

\* Vectors for a batch: one batch fewer to come, or only storing left.
LEMMA FurtherShortens ==
    ASSUME NEW c, NEW t, TaskInv(c, t), t.pc = "calling", NEW g, TaskInv(c, g), Further(t, g)
    PROVE  StepsLeft(g) < StepsLeft(t)
  <1> DEFINE m == Len(t.misses)
             k == m - Len(t.vectors) - 1
             calls == 2 * (Attempts - t.attempt) + 2
  <1>1. /\ m \in Nat /\ k \in Nat /\ calls \in Nat \ {0} /\ g.misses = t.misses
        /\ Len(t.vectors) \in Nat /\ Len(g.vectors) \in Nat
    <2>1. /\ t \in Task /\ g \in Task /\ g.misses = t.misses
          /\ Len(t.vectors) < m /\ t.attempt \in 1..Attempts
      BY DEF TaskInv, AtWork, Further
    <2>2. /\ m \in Nat /\ Len(t.vectors) \in Nat /\ Len(g.vectors) \in Nat /\ Attempts \in Nat
      BY <2>1, TaskTypes
    <2> QED BY <2>1, <2>2
  <1>2. StepsLeft(t) = ToCall(k, calls, m)
    BY DEF StepsLeft
  <1>3. CASE g.pc = "calling" /\ g.attempt = 1 /\ Len(g.vectors) > Len(t.vectors)
    <2> DEFINE j == m - Len(g.vectors) - 1
    <2>1. Len(g.vectors) < m
      BY <1>1, <1>3 DEF TaskInv, AtWork
    <2>2. j \in 0..(k - 1)
      <3>1. \A x, e, d \in Nat : d < e /\ e < x => x - e - 1 \in 0..(x - d - 1 - 1)
        OBVIOUS
      <3> QED BY <1>1, <1>3, <2>1, <3>1
    <2>3. StepsLeft(g) = ToCall(j, 2 * (Attempts - 1) + 2, m) /\ 2 * (Attempts - 1) + 2 = Tries
      BY <1>1, <1>3, TriesFacts DEF StepsLeft
    <2> HIDE DEF j, k, m, calls
    <2> QED BY <1>1, <1>2, <2>2, <2>3, ToCallFacts
  <1>4. CASE g.pc = "storing" /\ g.at = 1
    <2>1. StepsLeft(g) = m
      BY <1>1, <1>4 DEF StepsLeft
    <2> HIDE DEF k, m, calls
    <2> QED BY <1>1, <1>2, <2>1, ToCallFacts
  <1> QED BY <1>3, <1>4 DEF Further

\* A request that fails.
LEMMA IdleShortens ==
    ASSUME NEW c, NEW t, TaskInv(c, t), t.pc \notin {"idle", "done"}
    PROVE  StepsLeft(Idle) < StepsLeft(t)
  <1>1. StepsLeft(Idle) = 0
    BY DEF StepsLeft, Idle
  <1> QED BY <1>1, StepsLeftFacts

\* A back-off, and the attempt after it.
LEMMA RetryShortens ==
    ASSUME NEW c, NEW t, TaskInv(c, t)
    PROVE  /\ t.pc = "calling" => StepsLeft([t EXCEPT !.pc = "sleeping"]) < StepsLeft(t)
           /\ t.pc = "sleeping" /\ t.attempt < Attempts =>
                 StepsLeft([t EXCEPT !.pc = "calling", !.attempt = @ + 1]) < StepsLeft(t)
  <1> DEFINE m == Len(t.misses)
             k == m - Len(t.vectors) - 1
             more == 2 * (Attempts - t.attempt)
  <1>1. t \in Task /\ m \in Nat /\ Len(t.vectors) \in Nat /\ t.attempt \in Nat /\ Attempts \in Nat
    BY TaskTypes, TriesFacts DEF TaskInv
  <1>2. CASE t.pc = "calling"
    <2> DEFINE g == [t EXCEPT !.pc = "sleeping"]
    <2>1. /\ g.pc = "sleeping" /\ g.misses = t.misses /\ g.vectors = t.vectors
          /\ g.attempt = t.attempt
      BY <1>1 DEF Task
    <2> HIDE DEF g
    <2>2. /\ StepsLeft(g) = ToCall(k, more + 1, m)
          /\ StepsLeft(t) = ToCall(k, more + 2, m)
      BY <1>2, <2>1 DEF StepsLeft
    <2>3. k \in Nat /\ more + 1 \in Nat \ {0} /\ more + 2 = (more + 1) + 1
      BY <1>1, <1>2 DEF TaskInv, AtWork
    <2> HIDE DEF k, m, more
    <2>4. ToCall(k, more + 1, m) < ToCall(k, (more + 1) + 1, m)
      BY <1>1, <2>3, ToCallFacts
    <2> QED BY <1>2, <2>2, <2>3, <2>4 DEF g
  <1>3. CASE t.pc = "sleeping" /\ t.attempt < Attempts
    <2> DEFINE g == [t EXCEPT !.pc = "calling", !.attempt = @ + 1]
    <2>1. /\ g.pc = "calling" /\ g.misses = t.misses /\ g.vectors = t.vectors
          /\ g.attempt = t.attempt + 1
      BY <1>1 DEF Task
    <2> HIDE DEF g
    <2>2. /\ StepsLeft(g) = ToCall(k, 2 * (Attempts - (t.attempt + 1)) + 2, m)
          /\ StepsLeft(t) = ToCall(k, more + 1, m)
      BY <1>3, <2>1 DEF StepsLeft
    <2>3. k \in Nat /\ more \in Nat \ {0} /\ 2 * (Attempts - (t.attempt + 1)) + 2 = more
      BY <1>1, <1>3 DEF TaskInv, AtWork
    <2> HIDE DEF k, m, more
    <2>4. ToCall(k, more, m) < ToCall(k, more + 1, m)
      BY <1>1, <2>3, ToCallFacts
    <2> QED BY <1>3, <2>2, <2>3, <2>4 DEF g
  <1> QED BY <1>2, <1>3

\* set_json: one vector fewer.
LEMMA StoredShortens ==
    ASSUME NEW c, NEW t, TaskInv(c, t), t.pc = "storing"
    PROVE  StepsLeft(Stored(t)) < StepsLeft(t) /\ Stored(t).texts = t.texts
  <1> DEFINE m == Len(t.misses)
             results == [t.results EXCEPT ![t.misses[t.at]] = t.vectors[t.at]]
             done == [t EXCEPT !.results = results]
  <1>1. t \in Task /\ m \in Nat /\ t.at \in 1..m /\ t.at \in Nat
    BY TaskTypes DEF TaskInv, AtWork
  <1>2. StepsLeft(t) = m - t.at + 1
    BY DEF StepsLeft
  <1>3. Stored(t) = IF t.at < m THEN [done EXCEPT !.at = @ + 1] ELSE [done EXCEPT !.pc = "done"]
    BY DEF Stored
  <1> HIDE DEF results
  <1>4. CASE t.at < m
    <2>1. /\ Stored(t).pc = "storing" /\ Stored(t).at = t.at + 1
          /\ Stored(t).misses = t.misses /\ Stored(t).texts = t.texts
      BY <1>1, <1>3, <1>4 DEF Task
    <2>2. StepsLeft(Stored(t)) = m - (t.at + 1) + 1
      BY <2>1 DEF StepsLeft
    <2> QED BY <1>1, <1>2, <2>1, <2>2
  <1>5. CASE ~(t.at < m)
    <2>1. Stored(t).pc = "done" /\ Stored(t).texts = t.texts
      BY <1>1, <1>3, <1>5 DEF Task
    <2>2. StepsLeft(Stored(t)) = 0
      BY <2>1 DEF StepsLeft
    <2> QED BY <1>1, <1>2, <2>1, <2>2
  <1> QED BY <1>4, <1>5

\* One step of a request at work.
LEMMA StepShortens ==
    ASSUME CacheInv, CacheInv', NEW r \in Requests, Step(r)
    PROVE  /\ Busy(r)
           /\ StepsLeft(task'[r]) < StepsLeft(task[r])
           /\ task'[r] = Idle \/ task'[r].texts = task[r].texts
  <1> DEFINE t == task[r]
  <1>1. /\ config \in Configs /\ TaskInv(config, t) /\ t \in Task
        /\ task \in [Requests -> Task]
        /\ \A g : Goes(r, g) => task'[r] = g
    BY DEF CacheInv, TaskInv, Goes
  <1>2. t.pc \notin {"idle", "done"}
    BY DEF Step, Look, Reply, Wake, Store, RedisFails
  <1>3. config' = config /\ TaskInv(config', task'[r])
    BY StepOfRequest DEF CacheInv
  <1>4. CASE Goes(r, Idle)
    BY <1>1, <1>2, <1>4, IdleShortens DEF Busy
  <1>5. CASE Look(r)
    <2>1. PICK cached : Goes(r, Looked(t, cached))
      BY <1>5 DEF Look
    <2>2. task'[r] = Looked(t, cached) /\ t.pc = "looking"
      BY <1>1, <1>5, <2>1 DEF Look
    <2> QED BY <1>1, <1>2, <1>3, <2>2, LookedShortens DEF Busy
  <1>6. CASE t.pc = "calling" /\ Embedded(r)
    <2>1. PICK g : Goes(r, g) /\ TaskInv(config, g) /\ Further(t, g)
      BY <1>1, <1>6, EmbeddedKeeps
    <2>2. StepsLeft(g) < StepsLeft(t) /\ g.texts = t.texts
      BY <1>1, <1>6, <2>1, FurtherShortens DEF Further
    <2> QED BY <1>1, <1>2, <2>1, <2>2 DEF Busy
  <1>7. CASE t.pc = "calling" /\ Goes(r, [t EXCEPT !.pc = "sleeping"])
    <2>1. [t EXCEPT !.pc = "sleeping"].texts = t.texts
      BY <1>1 DEF Task
    <2> QED BY <1>1, <1>2, <1>7, <2>1, RetryShortens DEF Busy
  <1>8. CASE /\ t.pc = "sleeping" /\ t.attempt < Attempts
             /\ Goes(r, [t EXCEPT !.pc = "calling", !.attempt = @ + 1])
    <2>1. [t EXCEPT !.pc = "calling", !.attempt = @ + 1].texts = t.texts
      BY <1>1 DEF Task
    <2> QED BY <1>1, <1>2, <1>8, <2>1, RetryShortens DEF Busy
  <1>9. CASE t.pc = "storing" /\ Goes(r, Stored(t))
    BY <1>1, <1>2, <1>9, StoredShortens DEF Busy
  <1> QED BY <1>4, <1>5, <1>6, <1>7, <1>8, <1>9
          DEF Step, Reply, Wake, Store, RedisFails

LEMMA OtherSteps ==
    ASSUME CacheInv, [Next]_vars, NEW r \in Requests, ~Step(r)
    PROVE  \/ task'[r] = task[r]
           \/ task'[r] = Idle
           \/ ~Busy(r) /\ \E texts \in Asks[r] : task'[r] = Start(texts, Clean)
  <1>1. task \in [Requests -> Task]
    BY DEF CacheInv
  <1>2. ASSUME NEW s \in Requests, s # r, Submit(s) \/ Step(s)
        PROVE  task'[r] = task[r]
    BY <1>2, StepOfRequest
  <1>3. CASE Submit(r)
    BY <1>1, <1>3 DEF Submit, Goes
  <1>4. CASE Restart
    BY <1>4 DEF Restart
  <1>5. CASE Tick \/ UNCHANGED vars
    BY <1>5 DEF Tick, vars
  <1> QED BY <1>2, <1>3, <1>4, <1>5 DEF Next, Step

\* embed_texts returns or raises after a bounded number of steps of its own,
\* though the provider may fail at every one of them.
THEOREM CallsAreFinite == Spec => []ShortCalls /\ StepsRunOut
  <1>1. Init => ShortCalls
    <2> SUFFICES ASSUME Init, NEW r \in Requests PROVE ~Busy(r)
      BY DEF ShortCalls
    <2>1. task[r].pc = "idle"
      BY DEF Init, Idle
    <2> QED BY <2>1 DEF Busy
  <1>2. CacheInv /\ CacheInv' /\ ShortCalls /\ [Next]_vars => ShortCalls'
    <2> SUFFICES ASSUME CacheInv, CacheInv', ShortCalls, [Next]_vars, NEW r \in Requests,
                        Busy(r)'
                 PROVE  StepsLeft(task'[r]) \in 1..ToLook(Len(task'[r].texts), 0)
      BY DEF ShortCalls
    <2>1. task'[r] # Idle
      BY DEF Busy, Idle
    <2>2. StepsLeft(task'[r]) \in Nat \ {0}
      <3>1. TaskInv(config', task'[r]) /\ task'[r].pc \notin {"idle", "done"}
        BY DEF CacheInv, Busy
      <3> QED BY <3>1, StepsLeftFacts
    <2>3. CASE Step(r)
      <3>1. /\ Busy(r) /\ StepsLeft(task'[r]) < StepsLeft(task[r])
            /\ task'[r].texts = task[r].texts
        BY <2>1, <2>3, StepShortens
      <3>2. StepsLeft(task[r]) \in 1..ToLook(Len(task[r].texts), 0)
        BY <3>1 DEF ShortCalls
      <3>3. ToLook(Len(task[r].texts), 0) \in Nat
        BY TaskTypes, ToLookFacts DEF CacheInv, TaskInv
      <3> QED BY <2>2, <3>1, <3>2, <3>3
    <2>4. CASE task'[r] = task[r]
      BY <2>4 DEF ShortCalls, Busy
    <2>5. ASSUME NEW texts \in Asks[r], task'[r] = Start(texts, Clean)
          PROVE  StepsLeft(task'[r]) \in 1..ToLook(Len(task'[r].texts), 0)
      <3>1. texts \in Seq(Texts) /\ Len(texts) \in Nat
        BY EmbeddingConfig
      <3>2. /\ task'[r].pc = "looking" /\ task'[r].texts = texts /\ task'[r].at = 1
            /\ task'[r].misses = <<>>
        BY <2>5 DEF Start
      <3>3. StepsLeft(task'[r]) = ToLook(Len(texts) - 1 + 1, 0)
        BY <3>2 DEF StepsLeft
      <3>4. Len(texts) - 1 + 1 = Len(texts) /\ ToLook(Len(texts), 0) \in Nat
        BY <3>1, ToLookFacts
      <3> QED BY <2>2, <3>2, <3>3, <3>4
    <2> QED BY <2>1, <2>3, <2>4, <2>5, OtherSteps
  <1>3. CacheInv /\ CacheInv' /\ [Next]_vars =>
           [\A r \in Requests : Busy(r) =>
              IF Step(r) THEN StepsLeft(task'[r]) < StepsLeft(task[r])
                         ELSE task'[r] \in {task[r], Idle}]_vars
    <2> SUFFICES ASSUME CacheInv, CacheInv', [Next]_vars, NEW r \in Requests, Busy(r)
                 PROVE  IF Step(r) THEN StepsLeft(task'[r]) < StepsLeft(task[r])
                                   ELSE task'[r] \in {task[r], Idle}
      OBVIOUS
    <2> QED BY StepShortens, OtherSteps
  <1> QED BY <1>1, <1>2, <1>3, CacheAlways, PTL DEF Spec, StepsRunOut

=============================================================================
