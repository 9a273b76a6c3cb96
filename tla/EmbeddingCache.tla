--------------------------- MODULE EmbeddingCache ---------------------------
(***************************************************************************)
(* CachedEmbeddingProvider.embed_texts (rag/embeddings.py), called by      *)
(* several requests at once over one cache, in a service that is restarted *)
(* now and then with other settings.                                       *)
(*                                                                         *)
(* The cache is chosen at start-up (create_cache): Redis if it answers the *)
(* ping, else a dictionary of the process.  With the dictionary a request  *)
(* keeps the event loop while it looks its texts up and while it stores    *)
(* vectors; with Redis it may lose it, and may fail, at every access.      *)
(*                                                                         *)
(* Abstraction: a vector is the configuration of the provider that made it *)
(* and the text; a reply of the provider is what the retry loop makes of   *)
(* its status.                                                             *)
(***************************************************************************)
EXTENDS TtlCache

CONSTANTS
    Requests,   \* calls of embed_texts at the same time
    Texts,
    Asks,       \* request -> the lists of texts it may ask for
    Configs,    \* settings of the embedding provider: class, model, dimensions
    Local,      \* those of HashEmbeddingProvider, which computes at once
    Class,      \* configuration -> what _cache_key shows of it: the provider's
                \* class and the dimensions
    Attempts,   \* _RETRY_ATTEMPTS
    MaxBatch,   \* settings.openai_embedding_max_batch
    MaxRestarts \* bound: how often the process is started again

ASSUME EmbeddingConfig ==
    /\ Asks \in [Requests -> SUBSET (Seq(Texts) \ {<<>>})]
    /\ Local \subseteq Configs
    /\ DOMAIN Class = Configs
    /\ Attempts \in Nat \ {0}
    /\ MaxBatch \in Nat \ {0}
    /\ MaxRestarts \in Nat

Vector(c, text) == <<c, text>>
Vectors         == Configs \X Texts

\* _cache_key: neither the model nor the provider's address is part of it.
Key(c, text) == <<Class[c], text>>
Keys         == {Key(c, text) : c \in Configs, text \in Texts}

ASSUME NothingIsNoVector == Nothing \notin Vectors

VARIABLES
    config,     \* the running process's settings
    backend,    \* "memory" or "redis"
    memory,     \* the process's InMemoryTTLCache
    redis,      \* what the Redis server holds
    task,       \* what each request is doing
    restarts,   \* how often the process was started again
    uses,       \* observed: keys of the dictionary by their last use
    idleFor     \* observed: ticks since a process with these settings last had
                \* Redis, up to Ttl

vars == <<config, backend, memory, redis, task, restarts, uses, idleFor>>

-----------------------------------------------------------------------------
\* The local variables of embed_texts.  at is the place in texts (looking) or in
\* misses (storing); vectors are those the provider delivered so far; attempt
\* counts calls for the current batch.  clean marks a request that started when
\* no other model of the same class can have left vectors in Redis.
Idle == [pc |-> "idle", texts |-> <<>>, at |-> 0, results |-> <<>>,
         misses |-> <<>>, vectors |-> <<>>, attempt |-> 0, clean |-> TRUE]

Start(texts, clean) ==
    [pc |-> "looking", texts |-> texts, at |-> 1,
     results |-> [i \in 1..Len(texts) |-> Nothing],
     misses |-> <<>>, vectors |-> <<>>, attempt |-> 0, clean |-> clean]

Busy(r) == task[r].pc \notin {"idle", "done"}

\* A request at a point where it may lose the event loop.
AtAwait(r) ==
    CASE task[r].pc \in {"looking", "storing"} -> backend = "redis"
      [] task[r].pc = "calling"                -> config \notin Local
      [] OTHER                                 -> TRUE

Runs(r) == \A s \in Requests \ {r} : AtAwait(s)

\* No entry of Redis that this process can find is another model's.
Clean ==
    \/ backend = "memory"
    \/ \A c \in Configs \ {config} :
          Class[c] = Class[config] => idleFor[c] = Ttl

Goes(r, t) == task' = [task EXCEPT ![r] = t]

Init ==
    /\ config \in Configs
    /\ backend \in {"memory", "redis"}
    /\ memory = EmptyMemory(Keys)
    /\ redis = EmptyRedis(Keys)
    /\ task = [r \in Requests |-> Idle]
    /\ restarts = 0
    /\ uses = <<>>
    /\ idleFor = [c \in Configs |->
                    IF c = config /\ backend = "redis" THEN 0 ELSE Ttl]

-----------------------------------------------------------------------------
\* embed_query and ingest_document.
Submit(r) ==
    /\ ~Busy(r)
    /\ Runs(r)
    /\ \E texts \in Asks[r] : Goes(r, Start(texts, Clean))
    /\ UNCHANGED <<config, backend, memory, redis, restarts, uses,
                   idleFor>>

\* The loop over the texts, one get_json: a hit is a result, a miss is noted.
Looked(t, cached) ==
    LET got == IF cached = Nothing
               THEN [t EXCEPT !.misses = Append(@, t.at)]
               ELSE [t EXCEPT !.results = [@ EXCEPT ![t.at] = cached]]
    IN CASE t.at < Len(t.texts) -> [got EXCEPT !.at = @ + 1]
         [] t.at = Len(t.texts) /\ got.misses = <<>> -> [got EXCEPT !.pc = "done"]
         [] OTHER -> [got EXCEPT !.pc = "calling", !.attempt = 1]

Look(r) ==
    LET t == task[r]
        k == Key(config, t.texts[t.at])
    IN
    /\ t.pc = "looking"
    /\ Runs(r)
    /\ \/ /\ backend = "memory"
          /\ Goes(r, Looked(t, IF InMemory(memory, k) THEN memory.value[k]
                                                      ELSE Nothing))
          /\ uses' = IF InMemory(memory, k) THEN MoveToEnd(uses, k)
                                            ELSE Drop(uses, k)
          /\ memory' = MemoryGet(memory, k)
       \/ /\ backend = "redis"
          /\ Goes(r, Looked(t, IF InRedis(redis, k) THEN redis.value[k]
                                                    ELSE Nothing))
          /\ UNCHANGED <<memory, uses>>
    /\ UNCHANGED <<config, backend, redis, restarts, idleFor>>

-----------------------------------------------------------------------------
\* The misses of the batch that is being embedded.  HashEmbeddingProvider has
\* no batches.
Batch(t) ==
    LET from == Len(t.vectors) + 1
        upTo == IF config \in Local THEN Len(t.misses)
                ELSE Min({Len(t.vectors) + MaxBatch, Len(t.misses)})
    IN SubSeq(t.misses, from, upTo)

\* Mutant: the items are taken as they come.
Sorted_AsTheyCome(items) == [i \in DOMAIN items |-> items[i].embedding]

\* sorted(data["data"], key=index): indices number the texts of the batch.
Sorted(items) ==
    [i \in DOMAIN items |->
       (CHOOSE item \in Range(items) : item.index = i).embedding]

\* Orders in which n items may come.
Arrivals(n) == {p \in [1..n -> 1..n] : IsInjective(p)}

\* The items of the answer for a batch, in the order in which they come.
Items(t, arrival) ==
    LET batch == Batch(t)
    IN [j \in 1..Len(batch) |->
          [index     |-> arrival[j],
           embedding |-> Vector(config, t.texts[batch[arrival[j]]])]]

\* On to the next batch or, after the last one, to storing what came.
Extended(t, vectors) ==
    IF Len(vectors) < Len(t.misses)
    THEN [t EXCEPT !.vectors = vectors, !.attempt = 1]
    ELSE [t EXCEPT !.vectors = vectors, !.pc = "storing", !.attempt = 0, !.at = 1]

\* The batch is embedded.
Embedded(r) ==
    LET t == task[r]
    IN \E arrival \in Arrivals(Len(Batch(t))) :
          Goes(r, Extended(t, t.vectors \o Sorted(Items(t, arrival))))

\* The call for the batch ends: with its vectors, with a status that is worth
\* another attempt (or a time-out, or no connection), or with another one.
Reply(r) ==
    /\ task[r].pc = "calling"
    /\ Runs(r)
    /\ \/ Embedded(r)
       \/ config \notin Local /\ Goes(r, [task[r] EXCEPT !.pc = "sleeping"])
       \/ config \notin Local /\ Goes(r, Idle)
    /\ UNCHANGED <<config, backend, memory, redis, restarts, uses,
                   idleFor>>

\* Mutant: attempts are not counted.
Wake_Forever(r) ==
    /\ task[r].pc = "sleeping"
    /\ Runs(r)
    /\ Goes(r, [task[r] EXCEPT !.pc = "calling"])
    /\ UNCHANGED <<config, backend, memory, redis, restarts, uses,
                   idleFor>>

\* The back-off is over.  It is also waited for after the last attempt, and only
\* then is the error raised.
Wake(r) ==
    /\ task[r].pc = "sleeping"
    /\ Runs(r)
    /\ Goes(r, IF task[r].attempt < Attempts
               THEN [task[r] EXCEPT !.pc = "calling", !.attempt = @ + 1]
               ELSE Idle)
    /\ UNCHANGED <<config, backend, memory, redis, restarts, uses,
                   idleFor>>

-----------------------------------------------------------------------------
\* The loop over misses and vectors, one set_json.
Stored(t) ==
    LET done == [t EXCEPT !.results =
                   [@ EXCEPT ![t.misses[t.at]] = t.vectors[t.at]]]
    IN IF t.at < Len(t.misses) THEN [done EXCEPT !.at = @ + 1]
       ELSE [done EXCEPT !.pc = "done"]

\* Mutant: misses and texts are numbered alike.
MissKey_ByPlace(t) == Key(config, t.texts[t.at])

\* A miss keeps its key until its vector comes.
MissKey(t) == Key(config, t.texts[t.misses[t.at]])

Store(r) ==
    LET t == task[r]
        k == MissKey(t)
        v == t.vectors[t.at]
    IN
    /\ t.pc = "storing"
    /\ Runs(r)
    /\ Goes(r, Stored(t))
    /\ \/ /\ backend = "memory"
          /\ memory' = MemorySet(memory, k, v)
          /\ uses' = MoveToEnd(uses, k)
          /\ UNCHANGED redis
       \/ /\ backend = "redis"
          /\ redis' = RedisSet(redis, k, v)
          /\ UNCHANGED <<memory, uses>>
    /\ UNCHANGED <<config, backend, restarts, idleFor>>

\* Redis does not answer: get_json or set_json raises, and so does embed_texts,
\* also when it has all the vectors.
RedisFails(r) ==
    /\ task[r].pc \in {"looking", "storing"}
    /\ backend = "redis"
    /\ Runs(r)
    /\ Goes(r, Idle)
    /\ UNCHANGED <<config, backend, memory, redis, restarts, uses,
                   idleFor>>

-----------------------------------------------------------------------------
Tick ==
    /\ \A r \in Requests : AtAwait(r)
    /\ memory' = MemoryElapse(memory)
    /\ redis' = RedisElapse(redis)
    /\ idleFor' = [c \in Configs |->
                     IF c = config /\ backend = "redis" THEN 0
                     ELSE Min({idleFor[c] + 1, Ttl})]
    /\ UNCHANGED <<config, backend, task, restarts, uses>>

\* The process ends, or is killed at any point, and comes back with settings of
\* any kind; create_cache finds Redis or does not.
Restart ==
    /\ restarts < MaxRestarts
    /\ restarts' = restarts + 1
    /\ config' \in Configs
    /\ backend' \in {"memory", "redis"}
    /\ memory' = EmptyMemory(Keys)
    /\ task' = [r \in Requests |-> Idle]
    /\ uses' = <<>>
    /\ idleFor' = [c \in Configs |->
                     IF c = config' /\ backend' = "redis" THEN 0 ELSE idleFor[c]]
    /\ UNCHANGED redis

Next ==
    \/ Tick \/ Restart
    \/ \E r \in Requests :
          Submit(r) \/ Look(r) \/ Reply(r) \/ Wake(r) \/ Store(r) \/ RedisFails(r)

Spec == Init /\ [][Next]_vars

\* One step of a request that has the event loop.
Step(r) == Look(r) \/ Reply(r) \/ Wake(r) \/ Store(r) \/ RedisFails(r)

\* The HTTP client's time-out ends every call, timers fire, and Redis answers or
\* the connection to it fails.  Strong fairness, because another request may have
\* the event loop at times: its ready queue is first in, first out.
FairSpec == Spec /\ \A r \in Requests : SF_vars(Step(r))

-----------------------------------------------------------------------------
(***************************************************************************)
(* Properties                                                              *)
(***************************************************************************)
Task ==
    [pc : {"idle", "looking", "calling", "sleeping", "storing", "done"},
     texts : Seq(Texts), at : Nat,
     results : Seq(Vectors \union {Nothing}), misses : Seq(Nat \ {0}),
     vectors : Seq(Vectors), attempt : 0..Attempts, clean : BOOLEAN]

\* Every variable has its type; a key is in the dictionary's order once, exactly
\* if it has a value.
TypeOK ==
    /\ config \in Configs
    /\ backend \in {"memory", "redis"}
    /\ memory.order \in Seq(Keys) /\ IsInjective(memory.order)
    /\ memory.value \in [Keys -> Vectors \union {Nothing}]
    /\ memory.left \in [Keys -> Expired..Ttl]
    /\ \A k \in Keys : Contains(memory.order, k) <=> memory.value[k] # Nothing
    /\ redis.value \in [Keys -> Vectors \union {Nothing}]
    /\ redis.left \in [Keys -> 0..Ttl]
    /\ task \in [Requests -> Task]
    /\ restarts \in 0..MaxRestarts
    /\ uses \in Seq(Keys)
    /\ idleFor \in [Configs -> 0..Ttl]

\* embed_texts returns for every text its own vector, whatever other requests
\* stored, evicted or let expire meanwhile, and however hits, misses and batches
\* alternate: made by this provider, or, for Ttl after a process with another
\* model of the same class had Redis, perhaps by that one.
ResultsFaithful ==
    \A r \in Requests : \A i \in 1..Len(task[r].texts) :
        /\ task[r].results[i] = Nothing => task[r].pc # "done"
        /\ task[r].results[i] # Nothing =>
              \E c \in Configs :
                 /\ task[r].results[i] = Vector(c, task[r].texts[i])
                 /\ Class[c] = Class[config]
                 /\ task[r].clean => c = config

\* A vector in either cache belongs to its key.  The dictionary holds nothing of
\* an earlier process; what one left in Redis is gone Ttl after it went.
CacheFaithful ==
    /\ \A k \in Keys : memory.value[k] # Nothing =>
          \E text \in Texts :
             k = Key(config, text) /\ memory.value[k] = Vector(config, text)
    /\ \A k \in Keys : InRedis(redis, k) =>
          \E c \in Configs, text \in Texts :
             /\ k = Key(c, text)
             /\ redis.value[k] = Vector(c, text)
             /\ redis.left[k] + idleFor[c] <= Ttl

\* The dictionary is bounded, and what it holds are the keys used last: an entry
\* that requests keep hitting is never evicted before one they do not.
KeepsRecentlyUsed ==
    /\ Len(memory.order) <= MaxEntries
    /\ IsSuffix(memory.order, uses)

\* embed_texts always returns or raises, though the provider may never give a
\* good answer.
EmbeddingEnds == \A r \in Requests : Busy(r) ~> ~Busy(r)

=============================================================================
