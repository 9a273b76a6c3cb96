------------------------------ MODULE Service ------------------------------
(***************************************************************************)
(* Processes over one PostgreSQL and one Redis, both of which come and go: *)
(* the service, from the start of its lifespan (main.py) to its end, with  *)
(* the queries it serves (QueryService.query) and /health; and the script  *)
(* that ingests (scripts/ingest_sample.py).  Each of them may be the one   *)
(* that creates the schema (db/init_db.py), unless its settings leave that *)
(* to migrations.                                                          *)
(*                                                                         *)
(* Abstraction: extension, tables and indexes are one schema; a query is   *)
(* the calls it makes.  PostgreSQL makes the second of two transactions    *)
(* that create the same thing wait for the first; if that one commits, the *)
(* second fails, IF NOT EXISTS or not.                                     *)
(***************************************************************************)
EXTENDS Naturals, FiniteSets

CONSTANTS
    Apps,       \* processes of the service
    Scripts,    \* processes of lex-ingest
    Queries     \* requests of POST /query at the same time

Processes == Apps \union Scripts

ASSUME ServiceConfig == Apps \intersect Scripts = {}

VARIABLES
    dbUp,       \* does PostgreSQL answer?
    redisUp,    \* does Redis?
    schema,     \* are the tables there, for everybody to see?
    proc,
    query

vars == <<dbUp, redisUp, schema, proc, query>>

\* auto: the setting auto_create_schema.  made: the transaction in progress has
\* created the schema.  pool: what the engine's idle connections are worth.
\* opened: what the process has opened and not closed.  troubled: the database
\* failed while this process initialised it.
Stopped == [pc |-> "stopped", auto |-> TRUE, made |-> FALSE, pool |-> "empty",
            cache |-> "none", opened |-> {}, troubled |-> FALSE]

\* none: nothing asked, or all answered.  healthy: from its start to the end of its
\* search, /health was fine.
NoQuery == [pc |-> "none", on |-> "none", healthy |-> TRUE]

Initialising == {"beginning", "checking", "creating", "committing", "failing"}
InTransaction == {"checking", "creating", "committing"}
Closing      == {"closing_adapters", "closing_cache", "closing_engine"}

\* Never ran, or was killed; came to its end; was ended by an exception.
Gone == {"stopped", "ended", "raised"}

Init ==
    /\ dbUp \in BOOLEAN
    /\ redisUp \in BOOLEAN
    /\ schema \in BOOLEAN
    /\ proc = [p \in Processes |-> Stopped]
    /\ query = [q \in Queries |-> NoQuery]

Becomes(p, s) == proc' = [proc EXCEPT ![p] = s]

Opens(p, r) == Becomes(p, [proc[p] EXCEPT !.opened = @ \union {r}])

\* A call of a provider makes its HTTP client, if it has one to make.
MayOpen(p, r) == Opens(p, r) \/ UNCHANGED proc

Running(q) == query[q].pc \in {"embedding", "searching", "generating", "recording"}

-----------------------------------------------------------------------------
(***************************************************************************)
(* Start-up.                                                               *)
(***************************************************************************)
\* get_settings and create_engine, which connects to nothing yet.
Start(p) ==
    /\ proc[p].pc \in Gone
    /\ \E auto \in BOOLEAN :
          Becomes(p, [Stopped EXCEPT !.pc = "beginning", !.auto = auto,
                                     !.opened = {"engine"}])
    /\ UNCHANGED <<dbUp, redisUp, schema, query>>

\* initialise_database: nothing to do without auto_create_schema; otherwise
\* engine.begin().
Begin(p) ==
    /\ proc[p].pc = "beginning"
    /\ \/ /\ ~proc[p].auto
          /\ Becomes(p, [proc[p] EXCEPT !.pc = "caching"])
       \/ /\ proc[p].auto /\ dbUp
          /\ Becomes(p, [proc[p] EXCEPT !.pc = "checking", !.pool = "live"])
       \/ /\ proc[p].auto /\ ~dbUp
          /\ Becomes(p, [proc[p] EXCEPT !.pc = "failing", !.troubled = TRUE])
    /\ UNCHANGED <<dbUp, redisUp, schema, query>>

\* create_all and IF NOT EXISTS look at what is committed.
Check(p) ==
    /\ proc[p].pc = "checking"
    /\ Becomes(p, [proc[p] EXCEPT !.pc = IF schema THEN "committing" ELSE "creating"])
    /\ UNCHANGED <<dbUp, redisUp, schema, query>>

\* Mutant: who meets another's transaction takes the schema for granted.
Create_GivesWay(p) ==
    /\ proc[p].pc = "creating"
    /\ Becomes(p, [proc[p] EXCEPT !.pc = "committing",
                      !.made = \A o \in Processes \ {p} : ~proc[o].made])
    /\ UNCHANGED <<dbUp, redisUp, schema, query>>

\* The schema was missing: CREATE waits for whoever is creating it, and fails if
\* it is there by now.
Create(p) ==
    /\ proc[p].pc = "creating"
    /\ \A o \in Processes \ {p} : ~proc[o].made
    /\ Becomes(p, IF schema THEN [proc[p] EXCEPT !.pc = "failing"]
                  ELSE [proc[p] EXCEPT !.pc = "committing", !.made = TRUE])
    /\ UNCHANGED <<dbUp, redisUp, schema, query>>

\* Mutant: the transaction is left open.
Commit_StaysOpen(p) ==
    /\ proc[p].pc = "committing"
    /\ schema' = (schema \/ proc[p].made)
    /\ Becomes(p, [proc[p] EXCEPT !.pc = "caching"])
    /\ UNCHANGED <<dbUp, redisUp, query>>

\* The commit, whose acknowledgement may be lost.
Commit(p) ==
    /\ proc[p].pc = "committing"
    /\ schema' = (schema \/ proc[p].made)
    /\ \/ Becomes(p, [proc[p] EXCEPT !.pc = "caching", !.made = FALSE])
       \/ Becomes(p, [proc[p] EXCEPT !.pc = "failing", !.made = FALSE,
                                     !.troubled = TRUE])
    /\ UNCHANGED <<dbUp, redisUp, query>>

\* Mutant: nobody catches it.
InitialisationFails_Uncaught(p) ==
    /\ proc[p].pc = "failing"
    /\ Becomes(p, [proc[p] EXCEPT !.pc = "raised"])
    /\ UNCHANGED <<dbUp, redisUp, schema, query>>

\* initialise_database raises.  The service goes on ("app_will_degrade"), the
\* script, which is not in its try block yet, does not.
InitialisationFails(p) ==
    /\ proc[p].pc = "failing"
    /\ Becomes(p, IF p \in Apps THEN [proc[p] EXCEPT !.pc = "caching"]
                                ELSE [proc[p] EXCEPT !.pc = "raised"])
    /\ UNCHANGED <<dbUp, redisUp, schema, query>>

\* create_cache, and the rest of lifespan before its yield.
MakeCache(p) ==
    /\ proc[p].pc = "caching"
    /\ Becomes(p, [proc[p] EXCEPT
                     !.pc = IF p \in Apps THEN "serving" ELSE "ingesting",
                     !.cache = IF redisUp THEN "redis" ELSE "memory",
                     !.opened = @ \union {"cache"}])
    /\ UNCHANGED <<dbUp, redisUp, schema, query>>

-----------------------------------------------------------------------------
(***************************************************************************)
(* Queries.                                                                *)
(***************************************************************************)
\* What GET /health answers: a SELECT 1, and whether the cache is healthy, which
\* the dictionary always is.
Health(p) ==
    [status |-> IF dbUp THEN "ok" ELSE "degraded",
     redis  |-> IF proc[p].cache = "redis" /\ ~redisUp THEN "degraded" ELSE "ok"]

Healthy(p) == Health(p) = [status |-> "ok", redis |-> "ok"]

Ask(q, p) ==
    /\ query[q].pc \in {"none", "failed"}
    /\ proc[p].pc = "serving"
    /\ query' = [query EXCEPT ![q] = [pc |-> "embedding", on |-> p,
                                      healthy |-> Healthy(p) /\ schema]]
    /\ UNCHANGED <<dbUp, redisUp, schema, proc>>

\* embed_query: it fails with the cache, if that is Redis (at its get, or at its
\* set, when the provider has been called), or with the provider of embeddings,
\* which /health does not look at.
Embed(q) ==
    LET p == query[q].on
    IN /\ query[q].pc = "embedding"
       /\ \/ /\ Health(p).redis = "ok"
             /\ query' = [query EXCEPT ![q].pc = "searching"]
             /\ MayOpen(p, "embeddings")
          \/ /\ Health(p).redis # "ok"
             /\ query' = [query EXCEPT ![q].pc = "failed"]
             /\ MayOpen(p, "embeddings")
          \/ /\ query' = [query EXCEPT ![q].pc = "failed", ![q].healthy = FALSE]
             /\ Opens(p, "embeddings")
       /\ UNCHANGED <<dbUp, redisUp, schema>>

\* Mutant: pool_pre_ping is off.
Checkout_Unchecked(p) == dbUp /\ proc[p].pool # "stale"

\* A connection from the pool (pool_pre_ping): one that died is replaced.
Checkout(p) == dbUp

\* hybrid_search: any failure of it is raised.
Search(q) ==
    LET p == query[q].on
    IN /\ query[q].pc = "searching"
       /\ IF Checkout(p) /\ schema
          THEN query' = [query EXCEPT ![q].pc = "generating"]
          ELSE query' = [query EXCEPT ![q].pc = "failed"]
       /\ Becomes(p, [proc[p] EXCEPT !.pool = IF dbUp THEN "live" ELSE @])
       /\ UNCHANGED <<dbUp, redisUp, schema>>

\* generate always returns something.
Generate(q) ==
    LET p == query[q].on
    IN /\ query[q].pc = "generating"
       /\ query' = [query EXCEPT ![q].pc = "recording"]
       /\ MayOpen(p, "adapters")
       /\ UNCHANGED <<dbUp, redisUp, schema>>

\* _record_query_run: a failure is logged.  The client has its answer.
Record(q) ==
    LET p == query[q].on
    IN /\ query[q].pc = "recording"
       /\ query' = [query EXCEPT ![q] = NoQuery]
       /\ Becomes(p, [proc[p] EXCEPT !.pool = IF dbUp THEN "live" ELSE @])
       /\ UNCHANGED <<dbUp, redisUp, schema>>

-----------------------------------------------------------------------------
(***************************************************************************)
(* The end.                                                                *)
(***************************************************************************)
\* The server stops taking requests, lets those it has finish, and resumes
\* lifespan after its yield.
ShutDown(p) ==
    /\ proc[p].pc = "serving"
    /\ \A q \in Queries : Running(q) => query[q].on # p
    /\ Becomes(p, [proc[p] EXCEPT !.pc = "closing_adapters"])
    /\ UNCHANGED <<dbUp, redisUp, schema, query>>

\* ingest_json_dir never raises (Corpus), and leads to the finally block.  It may
\* have called the provider of embeddings.
Ingested(p) ==
    /\ proc[p].pc = "ingesting"
    /\ \E more \in SUBSET {"embeddings"} :
          Becomes(p, [proc[p] EXCEPT !.pc = "closing_cache", !.opened = @ \union more])
    /\ UNCHANGED <<dbUp, redisUp, schema, query>>

\* Mutant: nobody closes the cache.
Close_ForgetsCache(p) ==
    /\ \/ /\ proc[p].pc = "closing_adapters"
          /\ Becomes(p, [proc[p] EXCEPT !.pc = "closing_engine",
                                        !.opened = @ \ {"adapters"}])
       \/ /\ proc[p].pc = "closing_engine"
          /\ Becomes(p, [Stopped EXCEPT !.pc = "ended",
                                        !.opened = proc[p].opened \ {"engine"}])
    /\ UNCHANGED <<dbUp, redisUp, schema, query>>

\* close_adapters, cache.close, engine.dispose, in this order; nobody calls aclose
\* of the embedding provider.
Close(p) ==
    /\ \/ /\ proc[p].pc = "closing_adapters"
          /\ Becomes(p, [proc[p] EXCEPT !.pc = "closing_cache",
                                        !.opened = @ \ {"adapters"}])
       \/ /\ proc[p].pc = "closing_cache"
          /\ Becomes(p, [proc[p] EXCEPT !.pc = "closing_engine",
                                        !.opened = @ \ {"cache"}])
       \/ /\ proc[p].pc = "closing_engine"
          /\ Becomes(p, [Stopped EXCEPT !.pc = "ended",
                                        !.opened = proc[p].opened \ {"engine"}])
    /\ UNCHANGED <<dbUp, redisUp, schema, query>>

\* The process is killed, at any point, with the queries it has: what it had open
\* goes with it.
Kill(p) ==
    /\ proc[p].pc \notin Gone
    /\ Becomes(p, Stopped)
    /\ query' = [q \in Queries |-> IF Running(q) /\ query[q].on = p THEN NoQuery
                                   ELSE query[q]]
    /\ UNCHANGED <<dbUp, redisUp, schema>>

-----------------------------------------------------------------------------
(***************************************************************************)
(* PostgreSQL and Redis.                                                   *)
(***************************************************************************)
\* The processes' queries that still need what has failed have seen it.
Notice(processes) ==
    query' = [q \in Queries |->
                IF query[q].pc \in {"embedding", "searching"} /\ query[q].on \in processes
                THEN [query[q] EXCEPT !.healthy = FALSE]
                ELSE query[q]]

\* Connections die, and transactions with them.
DbFails ==
    /\ dbUp
    /\ dbUp' = FALSE
    /\ proc' = [p \in Processes |->
                  LET lost == [proc[p] EXCEPT
                                 !.pool = IF @ = "live" THEN "stale" ELSE @]
                  IN IF proc[p].pc \in InTransaction
                     THEN [lost EXCEPT !.pc = "failing", !.made = FALSE,
                                       !.troubled = TRUE]
                     ELSE lost]
    /\ Notice(Processes)
    /\ UNCHANGED <<redisUp, schema>>

RedisFails ==
    /\ redisUp
    /\ redisUp' = FALSE
    /\ Notice({p \in Processes : proc[p].cache = "redis"})
    /\ UNCHANGED <<dbUp, schema, proc>>

DbReturns    == ~dbUp /\ dbUp' = TRUE /\ UNCHANGED <<redisUp, schema, proc, query>>
RedisReturns == ~redisUp /\ redisUp' = TRUE /\ UNCHANGED <<dbUp, schema, proc, query>>

-----------------------------------------------------------------------------
GoesOn(p) ==
    \/ Begin(p) \/ Check(p) \/ Create(p) \/ Commit(p) \/ InitialisationFails(p)
    \/ MakeCache(p)

Works(q) == Embed(q) \/ Search(q) \/ Generate(q) \/ Record(q)

Next ==
    \/ DbFails \/ DbReturns \/ RedisFails \/ RedisReturns
    \/ \E p \in Processes :
          \/ Start(p) \/ GoesOn(p) \/ Ingested(p) \/ ShutDown(p) \/ Close(p) \/ Kill(p)
          \/ \E q \in Queries : Ask(q, p)
    \/ \E q \in Queries : Works(q)

Spec == Init /\ [][Next]_vars

\* Calls to PostgreSQL and Redis return or fail.  Strong fairness for a process
\* that waits in CREATE: PostgreSQL serves those who wait for a lock in turn.
FairSpec == Spec /\ \A p \in Processes : SF_vars(GoesOn(p))

-----------------------------------------------------------------------------
(***************************************************************************)
(* Properties                                                              *)
(***************************************************************************)
\* Every variable has its type, and what is running is in a running process.
TypeOK ==
    /\ dbUp \in BOOLEAN /\ redisUp \in BOOLEAN /\ schema \in BOOLEAN
    /\ proc \in [Processes ->
         [pc : {"caching", "serving", "ingesting"}
               \union Initialising \union Closing \union Gone,
          auto : BOOLEAN, made : BOOLEAN, pool : {"empty", "live", "stale"},
          cache : {"none", "memory", "redis"},
          opened : SUBSET {"engine", "cache", "adapters", "embeddings"},
          troubled : BOOLEAN]]
    /\ query \in [Queries ->
         [pc : {"none", "embedding", "searching", "generating", "recording",
                "failed"},
          on : Apps \union {"none"}, healthy : BOOLEAN]]
    /\ \A q \in Queries : Running(q) => proc[query[q].on].pc = "serving"
    /\ \A p \in Processes : proc[p].made => proc[p].pc = "committing"

\* At most one transaction creates the schema, and a process that is to see to it
\* (auto_create_schema) and whose initialisation the database did not interrupt
\* finds the schema there when it goes on, even if another process was faster and
\* its own attempt failed; a script that is to see to it never ingests without.
\* Where the setting is off, that is the migrations' business: such a process
\* serves, or ingests, whatever there is.
SchemaAfterStart ==
    /\ Cardinality({p \in Processes : proc[p].made}) <= 1
    /\ \A p \in Processes : proc[p].auto =>
          /\ proc[p].pc = "ingesting" => schema
          /\ proc[p].pc \in {"caching", "serving"} /\ ~proc[p].troubled => schema

\* A query fails only if /health would have said so of the database or the cache
\* before the search was over, or the schema was missing, or the embedding
\* provider failed: an outage that is over leaves nothing behind, and one that
\* begins after the search costs no answer.
FailsOnlyForCause ==
    \A q \in Queries : query[q].pc = "failed" => ~query[q].healthy

\* Of what a process opened, nothing but the HTTP client of the embedding provider
\* is left open when lifespan or the script has come to its end, and nothing but
\* the engine when the script raised before its try block; and nobody closes the
\* engine or the cache under a query that runs.
LeavesOnlyEmbeddings ==
    /\ \A p \in Processes :
          /\ proc[p].pc = "ended" => proc[p].opened \subseteq {"embeddings"}
          /\ proc[p].pc = "raised" => proc[p].opened = {"engine"}
    /\ \A q \in Queries :
          Running(q) => {"engine", "cache"} \subseteq proc[query[q].on].opened

\* The service always comes to serve, without PostgreSQL and Redis if need be.
StartsAnyway ==
    \A p \in Apps :
        proc[p].pc \in Initialising \union {"caching"} ~>
            proc[p].pc \in {"serving", "stopped"}

=============================================================================
