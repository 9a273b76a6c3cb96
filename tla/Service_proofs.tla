--------------------------- MODULE Service_proofs ---------------------------
(***************************************************************************)
(* Proofs about Service, for any number of processes and of queries.       *)
(***************************************************************************)
EXTENDS Service, FiniteSetTheorems, TLAPS

-----------------------------------------------------------------------------
(***************************************************************************)
(* The inductive invariant.                                                *)
(***************************************************************************)
PCs == {"caching", "serving", "ingesting"} \union Initialising \union Closing \union Gone

ProcType == [pc : PCs, auto : BOOLEAN, made : BOOLEAN, pool : {"empty", "live", "stale"},
             cache : {"none", "memory", "redis"},
             opened : SUBSET {"engine", "cache", "adapters", "embeddings"},
             troubled : BOOLEAN]

QueryType == [pc : {"none", "embedding", "searching", "generating", "recording",
                    "failed"},
              on : Apps \union {"none"}, healthy : BOOLEAN]

Typed ==
    /\ dbUp \in BOOLEAN /\ redisUp \in BOOLEAN /\ schema \in BOOLEAN
    /\ proc \in [Processes -> ProcType]
    /\ query \in [Queries -> QueryType]

\* Where a process is tells what it knows of the schema.
Informed(p) ==
    /\ proc[p].pc = "committing" /\ ~proc[p].made => schema
    /\ proc[p].pc = "failing" /\ ~proc[p].troubled => schema
    /\ proc[p].auto /\ proc[p].pc \in {"caching", "serving"} /\ ~proc[p].troubled => schema
    /\ proc[p].auto /\ proc[p].pc \in {"caching", "ingesting"} /\ p \notin Apps => schema
    /\ proc[p].pc = "serving" => p \in Apps
    /\ proc[p].pc = "ingesting" => p \notin Apps

\* ... and what it has open: the engine until it is closed, the cache from its
\* making to its closing, and when the adapters are closed no client of theirs.
Holds(p) ==
    /\ proc[p].pc \in Initialising \union {"caching", "raised"}
         => proc[p].opened = {"engine"}
    /\ proc[p].pc \in {"serving", "ingesting"}
         => {"engine", "cache"} \subseteq proc[p].opened
    /\ proc[p].pc \in {"ingesting", "closing_cache"} => "adapters" \notin proc[p].opened
    /\ proc[p].pc = "closing_engine" => proc[p].opened \subseteq {"engine", "embeddings"}
    /\ proc[p].pc = "ended" => proc[p].opened \subseteq {"embeddings"}

OneCreator ==
    /\ \A p \in Processes : proc[p].made => proc[p].pc = "committing"
    /\ \A p, o \in Processes : proc[p].made /\ proc[o].made => p = o

\* A query that runs is served by a process that does, and one that is still
\* healthy has all it needs.
Served(q) ==
    /\ Running(q) => query[q].on \in Apps /\ proc[query[q].on].pc = "serving"
    /\ query[q].pc \in {"embedding", "searching"} /\ query[q].healthy
         => Healthy(query[q].on) /\ schema
    /\ query[q].pc = "failed" => ~query[q].healthy

Inv ==
    /\ Typed
    /\ \A p \in Processes : Informed(p)
    /\ \A p \in Processes : Holds(p)
    /\ OneCreator
    /\ \A q \in Queries : Served(q)

ProcActions(p) ==
    \/ Start(p) \/ GoesOn(p) \/ Ingested(p) \/ ShutDown(p) \/ Close(p) \/ Kill(p)

-----------------------------------------------------------------------------
\* One process goes on, or one query does: the types stay if the new record has
\* its type.
LEMMA ProcUpdate ==
    ASSUME Typed, NEW p \in Processes, NEW s \in ProcType, Becomes(p, s),
           UNCHANGED <<dbUp, redisUp, query>>, schema' \in BOOLEAN
    PROVE  Typed'
  BY DEF Typed, Becomes

LEMMA QueryUpdate ==
    ASSUME Typed, NEW q \in Queries, NEW s \in QueryType,
           query' = [query EXCEPT ![q] = s],
           UNCHANGED <<dbUp, redisUp, schema>>, proc' \in [Processes -> ProcType]
    PROVE  Typed'
  BY DEF Typed

LEMMA ProcStepTyped ==
    ASSUME Typed, NEW p \in Processes, ProcActions(p)
    PROVE  Typed'
  <1> DEFINE t == proc[p]
  <1>1. t \in ProcType /\ schema \in BOOLEAN
    BY DEF Typed
  <1>2. CASE Start(p)
    <2>1. \A auto \in BOOLEAN :
             [Stopped EXCEPT !.pc = "beginning", !.auto = auto, !.opened = {"engine"}]
                \in ProcType
      BY DEF Stopped, ProcType, PCs, Initialising
    <2>2. PICK auto \in BOOLEAN :
             Becomes(p, [Stopped EXCEPT !.pc = "beginning", !.auto = auto,
                                        !.opened = {"engine"}])
      BY <1>2 DEF Start
    <2> QED BY <1>1, <1>2, <2>1, <2>2, ProcUpdate DEF Start
  <1>3. CASE Begin(p)
    <2>1. /\ [t EXCEPT !.pc = "caching"] \in ProcType
          /\ [t EXCEPT !.pc = "checking", !.pool = "live"] \in ProcType
          /\ [t EXCEPT !.pc = "failing", !.troubled = TRUE] \in ProcType
      BY <1>1 DEF ProcType, PCs, Initialising
    <2> QED BY <1>1, <1>3, <2>1, ProcUpdate DEF Begin
  <1>4. CASE Check(p)
    <2>1. \A l \in {"committing", "creating"} : [t EXCEPT !.pc = l] \in ProcType
      BY <1>1 DEF ProcType, PCs, Initialising
    <2> QED BY <1>1, <1>4, <2>1, ProcUpdate DEF Check
  <1>5. CASE Create(p)
    <2>1. /\ [t EXCEPT !.pc = "failing"] \in ProcType
          /\ [t EXCEPT !.pc = "committing", !.made = TRUE] \in ProcType
      BY <1>1 DEF ProcType, PCs, Initialising
    <2> QED BY <1>1, <1>5, <2>1, ProcUpdate DEF Create
  <1>6. CASE Commit(p)
    <2>1. /\ [t EXCEPT !.pc = "caching", !.made = FALSE] \in ProcType
          /\ [t EXCEPT !.pc = "failing", !.made = FALSE, !.troubled = TRUE] \in ProcType
          /\ schema' \in BOOLEAN
      BY <1>1, <1>6 DEF ProcType, PCs, Initialising, Commit
    <2> QED BY <1>6, <2>1, ProcUpdate DEF Commit
  <1>7. CASE InitialisationFails(p)
    <2>1. \A l \in {"caching", "raised"} : [t EXCEPT !.pc = l] \in ProcType
      BY <1>1 DEF ProcType, PCs, Gone
    <2> QED BY <1>1, <1>7, <2>1, ProcUpdate DEF InitialisationFails
  <1>8. CASE MakeCache(p)
    <2>1. [t EXCEPT !.pc = IF p \in Apps THEN "serving" ELSE "ingesting",
                    !.cache = IF redisUp THEN "redis" ELSE "memory",
                    !.opened = @ \union {"cache"}] \in ProcType
      BY <1>1 DEF ProcType, PCs
    <2> QED BY <1>1, <1>8, <2>1, ProcUpdate DEF MakeCache
  <1>9. CASE Ingested(p) \/ ShutDown(p)
    <2>1. /\ [t EXCEPT !.pc = "closing_adapters"] \in ProcType
          /\ \A more \in SUBSET {"embeddings"} :
                [t EXCEPT !.pc = "closing_cache", !.opened = @ \union more] \in ProcType
      BY <1>1 DEF ProcType, PCs, Closing
    <2> QED BY <1>1, <1>9, <2>1, ProcUpdate DEF Ingested, ShutDown
  <1>10. CASE Close(p)
    <2>1. /\ [t EXCEPT !.pc = "closing_cache", !.opened = @ \ {"adapters"}] \in ProcType
          /\ [t EXCEPT !.pc = "closing_engine", !.opened = @ \ {"cache"}] \in ProcType
          /\ [Stopped EXCEPT !.pc = "ended", !.opened = t.opened \ {"engine"}] \in ProcType
      BY <1>1 DEF Stopped, ProcType, PCs, Closing, Gone
    <2> QED BY <1>1, <1>10, <2>1, ProcUpdate DEF Close
  <1>11. CASE Kill(p)
    <2>1. Stopped \in ProcType /\ NoQuery \in QueryType
      BY DEF Stopped, NoQuery, ProcType, QueryType, PCs, Gone
    <2>2. proc' \in [Processes -> ProcType]
      BY <1>11, <2>1 DEF Typed, Kill, Becomes
    <2>3. query' \in [Queries -> QueryType]
      BY <1>11, <2>1 DEF Typed, Kill
    <2> QED BY <1>11, <2>2, <2>3 DEF Typed, Kill
  <1> QED BY <1>2, <1>3, <1>4, <1>5, <1>6, <1>7, <1>8, <1>9, <1>10, <1>11
       DEF ProcActions, GoesOn

LEMMA QueryStepTyped ==
    ASSUME Inv, NEW q \in Queries,
           Works(q) \/ \E p \in Processes : Ask(q, p)
    PROVE  Typed'
  <1> DEFINE p == query[q].on
  <1>1. Typed
    BY DEF Inv
  <1>2. query[q] \in QueryType
    BY <1>1 DEF Typed
  <1>3. ASSUME NEW o \in Processes, Ask(q, o) PROVE Typed'
    <2>1. o \in Apps
      BY <1>3 DEF Inv, Informed, Ask
    <2>2. (Healthy(o) /\ schema) \in BOOLEAN
      OBVIOUS
    <2>3. [pc |-> "embedding", on |-> o, healthy |-> Healthy(o) /\ schema] \in QueryType
      BY <2>1, <2>2 DEF QueryType
    <2> QED BY <1>1, <1>3, <2>3, QueryUpdate DEF Ask, Typed
  <1>4. CASE Works(q)
    <2>1. p \in Processes
      BY <1>4 DEF Inv, Served, Works, Running, Embed, Search, Generate, Record, Processes
    <2>2. proc[p] \in ProcType
      BY <1>1, <2>1 DEF Typed
    <2>3. /\ \A l \in {"searching", "generating", "recording", "failed"} :
                [query[q] EXCEPT !.pc = l] \in QueryType
          /\ [query[q] EXCEPT !.pc = "failed", !.healthy = FALSE] \in QueryType
          /\ NoQuery \in QueryType
      BY <1>2 DEF QueryType, NoQuery
    <2>4. \A r \in {"adapters", "embeddings"} :
             [proc[p] EXCEPT !.opened = @ \union {r}] \in ProcType
      BY <2>2 DEF ProcType
    <2>5. [proc[p] EXCEPT !.pool = IF dbUp THEN "live" ELSE @] \in ProcType
      BY <2>2 DEF ProcType
    <2>6. proc' \in [Processes -> ProcType]
      BY <1>1, <1>4, <2>1, <2>4, <2>5
         DEF Works, Embed, Search, Generate, Record, MayOpen, Opens, Becomes, Typed
    <2>7. \E s \in QueryType : query' = [query EXCEPT ![q] = s]
      <3>1. CASE Embed(q)
        <4>1. query' = [query EXCEPT ![q] = [query[q] EXCEPT !.pc = "searching"]]
              \/ query' = [query EXCEPT ![q] = [query[q] EXCEPT !.pc = "failed"]]
              \/ query' = [query EXCEPT ![q] = [query[q] EXCEPT !.pc = "failed", !.healthy = FALSE]]
          BY <1>1, <1>2, <3>1 DEF Embed, Typed, QueryType
        <4> QED BY <2>3, <4>1
      <3>2. CASE Search(q)
        BY <2>3, <3>2 DEF Search
      <3>3. CASE Generate(q) \/ Record(q)
        BY <2>3, <3>3 DEF Generate, Record
      <3> QED BY <1>4, <3>1, <3>2, <3>3 DEF Works
    <2> QED BY <1>1, <1>4, <2>6, <2>7, QueryUpdate
         DEF Works, Embed, Search, Generate, Record
  <1> QED BY <1>3, <1>4

LEMMA OutageTyped ==
    ASSUME Typed, DbFails \/ DbReturns \/ RedisFails \/ RedisReturns
    PROVE  Typed'
  <1>1. ASSUME NEW q \in Queries
        PROVE  query[q] \in QueryType
               /\ [query[q] EXCEPT !.healthy = FALSE] \in QueryType
    BY DEF Typed, QueryType
  <1>2. CASE DbFails
    <2>1. ASSUME NEW p \in Processes PROVE proc'[p] \in ProcType
      <3> DEFINE lost == [proc[p] EXCEPT !.pool = IF @ = "live" THEN "stale" ELSE @]
      <3>1. lost \in ProcType
        BY DEF Typed, ProcType
      <3>2. [lost EXCEPT !.pc = "failing", !.made = FALSE, !.troubled = TRUE] \in ProcType
        BY <3>1 DEF ProcType, PCs, Initialising
      <3>3. proc'[p] = IF proc[p].pc \in InTransaction
                       THEN [lost EXCEPT !.pc = "failing", !.made = FALSE, !.troubled = TRUE]
                       ELSE lost
        BY <1>2, Zenon DEF DbFails
      <3> HIDE DEF lost
      <3> QED BY <3>1, <3>2, <3>3
    <2>2. proc' \in [Processes -> ProcType]
      <3>1. proc' = [p \in Processes |-> proc'[p]]
        BY <1>2, Zenon DEF DbFails
      <3> QED BY <2>1, <3>1
    <2>3. query' \in [Queries -> QueryType]
      BY <1>1, <1>2 DEF DbFails, Notice
    <2> QED BY <1>2, <2>2, <2>3, Zenon DEF DbFails, Typed
  <1>3. CASE RedisFails
    <2>1. query' \in [Queries -> QueryType]
      BY <1>1, <1>3 DEF RedisFails, Notice
    <2> QED BY <1>3, <2>1 DEF RedisFails, Typed
  <1>4. CASE DbReturns \/ RedisReturns
    BY <1>4 DEF DbReturns, RedisReturns, Typed
  <1> QED BY <1>2, <1>3, <1>4

LEMMA TypedStep == Inv /\ [Next]_vars => Typed'
<1> SUFFICES ASSUME Inv, [Next]_vars PROVE Typed'
  OBVIOUS
<1>1. Typed
  BY DEF Inv
<1>2. CASE UNCHANGED vars
  BY <1>1, <1>2 DEF Typed, vars
<1>3. CASE Next
  BY <1>1, <1>3, ProcStepTyped, QueryStepTyped, OutageTyped DEF Next, ProcActions
<1> QED BY <1>2, <1>3

-----------------------------------------------------------------------------
(***************************************************************************)
(* What a process knows and holds.                                         *)
(***************************************************************************)
LEMMA BecomesIt ==
    ASSUME proc \in [Processes -> ProcType], NEW p \in Processes, NEW s, Becomes(p, s)
    PROVE  proc'[p] = s /\ \A o \in Processes \ {p} : proc'[o] = proc[o]
  BY DEF Becomes

\* The outcomes of Begin, one by one.
LEMMA BeginSteps ==
    ASSUME proc \in [Processes -> ProcType], NEW p \in Processes, Begin(p)
    PROVE  LET t == proc[p]
               u == proc'[p]
           IN /\ t.pc = "beginning"
              /\ u.made = t.made /\ u.auto = t.auto /\ u.opened = t.opened
              /\ \/ u.pc = "caching" /\ ~t.auto
                 \/ u.pc = "checking"
                 \/ u.pc = "failing" /\ u.troubled
  <1> DEFINE t == proc[p]
             u == proc'[p]
  <1>1. t \in ProcType /\ t.pc = "beginning"
    BY DEF Begin
  <1>2. \/ ~t.auto /\ u = [t EXCEPT !.pc = "caching"]
        \/ u = [t EXCEPT !.pc = "checking", !.pool = "live"]
        \/ u = [t EXCEPT !.pc = "failing", !.troubled = TRUE]
    BY BecomesIt DEF Begin
  <1> HIDE DEF t, u
  <1>3. /\ u.made = t.made /\ u.auto = t.auto /\ u.opened = t.opened
        /\ \/ u.pc = "caching" /\ ~t.auto
           \/ u.pc = "checking"
           \/ u.pc = "failing" /\ u.troubled
    BY <1>1, <1>2 DEF ProcType
  <1> QED BY <1>1, <1>3 DEF t, u

\* The steps of Close, one by one.
LEMMA CloseSteps ==
    ASSUME proc \in [Processes -> ProcType], NEW p \in Processes, Close(p)
    PROVE  LET t == proc[p]
               u == proc'[p]
           IN /\ u.made => t.made
              /\ \/ /\ t.pc = "closing_adapters" /\ u.pc = "closing_cache"
                    /\ u.opened = t.opened \ {"adapters"}
                 \/ /\ t.pc = "closing_cache" /\ u.pc = "closing_engine"
                    /\ u.opened = t.opened \ {"cache"}
                 \/ /\ t.pc = "closing_engine" /\ u.pc = "ended"
                    /\ u.opened = t.opened \ {"engine"}
  <1> DEFINE t == proc[p]
             u == proc'[p]
  <1>1. t \in ProcType
    OBVIOUS
  <1>2. \/ /\ t.pc = "closing_adapters"
           /\ u = [t EXCEPT !.pc = "closing_cache", !.opened = @ \ {"adapters"}]
        \/ /\ t.pc = "closing_cache"
           /\ u = [t EXCEPT !.pc = "closing_engine", !.opened = @ \ {"cache"}]
        \/ /\ t.pc = "closing_engine"
           /\ u = [Stopped EXCEPT !.pc = "ended", !.opened = t.opened \ {"engine"}]
    BY BecomesIt DEF Close
  <1> HIDE DEF t, u
  <1>3. /\ u.made => t.made
        /\ \/ /\ t.pc = "closing_adapters" /\ u.pc = "closing_cache"
              /\ u.opened = t.opened \ {"adapters"}
           \/ /\ t.pc = "closing_cache" /\ u.pc = "closing_engine"
              /\ u.opened = t.opened \ {"cache"}
           \/ /\ t.pc = "closing_engine" /\ u.pc = "ended"
              /\ u.opened = t.opened \ {"engine"}
    BY <1>1, <1>2 DEF ProcType, Stopped
  <1> QED BY <1>3 DEF t, u

LEMMA ProcStepKept ==
    ASSUME Inv, NEW p \in Processes, ProcActions(p)
    PROVE  (\A o \in Processes : Informed(o))' /\ (\A o \in Processes : Holds(o))'
  <1> SUFFICES ASSUME NEW o \in Processes
               PROVE  Informed(o)' /\ Holds(o)'
    OBVIOUS
  <1>1. /\ proc \in [Processes -> ProcType] /\ proc[p] \in ProcType
        /\ Informed(o) /\ Informed(p) /\ Holds(o) /\ Holds(p)
    BY DEF Inv, Typed
  <1> USE DEF ProcType, Becomes, Initialising
  <1>2. CASE Start(p)
    BY <1>1, <1>2 DEF Start, Stopped, Informed, Holds
  <1>3. CASE Begin(p)
    <2>1. CASE o # p
      <3>1. proc'[o] = proc[o] /\ schema' = schema
        BY <1>1, <1>3, <2>1 DEF Begin
      <3> QED BY <1>1, <3>1 DEF Informed, Holds
    <2>2. CASE o = p
      <3>1. /\ proc[p].pc = "beginning" /\ proc'[p].opened = proc[p].opened
            /\ proc'[p].auto = proc[p].auto
            /\ \/ proc'[p].pc = "caching" /\ ~proc[p].auto
               \/ proc'[p].pc = "checking"
               \/ proc'[p].pc = "failing" /\ proc'[p].troubled
        BY <1>1, <1>3, BeginSteps
      <3> QED BY <1>1, <2>2, <3>1 DEF Informed, Holds
    <2> QED BY <2>1, <2>2
  <1>4. CASE Check(p)
    <2>1. proc[p].made => proc[p].pc = "committing"
      BY DEF Inv, OneCreator
    <2> QED BY <1>1, <1>4, <2>1 DEF Check, Informed, Holds
  <1>5. CASE Create(p)
    BY <1>1, <1>5 DEF Create, Informed, Holds
  <1>6. CASE Commit(p)
    <2>1. schema => schema'
      BY <1>6 DEF Commit
    <2>2. CASE o # p
      <3>1. proc'[o] = proc[o]
        BY <1>1, <1>6, <2>2 DEF Commit
      <3> QED BY <1>1, <2>1, <3>1 DEF Informed, Holds
    <2>3. CASE o = p
      <3>1. schema'
        BY <1>1, <1>6 DEF Commit, Informed
      <3>2. /\ proc'[p].opened = proc[p].opened
            /\ proc'[p].pc \in {"caching", "failing"}
        <4>1. CASE proc' = [proc EXCEPT ![p] = [proc[p] EXCEPT !.pc = "caching", !.made = FALSE]]
          BY <1>1, <4>1
        <4>2. CASE proc' = [proc EXCEPT ![p] = [proc[p] EXCEPT !.pc = "failing", !.made = FALSE,
                                                               !.troubled = TRUE]]
          BY <1>1, <4>2
        <4> QED BY <1>6, <4>1, <4>2 DEF Commit
      <3> QED BY <1>1, <1>6, <2>3, <3>1, <3>2 DEF Commit, Informed, Holds
    <2> QED BY <2>2, <2>3
  <1>7. CASE InitialisationFails(p)
    BY <1>1, <1>7 DEF InitialisationFails, Informed, Holds
  <1>8. CASE MakeCache(p)
    BY <1>1, <1>8 DEF MakeCache, Informed, Holds
  <1>9. CASE Ingested(p) \/ ShutDown(p)
    <2>1. CASE ShutDown(p)
      BY <1>1, <2>1 DEF ShutDown, Informed, Holds
    <2>2. CASE Ingested(p)
      <3>1. PICK more \in SUBSET {"embeddings"} :
              Becomes(p, [proc[p] EXCEPT !.pc = "closing_cache", !.opened = @ \union more])
        BY <2>2 DEF Ingested
      <3>2. /\ proc'[p].pc = "closing_cache"
            /\ proc'[p].opened = proc[p].opened \union more
            /\ \A x \in Processes \ {p} : proc'[x] = proc[x]
        BY <1>1, <3>1, BecomesIt
      <3>3. proc[p].pc = "ingesting" /\ schema' = schema
        BY <2>2 DEF Ingested
      <3>4. Informed(p)' /\ Holds(p)'
        BY <1>1, <3>2, <3>3 DEF Informed, Holds
      <3> QED BY <1>1, <3>2, <3>3, <3>4 DEF Informed, Holds
    <2> QED BY <1>9, <2>1, <2>2
  <1>10. CASE Close(p)
    <2>1. CASE o # p
      <3>1. proc'[o] = proc[o] /\ schema' = schema
        BY <1>1, <1>10, <2>1 DEF Close
      <3> QED BY <1>1, <3>1 DEF Informed, Holds
    <2>2. CASE o = p
      <3>1. \/ /\ proc'[p].pc = "closing_cache"
               /\ proc'[p].opened = proc[p].opened \ {"adapters"}
            \/ /\ proc'[p].pc = "closing_engine" /\ proc[p].pc = "closing_cache"
               /\ proc'[p].opened = proc[p].opened \ {"cache"}
            \/ /\ proc'[p].pc = "ended" /\ proc[p].pc = "closing_engine"
               /\ proc'[p].opened = proc[p].opened \ {"engine"}
        BY <1>1, <1>10, CloseSteps
      <3>2. Informed(p)'
        BY <3>1 DEF Informed
      <3>3. Holds(p)'
        BY <1>1, <3>1 DEF Holds
      <3> QED BY <2>2, <3>2, <3>3
    <2> QED BY <2>1, <2>2
  <1>11. CASE Kill(p)
    BY <1>1, <1>11 DEF Kill, Stopped, Informed, Holds
  <1> QED BY <1>2, <1>3, <1>4, <1>5, <1>6, <1>7, <1>8, <1>9, <1>10, <1>11
       DEF ProcActions, GoesOn


\* What an outage, and a query, leave to the processes.
LEMMA OthersKept ==
    ASSUME Inv,
           \/ DbFails \/ DbReturns \/ RedisFails \/ RedisReturns
           \/ \E q \in Queries : Works(q) \/ \E p \in Processes : Ask(q, p)
    PROVE  (\A o \in Processes : Informed(o))' /\ (\A o \in Processes : Holds(o))'
  <1> SUFFICES ASSUME NEW o \in Processes
               PROVE  Informed(o)' /\ Holds(o)'
    OBVIOUS
  <1>1. /\ proc \in [Processes -> ProcType] /\ proc[o] \in ProcType
        /\ Informed(o) /\ Holds(o)
    BY DEF Inv, Typed
  <1>2. CASE DbFails
    <2> DEFINE lost == [proc[o] EXCEPT !.pool = IF @ = "live" THEN "stale" ELSE @]
    <2>1. /\ lost.pc = proc[o].pc /\ lost.made = proc[o].made
          /\ lost.opened = proc[o].opened /\ lost.troubled = proc[o].troubled
          /\ lost.auto = proc[o].auto
          /\ lost \in ProcType
      BY <1>1 DEF ProcType
    <2>2. schema' = schema
          /\ proc'[o] = IF proc[o].pc \in InTransaction
                        THEN [lost EXCEPT !.pc = "failing", !.made = FALSE,
                                          !.troubled = TRUE]
                        ELSE lost
      BY <1>2, Zenon DEF DbFails
    <2> HIDE DEF lost
    <2>3. CASE proc[o].pc \in InTransaction
      BY <1>1, <2>1, <2>2, <2>3
         DEF InTransaction, Initialising, Informed, Holds, ProcType
    <2>4. CASE proc[o].pc \notin InTransaction
      BY <1>1, <2>1, <2>2, <2>4 DEF Informed, Holds
    <2> QED BY <2>3, <2>4
  <1>3. CASE DbReturns \/ RedisFails \/ RedisReturns
    BY <1>1, <1>3 DEF DbReturns, RedisFails, RedisReturns, Informed, Holds
  <1>4. ASSUME NEW q \in Queries, NEW p \in Processes, Ask(q, p)
        PROVE  Informed(o)' /\ Holds(o)'
    BY <1>1, <1>4 DEF Ask, Informed, Holds
  <1>5. ASSUME NEW q \in Queries, Works(q)
        PROVE  Informed(o)' /\ Holds(o)'
    <2> DEFINE p == query[q].on
    <2>1. p \in Processes /\ proc[p].pc = "serving" /\ proc[p] \in ProcType
      BY <1>5 DEF Inv, Typed, Served, Works, Running, Embed, Search, Generate, Record,
                  Processes
    <2>2. /\ proc'[o].pc = proc[o].pc /\ proc'[o].troubled = proc[o].troubled
          /\ proc'[o].made = proc[o].made /\ schema' = schema
          /\ proc'[o].auto = proc[o].auto
          /\ o # p => proc'[o].opened = proc[o].opened
          /\ proc[o].opened \subseteq proc'[o].opened
      <3>1. CASE Embed(q)
        BY <1>1, <2>1, <3>1 DEF Embed, MayOpen, Opens, Becomes, ProcType
      <3>2. CASE Search(q)
        BY <1>1, <2>1, <3>2 DEF Search, Becomes, ProcType
      <3>3. CASE Generate(q)
        BY <1>1, <2>1, <3>3 DEF Generate, MayOpen, Opens, Becomes, ProcType
      <3>4. CASE Record(q)
        BY <1>1, <2>1, <3>4 DEF Record, Becomes, ProcType
      <3> QED BY <1>5, <3>1, <3>2, <3>3, <3>4 DEF Works
    <2>3. proc'[o].opened = proc[o].opened \/ proc[o].pc = "serving"
      BY <2>1, <2>2
    <2> QED BY <1>1, <2>2, <2>3 DEF Informed, Holds, Initialising
  <1> QED BY <1>2, <1>3, <1>4, <1>5

-----------------------------------------------------------------------------
(***************************************************************************)
(* One creator at a time.                                                  *)
(***************************************************************************)
LEMMA CreatorStep ==
    ASSUME Inv, Next
    PROVE  OneCreator'
  <1>1. proc \in [Processes -> ProcType] /\ OneCreator
    BY DEF Inv, Typed
  \* Only Create makes another creator, and it waits for there to be none; who
  \* creates stays at its commit.
  <1>2. CASE \E p \in Processes : Create(p)
    <2>1. PICK p \in Processes : Create(p)
      BY <1>2
    <2>2. \A o \in Processes \ {p} : ~proc'[o].made
      BY <1>1, <2>1 DEF Create, Becomes
    <2>3. proc'[p].made => proc'[p].pc = "committing"
      BY <1>1, <2>1 DEF Create, Becomes, ProcType, OneCreator
    <2> QED BY <2>2, <2>3 DEF OneCreator
  <1>3. ASSUME \A o \in Processes :
                  proc'[o].made => proc[o].made /\ proc'[o].pc = proc[o].pc
        PROVE  OneCreator'
    BY <1>1, <1>3 DEF OneCreator
  <1>4. ASSUME NEW p \in Processes, ProcActions(p), ~Create(p), NEW o \in Processes
        PROVE  proc'[o].made => proc[o].made /\ proc'[o].pc = proc[o].pc
    <2>1. CASE o = p
      <3>1. CASE Start(p) \/ Kill(p) \/ Begin(p)
        <4>1. CASE Start(p) \/ Kill(p)
          <5>1. proc'[p] = Stopped
                \/ \E auto \in BOOLEAN :
                     proc'[p] = [Stopped EXCEPT !.pc = "beginning", !.auto = auto,
                                                !.opened = {"engine"}]
            BY <1>1, <4>1, BecomesIt DEF Start, Kill
          <5>2. ~proc'[p].made
            <6>1. /\ Stopped.made = FALSE
                  /\ \A auto \in BOOLEAN :
                        [Stopped EXCEPT !.pc = "beginning", !.auto = auto,
                                        !.opened = {"engine"}].made = FALSE
              BY DEF Stopped
            <6> HIDE DEF Stopped
            <6> QED BY <5>1, <6>1, Zenon
          <5> QED BY <2>1, <5>2
        <4>2. CASE Begin(p)
          <5>1. proc'[p].made = proc[p].made /\ proc[p].pc = "beginning"
            BY <1>1, <4>2, BeginSteps
          <5> QED BY <1>1, <2>1, <5>1 DEF OneCreator
        <4> QED BY <3>1, <4>1, <4>2
      <3>2. CASE Check(p) \/ InitialisationFails(p) \/ MakeCache(p)
        <4>1. /\ proc[p].pc \in {"checking", "failing", "caching"}
              /\ proc'[p].made = proc[p].made
          <5>1. CASE Check(p)
            BY <1>1, <3>2, <5>1 DEF Check, Becomes, ProcType
          <5>2. CASE InitialisationFails(p)
            BY <1>1, <3>2, <5>2 DEF InitialisationFails, Becomes, ProcType
          <5>3. CASE MakeCache(p)
            BY <1>1, <3>2, <5>3 DEF MakeCache, Becomes, ProcType
          <5> QED BY <3>2, <5>1, <5>2, <5>3
        <4> QED BY <1>1, <2>1, <4>1 DEF OneCreator
      <3>3. CASE Commit(p)
        <4>1. proc[p] \in ProcType
          BY <1>1
        <4>2. \/ proc'[p] = [proc[p] EXCEPT !.pc = "caching", !.made = FALSE]
              \/ proc'[p] = [proc[p] EXCEPT !.pc = "failing", !.made = FALSE,
                                            !.troubled = TRUE]
          BY <1>1, <3>3, BecomesIt DEF Commit
        <4>3. ~proc'[p].made
          BY <4>1, <4>2 DEF ProcType
        <4> QED BY <2>1, <4>3
      <3>4. CASE Ingested(p) \/ ShutDown(p)
        <4>1. ~proc[p].made
          BY <1>1, <3>4 DEF Ingested, ShutDown, OneCreator
        <4>2. CASE ShutDown(p)
          BY <1>1, <2>1, <4>1, <4>2 DEF ShutDown, Becomes, ProcType
        <4>3. CASE Ingested(p)
          <5>1. PICK more \in SUBSET {"embeddings"} :
                  proc'[p] = [proc[p] EXCEPT !.pc = "closing_cache",
                                             !.opened = @ \union more]
            BY <1>1, <4>3, BecomesIt DEF Ingested
          <5>2. ~proc'[p].made
            BY <1>1, <4>1, <5>1 DEF ProcType
          <5> QED BY <2>1, <5>2
        <4> QED BY <3>4, <4>2, <4>3
      <3>5. CASE Close(p)
        <4>1. ~proc[p].made
          BY <1>1, <3>5 DEF Close, OneCreator
        <4>2. proc'[p].made => proc[p].made
          BY <1>1, <3>5, CloseSteps
        <4> QED BY <2>1, <4>1, <4>2
      <3> QED BY <1>4, <3>1, <3>2, <3>3, <3>4, <3>5 DEF ProcActions, GoesOn
    <2>2. CASE o # p
      <3>1. \E s : Becomes(p, s)
        BY <1>4 DEF ProcActions, GoesOn, Start, Begin, Check, Commit,
                    InitialisationFails, MakeCache, Ingested, ShutDown, Close, Kill
      <3> QED BY <1>1, <2>2, <3>1, BecomesIt
    <2> QED BY <2>1, <2>2
  <1>5. ASSUME NEW q \in Queries, Works(q), NEW o \in Processes
        PROVE  proc'[o].made => proc[o].made /\ proc'[o].pc = proc[o].pc
    BY <1>1, <1>5 DEF Works, Embed, Search, Generate, Record, MayOpen, Opens, Becomes,
                      ProcType
  <1>6. ASSUME NEW q \in Queries, NEW p \in Processes, Ask(q, p)
        PROVE  OneCreator'
    BY <1>1, <1>6 DEF Ask, OneCreator
  <1>7. CASE DbReturns \/ RedisFails \/ RedisReturns
    BY <1>1, <1>7 DEF DbReturns, RedisFails, RedisReturns, OneCreator
  <1>8. ASSUME DbFails, NEW o \in Processes
        PROVE  proc'[o].made => proc[o].made /\ proc'[o].pc = proc[o].pc
    <2> DEFINE lost == [proc[o] EXCEPT !.pool = IF @ = "live" THEN "stale" ELSE @]
    <2>1. lost.pc = proc[o].pc /\ lost.made = proc[o].made /\ lost \in ProcType
      BY <1>1 DEF ProcType
    <2>2. proc'[o] = IF proc[o].pc \in InTransaction
                     THEN [lost EXCEPT !.pc = "failing", !.made = FALSE,
                                       !.troubled = TRUE]
                     ELSE lost
      BY <1>8, Zenon DEF DbFails
    <2> HIDE DEF lost
    <2> QED BY <2>1, <2>2 DEF ProcType
  <1> QED BY <1>2, <1>3, <1>4, <1>5, <1>6, <1>7, <1>8 DEF Next, ProcActions

-----------------------------------------------------------------------------
(***************************************************************************)
(* What a query can count on.                                              *)
(***************************************************************************)
\* A process that serves keeps its cache while it does.
LEMMA ServingKept ==
    ASSUME Inv, NEW p \in Processes, ProcActions(p), NEW o \in Apps,
           proc[o].pc = "serving", ~Kill(p), ~ShutDown(p)
    PROVE  proc'[o] = proc[o]
  <1>1. proc \in [Processes -> ProcType]
    BY DEF Inv, Typed
  <1>2. proc[p].pc # "serving"
    BY DEF Gone, ProcActions, GoesOn, Start, Begin, Check, Create, Commit,
           InitialisationFails, MakeCache, Ingested, Close
  <1>3. \E s : Becomes(p, s)
    BY DEF ProcActions, GoesOn, Start, Begin, Check, Create, Commit,
           InitialisationFails, MakeCache, Ingested, Close
  <1> QED BY <1>1, <1>2, <1>3, BecomesIt DEF Processes

LEMMA ServedStep ==
    ASSUME Inv, Next
    PROVE  (\A q \in Queries : Served(q))'
  <1> SUFFICES ASSUME NEW q \in Queries PROVE Served(q)'
    OBVIOUS
  <1> DEFINE on == query[q].on
  <1>1. /\ proc \in [Processes -> ProcType] /\ query \in [Queries -> QueryType]
        /\ query[q] \in QueryType /\ Served(q)
        /\ dbUp \in BOOLEAN /\ redisUp \in BOOLEAN /\ schema \in BOOLEAN
    BY DEF Inv, Typed
  \* Nothing it counts on changes.
  <1>2. ASSUME query'[q] = query[q],
               Running(q) => /\ proc'[on].pc = proc[on].pc
                             /\ proc'[on].cache = proc[on].cache,
               query[q].pc \in {"embedding", "searching"} =>
                   schema' = schema /\ dbUp' = dbUp /\ redisUp' = redisUp
        PROVE  Served(q)'
    BY <1>1, <1>2 DEF Served, Running, Healthy, Health
  <1>3. ASSUME NEW p \in Processes, ProcActions(p) PROVE Served(q)'
    <2>1. CASE Kill(p)
      <3>1. CASE Running(q) /\ on = p
        BY <1>1, <2>1, <3>1 DEF Kill, NoQuery, Served, Running
      <3>2. CASE ~(Running(q) /\ on = p)
        <4>1. query'[q] = query[q] /\ (Running(q) => proc'[on] = proc[on])
          BY <1>1, <2>1, <3>2, BecomesIt DEF Kill, Served, Processes
        <4> QED BY <1>2, <2>1, <4>1 DEF Kill
      <3> QED BY <3>1, <3>2
    <2>2. CASE ShutDown(p)
      <3>1. Running(q) => proc'[on] = proc[on]
        BY <1>1, <2>2, BecomesIt DEF ShutDown, Served, Processes
      <3> QED BY <1>2, <2>2, <3>1 DEF ShutDown
    <2>3. CASE ~Kill(p) /\ ~ShutDown(p)
      <3>1. query' = query /\ dbUp' = dbUp /\ redisUp' = redisUp
        BY <1>3, <2>3 DEF ProcActions, GoesOn, Start, Begin, Check, Create, Commit,
              InitialisationFails, MakeCache, Ingested, Close
      <3>2. Running(q) => proc'[on] = proc[on]
        BY <1>1, <1>3, <2>3, ServingKept DEF Served
      <3>3. schema => schema'
        BY <1>3, <2>3 DEF ProcActions, GoesOn, Start, Begin, Check, Create, Commit,
              InitialisationFails, MakeCache, Ingested, Close
      <3> QED BY <1>1, <3>1, <3>2, <3>3 DEF Served, Running, Healthy, Health
    <2> QED BY <2>1, <2>2, <2>3
  <1>4. ASSUME NEW r \in Queries, NEW p \in Processes, Ask(r, p) PROVE Served(q)'
    <2>1. CASE r # q
      BY <1>1, <1>2, <1>4, <2>1 DEF Ask
    <2>2. CASE r = q
      <3>1. p \in Apps /\ proc[p].pc = "serving"
        BY <1>4 DEF Inv, Informed, Ask
      <3> DEFINE h == Healthy(p) /\ schema
      <3>2. query'[q] = [pc |-> "embedding", on |-> p, healthy |-> h]
        BY <1>1, <1>4, <2>2 DEF Ask
      <3>3. proc' = proc /\ schema' = schema /\ dbUp' = dbUp /\ redisUp' = redisUp
        BY <1>4 DEF Ask
      <3> HIDE DEF h
      <3>4. query'[q].pc = "embedding" /\ query'[q].on = p /\ query'[q].healthy = h
        BY <3>2
      <3>5. h => Healthy(query[q].on)' /\ schema'
        BY <3>3, <3>4 DEF h, Healthy, Health
      <3> QED BY <3>1, <3>3, <3>4, <3>5 DEF Served, Running
    <2> QED BY <2>1, <2>2
  <1>5. ASSUME NEW r \in Queries, Works(r) PROVE Served(q)'
    <2>1. /\ query[r].on \in Processes /\ query[r] \in QueryType
          /\ Running(r)
      BY <1>1, <1>5 DEF Inv, Served, Works, Running, Embed, Search, Generate, Record, Processes
    <2>2. /\ dbUp' = dbUp /\ redisUp' = redisUp /\ schema' = schema
          /\ \A o \in Processes : proc'[o].pc = proc[o].pc /\ proc'[o].cache = proc[o].cache
      BY <1>1, <1>5, <2>1 DEF Works, Embed, Search, Generate, Record, MayOpen, Opens,
                              Becomes, ProcType
    <2>3. CASE r # q
      <3>1. query'[q] = query[q]
        BY <1>1, <1>5, <2>3 DEF Works, Embed, Search, Generate, Record
      <3> QED BY <1>1, <1>2, <2>2, <3>1 DEF Served, Processes
    <2>4. CASE r = q
      <3> DEFINE t == query[q]
                 u == query'[q]
      <3>1. \/ /\ u.on = t.on
               /\ \/ u.pc = "searching" /\ u.healthy = t.healthy /\ t.pc = "embedding"
                  \/ u.pc \in {"generating", "recording"}
                  \/ u.pc = "failed" /\ ~u.healthy
            \/ u.pc = "none"
        <4>1. CASE Embed(q)
          BY <1>1, <4>1 DEF Embed, Served, Healthy, Health, QueryType
        <4>2. CASE Search(q)
          BY <1>1, <4>2 DEF Search, Checkout, Served, Healthy, Health, QueryType
        <4>3. CASE Generate(q) \/ Record(q)
          BY <1>1, <4>3 DEF Generate, Record, QueryType, NoQuery
        <4> QED BY <1>5, <2>4, <4>1, <4>2, <4>3 DEF Works
      <3>2. t.on \in Apps /\ proc[t.on].pc = "serving"
        BY <1>1, <2>1, <2>4 DEF Served
      <3>3. proc'[t.on].pc = proc[t.on].pc /\ proc'[t.on].cache = proc[t.on].cache
        BY <2>2, <3>2 DEF Processes
      <3> HIDE DEF u
      <3>4. CASE u.pc = "searching"
        <4>1. Running(q)' /\ query'[q].on = t.on
          BY <3>1, <3>4 DEF Running, u
        <4>2. query'[q].healthy => Healthy(t.on) /\ schema
          BY <1>1, <3>1, <3>4 DEF Served, u
        <4>3. query'[q].healthy => Healthy(query[q].on)' /\ schema'
          BY <2>2, <3>3, <4>1, <4>2 DEF Healthy, Health
        <4> QED BY <3>2, <3>3, <3>4, <4>1, <4>3 DEF Served, u
      <3>5. CASE u.pc # "searching"
        BY <3>1, <3>2, <3>3, <3>5 DEF Served, Running, u
      <3> QED BY <3>4, <3>5
    <2> QED BY <2>3, <2>4
  <1>6. CASE DbFails \/ RedisFails \/ DbReturns \/ RedisReturns
    <2>1. ASSUME NEW o \in Processes
          PROVE  /\ proc'[o].cache = proc[o].cache
                 /\ proc[o].pc = "serving" => proc'[o].pc = "serving"
      <3>1. CASE DbFails
        <4> DEFINE lost == [proc[o] EXCEPT !.pool = IF @ = "live" THEN "stale" ELSE @]
        <4>1. lost.pc = proc[o].pc /\ lost.cache = proc[o].cache /\ lost \in ProcType
          BY <1>1 DEF ProcType
        <4>2. proc'[o] = IF proc[o].pc \in InTransaction
                         THEN [lost EXCEPT !.pc = "failing", !.made = FALSE,
                                           !.troubled = TRUE]
                         ELSE lost
          BY <3>1, Zenon DEF DbFails
        <4> HIDE DEF lost
        <4> QED BY <4>1, <4>2 DEF ProcType, InTransaction
      <3>2. CASE RedisFails \/ DbReturns \/ RedisReturns
        BY <3>2 DEF RedisFails, DbReturns, RedisReturns
      <3> QED BY <1>6, <3>1, <3>2
    <2>2. CASE DbReturns \/ RedisReturns
      BY <1>1, <2>2 DEF DbReturns, RedisReturns, Served, Running, Healthy, Health
    <2>3. CASE DbFails
      <3>1. IF query[q].pc \in {"embedding", "searching"}
            THEN query'[q] = [query[q] EXCEPT !.healthy = FALSE]
            ELSE query'[q] = query[q]
        BY <1>1, <2>3 DEF DbFails, Notice, Served, Running, Processes
      <3> QED BY <1>1, <2>1, <3>1 DEF Served, Running, QueryType, Processes
    <2>4. CASE RedisFails
      <3>1. IF query[q].pc \in {"embedding", "searching"} /\ proc[on].cache = "redis"
            THEN query'[q] = [query[q] EXCEPT !.healthy = FALSE]
            ELSE query'[q] = query[q]
        BY <1>1, <2>4 DEF RedisFails, Notice, Served, Running, Processes
      <3>2. proc' = proc /\ dbUp' = dbUp /\ schema' = schema
        BY <2>4 DEF RedisFails
      <3> QED BY <1>1, <3>1, <3>2 DEF Served, Running, QueryType, Healthy, Health
    <2> QED BY <1>6, <2>2, <2>3, <2>4
  <1> QED BY <1>3, <1>4, <1>5, <1>6 DEF Next, ProcActions

-----------------------------------------------------------------------------
LEMMA InvInit == Init => Inv
  <1> SUFFICES ASSUME Init PROVE Inv
    OBVIOUS
  <1>1. Stopped \in ProcType /\ NoQuery \in QueryType
    BY DEF Stopped, NoQuery, ProcType, QueryType, PCs, Gone
  <1>2. Typed
    BY <1>1 DEF Init, Typed
  <1>3. \A p \in Processes : Informed(p) /\ Holds(p) /\ ~proc[p].made
    BY DEF Init, Stopped, Informed, Holds, Initialising
  <1>4. \A q \in Queries : Served(q)
    BY DEF Init, NoQuery, Served, Running
  <1> QED BY <1>2, <1>3, <1>4 DEF Inv, OneCreator

LEMMA InvStep == Inv /\ [Next]_vars => Inv'
  <1> SUFFICES ASSUME Inv, [Next]_vars PROVE Inv'
    OBVIOUS
  <1>1. CASE UNCHANGED vars
    <2>1. Typed'
      BY TypedStep
    <2>2. (\A p \in Processes : Informed(p))' /\ (\A p \in Processes : Holds(p))'
      BY <1>1 DEF Inv, vars, Informed, Holds
    <2>3. OneCreator' /\ (\A q \in Queries : Served(q))'
      BY <1>1 DEF Inv, vars, OneCreator, Served, Running, Healthy, Health
    <2> QED BY <2>1, <2>2, <2>3 DEF Inv
  <1>2. CASE Next
    <2>1. (\A p \in Processes : Informed(p))' /\ (\A p \in Processes : Holds(p))'
      BY <1>2, ProcStepKept, OthersKept DEF Next, ProcActions
    <2> QED BY <1>2, <2>1, TypedStep, CreatorStep, ServedStep DEF Inv
  <1> QED BY <1>1, <1>2

LEMMA Invariant == Spec => []Inv
  BY InvInit, InvStep, PTL DEF Spec

\* Every variable keeps its type, and what is running runs in a running process.
THEOREM Types == Spec => []TypeOK
  <1>1. Inv => TypeOK
    BY DEF Inv, Typed, TypeOK, ProcType, QueryType, PCs, Served, OneCreator
  <1> QED BY <1>1, Invariant, PTL

\* However many processes start at once, one creates the schema, and each of those
\* that see to it (auto_create_schema) finds it when it goes on, unless the database
\* failed under it (db/init_db.py, main.py, scripts/ingest_sample.py).
THEOREM StartsWithSchema == Spec => []SchemaAfterStart
  <1>1. Inv => SchemaAfterStart
    <2> SUFFICES ASSUME Inv PROVE SchemaAfterStart
      OBVIOUS
    <2> DEFINE M == {p \in Processes : proc[p].made}
    <2>1. Cardinality(M) <= 1
      <3>1. CASE M = {}
        BY <3>1, FS_EmptySet
      <3>2. CASE M # {}
        <4>1. PICK p \in M : TRUE
          BY <3>2
        <4>2. M = {p}
          BY <4>1 DEF Inv, OneCreator
        <4> QED BY <4>2, FS_Singleton
      <3> QED BY <3>1, <3>2
    <2>2. \A p \in Processes : proc[p].auto =>
             /\ proc[p].pc = "ingesting" => schema
             /\ proc[p].pc \in {"caching", "serving"} /\ ~proc[p].troubled => schema
      BY DEF Inv, Informed
    <2> QED BY <2>1, <2>2 DEF SchemaAfterStart
  <1> QED BY <1>1, Invariant, PTL

\* A query fails only for a reason that held before its search was over
\* (query_service.py, with /health in routes.py).
THEOREM FailsForCause == Spec => []FailsOnlyForCause
  <1>1. Inv => FailsOnlyForCause
    BY DEF Inv, Served, FailsOnlyForCause
  <1> QED BY <1>1, Invariant, PTL

\* What lifespan and the script leave open at their end: at most the embedding
\* provider's client, or the engine of a script that raised; and no query loses the
\* engine or the cache while it runs (main.py, scripts/ingest_sample.py).
THEOREM LeavesEmbeddings == Spec => []LeavesOnlyEmbeddings
  <1>1. Inv => LeavesOnlyEmbeddings
    BY DEF Inv, Holds, Served, LeavesOnlyEmbeddings, Processes
  <1> QED BY <1>1, Invariant, PTL

-----------------------------------------------------------------------------
(***************************************************************************)
(* How long a start takes.                                                 *)
(***************************************************************************)
Starting == Initialising \union {"caching"}

\* The steps a process has yet to take until it serves, or gives up.
StepsLeft(pc) ==
    CASE pc = "beginning"  -> 6
      [] pc = "checking"   -> 5
      [] pc = "creating"   -> 4
      [] pc = "committing" -> 3
      [] pc = "failing"    -> 2
      [] pc = "caching"    -> 1
      [] OTHER             -> 0

\* CREATE waits for the transaction that has created the same thing.
WaitsFor(p, o) == proc[p].pc = "creating" /\ proc[o].made

\* Whoever is waited for waits for nobody, and is the only one.
WaitEnds ==
    \A p, o, x \in Processes : WaitsFor(p, o) => ~WaitsFor(o, x) /\ (WaitsFor(p, x) => x = o)

\* A process that starts moves towards its end with each of its steps, and with
\* each failure of the database; the service comes to serve unless it is killed.
StartRunsOut ==
    [][\A p \in Processes : proc[p].pc \in Starting =>
          IF proc'[p].pc = proc[p].pc THEN ~GoesOn(p)
          ELSE /\ StepsLeft(proc'[p].pc) < StepsLeft(proc[p].pc)
               /\ p \in Apps => proc'[p].pc \in Starting \union {"serving", "stopped"}]_vars

LEMMA StepsLeftFacts ==
    /\ StepsLeft("beginning") = 6 /\ StepsLeft("checking") = 5 /\ StepsLeft("creating") = 4
    /\ StepsLeft("committing") = 3 /\ StepsLeft("failing") = 2 /\ StepsLeft("caching") = 1
    /\ \A pc \in PCs \ Starting : StepsLeft(pc) = 0
  BY DEF StepsLeft, Starting, Initialising

\* One step of a start.
LEMMA GoesOnShortens ==
    ASSUME Inv, NEW p \in Processes, GoesOn(p)
    PROVE  /\ StepsLeft(proc'[p].pc) < StepsLeft(proc[p].pc)
           /\ p \in Apps => proc'[p].pc \in Starting \union {"serving"}
           /\ \A o \in Processes \ {p} : proc'[o] = proc[o]
  <1>1. /\ proc \in [Processes -> ProcType] /\ proc[p] \in ProcType
        /\ \A s : Becomes(p, s) => /\ proc'[p] = s
                                   /\ \A o \in Processes \ {p} : proc'[o] = proc[o]
    BY BecomesIt DEF Inv, Typed
  <1> DEFINE from == proc[p].pc
             to == proc'[p].pc
  <1>2. /\ \A o \in Processes \ {p} : proc'[o] = proc[o]
        /\ \/ from = "beginning" /\ to \in {"checking", "failing", "caching"}
           \/ from = "checking" /\ to \in {"committing", "creating"}
           \/ from = "creating" /\ to \in {"failing", "committing"}
           \/ from = "committing" /\ to \in {"caching", "failing"}
           \/ from = "failing" /\ to = IF p \in Apps THEN "caching" ELSE "raised"
           \/ from = "caching" /\ to = IF p \in Apps THEN "serving" ELSE "ingesting"
    <2>1. CASE Begin(p)
      <3> DEFINE none == [proc[p] EXCEPT !.pc = "caching"]
                 one == [proc[p] EXCEPT !.pc = "checking", !.pool = "live"]
                 other == [proc[p] EXCEPT !.pc = "failing", !.troubled = TRUE]
      <3>1. from = "beginning" /\ (Becomes(p, none) \/ Becomes(p, one) \/ Becomes(p, other))
        BY <2>1 DEF Begin
      <3>2. none.pc = "caching" /\ one.pc = "checking" /\ other.pc = "failing"
        BY <1>1 DEF ProcType
      <3> HIDE DEF none, one, other
      <3> QED BY <1>1, <3>1, <3>2
    <2>2. CASE Check(p)
      <3>1. from = "checking" /\ \E s : Becomes(p, s) /\ s.pc \in {"committing", "creating"}
        BY <1>1, <2>2 DEF Check, ProcType
      <3> QED BY <1>1, <3>1
    <2>3. CASE Create(p)
      <3> DEFINE one == [proc[p] EXCEPT !.pc = "failing"]
                 other == [proc[p] EXCEPT !.pc = "committing", !.made = TRUE]
      <3>1. from = "creating" /\ (Becomes(p, one) \/ Becomes(p, other))
        BY <2>3 DEF Create
      <3>2. one.pc = "failing" /\ other.pc = "committing"
        BY <1>1 DEF ProcType
      <3> HIDE DEF one, other
      <3> QED BY <1>1, <3>1, <3>2
    <2>4. CASE Commit(p)
      <3> DEFINE one == [proc[p] EXCEPT !.pc = "caching", !.made = FALSE]
                 other == [proc[p] EXCEPT !.pc = "failing", !.made = FALSE,
                                           !.troubled = TRUE]
      <3>1. from = "committing" /\ (Becomes(p, one) \/ Becomes(p, other))
        BY <2>4 DEF Commit
      <3>2. one.pc = "caching" /\ other.pc = "failing"
        BY <1>1 DEF ProcType
      <3> HIDE DEF one, other
      <3> QED BY <1>1, <3>1, <3>2
    <2>5. CASE InitialisationFails(p)
      <3>1. /\ from = "failing"
            /\ \E s : Becomes(p, s) /\ s.pc = IF p \in Apps THEN "caching" ELSE "raised"
        BY <1>1, <2>5 DEF InitialisationFails, ProcType
      <3> QED BY <1>1, <3>1
    <2>6. CASE MakeCache(p)
      <3> DEFINE ready == [proc[p] EXCEPT
                             !.pc = IF p \in Apps THEN "serving" ELSE "ingesting",
                             !.cache = IF redisUp THEN "redis" ELSE "memory",
                             !.opened = @ \union {"cache"}]
      <3>1. from = "caching" /\ Becomes(p, ready)
        BY <2>6 DEF MakeCache
      <3>2. ready.pc = IF p \in Apps THEN "serving" ELSE "ingesting"
        BY <1>1 DEF ProcType
      <3> HIDE DEF ready
      <3> QED BY <1>1, <3>1, <3>2
    <2> QED BY <2>1, <2>2, <2>3, <2>4, <2>5, <2>6 DEF GoesOn
  <1> HIDE DEF from, to
  <1>3. {"raised", "serving", "ingesting"} \subseteq PCs \ Starting
    BY DEF PCs, Starting, Initialising, Gone
  <1>4. {"checking", "failing", "committing", "creating", "caching"} \subseteq Starting
    BY DEF Starting, Initialising
  <1>5. StepsLeft(to) < StepsLeft(from)
    BY <1>2, <1>3, StepsLeftFacts
  <1>6. p \in Apps => to \in Starting \union {"serving"}
    BY <1>2, <1>4
  <1> QED BY <1>2, <1>5, <1>6 DEF from, to

\* Only its own steps, a kill and an outage of the database move it.
LEMMA StartMoves ==
    ASSUME Inv, [Next]_vars, NEW p \in Processes, proc[p].pc \in Starting
    PROVE  \/ GoesOn(p)
           \/ proc'[p].pc = proc[p].pc
           \/ proc'[p].pc = "stopped"
           \/ proc[p].pc \in InTransaction /\ proc'[p].pc = "failing"
  <1>1. proc \in [Processes -> ProcType] /\ proc[p] \in ProcType
    BY DEF Inv, Typed
  <1>2. ASSUME NEW o \in Processes, ProcActions(o), o # p
        PROVE  proc'[p] = proc[p]
    <2>1. \E s : Becomes(o, s)
      BY <1>2 DEF ProcActions, Start, GoesOn, Begin, Check, Create, Commit,
                  InitialisationFails, MakeCache, Ingested, ShutDown, Close, Kill
    <2> QED BY <1>1, <1>2, <2>1, BecomesIt
  <1>3. CASE ProcActions(p)
    <2>1. ~Start(p) /\ ~Ingested(p) /\ ~ShutDown(p) /\ ~Close(p)
      BY DEF Starting, Initialising, Gone, Start, Ingested, ShutDown, Close
    <2>2. Kill(p) => proc'[p].pc = "stopped"
      BY <1>1, BecomesIt DEF Kill, Stopped
    <2> QED BY <1>3, <2>1, <2>2 DEF ProcActions
  <1>4. CASE DbFails
    <2> DEFINE lost == [proc[p] EXCEPT !.pool = IF @ = "live" THEN "stale" ELSE @]
    <2>1. lost.pc = proc[p].pc /\ lost \in ProcType
      BY <1>1 DEF ProcType
    <2>2. proc'[p] = IF proc[p].pc \in InTransaction
                     THEN [lost EXCEPT !.pc = "failing", !.made = FALSE, !.troubled = TRUE]
                     ELSE lost
      BY <1>4, Zenon DEF DbFails
    <2> HIDE DEF lost
    <2> QED BY <2>1, <2>2 DEF ProcType
  <1>5. CASE DbReturns \/ RedisFails \/ RedisReturns \/ UNCHANGED vars
    BY <1>5 DEF DbReturns, RedisFails, RedisReturns, vars
  <1>6. ASSUME NEW q \in Queries, NEW o \in Processes, Ask(q, o)
        PROVE  proc'[p].pc = proc[p].pc
    BY <1>6 DEF Ask
  <1>7. ASSUME NEW q \in Queries, Works(q)
        PROVE  proc'[p].pc = proc[p].pc
    <2>1. /\ query[q].on \in Processes /\ query[q].on # p
      BY <1>7 DEF Inv, Served, Works, Running, Embed, Search, Generate, Record,
                  Processes, Starting, Initialising
    <2>2. proc' = proc \/ \E s : Becomes(query[q].on, s)
      BY <1>7 DEF Works, Embed, Search, Generate, Record, MayOpen, Opens
    <2> QED BY <1>1, <2>1, <2>2, BecomesIt
  <1> QED BY <1>2, <1>3, <1>4, <1>5, <1>6, <1>7 DEF Next, ProcActions

\* However many processes start at once over a database that comes and goes, none
\* of them waits for ever for another, or starts over (lifespan in main.py).
THEOREM StartsEnd == Spec => []WaitEnds /\ StartRunsOut
  <1>1. Inv => WaitEnds
    BY DEF Inv, OneCreator, WaitEnds, WaitsFor
  <1>2. Inv /\ [Next]_vars =>
           [\A p \in Processes : proc[p].pc \in Starting =>
              IF proc'[p].pc = proc[p].pc THEN ~GoesOn(p)
              ELSE /\ StepsLeft(proc'[p].pc) < StepsLeft(proc[p].pc)
                   /\ p \in Apps => proc'[p].pc \in Starting \union {"serving", "stopped"}]_vars
    <2> SUFFICES ASSUME Inv, [Next]_vars, NEW p \in Processes, proc[p].pc \in Starting
                 PROVE  IF proc'[p].pc = proc[p].pc THEN ~GoesOn(p)
                        ELSE /\ StepsLeft(proc'[p].pc) < StepsLeft(proc[p].pc)
                             /\ p \in Apps =>
                                   proc'[p].pc \in Starting \union {"serving", "stopped"}
      OBVIOUS
    <2>1. CASE GoesOn(p)
      <3>1. StepsLeft(proc'[p].pc) < StepsLeft(proc[p].pc)
        BY <2>1, GoesOnShortens
      <3>2. StepsLeft(proc[p].pc) \in Nat
        BY StepsLeftFacts DEF Starting, Initialising
      <3>3. proc'[p].pc # proc[p].pc
        BY <3>1, <3>2
      <3> QED BY <2>1, <3>1, <3>3, GoesOnShortens
    <2>2. CASE ~GoesOn(p) /\ proc'[p].pc # proc[p].pc /\ proc'[p].pc = "stopped"
      <3>1. "stopped" \in PCs \ Starting
        BY DEF PCs, Starting, Initialising, Gone
      <3>2. StepsLeft("stopped") = 0 /\ StepsLeft(proc[p].pc) > 0
        BY <3>1, StepsLeftFacts DEF Starting, Initialising
      <3> QED BY <2>2, <3>2
    <2>3. CASE /\ ~GoesOn(p) /\ proc'[p].pc # proc[p].pc
               /\ proc[p].pc \in InTransaction /\ proc'[p].pc = "failing"
      <3>1. StepsLeft("failing") < StepsLeft(proc[p].pc)
        BY <2>3, StepsLeftFacts DEF InTransaction
      <3> QED BY <2>3, <3>1 DEF Starting, Initialising
    <2> QED BY <2>1, <2>2, <2>3, StartMoves
  <1> QED BY <1>1, <1>2, Invariant, PTL DEF Spec, StartRunsOut

=============================================================================
