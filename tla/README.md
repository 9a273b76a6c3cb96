# LexOrchestrator-AU in TLA+

TLA+ models of the parts of LexOrchestrator-AU whose behaviour depends on
order, time, failure or concurrency, with TLC runs that check them on small
instances and TLAPS proofs for instances of every size. Paths below are relative
to `src/src/lexorchestrator_au/` unless they start with `src/`.

To repeat the checks, inside this directory:

    tlc -config orch_safety.cfg MCOrchestrator.tla      # any row of the table of runs
    tlapm Orchestrator_proofs.tla

## 1. The system

One FastAPI process on one asyncio event loop serves `POST /query` and
`POST /feedback`. A query is limited (`core/rate_limit.py`), gets a trace id
(`core/middleware.py`), retrieves chunks (`rag/`), asks language models
(`orchestration/`, `adapters/`), and is recorded (`feedback/service.py`). Separate
processes ingest documents and export the feedback dataset. All state outside
PostgreSQL and Redis is in the process's memory.

| Component | State | Operations | Talks to | Hard part | What makes it correct |
|---|---|---|---|---|---|
| Orchestrator `orchestration/orchestrator.py` | one request's place in its route, attempt, sleep | `generate` | router, breakers, adapters | requests interleave at every await; timeouts, retries | every request is answered; no provider is used that the breakers protect |
| Circuit breaker `circuit_breaker.py` | state, failure count, opening time, probe slot; shared by all requests | `allow_request`, `record_success`, `record_failure` | called by the orchestrator | verdicts of calls admitted in an earlier phase | fields agree; one probe alone; never wedged |
| Router `router.py` | none | `classify`, `route` | - | - | managed providers first |
| Adapters, normalizer | HTTP client | `generate`, `normalize_answer` | providers | which exception each reply becomes | final errors are not retried |
| Rate limiter `core/rate_limit.py` | LRU map of clients to request times | `dispatch` | next middleware | eviction, boundary of the window | exact window, bounded memory |
| Feedback `feedback/`, `api/` | tables `query_runs`, `feedback_events` | record run, record feedback, export | PostgreSQL | overlapping transactions, lost acknowledgements, failures that are swallowed | acknowledged feedback is kept; corrections are paired with what they correct |
| Corpus `rag/ingestion.py`, `rag/repository.py` | tables `legal_documents`, `legal_chunks` | ingest directory, replace document, search | PostgreSQL, embeddings | replacing under concurrent ingestion, kills | one version per source, never lost |
| Embeddings and cache `rag/embeddings.py`, `core/cache.py` | LRU/TTL map, or Redis, which outlives the process | get, set, `embed_texts` | provider, Redis | concurrent misses, batches in any order, expiry, entries of another model, Redis failures | a vector is its text's and this model's; what is in use is not evicted; every call ends |
| Chunker `rag/chunker.py` | none | `chunk` | called by the ingestion | where headings, blank lines and windows end | no word lost, overlap as set, the right heading |
| Retrieval, reranker `rag/retrieval.py`, `rag/reranker.py` | none | `retrieve` | embeddings, PostgreSQL | failures of what it calls | - |
| Citations `attribution/service.py`, `orchestration/prompts.py` | none | `build_citations`, `context_blocks`, `validate_answer_citations` | called by `QueryService.query` | three numberings of the same sources | Cn is one chunk for the model and for the client |
| Start-up and shutdown `main.py`, `db/`, `scripts/ingest_sample.py` | app.state, the connection pool, the schema | `lifespan`, `initialise_database`, `_health` | PostgreSQL, Redis | several processes starting at once, outages at any time | the schema is there; an outage that is over costs nothing; what is left open at the end is known |
| Authentication, settings, schemas, metrics | none | - | - | - | - |

## 2. Modules

| Module | Models | Composes |
|---|---|---|
| `CircuitBreaker` | the breaker's methods, as operators from breaker to breaker | |
| `ProviderAdapters` | reply kind -> class of outcome, for the three adapters and the normalizer | |
| `ModelRouter` | `classify`, `route` | |
| `Orchestrator` | `generate`, run by `Requests` at once, in ticks | extends `CircuitBreaker`, `ProviderAdapters`; implements `ProviderGate` |
| `ProviderGate` | abstract: who may start using a provider and what a verdict may do | |
| `Orchestrator_proofs` | theorems about `Orchestrator` | |
| `UseOrder` | an OrderedDict kept in order of use, as operators on its keys | |
| `RateLimiter` | the middleware, every request one step | extends `UseOrder`; implements `SlidingWindow` until it evicts |
| `SlidingWindow` | abstract: an exact sliding-window limiter | |
| `RateLimiterHistory` | `RateLimiter` with observers of what clients did and were told | |
| `FeedbackStore` | both tables, written by overlapping requests | |
| `Corpus` | ingestion processes, document table, queries that read it | implements `SourceTable` |
| `SourceTable` | abstract: a table in which a source's document is replaced at once | |
| `TtlCache` | `InMemoryTTLCache`, and Redis as `RedisTTLCache` uses it, as operators on their contents | extends `UseOrder` |
| `EmbeddingCache` | `CachedEmbeddingProvider.embed_texts` over the OpenAI or hash provider, by concurrent requests, over restarts | extends `TtlCache` |
| `Chunker` | `LegalChunker.chunk`, loop by loop | |
| `Attribution` | a query from its retrieval to its validated answer | |
| `Documents` | `ingest_document`, then queries over what it stored | extends `Chunker`, `Attribution` |
| `Service` | `lifespan`, `initialise_database`, `ingest_sample.run` and queries over a PostgreSQL and a Redis that come and go | |
| `UseOrder_proofs` | lemmas about orders of use | |
| `RateLimiter_proofs`, `EmbeddingCache_proofs` | theorems about these modules | extend `UseOrder_proofs` |
| `FeedbackStore_proofs`, `Corpus_proofs`, `Service_proofs` | theorems about these modules | |
| `Documents_proofs` | the chunker's and the citations' part of the invariant as lemmas, then theorems about `Documents` | |
| `MC...` | small sets, sequences and symmetries for the runs | `MCOrchestrator` joins `Orchestrator` with the routes of `ModelRouter` |

### How state and actions correspond to the code

**Orchestrator.** `task[r]` holds the local variables of one call of `generate`:
its route, `pos` (outer loop), `attempt` (inner loop), `age` of the call or sleep
it waits in, and `delay`, the sleep before this attempt. `breaker` is
`self.breakers`. The methods of the breaker hold their lock over code that never
awaits, so a coroutine only gives up the loop in the adapter's HTTP call and in
`asyncio.sleep`; what lies between two such points is one action: `Submit`
(route, skip unwilling providers, start the first call), `Reply` and `TimeOut` (record the
verdict, then answer, sleep, or go on along the route), `Wake` (the next attempt,
without asking the breaker, as in the code). A provider in `Extractive` (Llama
without a URL) answers inside the same step. `Verdict` keeps the order of lines
74-76: `record_success` comes before `normalize_answer`, which may still raise.

**UseOrder.** `Drop` is `pop(key, None)`, `MoveToEnd` a touch, `Latest` what remains of an
order after `popitem(last=False)` until it has the size allowed. The limiter's and the
cache's dictionaries are both kept that way.

**RateLimiter.** `order` and `bucket` are the OrderedDict. The code up to
`call_next` has no await. Buckets store ages instead of times. `seen`, `admitted` and
`advice` observe the clients: who came, what was admitted, and how long a refused client has still
to stay away until a second past the time that Retry-After named.

**FeedbackStore.** A worker is a request between two awaits on the database. The
row it selected stays in its session (`row`). `Written` says what an UPDATE by
SQLAlchemy's unit of work does: it names the columns whose value differs from the loaded
one; feedback_comment and feedback_at go with the two columns that are
kept. `NotStored` is the `except` of `_feedback`; it is possible before and after
the commit took effect (`Store`). `Dataset` is the exporter's join.

**Corpus.** A document with its chunks is the version of the file it was made
from. The steps of a transaction are `Select`, `Delete`, `Insert`, `Commit`; what other
transactions see changes at `Commit`. READ COMMITTED is modelled where the code
meets it: a DELETE waits for the row's lock and then finds no row, an INSERT
waits for transactions on the same `source_uri` and then may be a duplicate.

**TtlCache and EmbeddingCache.** `order` is the OrderedDict's, `left` the ticks an
entry has before its `expires_at`; one that has expired stays until somebody asks
for it or it is evicted. `task[r]` holds the locals of one `embed_texts`. With the
dictionary nothing is awaited that is not there at once, so a request keeps the event loop while
it looks up and while it stores (`AtAwait`, `Runs`); with Redis every access may lose the
loop, and may raise (`RedisFails`). A vector is the configuration that made it and
its text, so that a vector under the wrong text, or from another model, shows.
`Sorted` and `Arrivals` are the sort by `index` of a reply that comes in any order.
`Restart` picks any settings and, as `create_cache`, either backend; the dictionary is new,
Redis keeps what it has. `uses`, `idleFor` and `clean` are observers.

**Chunker.** One action per kind of line and per window. A line is blank, a
heading or text with a number of words; words are told apart by their place. What
`SECTION_RE` takes for a heading is an input: it includes lines of prose of up to six
alphabetic words.

**Attribution and Documents.** `Retrieve` takes any ranking of stored chunks up to the
limit, which covers what scores, filters, the index and the reranker may do. `PassOver`
and `Cite` are one round each of `build_citations`; `ContextBlocks` is the branch with
citations. An answer is the set of numbers that the expression of
`validate_answer_citations` finds in it: any for a model; for the two answers made without one,
the numbers they give their blocks and those that the quoted texts happen to contain (`Quoted`).

**Service.** `proc[p]` is a process of the service or of `lex-ingest`. `auto` is its setting
`auto_create_schema`, read at each `Start`: a process without it goes straight on from
`Begin` (`db/init_db.py:20-21`), and the tables may be there before anything runs, from a
migration or an earlier deployment, or never come. `Check` sees what is committed; `Create` waits while another transaction has made the schema, and fails
if that one committed: `IF NOT EXISTS` and `create_all` looked before. `pool` says
whether the connections that the pool holds died in an outage. `Embed`, `Search`, `Generate`
and `Record` are the calls of `QueryService.query`, with the failures that leave it and
those that are caught; `Health` is what `GET /health` would say. `healthy` observes
whether it would have said so from a query's start to the end of its search. `opened` is what
a process has opened and not closed: engine, cache, and the HTTP clients of the adapters and
of the embedding provider, which a call makes when it needs one (`MayOpen`; no provider of
embeddings fails without having made it). A process ends in one of three ways (`Gone`):
`ended`, when lifespan or the script has run to its end, and `raised`, when the script's
initialisation failed, keep in `opened` what the code leaves behind; `stopped` is a process that
was killed, of which nothing is left.

## 3. Runs

| Run | Question | Result |
|---|---|---|
| `orch_safety` | breakers coherent, probe alone, managed providers first, extractive safety net; three requests on the router's routes | holds |
| `orch_live` | does `generate` implement `ProviderGate`, is every request answered, does every circuit admit again? | yes |
| `limiter` | bounded memory, LRU, exact until the first eviction, eviction only forgives, a second more than Retry-After is always enough | holds |
| `limiter_retry_after` | is Retry-After enough (`core/rate_limit.py:58-61`)? | no: rounded down, closed window |
| `feedback_store` | is acknowledged feedback kept, are recorded answers kept, is the dataset paired right for trace ids used once? | yes |
| `feedback_torn` | do a run's feedback columns come from one feedback? | no, when two overlap |
| `feedback_pairs` | is the dataset paired right under repeated trace ids? | no |
| `corpus` | do the transactions implement `SourceTable`; one document per source, in sync without overlap, every ingestion ends? | yes |
| `embeddings` | does every text get its own vector, from this model, or for a TTL from one of the same class; does the dictionary keep what is used; does every call end? | yes |
| `documents` | from a text to a citation: no word lost, windows overlap, each chunk's own vector, sources numbered alike for model and client, cited text under the heading named | holds |
| `service` | is the schema there after a start, with and without `auto_create_schema`, does an outage that is over fail no query, is nothing left open but the embedding provider's client (or a raised script's engine), does the service always come to serve? | yes |
| `corpus_citations` | do ids in citations resolve (`src/README.md:36`)? | no, after a re-ingestion |

A run whose answer is no is a divergence between the code and its own text; the
findings in `PROJECT.json` quote both sides. More were met while modelling and have
no run of their own:

* "Only one probe request allowed in HALF_OPEN" (`orchestration/circuit_breaker.py:36`)
  takes a recovery time longer than a call and a back-off. `Settings` accepts shorter ones;
  then a second probe can be admitted beside the first. `ProbeIsolation` states the condition.
* The Llama adapter lets `raise_for_status` raise for a 4xx, which the orchestrator
  retries, though `adapters/base.py:17-18` has an exception for errors that will not succeed on
  retry and the other two adapters raise it (`LlamaOutcome`).
* `src/README.md:258` calls Redis the backend of the rate limiter too; the limiter
  keeps its own dictionary.
* The embedding provider's HTTP client is closed by nobody: `main.py:83-85` closes adapters,
  cache, engine, and `aclose` (`rag/embeddings.py:168`) has no caller. `ingest_sample.run` opens
  its engine before its `try`: if `initialise_database` raises, it is not disposed of.
  `LeavesOnlyEmbeddings` states both, and that nothing else is left.
* With `auto_create_schema` off, as `src/README.md:317` suggests for production, a service whose
  migration has not run starts all the same and fails every query at its search, and the script
  ingests nothing; `SchemaAfterStart` is about processes that have it on.
* `/health` says "ok" for a database without tables (`api/routes.py:33`) and for the
  dictionary that stands in for Redis (`core/cache.py:26-27`).
* A heading right before another heading, or at the end of the text, is in no chunk;
  neither is a short line of prose that looks like one (`rag/chunker.py:61-65`).
* With `retrieval_limit` below a client's `max_citations`, citations beyond it pass the
  validation though no prompt had them (`api/query_service.py:52`); the default, 12, is enough.
* What a quoted text contains may count as an unsupported citation of an extractive answer
  (`attribution/service.py:79`).
* The limiter allows `rate_limit_per_minute` + `rate_limit_burst` requests in every
  window (`core/rate_limit.py:51`, against `src/README.md:263`), visible in the
  definition of `Allowed`.
* `degraded_not_stored` (`api/routes.py:75`) is also the answer when the commit took
  effect and its acknowledgement was lost, visible in the guard of `NotStored`.

### Bounds

* Orchestrator: three requests, because an isolation failure needs a probe, a
  straggler and one that opens the circuit again; two managed providers so that a
  request leaves one circuit for another; threshold 2 so that counting below
  the threshold happens; two attempts so that one sleep lies between;
  `CallTicks` 1 or 2, back-off up to 2, and the smallest recovery time that keeps the
  order of the defaults (45 s > 28.75 s + 1.05 s). `orch_live` has two
  requests and no local provider. Breaker counters stop at the threshold and at
  the recovery time, where the code stops telling values apart.
* Limiter: half-second ticks, so that rounding to seconds shows; a window of two seconds,
  so that Retry-After is not always the least it can be; two requests per window; three clients and room for two, so that there are phases without
  and with eviction.
* Feedback: two workers, one trace id, two answers, two ratings, one correction
  or none, two feedbacks (`MaxFeedback`). Traces do not interact (every table
  access is by trace id), a torn row needs two workers on one trace, a wrong pair
  two answers with one trace. `asked` counts up to two.
* Corpus: two ingesters, two files, one edit (`MaxEdits`) and three runs
  (`MaxRuns`): one to fill the corpus and two that race to replace it.
* Embeddings: two callers, a query of one text and an ingestion of three with one of them
  twice; three texts and room for two, so that entries in use compete; batches of two, so
  that there are two of them; TTL one tick, one restart (`MaxRestarts`); the hash
  provider and two models of OpenAI, which have the same cache keys.
* Documents: every text of up to four lines (`MaxLines`) of 0, 1 or 5 words (`Sizes`),
  with two labels; windows of three words that overlap by one, so that a line
  of five needs two and a joined section three or more; batches of two; a second document with two chunks
  of one section. The prompt holds two blocks (`RetrievalLimit`) and clients ask for one or
  three citations, below and above it; texts may quote "C3".
* Service: a service and a script, each with `auto_create_schema` or without at every start, race
  for the schema, which may be there already; two queries overlap; nothing counts, so the runs of
  both and the outages are unbounded.

`CHECK_DEADLOCK FALSE` in the feedback and corpus runs: once the bounded number
of requests is made the system has nothing left to do. `IngestionEnds` covers
waiting for locks. All other runs have the deadlock check on.

Symmetry is used for requests, workers and data in runs without liveness.

### Fairness

`FairSpec` of `Orchestrator`: the clock ticks, and a timer that is due fires. Both are the
event loop's doing. Nothing is assumed of providers, which may never reply, nor of
clients. `FairSpec` of `Corpus`: each ingestion process goes on when the call it waits
for may return. `FairSpec` of `EmbeddingCache`: a request that can go on does, strongly fair because another
request may have the event loop at times; asyncio serves its ready queue first in, first out, the
HTTP client's time-out ends every call, and a lost connection to Redis raises. `FairSpec` of
`Service`: a process that starts goes on, strongly fair because it may wait in `CREATE` for
one after another; PostgreSQL serves a lock's queue in turn. In all of them faults may
happen and never have to, and no query, restart or shutdown has to come.

### Assumed of the environment

* The event loop is never late by a tick: a call or sleep that is due is served
  before the clock moves on (`Tick`).
* A request to `generate` is not cancelled. No code of the repository does it; a
  cancelled probe would keep its slot, as `except Exception` does not catch
  `CancelledError`.
* At least one attempt per provider, at least one request per window
  (`OrchestratorConfig`, `RateLimitConfig`); `Settings` checks neither.
* The embeddings API answers every index of a batch once (`_embed_batch` does not check).
* Adapters, cache and engine close without raising (`Close`).
* A transaction whose client gave up has either taken effect by then or never
  will.

## 4. Proofs

For any number of processes, requests, clients, lines and values and any settings
that satisfy the assumptions the modules name (`BreakerConfig`, `OrchestratorConfig`,
`RateLimitConfig`, `CorpusConfig`, `FeedbackConfig`, `ServiceConfig`, `ChunkerConfig`,
`AttributionConfig`, `DocumentsConfig`, `TtlCacheConfig`, `EmbeddingConfig`, `NothingIsNoVector`).

| Theorem | States |
|---|---|
| `Orchestrator_proofs!TypeCorrect` | `Spec => [](TypeOK /\ BreakerShape)` |
| `Orchestrator_proofs!ShapeCorrect` | `Spec => []BreakerShape` |
| `Orchestrator_proofs!ProbeIsolation` | `RecoveryOutlastsAttempts` implies `Spec => []SoleProbe` |
| `Orchestrator_proofs!SafetyNet` | `Spec => []ExtractiveSafetyNet` |
| `Orchestrator_proofs!GateRefinement` | `RecoveryOutlastsAttempts` implies `Spec => GateSpec` |
| `Orchestrator_proofs!ManagedComeFirst` | `ManagedAhead` implies `Spec => ManagedFirst` |
| `Orchestrator_proofs!AnsweredWithinBudget` | `Spec => []WithinBudget /\ RunsOut` |
| `Orchestrator_proofs!AdmitsAgain` | `0 < RecoveryTicks` implies `Spec => []NeverShutForLong /\ ShutRunsOut` |
| `RateLimiter_proofs!MemoryBounded` | `HistorySpec => []TypeOK` |
| `RateLimiter_proofs!KeepsLatest` | `HistorySpec => []KeepsMostRecent` |
| `RateLimiter_proofs!OnlyForgives` | `HistorySpec => []NeverOvercounts` |
| `RateLimiter_proofs!ExactWhileRoom` | `HistorySpec => ExactUntilEviction` |
| `RateLimiter_proofs!NeverASecondShort` | `HistorySpec => SecondLaterSuffices` |
| `FeedbackStore_proofs!Types` | `Spec => []TypeOK` |
| `FeedbackStore_proofs!RecordedMeansStored` | `Spec => []RecordedIsStored` |
| `FeedbackStore_proofs!RunsStay` | `Spec => RunsWrittenOnce` |
| `FeedbackStore_proofs!FreshFaithful` | `Spec => []FreshTracesFaithful` |
| `FeedbackStore_proofs!TornOnlyByStaleRow` | `Spec => [][\A t \in Traces : Shows(t) => Shows(t)' \/ StaleWrite(t)]_storeVars` |
| `FeedbackStore_proofs!OneWorkerNeverTears` | one worker implies `Spec => []RunShowsOneFeedback` |
| `FeedbackStore_proofs!HandledOnce` | `Spec => []LoggedOnce /\ LogAndAnswersStand` |
| `Corpus_proofs!Types` | `Spec => []TypeOK` |
| `Corpus_proofs!OneDocument` | `Spec => []OneDocumentPerSource` |
| `Corpus_proofs!ImplementsTable` | `Spec => ReplacesAtomically` |
| `Corpus_proofs!KeepsSources` | `Spec => NeverLosesSource` |
| `Corpus_proofs!CitationsSuperseded` | `Spec => []CitedSuperseded` |
| `Corpus_proofs!StaysInSync` | `OwnSources` implies `Spec => []InSync` |
| `Corpus_proofs!NoDeadlock` | `Spec => []NoChainOfWaits` |
| `Corpus_proofs!RunsAreFinite` | `Spec => []ShortRuns /\ CallsRunOut` |
| `EmbeddingCache_proofs!Types` | `Spec => []TypeOK` |
| `EmbeddingCache_proofs!EveryTextItsVector` | `Spec => []ResultsFaithful` |
| `EmbeddingCache_proofs!EveryKeyItsVector` | `Spec => []CacheFaithful` |
| `EmbeddingCache_proofs!RecentlyUsedStay` | `Spec => []KeepsRecentlyUsed` |
| `EmbeddingCache_proofs!LoopIsFree` | `Spec => []NobodyBlocksTheLoop` |
| `EmbeddingCache_proofs!CallsAreFinite` | `Spec => []ShortCalls /\ StepsRunOut` |
| `Documents_proofs!Types` | `Spec => []TypeOK` |
| `Documents_proofs!NothingLost` | `Spec => []NoWordLost` |
| `Documents_proofs!WindowsGoForward` | `Spec => []WindowsOverlap` |
| `Documents_proofs!VectorsMatch` | `Spec => []OwnVector` |
| `Documents_proofs!CitesSoundly` | `Spec => []CitationsSound` |
| `Documents_proofs!SameNumbers` | `Spec => []PromptMatches` |
| `Documents_proofs!SupportedShown` | `Spec => []SupportedWasShown` |
| `Documents_proofs!CitesTheDocument` | `Spec => []CitedTextTraceable` |
| `Documents_proofs!LoopsEnd` | `Spec => LoopsGoOn` |
| `Service_proofs!Types` | `Spec => []TypeOK` |
| `Service_proofs!StartsWithSchema` | `Spec => []SchemaAfterStart` |
| `Service_proofs!FailsForCause` | `Spec => []FailsOnlyForCause` |
| `Service_proofs!LeavesEmbeddings` | `Spec => []LeavesOnlyEmbeddings` |
| `Service_proofs!StartsEnd` | `Spec => []WaitEnds /\ StartRunsOut` |

**Orchestrator.** *Types and shapes* are inductive together: breaker counters stay in range because a
coherent closed circuit is below the threshold.

*Probe isolation* needs more than `SoleProbe`, which does not say why a straggler
cannot be left when the circuit turns half-open. The inductive invariant
`Isolation` adds the timing: the circuit of an open provider has been open no longer
than any request there has been waiting (in its call and the sleep before it), and no
request waits as long as the recovery time (`InTime`). A breaker that lets a
probe through has been open for the recovery time, so nobody else is left. Without
the hypothesis `RecoveryOutlastsAttempts` it does not hold.

*The safety net* strengthens the property by: the extractive adapters' breakers
are closed, and a request inside the loops still has an extractive adapter ahead.

*The refinement* maps each breaker to its state and each provider to the
requests in its inner loop. One step of `generate` may report to one
provider and enter another, skipping others, hence a step of the gate is a conjunction over
providers. `Isolation` gives the premise of the abstract `Probe`.

*Managed first* holds for routes with every managed provider ahead of an extractive one
(`ManagedAhead`), which all routes of `ModelRouter` have (`RouterOrder`). A request inside the loops
has no answer yet (`Waiting`), so only the end of the outer loop can answer locally.

**Rate limiter.** The tracked clients are the end of a longer list, all clients in the order
of their last request (`MostRecent`); both move one client to their end, and an
eviction drops the head of one of them only. A bucket falls in age and is not longer than
`Allowed` (`BucketInv`); what it has within the window is the latest part of what was admitted
(`Remembers`). Ages only grow together, so pruning a prefix late, as the code does, loses nothing
of that. For `SlidingWindow` (`ExactWhileRoom`) a tick is followed bucket by bucket (`AgeBucket`):
what the code prunes later is what the window drops now. As long as there is room `order` is `seen`,
and a move to the end loses nobody. `NeverASecondShort` follows one
client from its refusal on (`AdviceInv`): while it stays away, the age of the oldest request
in its bucket and the ticks it has yet to wait add up to more than the window, so that
by the end of the wait that request no longer counts. Rounding down to seconds takes
less than the second that is waited in addition (`RoundedDown`), which is why the wait that was
advised (`limiter_retry_after`) is not enough and this one is.

**Feedback store.** `RecordedIsStored` is not inductive: it says nothing of feedback that
is stored and not yet acknowledged. The invariant adds that (`Logged`), what a loaded
row can be by the time it is used (`Loaded`), and what ties a trace id used once to a single answer through
the worker that records it (`Single`): until it has, there is no run and nothing was
delivered. From `Single` and from what a client can have judged (`Judged`) follows which
answer stands in a stored event (`Truthful`), on which the dataset's pairs rest. `HandledOnce` follows from
who may handle a feedback (`Sole`): one worker, until it answers, and with nothing of it in the log
before its commit.

**Corpus.** `OneDocumentPerSource` holds because of who may commit: `HoldsSource` says that an
ingestion that has inserted is the only one for its source and that the document it is about to
replace is the only one there. Ids are unique and never come again (`UniqueIds`,
`MidFile`), hence the delete hits what the select found or nothing. For `InSync` the proof
follows one ingestion at a time: as long as no two overlapped, what it read is what its source
gets. `OwnSources` says that no two files of the directory have one source; with
two, the later file wins and the earlier report is no longer true.

**Embedding cache.** `CacheInv` has a part for each place a vector can be. `Dictionary`: exactly the
keys with an expiry have a place, the places are the latest uses, every value is its key's and this
configuration's. `Server`: the time an entry of Redis has left and the time its maker has been
without Redis add up to no more than the TTL, from which follows that a request that starts
when no other model of the class can have left anything (`Clean`) finds nothing of one. `TaskInv`: results belong
to their texts, the vectors that came so far to the misses they were asked for, in order, and
each place of the list is settled or still to come (`Settled`), which is what "done means complete" rests on when hits and
misses alternate and batches are cut anywhere. `Sorted` is the identity on what was asked for,
in whatever order it arrived (`SortedFacts`).

**Documents.** `ChunkerInv` says where every word read so far is: in a chunk or, in the
text's order, in the section that is being collected, under one heading each. `Layout` adds where a
window starts, from which the overlap follows; `OverlapTokens < TargetTokens`,
which the constructor checks, is what makes a window end after the one before. `AttributionInv` relates
citations, blocks and results by rank. Blocks are looked up by `chunk_id`, so
`SameNumbers` needs that no two rows of the index share one; that is where the two halves meet.

**Service.** A process that is past its initialisation, with `auto_create_schema` and
without an outage, knows of the schema, because it saw it, made it, or failed as somebody else
had (`Informed`); nothing takes the schema away. `Holds` says what is open at each point of a
process's life, which at its end leaves the embedding provider's client. `OneCreator` is why two transactions never both make it. A healthy
query has what it needs as long as it needs it (`Served`).

**Where a claim stops.** Four runs show that the code does not do what a text says of it. What it
does instead is proved, so that the run and the theorem together say where the line is:

* `limiter_retry_after`: a second more than Retry-After is always enough (`NeverASecondShort`).
* `feedback_torn`: a run shows two people's feedback only after an UPDATE over a row that had changed
  since it was loaded (`TornOnlyByStaleRow`); with one request at a time there is none, in spite of
  failed calls and crashes (`OneWorkerNeverTears`, by `Fresh`: the row loaded is the row
  in the table).
* `feedback_pairs`: pairs are right for trace ids that one query carried (`FreshFaithful`).
* `corpus_citations`: what was cited is still there, or a document of its source with a higher id
  is (`CitationsSuperseded`), because a commit replaces (`ImplementsTable`) and gives ids in order.

**What carries the liveness properties.** The prover knows neither fairness nor ENABLED, so
`EveryRequestAnswered`, `NeverWedged`, `IngestionEnds`, `EmbeddingEnds` and `StartsAnyway` stay
with TLC. For each of them the measure it rests on is proved, as an invariant that bounds it
and an action property that says which steps reduce it and that nobody raises it:

* `AnsweredWithinBudget`: `TimeLeft` is the rest of the current call or sleep, a call and a
  back-off for every retry left here, and a `Budget` for every provider that follows on the route; each tick takes of
  it, each reply, time-out and wake-up takes a step.
* `AdmitsAgain`: a circuit that refuses lets nobody in, so the requests there only use up their time;
  a half-open one that refuses has lent its probe to a call that is under way (`HasCaller`). A
  failed probe opens the circuit for one recovery time more, and no straggler's verdict adds to that.
* `RunsAreFinite`: six calls per file and no file twice. `NoDeadlock`: whoever is waited for has
  deleted or inserted and waits for nobody, as one transaction at a time holds a row
  (`OneHolder`) or its source (`HoldsSource`).
* `CallsAreFinite`: a look-up, a store and the tries of a batch for each text. `LoopIsFree`: whoever
  keeps the event loop can go on.
* `StartsEnd`: six stages, of which a failure of the database only skips some; who is waited for
  in `CREATE` waits for nobody.
* `LoopsEnd` does the same for the loops of `Documents`, whose termination no run asks for separately:
  a window starts `TargetTokens - OverlapTokens` after the one before, within its section.

From there to the properties it takes that the steps named are enabled and are taken, which is
what the runs check under the fairness of section 3.

## 5. Not modelled, and why

* Scores, reranking and confidence: floating-point arithmetic; `Attribution` takes any ranking.
* `SECTION_RE` and `clean_snippet`: what they match and how they shorten is text.
* Authentication, schemas, settings, logging, metrics: stateless, declarations or wording.
* `NullCache` and `get_or_set_json` of `core/cache.py`: nothing uses them.
* The comment and the query text of a feedback, token usage: data that no property
  tells apart.
* Cancelled requests: no code of the repository cancels one.
* The HTTP clients inside the adapters and the embedding provider, except that
  `close_adapters` closes the former.

## 6. Plan

1. *(done)* Orchestrator with breakers, adapters, router; gate refinement; proofs.
2. *(done)* Rate limiter; feedback store; corpus; proofs of the last two.
3. *(done)* Embedding cache over both backends; chunker, citations and their composition;
   start-up, shutdown and outages, with proofs.
4. *(done)* Proofs about the limiter, the chunker and the citations.
5. *(done)* Proofs about the embedding cache, with its order written as the limiter's.
6. *(done)* The measures of the liveness properties; what holds where a run says no; the corpus as
   an implementation of `SourceTable`.
7. An abstract specification of the cache (texts to vectors, some of which are forgotten) that
   `EmbeddingCache` implements; the vectors paid for and thrown away when a reply is short.
