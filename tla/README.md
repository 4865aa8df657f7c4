# ScaleStyle: TLA+ models and proofs

ScaleStyle is a fashion recommendation system: a Spring gateway, an inference
service on Ray Serve, an event consumer that turns clicks into online features
in Redis, and batch jobs that fill Redis and Milvus. This directory holds TLA+
models of the parts whose correctness depends on interleaving, failure and
ordering, the TLC configurations that check them, and TLAPS proofs.

The models are translated from the code. Where this text says what the system
does, it says what the code does; where a doc or a comment of the repository
disagrees, section 3 lists the statement and how TLC refutes it. One of these is
a standing run that ends in a violation, and the finding in `PROJECT.json`.

## 1. The system

### Parts, state, operations

| Part | Code | State | Operations |
|---|---|---|---|
| Click ingestion | gateway `controller/EventController`, `service/EventTrackingService`, `EventProducerService`, `EventTrackingAttemptMetrics` | executor queue, DeferredResults, idempotent Kafka producer, outcome windows | accept a click, publish it, answer 202/503, time out |
| Consumer loop | event-consumer `kafka_loop.py` | Kafka client (assignment, positions, paused partitions), `_paused_partitions`, `pending_commits` | poll, resume, process batch, commit, exit |
| Retry router | `retry_router.py` | retry tier topics, DLQ topic, `dlq:sent:*` markers | defer, retry, dead-letter |
| Feature update | `feature_update_handler.py`, `redis_feature_writer.py` | Redis features, `dedupe:event:*`, category cache | validate, deduplicating Lua upsert, classify the error |
| Consumer process | `consumer.py`, `config.py` | mode (primary, retry), group | start, restart |
| Recommendation service | gateway `service/RecommendationService`, `controller/RecommendationController`, `config/InferenceClientConfig` | two executors, circuit breaker, shared query cache `rec:v1:*` | text, image and hybrid search, enrichment, fallbacks, deadline |
| Product cache | `service/ProductCacheService` | local cache (objects, cached absences) over Redis | look up, load, expire |
| Inference ingress | inference-service `deployments/ingress.py`, `router.py`, `degradation.py` | per-request deadlines, feature-reader probe | embed, retrieve, enrich, rerank, boost, generate; degrade |
| Deployments | `deployments/{embedding,retrieval,multimodal,reranker,vision,generation}.py` | models, clients | one model or database call each |
| Popularity | `deployments/popularity.py`, `personalization/popularity_windows.py` | materialized window sets in Redis | materialize under a lease, read, fall back to wider windows |
| Feature reader | `personalization/*` | per-replica cache of window keys, rebuild events | load a snapshot, rebuild a window, behaviour boost |
| Client pools | `utils/*` | one connection pool per process | connect on first use |
| Data pipeline | data-pipeline `src/*` | parquet files, Redis, Milvus | embed, rank, bootstrap, load |
| Health, metrics, deployment | probes, Prometheus, Kubernetes, Terraform | none of their own | observe |

`PROJECT.json` lists every part with what is modelled of it and why the rest is
not.

### How they interact

A click goes gateway → topic `scalestyle.clicks` → a consumer process in primary
mode → one Lua call in Redis. A failed update is copied to a retry tier topic;
processes in retry mode wait for the tier's delay and try again; what is
malformed or has used all its retries is copied to the dead letter queue. A
search goes gateway → circuit breaker → Ray ingress → deployments, and comes
back through the product cache; the gateway falls back to the query cache and to
popular items, which the consumer's clicks and the data pipeline have put in
Redis.

Processes share Kafka offsets (through the group coordinator), Redis keys, and
in the gateway also executors, the breaker and the objects of the product
cache.

### What is hard, and what correct means

* **Consumer loop.** A crash, a fenced process or a failed commit can come
  between any two steps; a poll moves past messages that were not processed.
  Correct: a commit covers nothing that was neither processed nor given up
  knowingly, and commits do not move back.
* **Router and features.** Every external call may take effect and still fail.
  Correct: an event is materialized at most once, is dead-lettered only when
  malformed or exhausted, no marker claims a dead letter that does not exist,
  the router itself loses nothing, and everything is settled in the end.
* **Click ingestion.** The answer, the publish and the broker's answer come in
  any order; outcome and time of a window slot are written one after the other
  by different threads, at indices from a counter that wraps. Correct: a 200
  means stored, a refusal means never sent, the windows count what happened, and
  nobody waits for Kafka for ever.
* **Feature decay.** Clicks come late, twice and after their marker expired; a
  set is capped, reseeded and read through windows. Correct: no click counts
  twice, no score is inflated, no category stays stale.
* **Recommendation path.** Cancelled work goes on, objects are shared, every
  fallback can fail. Correct: no list reaches another user, absence is not cached
  by mistake, the breaker opens on a bad backend and recovers, every request is
  answered.
* **Ingress and deployments.** Legs run in parallel, most calls have a deadline,
  a given-up call keeps its thread. Correct: no article twice, filters and
  sources true, popular items only for a reason, no call left behind, an answer
  always.
* **Popularity windows.** Leases and keys expire under their holder. Correct: what
  was cached for a key that was seen does not outlive it by more than the half
  second that Redis rounds, no rebuild event is left behind.
* **Data pipeline.** Scripts stop anywhere and run again. Correct: what a search
  finds has metadata, what says it is complete is whole.

The hazards in `PROJECT.json` name the line where each of these bites and the
properties that watch it.

## 2. Modules

| Module | Models |
|---|---|
| `KafkaConsumerLoop` | `kafka_loop.py`: any number of processes of any number of groups |
| `ClickDelivery` | the abstract promise of the click pipeline, per event |
| `ClickPipeline` | loop + `retry_router.py` + `feature_update_handler.py` + the upsert as one bit; extends `KafkaConsumerLoop` |
| `ClickIngest` | the gateway's `POST /api/events/click` up to the broker |
| `ClickJourney` | `ClickIngest` and `ClickPipeline` composed: a click from the request to the features |
| `FeatureUpsert` | the category cache, the Lua script with its arithmetic, expiry and reseeding |
| `RecommendationFlow` | the gateway's recommendation path with breaker, product cache and query cache |
| `Ranking` | pure operators: fusion, enrichment, reranking, boost |
| `ServingPool` | the deployments as pools of places and threads; `PoolSpec` is what their callers rely on |
| `SearchPipeline` | the handlers of the ingress; extends `ServingPool` and `Ranking` |
| `PopularityWindow` | the materialized windows: snapshot threads and popularity deployment over Redis |
| `CatalogueJobs` | the scripts of the data pipeline |

`MC<module>` holds the values of the constants for TLC, `<module>Proofs` the
theorems.

### KafkaConsumerLoop

`logEnd` and `committed` are the broker's; `assigned`, `position`,
`clientPaused`, `fenced` the Kafka client's, per process; `next`, `current`,
`pending` the batch in hand; `backingOff` and `due` are the two halves of
`_paused_partitions` (`resume_at` ahead or passed). `phase` is where the thread
is. `done` and `abandoned` are history.

`Poll` is `consumer.poll` and `_resume_ready_partitions` together; it delivers
any run of records of each fetchable partition up to `MaxPoll`. `ProcessMessage`
is one turn of the inner loop, given the outcome of `_process_fn`: *safe* adds
to `pending_commits`, *unsafe* ends the partition's share (`break`), *deferred*
is an unsafe one whose partition was paused by `_respect_retry_tier_delay`.
`Commit` and `CommitFails` are the batch commit, `PollRaises` the deserializer
raising inside `poll`, `Exit` the end of `run`, `Crash` and `Restart` the
container's. `Rebalance` is the coordinator's: the members inside `poll` take
the assignment and restart at the committed offsets; the rest are fenced.

Kafka is external and modelled by what the loop relies on: poll advances the
position, a rebalance rebuilds the client's partition state (so it is unpaused),
`resume` of a partition that is not assigned raises, the commit of a member the
group has left behind is refused, a commit that fails may have been stored.

### ClickPipeline and ClickDelivery

Adds the records (`log`), Redis (`dedupe`, `applied`, `marks`), the DLQ topic,
and where each process is in `process_message_internal` (`step`, `handling`).
Each external call is a step: the Lua upsert (`UpdateSucceeds`, `UpdateFails`,
the latter with or without its effect), `SendRetry`, `CheckMarker`, `SendDlq`,
`MarkDlq`; `Return` gives the outcome to the loop. A crash can come between any
two. An event is *valid*, *invalid*, *anonymous* (no `event_id`, so its DLQ id is
topic:partition:offset) or *raising* (a timestamp that makes the parser raise
`OverflowError`). `ripe` holds the retry copies whose delay is over.

A topic has one partition here; partitions of one topic are independent in the
code, and the loop's own model has two in a batch. `failures` saturates at
`MaxRetries + 1`, the value that earns a dead letter.

`ClickDelivery` knows, for each event, only: accepted, its failed attempts,
applied, buried; four actions. `ClickPipeline` implements it under the mapping
at the end of that module (`KeepsPromise`): a step of any process is a step of
the promise or a stutter.

### ClickIngest

`task` follows the work of a request through the executor, `answer` what its
client was told: the first result set on the DeferredResult counts, and
`RequestTimesOut` sets one without stopping the task. `queue` and `threads` are a
`ThreadPoolTaskExecutor`: core threads, then the queue, then up to the maximum,
then rejection. `Gate` asks the validation and the two windows. `Send`,
`Register` and `Await` are `KafkaTemplate.send`, `whenComplete` and
`future.get`. `fate` is the future, `stored` the broker's log: `Store` may come
long before `Settle`, and a future may fail although the record is stored.

`ClaimSlot`, `WriteOutcome`, `WriteTime` are the three writes of
`recordPublishOutcome`, on the worker's thread when the future was complete
before `whenComplete`, else on the producer's. `turn` and `blockTurn` are Java
ints of `Wrap` values, and `Index` is `Math.abs(n % m)` with Java's remainder.
Times are ages: an entry of age `AgeLimit` no longer counts.

### ClickJourney

The gateway and the consumers meet in the main topic and nowhere else, so the
module has no state of its own: the variables of `ClickIngest` (instance
`Gateway`) beside those of `ClickPipeline`. `ClickReachesKafka` is the one step
both take: the broker stores the record of a request (`Store`) and the topic has
a new message (`Emit`), whether or not the gateway has told its client anything
yet. All other steps belong to one side, which leaves the other alone
(`GatewayGoesOn`, `ConsumersGoOn`). `EventId` gives each request the event id that
`toClickEventV1` draws, and no two requests share one. `OthersPublish` is a
message that did not come through the gateway: its timestamp need not be one the
gateway would write.

### FeatureUpsert

`Deliver` is `update_features`: `Inferred` is `_infer_category` with its cache
(hit and move to the end, miss and evict, Redis error), `Upsert` the script after
the check of the marker. A decayed score is a *cell* `[score, ts]`, the unit of
time is a half-life and `One` a power of two, so that within the bounds all
divisions are exact; the surrogate `log(score) + lambda * ts` is represented by
`Worth`, which orders cells in the same way. `Capped` is `ZREMRANGEBYRANK`,
`bucket` and `expires` are the hour buckets. `LoadMetadata` and `LoadPopularity`
are what the data pipeline does to the same keys, `Restart` empties the cache,
`Tick` expires keys. `since` and `log` are history.

### RecommendationFlow

`stage` is where the reactive chain of a request is, `leg` which search it runs
(an image search with a query turns to `searchAsync`), `client` what the caller
has seen. `job` is the enrichment callable: it has a state of its own since a
timeout or a cancellation does not interrupt it. `l1`, `gen` and `note` are the
product cache, the identity of the object it holds for an item, and the reason
written on that object; `recCache` is `rec:v1:*`; `cb`, `window`, `permits`,
`waited` are the breaker. `slow` is history.

`CallFails` has one outcome per class of error: *unreachable* is the only one
that `record-exceptions` counts; *bad_request* is ignored; *error* (5xx, empty
body) and *rejected* (cache executor full) count as successes. `TimesOut` is
`Mono.timeout`, outside the breaker, which sees a cancellation. `Deadline` is the
DeferredResult's timer or a client that leaves. `Serialise` reads the shared
objects at last.

The lookups and annotations of one list are one step, the breaker is that of
resilience4j with the parameters of `application.properties`, and the popularity
tiers are reduced to the list the first non-empty one holds. `source`,
`degraded` and `degradedReason`, set on the same objects in the same way, are
left out next to `reason`.

### ServingPool, Ranking, SearchPipeline

`ServingPool` has, per deployment, whether its constructor found its model
(`model`), the calls that wait or work (`at`, `callee`), the calls given up that
keep their place (`kept`), and threads of cancelled calls (`loose`). `Turn` is
all a caller does in one step of its event loop: take answers, give calls up,
make calls. Whether Ray cancels a call that was given up is open: `places` is
*kept* or *freed*, both are possible.

`SearchPipeline` has one action per await of a handler; `stage` names the await.
A text search goes routing, embedding, retrieving, enriching, reranking,
snapshot, generating, or to popular items from any of several points; image,
multimodal and hybrid searches go through `recalling`, where the legs run at the
same time and `LegEnds` takes them one by one. `Outcome` is what an await may
come to: an answer, an error, or a time-out where the code has
`asyncio.wait_for`. Router, popularity and vision are awaited without one, so
their calls may wait or work for ever; their stages (`routing`, `popular`,
`emptied`, and `recalling` for vision) are awaits like the others. `reader` and `probing` are the lazy
feature reader, the null reader that replaces it and the thread that tries again.
`ClientLeaves` cancels the handler and its calls.

`Ranking` are the list operators: reciprocal rank fusion, the weighted fusion,
the merge, the boost and the contract's ids. An id is an article and a spelling,
since Milvus keys are integers and Redis keys are ten digits. Quotients are taken
of multiples of fixed units so that they are exact for the lists of the bounds.
The filter after enrichment is `Passes`: a price that is empty or does not parse
(`Unpriced`) makes `float` raise, the exception is passed over, and the item
stays. Rerank scores are raw logits or the padding of -1e9, so any integers;
`ApplyBoost` multiplies them, and below zero a larger factor takes an item down.

### PopularityWindow

`key` and `lease` are Redis: a window's key is named after its newest bucket, and
reader and popularity deployment have a lease each. `local` and `events` are a
replica's `_materialized_window_cache` and `_rebuild_events`. A step of a reader
is one hold of the lock or one pipeline of
`_resolve_materialized_popularity_windows`; `got` is what Redis said, used one
step later. `Executed(w, n)` is a pipeline of which the first n commands took
effect. `AskFails` is Redis not answering, with the lease perhaps taken.

`clicked` are the keys whose buckets hold clicks. The union of empty buckets leaves
no key (`Stored`) and `EXPIRE` then does nothing, but the reader caches the key all
the same. `Second` steps of the clock make a second: TTL answers in whole seconds,
to the nearest one (`Rounded`), and the reader adds it to a time that is more
exact. `seen` records of a cache entry whether Redis had the key, or a union with
clicks was stored under it.

### CatalogueJobs

Two chains, for texts and for images: embed (`Generate`, `OpenParquet`,
`WriteParquet`), for texts also rank (`OpenTopItems`, `WriteTopItems`), then load
Redis (`LoadRedis`, `ChoosePopularity`, `FillPopularity`) and Milvus
(`CheckCollection`, `Create`, `CreateIndex`, `Insert`, `Complete`). Flags are
chosen by whoever starts a script; any script may stop between two steps.
`ServiceStarts` is the retrieval deployment's constructor, which takes the
collection as it is.

## 3. Runs

| Run | Module | Shows |
|---|---|---|
| `loop_safety` | loop | `CommitJustified`, `CommitNeverRegresses` with two processes, two partitions, a poison record, crashes, failed commits, a rebalance |
| `click_two_tiers` | pipeline | `NoUnexplainedLoss`, `DeadLetterEarned`, `MarkerTellsTruth` and the refinement `KeepsPromise`, with enforced delays, kills and calls that fail after their effect |
| `click_journey` | journey | `EffectivelyOnce` and `AnswersAreKept`, from the request to the features, with two processes of one group, one stalled and fenced |
| `click_settles` | pipeline | `EventuallySettled` when delays are not enforced and nothing is killed |
| `click_loss` | pipeline | violation of `NoSilentLoss` with the default enforced delay |
| `click_ingest` | ingestion | types with pool and index bounds, `AcknowledgedIsStored`, `RefusedIsUnsent`, `OutcomesAreReal`, `NothingWaitsForKafka` |
| `feature_upsert` | upsert | types with the bounds of the cache and of the recent clicks, `WindowExact`, `DecayHonest`, `CapKeepsHottest` up to the first seed of `global:popular` by the data pipeline (what clicks do after it is `ClickRaises` below), `CategoryFresh` |
| `rec_flow` | recommendation | `RankedForSelf`, `AbsenceIsReal`, `HalfOpenNotStuck`, `EveryRequestAnswered` |
| `search_answers` | search | one request of any kind under every setting: types, `NoDuplicates`, `FiltersHonoured`, `SourcesTrue`, `MergeRespectsRecalls`, `BoostMonotone` for scores of both signs, `SubstituteExplained`, `EveryRequestAnswered` with any deployment hanging, `ReaderRecovers` |
| `search_load` | search | two requests on deployments with one place each: `CallsAreAwaited`, `ReaderSound` |
| `window_cache` | windows | `CachedKeyLives`, with a TTL that is rounded and unions that leave no key, `EventsHaveBuilder` |
| `catalogue_jobs` | scripts | types, `FoundItemsHaveMetadata`, `CompleteMeansWhole`, `ImagesDroppedForValid` |

### Statements of the repository that the code does not keep

`click_loss` is a standing run: `pause()` does not seek back, and `poll` is
already past a deferred message. After `resume()` the partition goes on after
it, and the next safe message's commit covers it. With `RETRY_ENFORCE_DELAY` on
(the default), one Redis error is enough to leave an event unsettled; a second
one behind it loses it for good. The repository's own test has a mocked `poll`
deliver the message again, which Kafka does not.

The others are definitions in the modules, each with the sentence it quotes. To
see TLC refute one, put it in place of the properties of the configuration named
(as INVARIANT, or as PROPERTY where it says so):

| Statement | Configuration | What happens |
|---|---|---|
| `PausedIsResumed` | `loop_safety`, as PROPERTY, with `FairSpec`, no poison, no symmetry, nothing killable, commits that do not fail, `MaxPoll` = `MaxOffset` = 1 | `_paused_partitions` survives a rebalance: `resume()` of a lost partition raises, and the other due partitions stay paused although they are dropped from the dict |
| `PoisonIsPassed` | `loop_safety`, as PROPERTY, with `FairSpec`, no symmetry, one process, nothing killable, commits that do not fail, no rebalance | the deserializer raises inside `poll`; the process exits, restarts, and meets the same record |
| `EventuallySettled` | `click_loss` with `FairClickSpec`, as PROPERTY | the deferred message is not delivered again while its process lives |
| `PopularHasNoReason` | `rec_flow` | the local cache hands out its own mutable object: the reason one request sets is still there when a fallback, or another user's request, uses the item |
| `SlowRayOpensCircuit` | `rec_flow` | a hanging call is a cancellation below the timeout operator, so no number of them opens the breaker |
| `WorkWithinCap` | `search_load` | the thread of a cancelled call goes on while its place is taken by the next: more threads run a model than the limit says |
| `SourcesReported` | `search_answers` | the items of a multimodal answer do not list the recalls that found them |
| `FiltersStrict` | `search_answers` | an article without a price passes the price filter: `float("")` raises inside `try`, and `except: pass` keeps the item |
| `BoostNeverDemotes` | `search_answers` | below zero the product of score and boost falls with the boost, so a boosted item may fall behind one with a smaller score |
| `CacheIsExact` | `window_cache` | an entry of the local cache may outlive its key by half a second (TTL rounds up), and one made by the union of empty buckets, or while a rebuild is pending elsewhere, has no key |
| `ClickRaises` | `feature_upsert`, as PROPERTY | the pipeline seeds `global:popular` with purchase counts, the script writes logarithmic surrogates: a click can lower its item; so can a late click, which moves the time of the cell back |
| `SingleRebuild` | `window_cache` | reader and popularity deployment take leases of different names, and a lease may expire under its holder: a key is built twice (with the same result) |

### Bounds, and why they are enough

* `MaxPoll` 1 or 2 records of a partition per poll: 2 is what it takes for a
  message behind an unsafe one in the same batch. `MaxOffset` 2 records per
  partition: one record is passed and another committed, or a retried event stands
  next to a new one. `MaxRebalances` 0 or 1 beyond the first assignment: one
  fences a process with work in hand; a group without a running member may always
  form again. `Killable`: the processes that may be killed; a process may also
  exit on its own.
* `click_two_tiers`: a valid event that may fail all its attempts and one that makes
  the handler raise, so that the loop passes a message it has no result for; the
  process that is killed is the one of the retry tiers, which also sends to the next
  tier and to the dead letter queue.
* `CommitMayFail` is FALSE in `click_two_tiers` and `click_settles`: every
  redelivery that sends another copy uses up an offset of the retry tier, and at
  `MaxOffset` a send blocks, which would look like a stuck router.
  Two tiers are what it takes to tell a retry count from a retry flag.
* `click_journey`: one valid request and one the gateway refuses, a message of
  another producer that makes the handler raise, so that a poll has two messages
  and the first can be passed; two processes, one rebalance and commits that
  fail, so that one of them goes on with a batch that is no longer its own; Redis
  fails before or after the script. There is no retry tier here (`MaxRetries` 0):
  the tiers are `click_two_tiers`' part. The two processes are alike (SYMMETRY).
* `click_ingest`: four clicks (one of them invalid) fill one core thread, the
  one place of the queue, and a second thread, and have one rejected. Two
  writers meet in a window of two slots, and `Wrap` = 2 makes the index counter
  negative at once.
* `feature_upsert`: three clicks, two of them on one item by one user at
  different times, so that they come in and out of order; a horizon of four
  half-lives with buckets of two, markers and redelivery of three and a bucket
  life of twice the window, so that markers and buckets expire. A cache of one
  entry and a set of one member make both evict. `One` = 1024 keeps all
  divisions exact over the horizon; the assumption `DedupeWindow >= Retention`
  and `BucketTtl >= BucketCount * Width` hold of the defaults.
* `rec_flow`: two requests, one an image or hybrid search of a user, one an
  anonymous text search with the same query. The first makes up to two calls, so
  three calls are enough to open the breaker (`Window` = `MinCalls` = 2) and to
  probe it (`HalfOpenCalls` = 1). `K` = 1 and a list of two items, the second
  without metadata, so that a list is filtered and truncated. `MaxLoads` = 1: an
  item is loaded once and may expire, so a late holder of the object and an
  empty cache are both reached.
* `search_answers`: handlers share nothing but places, the reader and its probe,
  so one request at a time, of any kind and under any setting and state of the
  models, is enough for the properties of answers. Four articles (one without a
  hash, one without a price, one whose hash may fail to be read), recalls of up to
  three with overlap, and `K` = 2 cut, filter and merge. The scores -4, -3 and 1
  lie on both sides of zero, and the two that are close change their order under
  a boost. `search_load` has two requests of up to two
  legs each on deployments of one place.
* `window_cache`: two threads of one replica and one call of the deployment, a
  clock of half seconds up to time 2, a bucket and a key of one second, leases and
  retries of half a second: the key changes its name once, TTL is asked at a whole
  second and between two, and every life ends under somebody. A click may come
  before a union or after it. The two threads are alike (SYMMETRY).
* `catalogue_jobs`: three articles in batches of two (one batch is not full), one
  without an image, two sizes of embeddings.

`CHECK_DEADLOCK FALSE` in `click_ingest`, `rec_flow` and the search runs: when
every request is done nothing is left to do; in `feature_upsert` and
`window_cache` the clock stops at its horizon.

### Fairness, and why the code justifies it

* Loop and pipeline: each process is one thread that takes its next step (weak
  fairness of its steps taken together in `ClickFairness`, of poll, process,
  commit separately in `Fairness`); the clock passes `resume_at` and the retry
  delay; Kubernetes restarts what exits; the coordinator gives a group without a
  running member to whoever joins. Producers, crashes, failures and the other
  rebalances are free.
* Ingestion: none. `NothingWaitsForKafka` is an invariant instead: while a posted
  click is not done and answered, a thread of the gateway has a step that is
  enabled whatever Kafka does.
* Recommendation: the executors run what they queue, Redis answers or times out
  (150 ms command timeout), `Mono.timeout` fires. Ray, the DeferredResult's timer
  and the caches owe nothing.
* Search: the event loop runs, and Redis answers or fails within the client's
  socket timeouts (`utils/redis_client.py:56-79`), so that a handler takes its next
  step when its await is over; an attempt of the probe at last succeeds (strong
  fairness, since attempts may fail any number of times). Nothing is assumed of the
  deployments: each of them may hang for ever. `EveryRequestAnswered` says what
  that leaves: a request is answered unless a call of the router, of popularity or
  of vision, the three that are awaited without a deadline, never comes back
  (`HeldUp`). Popularity is where text searches fall back to, so an embedding
  that times out is answered only if popularity answers.

## 4. Proofs

All theorems hold for every value of the constants that satisfies the modules'
named assumptions (`LoopAssumption`, `ClickAssumption`, `EventIdAssumption`,
`IngestAssumption`, `JourneyAssumption`, `GatewayAssumption`, `FlowAssumption`,
`PoolAssumption`, `PipelineAssumption`, `RecallAssumption`, `PopularAssumption`,
`UpsertAssumption`, `WindowAssumption`, `JobsAssumption`), and any bounds. What
the less obvious of them rest on: event ids are UUIDs of the gateway, so none is
the place of a message in a topic (`EventTrackingService.java:182`); a search of
Milvus answers distinct primary keys with the best first (`RecallAssumption`); the
popularity windows are sorted sets, so a list taken from one names no article
twice (`PopularAssumption`); there are finitely many items, what the pipeline
seeds are counts, and `One`, the score of one click, can be halved until the clock
stops, as the script's doubles can (`UpsertAssumption`).

**The loop** (`KafkaConsumerLoopProofs`). `CommitJustified` is not inductive. The
invariant `IInv` adds to the types: everything below a committed offset
(`CommittedAccounted`) and below the next offset of an accepted member
(`BatchAccounted`) is *accounted for*, that is processed safely or abandoned;
accepted members own disjoint partitions (`Ownership`); and what an accepted
member has in hand lies in partitions it owns, at or above the committed offset
(`BatchOwned`). The central argument is that the two history sets only grow, so
what is accounted for stays so while `committed` moves only to a `pending` entry
of an accepted member. A fenced member's batch proves nothing, and its commit is
refused. `TypeCorrect`, `Invariance`, `CommitIsJustified` and
`CommitsAreMonotonic` follow.

`LoopNeverStalls` needs that what a process has in hand fits where its thread is
(`BatchInHand`): it has a batch exactly while it processes, and the partition it
is busy with has messages left. A rebalance could break this by moving the
positions under a batch; it does not, as members take part from inside `poll`, where
nothing is in hand. A fenced process keeps its old batch, and can finish it.

**The pipeline** (`ClickPipelineProofs`). `ImplementsLoop` shows step by step
that every action of the pipeline is an action of the loop or leaves the loop's
variables alone, so `PipelineCommitIsJustified` is the loop's theorem. The
pipeline's own invariant `CInv` adds to `IInv` and the types: every batch lies in
the log (`InLog`), every record with retry count k stands for k failures of its
event (`LogEarned`), a process that is routing has the failure that sent it
there (`Routed`), the dedupe key is set exactly when features were applied
(`AppliedOnce`), and the three properties themselves. `MaterializedOnce`,
`DeadLettersAreEarned` and `MarkersTellTruth` are its parts. `PromiseKept` is the
refinement of `ClickDelivery`: initial states map to initial states, and under
`CInv` every step maps to one of the four actions or a stutter (an upsert that
fails after its effect is `Fail`, a DLQ copy sent again is a stutter).

`LossesAreExplained` needs one more invariant, `LossInv`: every processed message
(`done`) is *dealt with*, that is, its event is settled or a copy with a higher
retry count is in a log (`DealtAt`); a process about to answer *safe* has dealt
with its message, and one about to set the DLQ marker has its dead letter
(`SafeIsDealt`); and a dead letter's id names its event (`NamesEvent`), without
which a marker could excuse another event. Logs, DLQ and effects only grow
(`Lossless`), so what is dealt with stays so. Then take the copies of an
unsettled event: they are finitely many, as logs are bounded, so one has the
highest retry count (`LastCopy`, by the library's `WFMin` and
`NatLessThanWellFounded`: choosing a greatest element is the form of induction
that this prover can do). That copy is not dealt with, so it is neither processed
nor, with `CommittedAccounted`, committed unless the loop polled past it.

`ProcessesNeverStall` says of every process, by the guards of its steps, that it can
turn the loop, take a message or route one. Besides `BatchInHand`, which the
pipeline has from the loop by `ImplementsLoop`, it takes `Routed` (a routed message
is in the log and has a next tier) and that the loop is still at the partition
whose message is routed (`RoutesCurrent`). One case is left out: `TierIsFull`, the
bound of the model. `BatchesComeToAnEnd` adds that no step of anybody takes a
process back in its batch, and that each of its own takes it on: to a later `Place`
with the message (0 to 4), or to the next one (`Advances`, for every action).

**The whole way** (the last part of `ClickPipelineProofs`). `JourneyConsumes` and
`JourneyIngests` show that the composition is a behaviour of each part, so all that
is proved of the parts holds of it. (The gateway's theorems are about the instance
of `ClickIngest` in `ClickIngestProofs`; `GatewaySteps` shows it to be the
journey's, action by action.) `AnswersAreHonest` then needs only what ties the two
together: a request's record is stored exactly when the main topic has its event
(`MeetInv`, for which event ids must differ and no message leaves a topic), and an
event that is settled was published (`TracesInv`). What a 200 means is
`AcknowledgementsAreTrue` followed by `LossesAreExplained`; what a refusal means is
`RefusalsAreFinal` followed by the retry tiers' `LogEarned`: a copy in any topic
stands for a message in the main one.

**Ingestion** (`ClickIngestProofs`). `PromiseInv` says how far a task, its future
and its answer may be apart: a task that waits is in the queue once
(`QueueHoldsWaiting`), nothing is sent before `Send` (`UnsentUntilSend`), and an
answer fits the task and the future (`AnswersAgree`). `AcknowledgementsAreTrue`
and `RefusalsAreFinal` follow. `WindowCountsWhatHappened` needs a witness: there
is a function that gives every written slot the publish whose outcome it holds,
no publish having two (`Attributes`); a slot that is used again changes its
publish, and the count follows from the function being one to one. The types
include that `Index` stays in the window after the counter has wrapped, and that
no more tasks run than there are threads.

`NothingWaitsForKafka` uses ENABLED. `SomeThreadAlwaysGoesOn` says the same with the
guards of `Take`, `Worker` and `Note` written out (`CanTake`, `CanWork`, `CanNote`).
It needs that no task is forgotten (`NoneForgotten`): one that waits is in the
queue, a queue is only there when the pool has its core threads, a task that notes
has something to note, and one that is done has answered. With `PoolInv` a queue
then either has a thread that is free or one that runs and can go on.
`ClicksOnlyAdvance` measures how far a click has come (`Progress`, 11 at most) and
shows that each step of a thread takes one click on and none back.

**The recommendation path** (`RecommendationFlowProofs`). The breaker's invariant
`ProbesAccounted` counts: while half open, the permits left, the probes recorded
and the calls in flight together are at least the permits it was opened with,
and fewer probes are recorded than that. Calls admitted before it turned half
open only add to the count, which is why it is an inequality. `StepBreaks` shows
of every action that the set of calls and the breaker change together (`Breaks`),
and `BreaksKeepsAccount` that this keeps the count; with no call in flight a
permit is left, which is `HalfOpenNeverStuck`. `AbsencesAreReal` follows the two
ways a lookup can end. `NobodyElsesRanking` needs, next to the property itself,
that a chain reads the query cache only with a query (`ChainShape`): the image
search that turns to `searchAsync` is the case to look at.

`NobodyDropped` and `RequestsOnlyAdvance` are what `EveryRequestAnswered` needs
besides fairness. A client that waits has a request at a stage with a step of the
gateway (`ServiceInv`), of which the timeouts and the empty result of the last
fallback wait for nobody. A request has a `Place` between 0 and 10 that no step
lowers and each of its own raises. An image or hybrid search queues and calls at
lower places than the text search it may turn to, so the two rounds through the
semaphore and the breaker are no circle.

**The deployments and the search** (`SearchPipelineProofs`).
`PipelineImplementsPool` shows every step of the handlers to be a turn or a
stutter of the pools. `ReaderIsSound` is inductive with the types of the reader; `SubstitutesAreExplained`
needs that whoever is on its way to popular items has the reason already
(`OriginInv`), checked at every point where a handler turns to them.

What the answers hold is one inductive invariant, `AnswerInv`: for every request,
what was found are recalls (`Recalled`), what was merged is the merge of them, and
the list under work is `Good` at every stage, not only in the answer (`Staged`,
`Listed`): distinct, filtered, sorted by score times factor, with the sources that found each item; a recorded failure of a recall
excuses an empty one (`Excused`). Each operator of `Ranking` has its lemma for
lists of any length: a selection keeps order and distinctness (`Picking`, from
`PlaceOfEach` and `PlaceIsOrder`, which count the places below a place), a sort
by a key is a permutation that respects it (`Sorting`), and `Fusing`, `Merging`,
`Enriching`, `Annotating`, `Reranking`, `Boosting` and `Contracting` say what one
step of the pipeline makes of a `Good` list. `AnswerStep` puts them together
action by action. `AnswersAreDistinct`, `AnswersPassFilters`, `SourcesAreTrue` and
`BoostKeepsOrder` follow from `AnswerInv`, and `PipelineTypeCorrect` with
`RestTypeOK`. `BoostKeepsOrder` takes the rerank scores to be integers and nothing
more, and argues by their signs. `AnswersPassFilters` says what `Passes` lets
through, which is less than the filter asks: a price that is unknown passes. `MergesRespectRecalls` assumes `RecallK <= 428`: the model divides
integers, and beyond that rank two neighbours' quotients (`QuotientFalls`) may be
equal. The code asks for `min(RECALL_K, max(3k, 50))` candidates with k at most 50,
150 at most (`ingress.py:108`, `1584`).

Three more are about who waits for whom. `AwaitInv` ties the handlers to the pools:
a stage that awaits a deployment has a call, and to that deployment
(`CallsAreAwaited`), and no other stage has one, so whoever has answered, was
refused or left has nothing under way (`CallsHaveAwaiters`). With it
`HandlersGoOn` follows: embedding, retrieval, reranker and generation are awaited
with a deadline, so a search has a step unless the router, popularity or vision has
its call and has not come back (`HeldUp`). `SearchesOnlyAdvance` gives each search a
number up to 10 (`Progress`; while it recalls, `LegNo` counts how far its two legs
are), which each of its steps raises. `OwnSteps` shows of every handler that it
goes to a stage further on with the call that stage awaits (`GoesTo`), or goes on
with a leg (`RecallsOn`).

**Windows** (`PopularityWindowProofs`). `CacheNeverOutlives` rests on `Backed`: a
time t is backed for a key if the key is there until half a second before t, and no
older than its TTL then. Every time that a thread has computed from a key it saw,
in its hands or in the cache, is backed (`BackedInv`): TTL rounds up by half a
second at most, and a rebuild by somebody else only moves the end of a key on, for
buckets that hold clicks go on to hold them. Entries for a key nobody saw, of a
union without clicks or a rebuild that is pending elsewhere, are outside the
theorem, as there is no key that they could outlive. `EventsDoNotLeak` follows a rebuild through its failure paths.

**Features** (`FeatureUpsertProofs`). `CacheInv`: no item twice, never more than
`CacheSize`, and each entry *fits*: it ends within a TTL, and its category has not
been out of date since before the entry was made. `CacheIsBounded` and
`CategoryStaysFresh` follow, and with the types of the other keys (`RestTypeOK`)
`UpsertTypeCorrect`.

Three theorems are about sums and powers over the history. A power of two is
counted as the number of subsets (`FS_SUBSET`), so that `PowerSum` and
`PowerPositive` are facts about finite sets. What holds of a sum over every finite
set (`SumOfNumbers`, `SumOfSame`, `SumOfOneMore`, `SumOfParts`) is proved from its
smallest counterexample: the sizes of the sets where it fails would have a least
element (`LeastNumber`).

* `WindowsAreExact`: `WindowInv` says that each click is applied once while its
  marker can matter (`Remembered`: an applied click has a marker as long as Kafka
  may deliver it), that a bucket with a click expires only after it has left the
  window (`BucketLives`), and that a bucket the window may hold has the number of the
  applied clicks of its time and item (`BucketCounts`). The sum over the active
  buckets is then the number of a union of disjoint sets (`SumOfParts`). Here
  `DedupeWindow >= Retention` and `BucketTtl >= BucketCount * Width` are needed,
  and the defaults meet both.
* `DecaysAreHonest`: `DecayInv` keeps, of every cell and the clicks it has got,
  that its worth is at most their sum, that its time is the time of one of them,
  and that, if they came in order, its worth is their sum *and* its score is still
  divisible by what the rest of the horizon can halve (`Exact`), without which an
  integer division would lose a part. A click in time is `InTime`, a late one
  `Late`.
* `CapKeepsTheHottest`: the property is not inductive. An item that is dropped and
  clicked again, or a new one, comes in beside items that were dropped before, and
  nothing says that those are colder than it. `CapInv` adds that a clicked item is
  missing only from a full set, so a newcomer makes the cap drop a member again
  (`CapDrops`) that was itself no colder than the missing ones. The cap's operator
  has four lemmas: ranks order the members (`RanksOrder`), what is kept is worth no
  less than what is dropped (`CapKeepsTheBest`), a cut leaves a full set
  (`CapFills`, by an injection of the dropped members into the ranks) and a set
  that is too long is cut (`CapDrops`). That a click in time never lowers its
  item's worth comes from `DecayInv` (`WorthRises`).

**Scripts** (`CatalogueJobsProofs`). What a load has read does not change under it
and has gone to Redis before it turns to Milvus (`LoadInv`); how far a collection
is filled agrees with where the script is (`FillInv`). `FoundMeansShown`,
`CompleteLoads` and `DropsAreForValidFiles` follow.

**Only model-checked.** Liveness (`EventuallySettled`, `EveryRequestAnswered` of
both services, `ReaderRecovers`) and `NothingWaitsForKafka`, which uses ENABLED,
are out of the prover's reach; every other property that a passing run checks is a
theorem. Of `NothingWaitsForKafka` and the two `EveryRequestAnswered` the parts
without ENABLED and fairness are theorems: who is not done has a step, stated by
its guard, and steps only lead on, a bounded number of times. That the guards
written out are the ENABLED of the actions (given that the sets the inputs come
from are not empty), and that fairness makes the steps happen, stays with the
runs. Of `EventuallySettled` the theorems are `LossesAreExplained` (an event that
is not settled still has a copy to be consumed, or a known reason),
`ProcessesNeverStall` and `BatchesComeToAnEnd`. The library's induction theorems
cannot be used either; where a proof needs induction, over sizes, sums or retry
counts, it argues by a least or a greatest element.

## 5. Not modelled

* `process_message_internal` with `commit_immediately=True`: the loop never calls
  it so.
* Trace headers, lag metrics, logging, gauges (with the ingestion window that
  only a gauge reads), health endpoints, dashboards: they carry no state the
  properties can see.
* Producer internals: the producer is idempotent, so an event is published once;
  a retry of the client is a new event.
* Shutdown of the gateway: workers that are interrupted while they wait.
* What a model, an index or a parser computes: embeddings, rankings, scores,
  queries turned into filters, images, texts. They are members of small sets.
* The clients of Redis and Milvus: one object made on first use under a lock.
* TLS and SASL options, connection set-up, Terraform, Kubernetes manifests:
  declarative. Replica counts, limits, restart policy and topic configuration
  enter the models as facts.
* Milliseconds: the layering of the 350/450/600 ms of the controllers' comment and
  the 600 and 700 ms of the code. Timers fire at any time in the models, except
  the TTLs of `FeatureUpsert` and `PopularityWindow`, which count units of their
  clock.
* The Spark steps and the upload of the data pipeline, its older loader and
  validators, the two hand-run image scripts of the inference service, load and
  benchmark scripts: each reads, computes, writes once, or only prints.

## 6. Plan

All modules of section 2, their runs, and the theorems of section 4 are done. What
would come next:

1. The features behind the journey: `ClickPipeline` knows of an upsert only that it
   happened, `FeatureUpsert` what it writes. Composing them would say that the
   windows count the clicks that were acknowledged.
2. The readers of those features: `PopularityWindow` and the boost of
   `SearchPipeline` take what `FeatureUpsert` writes as given.
