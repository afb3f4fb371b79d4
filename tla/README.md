# ProxyDefence: TLA+ models and proofs

This directory specifies the parts of ProxyDefence whose correctness depends on
interleaving, failure, redelivery and order: the article pipeline over Kafka,
PostgreSQL and Elasticsearch, the clustering of articles into events, the
signals and scores derived from articles, the response to a signal and the
release plan of the reserve, the model registry and what it serves, resumable
downloads, cached feature pipelines, the orchestration of queries, and the
resilience primitives. `PROJECT.json` lists, for every definition, the source lines it was
translated from; `tlc` checks the `.cfg` files, `tlapm` the `*_proofs.tla`
modules.

## 1. The system

    news APIs -> ingest-service --raw_articles--> ml-platform consumer
                                                      |
                                              processed_articles
                                               /              \
                                database-service consumer   embedding-service consumer
                                 |            |                     |
                            PostgreSQL   Elasticsearch       article_embeddings
                                 |
          POST /rebuild-events, API gateway, energy-service, modular API, front end

| Component | State it keeps | Operations | Interacts through | What makes it correct |
|---|---|---|---|---|
| Consume loop (`backend/shared/kafka/consumer.py`) | `_running`, broker positions and offsets | `run`, `stop`, signal handlers | Kafka, one handler call per message | never acknowledges what was not handled; order per partition; everything is handled in the end |
| Producer (`backend/shared/kafka/producer.py`) | librdkafka's queue | `produce`, `flush`, delivery callback | Kafka | nothing disappears without a recorded cause |
| Ingest service | scheduler jobs, producer queue | hourly and on-demand fetches | `raw_articles` | at least one copy of every fetched article is published |
| Enrichment consumer (`ml-platform/consumer`) | producer queue | `handle_message`, flush at exit | both topics | as for the producer, across stops and kills |
| Database consumer (`database-service`) | article, entity, event, energy tables, search index | five steps per message | PostgreSQL, Elasticsearch | the stores agree about an article once its message is committed |
| Event clustering (`event_intelligence.py`, `app.py`) | events and their articles and entities | cluster one article; rebuild all | two transactions on one database | events stay well founded and cohesive, and no article is left out of them, whatever the two writers interleave |
| Embedding service | `article_embeddings` | consumer, `GET /generate` | `processed_articles`, the article's row | every stored article gets a vector; no vector without a row |
| Circuit breaker, bulkhead, retry, timeout (`backend/shared/resilience`) | state, counters, a semaphore | `call`, `run` | coroutines of one event loop | consistent bookkeeping under late results and cancellation |
| Ingestion engine and scheduler (`ml-platform/ingestion`) | running task, progress, cancel event, schedules | `execute`, `cancel`, cron loop | its tests only | not reached by the program |
| Data acquisition (`ml-platform/data_acquisition`) | files, manifest, download history | resumable download, checksum, decompress | HTTP, file system, other downloads of the same file | a file taken for complete is complete; resuming never spoils one |
| Risk engine (`energy-service/services/risk_engine.py`) | signals, risk scores | scans of articles, scoring, propagation (`ml_bridge.py`), requests | PostgreSQL, coroutines of one event loop | one signal per article and asset; a score that was computed from signals knows every one; every mapped article is signalled |
| Response (`energy-service`) | twin runs, reserve schedules, procurement, evidence | staged response to a signal, replays, approvals | PostgreSQL | a response leaves a complete chain of evidence |
| Model registry and serving (`ml-platform/registry`, `training`, `inference`, `deployment`) | model files, version rows, cached models | train, import, promote, transition, predict | files, PostgreSQL, the API's memory | one version in production; a prediction comes from the version it names |
| Pools (`backend/shared/database`) | singleton pool | lazy creation, close | concurrent requests | one pool |
| Orchestration (`backend/shared/orchestration`) | plan, results, the tracer's stack | plan, dispatch, retry, reflect, expand | LLM provider, agents | steps run after what they depend on, once; every query ends; every step's trace hangs where it ran |
| LLM client (`backend/shared/llm`) | conversation memory | chat with retries | LLM provider | bounded retries |
| API gateway (`backend/api`) | investigations, watchlists | CRUD | PostgreSQL | mostly single statements |
| Feature pipelines (`ml-platform/feature_store/pipeline_engine.py`) | definitions, cached columns in memory and files | define, run, run incrementally | PostgreSQL, a cache directory | a cached column is the one the run would compute |
| ML platform batch code | DAGs, monitors | transform, export | files, PostgreSQL | single-threaded scripts |

What is hard here: five steps of a handler share no transaction; commits and
deliveries are asynchronous; processes are killed and replay; two consumers of
the same topic depend on each other through the database without ordering; an
administrator's rebuild runs against a live consumer; a response to a signal
is some thirty statements that commit one by one; coroutines are cancelled
at every await; a language model writes the plan that is executed; scripts,
operators and requests change stages and files of the same models; scans and
downloads of the same things overlap. The complete list, by line, is under
`hazards` in `PROJECT.json`.

## 2. Modules

| Module | Models | Notes |
|---|---|---|
| `AtLeastOnceLog` | the promise of a consumer group, without saying how | abstract specification |
| `ConsumerRunner` | the consume loop, one process per group, kills, stops, asynchronous commits | implements `AtLeastOnceLog` (`Promise`) |
| `ConsumerRunner_proofs` | its theorems | |
| `ArticlePipeline` | producers, three consumers and their handlers step by step, the stores | EXTENDS `ConsumerRunner`: every consumer action of the pipeline contains the loop's action |
| `ArticlePipeline_proofs` | its theorems | |
| `EventIntelligence`, `EventIntelligence_proofs` | clustering and rebuild | refines the single step `UpdateEvents` of the pipeline |
| `CircuitBreaker` | `circuit_breaker.py` | |
| `Bulkhead` | `bulkhead.py` on `asyncio.Semaphore` | |
| `CommandCenter` | `command_center.py`, `evidence.py` and the rows of the three engines | one request per response or replay |
| `SignalIngestion`, `SignalIngestion_proofs` | the article ingestor and the scoring of `risk_engine.py`, `RiskPropagator` of `ml_bridge.py` | one coroutine per scan, visit or propagation |
| `ModelRegistry`, `ModelRegistry_proofs` | rows, files and cache of one model name | jobs, operators and the API |
| `GdeltDownload` | `gdelt_pipeline/downloader.py` for one file | downloads, the archive's servers |
| `PlanDispatch` | a query through `engine.py`, `router.py` and the tracer's stack | one query |
| `TwinFlow` | the ticks of a twin run, `flow.py` and `run_simulation` | the computation inside a response's twin step |
| `SprRelease` | how `spr_engine.py` draws on the reserve | the computation inside a response's reserve step |
| `FeaturePipeline` | runs and cache of `pipeline_engine.py` | engines that share a cache directory |
| `Backend_proofs` | theorems of `CircuitBreaker`, `Bulkhead` and `PlanDispatch` | |
| `Response_proofs` | theorems of `CommandCenter`, `TwinFlow` and `SprRelease` | |
| `MLFiles_proofs` | theorems of `GdeltDownload` and `FeaturePipeline` | |
| `MCBackend`, `MCResponse`, `MCMLFiles` | instances of two or three modules side by side | a variable `part` says which one moves; the others rest, so the state spaces add |
| `MC...` | the other instances TLC checks | |

### ConsumerRunner

`position`, `requested` and `committed` are the three cursors behind
`consumer.commit()` without arguments: what the process has polled, what its
last commit asked for (all partitions at once), what the broker has stored.
`Return` is the `try/except/finally` of `run`: whether the handler returns or
raises, the commit follows. The broker applies a request at any later time
(`CommitLands`), also after the process died, but no longer once a successor
has joined (`Start` resets `requested`). `finished` is a history variable.
The embedding service has its own copy of the loop; it commits on every path
of its body, as the shared loop does, and is a process of the same module.

### ArticlePipeline

The handlers are sequences of steps (`step[g]`), each a transaction of its own
in the code. A table maps a dedupe key to the article its row was last derived
from, so "the stores agree" is equality of five functions at a key. A message
is in `ingestBuf` or `mlBuf` from `produce()` until the broker takes it;
`DeliverTwice` is the resend of a producer that is not idempotent
(`producer_config` sets only the servers), `DeliveryFails` the callback that
only logs. `StoreFails` stands for any exception in a step, and for
`index_article` returning because Elasticsearch does not answer: in both cases
the message is committed, and the history variable `damaged` records the key.
The enrichment consumer flushes before it exits, hence the guard of `PStart`;
the 5 s timeout of the flush is a `DeliveryFails`.

### EventIntelligence

`events` and `draft` are two views of the tables `events`, `event_articles`
and `event_entities`: what is committed, and what the transaction of a running
`POST /rebuild-events` sees. In a view, `founder[e]` is the article an event was
created from and `members[e]` the articles attached to it; the texts of its
entities are those its articles have. A score is an integer number of
thousandths with the code's weights (0.60 overlap, 0.15 topic, 0.15 time, 0.10
text) and threshold (0.60); the similarity of texts is data. The two sides of
the overlap are not alike: an article is compared by its normal forms without
the publishers (`Names`), an event has the texts as they were stored (`Raw`).

The consumer reads (`Choose`) and writes (`Attach`) in one READ COMMITTED
transaction. The rebuild is one transaction too: `with conn:` of `app.py:163`
holds the deletions and the loop, and `update_event_intelligence` commits
nothing on a connection it was given. `Wipe` is its first statements, the
deletion and the SELECT of the articles, `RebuildOne` one turn of the loop,
`RebuildEnds` the commit, `RebuildFails` the rollback, which restores the
events. The consumer goes on beside it and sees the old events until the
commit, and the rebuild sees what the consumer commits meanwhile, so `Attach`
changes both views. It waits for rows the rebuild has deleted or written
(`Waits`); a choice of an event that the commit has deleted then fails on the
foreign key of `event_articles` (`Referenced`), and the article is in no event
until it is handled again (`missed`). The endpoint is an `async def` that
blocks the event loop, so one rebuild runs at a time.

Abstracted: mention counts, risk, profiles and alerts; the victim of a deadlock
is one of the faults; publication times and topics are present; the entities
of an article are the same each time it is handled; there is one consumer
process.

### CircuitBreaker and Bulkhead

The sections under the asyncio locks contain no await, so they are single
steps. What interleaves is the protected coroutine: it may end in another
state of the breaker than it was admitted in, and it may be cancelled
(`timeout.py` cancels what it awaits), in which case `except Exception` does
not run. The bulkhead's semaphore is modelled from CPython's
`asyncio.Semaphore`: first in first out, a release hands the permit to the
first waiter, which resumes later. Neither class has a caller in the
repository yet, so the callers are arbitrary.

### CommandCenter

`pc[r]` is the next statement of request `r`; rows have fresh uuids, so a
request names the rows it wrote. Statements that nothing else reads between
are one step (the plans and recommendations of a reserve run, the assumptions
and options of a procurement run, the ticks of a twin run). `linked` is
`simulation_run_uuid` in the two tables with a foreign key to the twin run
(`ON DELETE SET NULL`); a bundle keeps the twin's uuid without one. `Fail` is
any exception in a statement or engine, a missing scenario template, and a
kill: in each case the rows stay and nothing resumes the request.
`FailWithoutTwin` is what the foreign keys and the orchestrator's check raise
when `DELETE /runs/{run}` came first. Which scenario is matched, the numbers of
the engines, the source modes and the texts of a bundle are abstracted.

### SignalIngestion

A scan selects its rows in one query (`Start`, the two limits and the
`NOT EXISTS` included) and then inserts and scores them one statement at a
time; the background loop and the two endpoints run the same scan, and a visit
of an asset's risk scores it too. A score is the signals it was computed from
(`seen`, `latest`), the formula over them is arithmetic. An exception in a
row is logged and the scan goes on (`InsertFails`, `ScoringFails`); `Map` is
the enrichment of another service changing the mappings. A propagation reads
the assets related to its source (`Propagate`) and stores a share of the
source's risk as each one's score (`Spread`); such a score counts no signal of
the asset's own and is the value `Propagated`. Signals that do not come from
articles (`POST /signals`, the demo) are stored by the same `ingest_signal`;
they are not about an article, and their scoring is like a visit's. The history variables
`overlapped`, `crossed` and `outdated` name the excuses of the properties:
articles two scans had at once, scorers that read while another was between
its read and its insert, assets whose last score such a scorer or a failure
left behind. Expiry of signals is in `CommandCenter`, not here.

### ModelRegistry

One model name. A job trains and registers, or is an import of a research
model by the API; then the tuner may rank, promote and archive. Every version
has the metric that the tuner ranks by; the code skips one that lacks it. An
operator asks for a stage. Each statement is a step; `read` is the stage the
transition saw and `alone` whether anybody else touched production since the
actor's first write. A file is the job that wrote it last; its place depends
on the data set's version only, as in `trainer.py`. The API caches a loaded
model per version and loses its cache and its requests when it is restarted.
The unique key on (name, version) makes the second of two equal inserts fail.

### GdeltDownload

One file, two downloads of it at the same path. A file is a sequence of
blocks of a published version; the archive may publish another version of
another size (`Publish`). `Probe` is the HEAD request and what follows
without a wait; whether the server names a size or ranges is chosen each time.
An answer 416 only unlinks the file (`NotSatisfiable`); the request that
follows it is another `Get`, from the start.
`Get` opens the file for what the response was asked for, `Write` appends
at this handle's own position or at the end, as the mode says, and an unlinked
file takes its writer's blocks with it. `causes` names what can spoil a
file: two downloads at once, a server that answers a range with the whole,
a republished file.

### PlanDispatch

One query. The plan is what a language model answered, so ids may repeat,
dependencies may be unknown or cyclic, and an agent may have no handler; a
planner whose model fails uses the fallback plan. `pending`, `batch` and
`completed` are the sets of `dispatch()`, `attempt[i]` the place of step `i`
in the retry loop of `_execute_step`. The steps of a parallel batch enter one
after the other when `gather` schedules them (Python 3.11's `wait_for` runs the
handler in a task of its own, so none can end before all have entered) and end
in any order. `stack` is the tracer's stack of contexts, which every step
pushes to and pops from. `Expand` is the reflection that wants more: the
expanded plan contains the original steps and is dispatched from the start.
Steps are positions of the plan, up to the bound `MaxSteps`, which must leave
room for the gaps of an expansion.

### SprRelease

`Optimize` is `run_optimization` up to the plan, for any facilities, gap,
horizon, policy and strategy; `Draw` is one turn of the loop over the sorted
facilities. Barrels are whole numbers of a small unit, so that percentages of
stocks are exact. The run saves the result in the steps `SaveReserve` and
`SavePlans` of `CommandCenter`.

### TwinFlow

`StartRun` is what `run_simulation` and `snapshot_to_states` set up, for any
scenario, tick interval, stocks and order of the nodes. A tick is
`DisruptEdges` (disruptions, then `_rebalance_flow`), one `VisitNode` per node
in the order the query returned them, and `EndTick`, which persists it.
A run is sequential; what makes it hard is that a node that runs dry in the
middle of a tick cuts flows the nodes before it were computed from, and that
its status `idle` is replaced by `critical` one tick later. Volumes are whole
numbers rounded down; prices, events and utilization are left out.

### FeaturePipeline

Two processes with an engine each and one cache directory. The content of a
column is a term (the frame's data, or a transform of terms), so that equal
terms are equal columns and unequal ones may differ. `Key` is `get_step_hash`
with the step's name; a key is looked up in the memory of the engine, then among
the files. Writing a file is two steps, `Open` and `Pickled`, between which the
other engine may read it, empty it, or the writer be killed; `emptied` says
whose file was truncated under it. Eviction follows `PipelineCache`: `set`
makes room, `get` from a file does not. The result of a step is one column; a
transform that returns a frame of several is one whose columns are written and
cached together, and is abstracted to that. A step may write a column of the frame
that another step, or it, reads (`_apply_step_result` assigns it): what the
step was computed from is then gone, and `RunsAreFresh` says nothing of it.

## 3. Runs

All bounds are constants with "bound" in their comment. Deadlock checking is
off where the system comes to rest once the bounded producers, faults and
callers have done what they may do; that is where nothing is left to do.

| Run | Instance | Checks |
|---|---|---|
| `consumer` | one group, two partitions of three messages, two kills, one signal | `CommitCoversHandled`, `HandledInOrder`, `CommittedMonotone`, `EveryMessageCommitted`, and that the loop implements `AtLeastOnceLog` |
| `pipeline_all` | ml, db and em consumers, one article, logs of two (room for the replay), one kill, one fault | `DerivedInOrder`, `EveryArticleStored` |
| `pipeline_stores` | ml and db consumers, two syndicated copies, one kill, one stop, one handler fault, one delivery fault | `StoresAgreeOnceCommitted`, `EnrichmentAccounted` |
| `pipeline_embedding` | three consumers, no faults | violates `EveryArticleEmbedded` |
| `backend` | breaker: three callers, threshold 2, two HALF_OPEN slots, three cancellations; bulkhead: five callers, two permits, queue of three, two cancellations; dispatch: every plan of three steps with five sets of dependencies each, both modes, repeated ids and an unknown agent, one retry, three rounds, one gap | `CountMatchesState`, `SlotsAccounted`, `EventuallyDecides`; `PermitsConserved`, `QueueAccounted`, `NoLostWakeup`, `EveryCallerServed`; `DispatchRunsPlan`, `TraceNests`, `EveryQueryEnds` |
| `events` | five articles (one pair sharing two entities, one late, one naming a single entity, one with an alias and a publisher), two candidates, four messages, one rebuild, one fault | `EventsWellFounded`, `ClusteredOrMissed`, `ClusterCohesive`, `TwinsExplained` |
| `response` | two requests, one live and two replay signals, one fault, two approvals per bundle, any deletion; up to three facilities of nine kinds, five gaps, two horizons and policies, five strategies; a network of four nodes and five edges, one without capacity, every order of visits, 32 scenarios, three tick intervals, four ticks | `RecordsChained`, `ReplaysOwnSignal`, `AbandonedAccounted`, `RequestsEnd`; `ReserveKept`; `ReportedGapIsWorst`, `OnlyUnstoppableShipAgain` |
| `registry` | two jobs, one operator, two versions, two stage requests, two predictions, one kill or restart | `NeverOlderModel`, `LonePromotionWins`, `StagesFollowTable` |
| `registry_overwrite` | two jobs, no kill | violates `ServedModelIsVersion` |
| `signals` | two articles, three assets, two scans, one visit and one propagation, two rows per article, one article per scan, two changes of mappings, one request, one fault | `OneSignalPerPair`, `ScoreIsCurrent`, `EveryArticleSignalled` |
| `ml_files` | two downloads, versions of two, three and one blocks, one retry, three runs, two kills; two engines, three definitions, two contents of a frame, a cache of two entries, three runs, one kill | `FileIsPrefix`, `CompletedIsIntact`, `RetriesSuffice`; `RunsAreFresh` |

Why the bounds are enough: two partitions are needed for commits that cover
other partitions than the handled one; two kills for a replay that is itself
interrupted; two copies of a story for an overwrite and its replay; one fault
of each kind per behaviour because faults act through `lost` and `damaged`
only; three callers to have an old call, a probe and a rejected call at once;
five callers to have more than may run and wait. In `events` the four messages
allow founding, joining, repeating and a stale choice, and the limit of two
candidates lets an event be crowded out by later ones. Requests meet only
through the signals and through deletions, so two of them, with a live signal
ranked between two replayed ones, show every way a replay can be overtaken.
Two versions and two jobs show every pair of promotions that overlap, and a
file that is written twice; a limit of one article per scan with two articles
shows that the first does not starve the second; three assets with two rows
per article show a cap that is reached. Versions of a file that grow and
shrink show a resume beyond the end; two runs after a kill show a download
that continues a spoilt file. Three rounds for plans of three steps and a
gap let the limit of the loop be reached, in the second dispatch. Three runs of
a pipeline are one that fills the cache, one under another definition and one
that may take either's results; two entries for three steps make every run
evict. Four ticks are one in which a tank runs dry, one in which the refinery
behind it does, one that replaces its status and one that would revive it; the
five edges have two ways into the refinery and one out of it. Type invariants
that are proved (section 5) are not run again, except those that
`EventsWellFounded` and `StoresAgreeOnceCommitted` begin with.

Fairness (`FairSpec`, `PFairSpec`): a live consumer polls every partition it
has messages for (strong fairness, since polling another partition disables it
for a while), its single thread runs (`Progress`), the broker applies commits
and takes messages, and a supervisor restarts what stopped, as
`database-service/consumer.py` expects ("so Docker restart:always works").
Nothing is assumed of fetches, signals, kills, faults or an operator's
`/generate`. For the breaker, time passes, protected coroutines end one way or
another, and somebody keeps calling. For the bulkhead, the event loop resumes
what is ready and protected coroutines end. In the command center a request
whose statement has returned goes on; nothing is assumed of callers, operators,
faults and deletions. A query goes on when what it awaits has returned, and
`wait_for` ends every attempt of a step. In the risk engine the event loop serves every task, and
the background loop starts its scan again and again, since it catches whatever
a scan raises; nothing is assumed of requests.

## 4. Findings

1. `EveryArticleEmbedded`: the embedding consumer skips, and commits, an
   article whose row the database consumer has not written yet
   (`embedding-service/consumer.py:29`). Only `GET /generate` repairs it.
2. `ServedModelIsVersion`: the directory of a model file is named for the
   version of the data set, so training again overwrites the file of the
   version in production (`trainer.py:78`), and after a restart the API
   predicts with a model nobody promoted, under the promoted version's number;
   `docs/14_FOUNDING_ENGINEER_INTERVIEW_PLAYBOOK.md:171` says retraining should
   not be "an automatic overwrite of a production model".

Seen while modelling, excluded by name in a property or outside the models:

* Pipeline: the raw message is committed while the enriched one is still in
  memory; a failed delivery is logged and the article is lost
  (`article_enrichment.py:84`; `EnrichmentAccounted` says when).
* Bulkhead: a call cancelled in the queue is counted as waiting for good
  (`bulkhead.py:47`; `QueueAccounted`).
* Breaker: cancelled probes use up the HALF_OPEN slots, and when all are used
  the breaker rejects calls for good (`EventuallyDecides` excludes exactly that
  case); a call admitted while CLOSED can decide HALF_OPEN.
* Events: an article of fewer than two entities founds a new event each time it
  is fetched again, and so does one whose stored texts are aliases or
  publishers, because its normal forms are not found among its own event's
  texts (`event_intelligence.py:125`; the spaCy fallback, `ml_core/entities.py:47`,
  stores them as they stand). The same happens to one whose event is not among
  the 25 candidates, and to one handled while a rebuild runs (`TwinsExplained`
  names all of these). `mention_count`, `mention_frequency` and alerts grow
  with every redelivery; an embedding keeps the vector of an older text.
* Response: the recommendation is recorded before its evidence bundle
  (`command_center.py:238`); twin runs of failed responses stay `running`,
  procurement runs `active`; approvals are accepted in any order and
  repeatedly; an auto request may respond to a replay's signal while it is
  active.
* Risk engine: an insert that fails after another signal of the same article
  is never made up for, because the article counts as signalled
  (`risk_engine.py:881`); an article whose inserts all fail for good is
  selected again by every scan and keeps its place before the others. A
  propagation puts a share of another asset's risk in front of an asset's own
  score, until it is scored again (`ml_bridge.py:241`; `ScoreIsCurrent`
  excludes that score).
* Registry: `promote_best` promotes the best version whatever its stage,
  archived ones included (`tune_and_promote.py:206`); between the two
  statements of a promotion no version, or two, are in production.
* Twin: `flow.py` multiplies capacities by an event's factor at every tick and
  never restores them, where `scenarios.py` describes a reduction for a number
  of days; `risk_multiplier` is never applied. Since no flow rises again, the
  gap of the last tick is the largest (`ReportedGapIsWorst`): a route that
  opens after three days would break that. Only refineries, plants and
  storage stop when they are empty; strategic reserves go on shipping. A
  refinery with a deficit is `idle` for one tick and `critical` after it, so
  `idle_refineries` at the end of a run misses those that stopped earlier
  (`flow.py:261`). `_rebalance_flow` is to "reroute through alternative paths"
  (`flow.py:209`) and only closes the edges of idle nodes. `duration_days` is
  compared with ticks, which may be hours or weeks. The graph builder stores
  transit edges, and others whose source names none, without a capacity; to
  disrupt one raises a `TypeError` (`flow.py:37`) and the run stays `running`.
* Downloads: every archive is extracted into the same `_extracted` directory,
  which is then listed whole (`gdelt_pipeline/pipeline.py:218`). The older
  `DownloadManager` asks for an empty range when the file is complete, which
  every retry fails on (`download_manager.py:106`).
* Reserve: the limit of a strategy is compared before each facility, so the
  last one may exceed it (`spr_engine.py:585`; what keeps the strategic reserve
  is the number of days, `ReserveKept`); the sort is reversed, so the least
  reliable facility comes first (`spr_engine.py:556`); of a policy only
  `min_reserve_threshold_pct` is used.
* Orchestration: steps of a parallel batch push and pop the same stack, so
  that each hangs under the one before it and pops another's context
  (`TraceNests` says what still nests; `trace.py:41` promises "proper
  parent-child nesting"); a reflection that wants more dispatches all the
  original steps again (`engine.py:118`); an error of the LLM during a
  reflection fails the query (`reflection.py:98`).
* Feature pipelines: a step that names no columns is keyed by its name and
  transform only and gets the result of another frame; the order of the columns
  is not in the key (`pipeline_engine.py:786`); a pickle cut off by a kill makes
  every later incremental run with its key fail (`pipeline_engine.py:89`).
  `RunsAreFresh` excludes the first two by name, and steps of which a column
  they read has been replaced.
* LLM client: the wait between attempts is `time.sleep` in a coroutine
  (`client.py:108`), which stops the whole event loop.

## 5. Proofs

Every invariant and every action property that a run checks is also a theorem,
for every value of the constants that the `ASSUME`s allow: any number of
groups, partitions, messages, articles, callers, steps, nodes or facilities,
and any number of kills, stops and faults. No theorem relies on fairness.

* `ConsumerRunner_proofs`: `TypeCorrect`; `CommitIsSafe` (`CommitCoversHandled`),
  `OrderIsKept` (`HandledInOrder`), `OffsetsAdvance` (`CommittedMonotone`) and
  `RunnerImplementsAtLeastOnce`. `CommitCoversHandled` alone is not inductive:
  a commit in flight could ask for too much. The inductive invariant adds the
  order `committed <= requested <= position <= length` (`CursorsOrdered`), what
  each cursor says of handled messages (`Accounted`) and that the message in
  the handler is the last one polled (`CurrentAtCursor`).
* `ArticlePipeline_proofs`: `PipelineRunsConsumers` shows that every behaviour
  of the pipeline is, for the loop's variables, one of `ConsumerRunner`, so
  that its theorems carry over (`PipelineCommitIsSafe`). `DerivedAlwaysInOrder`
  (`DerivedInOrder`) needs the typing of the tables and of the step, and that
  the handler's step implies which tables already have the key: a kill resets
  the step, a fault skips to the end. `PipelineTypeCorrect` types the rest.
  `EnrichmentAlwaysAccounted` (`EnrichmentAccounted`) needs that a handler which
  is done has queued its article or lost it (`HandedOn`), and that no step
  takes an article out of the producer without sending it or recording the
  loss (`HeldStays`). `StoresAlwaysAgree` (`StoresAgreeOnceCommitted`) is the
  longest: `Settled` says of a key that its stores agree, or its message is in
  the handler, or some copy is still ahead of the cursor at which the consumer
  is or will resume (`Frontier`), or a fault cut the last handler short;
  `MidHandler` how far the handler has brought the stores, and that no commit
  covers its message. Its hypothesis `"db" \in Group` only says that the
  database consumer is deployed: without it nothing is stored.
* `EventIntelligence_proofs`: `EventsAlwaysWellFounded` (`EventsWellFounded`),
  `RebuildLeavesNoneBehind` (`ClusteredOrMissed`), `ClustersAlwaysCohesive`
  (`ClusterCohesive`) and `TwinsAlwaysExplained` (`TwinsExplained`), for any
  texts, normal forms, publishers, scores and candidate limit. The invariant
  `EInv` speaks of both views of the tables, and of the consumer's choice while
  it waits (`ChoiceStands`): its event is gone, or still has the names it was
  chosen for, and a new event is chosen for want of an own one to be found. The
  views are tied by what both writers leave alone: an event in both was founded
  by the consumer while the request ran, and the draft has at least its
  committed members (`Kept`); the events of the draft alone are of different
  articles, and of none that is still to be clustered (`Redone`). `PutEffect`
  says what attaching an article does to a view, for both writers. What makes
  an article find its own event is `OwnEventEligible`: if it is recognisable
  and the event has not drifted, half of the names are shared (`HalfShare`),
  which with topic and time reaches the threshold.
* `Backend_proofs`, the breaker: `BreakerTypeCorrect`,
  `CountAlwaysMatchesState` (`CountMatchesState`), `SlotsAlwaysAccounted`
  (`SlotsAccounted`) for any number of callers, threshold and slots; the last by
  counting the probes in flight (`ProbeCount`).
* `Backend_proofs`, the bulkhead: `PermitsAlwaysConserved`
  (`PermitsConserved`), `NoWakeupEverLost` (`NoLostWakeup`),
  `QueueAlwaysAccounted` (`QueueAccounted`) for any number of callers, permits
  and places. They are one invariant: the counts move together only because a
  call is in one place (`Separate`). `WakeConserves` says what handing out
  permits does to all of them at once; it rests on lemmas about slices of a
  queue without repetitions (`FirstElements`, `RemovedAt`).
* `Backend_proofs`, the dispatch: `PlanAlwaysFollowed` (`DispatchRunsPlan`) and
  `TraceAlwaysNests` (`TraceNests`), for any plans, cyclic ones and ones with
  repeated ids included, retries, rounds and gaps. `DispatchRunsPlan` speaks of
  results only; `DInv` adds that every step is in one of `pending`, the batch
  and the results (`StepsPlaced`), that the batch holds only steps whose
  dependencies have results (`BatchSound`), and that `dispatch` returned because
  no pending step could run or the rounds were used up (`LeftBlocked`).
  `TracerSound` adds the height of the stack and its two lowest contexts.
  `OrderExists` (positions can be put in order) is proved by a smallest
  counterexample, for want of induction.
* `Response_proofs`, the rows: `TypeCorrect`, `RecordsAlwaysChained`
  (`RecordsChained`), `LinksAlwaysResolve`, `ReplaysAlwaysOwnSignal` (`ReplaysOwnSignal`) and
  `AbandonedAlwaysAccounted` (`AbandonedAccounted`). `RecordsChained` is not
  inductive: `ChainInv` adds what the next statement says of the rows before it
  (`AtStage`) and what a row says of the statements behind its request
  (`Behind`), so that no step of a live request can touch the chain of a
  bundle. `SignalInv` says that a replay's signal was new when it was ingested,
  hence shared with no other replay. `FaultsCover` counts the failures that no
  deletion explains; `Untouched` says which rows a request that has not come so
  far cannot have.
* `Response_proofs`, the twin: `ReportedAlwaysWorst` (`ReportedGapIsWorst`) and
  `DryNeverShipsAgain` (`OnlyUnstoppableShipAgain`), for any network, stocks,
  scenario, order of the nodes and number of ticks. The invariant `FlowInv` adds
  that an edge which is not active carries nothing (`InactiveCarryNothing`),
  so that what arrives at a node is the sum of all its edges' flows and falls
  with them; that therefore no node has less of a gap than when it was visited
  last (`GapsWiden`); and that a stoppable node which ran dry has no flow left to
  ship (`DryShipNothing`). It needs lemmas about the sums of the community
  modules (`SumWithout`, `SumMonotone`, `SumOfMore`): the recursion behind
  `SumFunctionOnSet` is shown to have a value (`IterationExists`), the same from
  whichever superset it is taken (`IterationsAgree`), and the rest follows by
  subset induction (`OverSubsets`).
* `Response_proofs`, the reserve: `ReserveAlwaysKept` (`ReserveKept`), for any
  facilities, stocks, rates, gap, horizon, policy and order. The invariant
  `ReleaseInv` is the arithmetic behind it: the rates of the plan and the demand
  left make up the gap, they are at most what the facilities passed can give a
  day, the volumes are at most the rates times the days (`PlanAddsUp`), and the
  reserve lasts for those days at its own rate (`ReserveLasts`).
* `ModelRegistry_proofs`: `TypeCorrect`; `TableIsFollowed`
  (`StagesFollowTable`), `LonePromotionsWin` (`LonePromotionWins`),
  `ProductionLostOnlyThen` (`ProductionLost`), `ServedNeverOlder`
  (`NeverOlderModel`). The first three are action properties; they need that
  an actor past its SELECT works on a row that exists, and that an actor that
  is still alone finds production as its own statements left it. The last
  needs `AgeInv`: a file, and so a cached model, is never older than any row
  that points to its place.
* `SignalIngestion_proofs`: `TypeCorrect`, `OneSignal` (`OneSignalPerPair`) and
  `ScoresFollow` (`ScoreIsCurrent`). `PairInv` adds, per article, that what a
  scan still has to insert was not inserted yet and that both together respect
  the cap; `SeenIsCurrent` that a scorer that was not crossed has seen what is
  stored. A propagation changes no signal and no scorer's reading, so that the
  latest score is then the propagated one or still current.
* `MLFiles_proofs`, downloads: `DownloadTypeCorrect`, `CompletedFiles`
  (`CompletedIsIntact`), `FilesArePrefixes` (`FileIsPrefix`),
  `RetriesAreEnough` (`RetriesSuffice`). `AloneInv` says that a lone download
  that has compared the file still has it; `CleanInv` that, while no cause is
  recorded, the file is the beginning of the published one up to the writer's
  position (`PlaceOK`, `HasBlocks`), and that failures so far are cuts.
* `MLFiles_proofs`, feature pipelines: `RunsAlwaysFresh` (`RunsAreFresh`). The
  run's columns say nothing of the cache, so `FInv` adds that every entry in a
  memory or a file that is not torn is a value its key allows (`CacheSound`): the
  transform of the key applied to the key's columns in some order, whichever
  engine or definition put it there. `KeyHoldsValues` and `SoundIsSame` connect a
  key with the frame it is looked up for.

Assumptions: only the `ASSUME`s of the modules, which TLC evaluates in the
runs, and the hypothesis `"db" \in Group` above. They say what the constants are: types, at
least one slot, permit, cache entry and candidate, a positive threshold, finite
sets of entities, nodes and edges. Two say more. `DispatchAssumption` bounds the
plans so that an expanded one fits `MaxSteps`. `TwinAssumption` takes shares of
at most 100 percent, which the stored scenarios have, but the configuration of
a request is not checked for: with a negative severity a disruption raises a
flow, and the gap of the last tick need not be the largest.

Model-checked only: the liveness properties `EveryMessageCommitted`,
`EveryArticleStored`, `EventuallyDecides`, `EveryCallerServed`,
`EveryQueryEnds`, `RequestsEnd` and `EveryArticleSignalled`, which need fairness
and `ENABLED`; and the two violations. What recursive definitions compute is
proved only where a smallest counterexample does instead of induction.

## 6. Not modelled

Left out: NLP and ML functions, SQL columns and read endpoints,
formatting, the front ends, research notebooks and data-set parsers.

* Ingestion engine and scheduler: only their tests create them.
* The AIS and price ingestors: the same check-then-insert as the articles', on
  tables nothing else in the models reads.
* The economic impacts of a twin run, the procurement optimiser, forecasts and
  the scoring formulas: arithmetic over floats whose coefficients are data. What
  they save, in which order, is in `CommandCenter`.
* The older `DownloadManager`, the lake and the parsers: one sequential caller.
* Feature pipelines: validation, snapshots and `invalidate()`, which only tests
  call. The engine itself is reached by its tests only, as are its siblings.
* ML platform DAGs and monitors: single-threaded batch code;
  the research execution engine reaches only a pipeline without dependencies.
* Connection pools: created at start-up, before requests are served.
* API gateway and investigations: single statements.

Left to prove: that a step of `EventIntelligence` is the pipeline's step
`UpdateEvents` or a stutter; the types of `FeaturePipeline` that `FInv` does
not contain.
