# A TLA+ verification project for the property search service

The repository is a real-estate search service: a FastAPI process answers
`GET /search` (Meilisearch candidates, reranked by a LightGBM model or a
hand-made score, cached in Redis) and `POST /feedback`, PostgreSQL keeps what
was shown and what users did with it, and batch jobs turn those tables into
features, KPIs, an evaluation and a new model. This directory holds TLA+
specifications of that program, TLC configurations that check them on small
instances, and proofs that TLAPS checks for every instance.

Paths below are relative to the repository; `docs/03` is
`docs/03_実装カタログ.md`.

## Inventory

| Component | Code | State | Operations |
|---|---|---|---|
| Search use case and route | `src/application/usecases/search_properties.py`, `src/api/routes/search.py` | locals of one request | cache get, candidates, rerank, log, compare, cache set, answer |
| Feedback use case and route | `record_feedback.py`, `src/api/routes/feedback.py` | locals of one request | one transaction, then 200, 404 or 500 |
| Search log repository | `src/repositories/search_log_repository.py` | tables `search_logs`, `property_stats` | insert log + bulk UPSERT; feedback UPSERT + label UPDATE |
| Ranking compare repository | `ranking_compare_repository.py` | table `ranking_compare_logs` | insert with computed columns |
| Response cache | `redis_cache_adapter.py` | Redis keys with a TTL | get, setex; errors are logged and dropped |
| Candidate search | `meilisearch_property_search_adapter.py`, `query_filter_builder.py` | none (the Meilisearch index) | query with filter and candidate limit |
| Reranker | `src/services/ranking/lgbm_reranker.py`, `lgbm_reranking_adapter.py` | module globals `_MODEL`, `_MODEL_MTIME`; the model file | reload on changed mtime, score, sort |
| Training | `src/trainers/`, `src/jobs/training/run_weekly_retraining.py` | the model file | dataset, train, save; only when the last decision permits |
| Request context | `src/api/middleware.py`, `src/core/logging.py` | one class-level dict | set ids, read them for the bodies of errors |
| Connection pool | `src/core/db.py` | the global pool, its lock, its connections | built once under the lock; a transaction per block: commit, or rollback on an exception |
| Catalogue sync | `src/clients/meilisearch_client.py`, `src/jobs/indexing/` | Meilisearch index and tasks | read active rows, write documents, wait for the task |
| Daily features | `src/jobs/features/aggregate_daily_property_stats.py`, `src/services/ranking/feature_service.py` | tables of features, batch job log, index | three statements, cleanup of inactive documents, job log |
| KPI, offline evaluation, adoption | `src/jobs/evaluation/`, `src/services/evaluation/`, `evaluation_report_repository.py` | KPI and report tables | daily snapshot, metrics over compare logs, adopt / hold decision |
| Embedding service | `src/services/embeddings/`, `lgbm_reranking_adapter.py` | one encoder per process and its lock | load on first use (or fall back to a hash), encode, compare |
| Embedding batch | `src/jobs/embeddings/`, `property_embedding_repository.py` | table `property_embeddings` | read active rows, encode, one UPSERT of all |
| Migrations, scripts | `src/migrations/`, `scripts/` | schema | DDL, smoke calls |
| Redis client wrapper | `src/clients/redis_client.py` | none | unused by the application |

**How they interact.** Both route handlers are plain `def`s, so FastAPI runs
each request in a worker thread; the threads share the four stores (Redis,
Meilisearch, PostgreSQL, the model file) and the module globals, and no lock of
the program orders them. The middleware and the exception handlers are tasks of
one event loop. The jobs are other processes that meet the API in PostgreSQL,
in the index and in the model file. Nothing is passed by messages or callbacks.

**What is hard.** A search makes six outgoing calls, two of which are
transactions of their own; anything may happen between two calls, each can
fail, a commit can succeed without its acknowledgement, and the process can die.
A cached response outlives the request that computed it. Counters of one
property are written by two different statements in any order. The model is
reloaded without a lock while another process replaces the file. Bulk UPSERTs
lock rows in the order of their rankings, the daily job in any order and with a
second connection; encoders are loaded on first use, and vectors are stored
minutes after the rows they describe were read.

**What makes each part correct.**

- *Search and feedback*: impressions, labels and comparisons agree with the
  committed logs (`ImpressionsMatchLogs`, `LabelsCounted`, `ComparesMatchLogs`);
  rates agree with counters (`RatesFresh`); what a client is told is in the
  database, from the cache or not (`AnswersBacked`, `CacheBacked`,
  `FeedbackCounted`); training data is never withdrawn (`LogsOnlyGrow`).
- *Pool and transactions*: a process opens one pool (`PoolOpenedOnce`); row locks
  are those of open transactions (`LocksHeldByTransactions`); statements that
  come row by row amount to updates that happen at once (`AtomicSpec`); nobody
  who asks for a connection waits for ever (`TransactionsEnd`); and the daily job
  cannot succeed on a pool of one (`PoolOfOneFails`).
- *Reranker*: the loaded model is the file's (`PairHonest`,
  `CurrentUnlessRaced`). That a torn file is never taken for a model is not shown
  but assumed: `Booster` is LightGBM's, and is taken to raise on one.
- *Request context*: the body of an error names its own request (it may not).
- *Embeddings*: one encoder embeds all queries of a process (`OneEmbedder`);
  what is compared is comparable while the model names agree
  (`ScoresOfOneSpace`); a batch stores all or nothing (`StoredTogether`); searches
  end however the load does (`SearchesEnd`), and the stored vectors come to
  describe the current rows (`EmbeddingsCatchUp`).
- *Catalogue sync, daily features*: a job that reports success has changed the
  index and the features as it says (`JobsAwaited`, `SuccessMeansFeatures`), the
  rates it copies are the rates that are stored (`RatesHeld`), and jobs that keep
  succeeding repair what failed ones have left (`IndexConverges`,
  `FeaturesConverge`).
- *KPI, evaluation, retraining*: snapshots never exceed the logs (`KpiBehind`),
  a decision is about reported metrics and adoption needs a choice that was moved
  up (`DecisionsReported`, `AdoptionNeedsAGain`); the model learns from groups
  that are searches and from labels that are users' choices (`GroupsMatchLogs`,
  `LabelsReachTraining`, `ModelLearned`).

The hazards behind these properties are listed, each at its line, in
`PROJECT.json`.

## Modules

| Module | What it is |
|---|---|
| `StatsTable` | the three statements on `property_stats` as operators on a row and on a table |
| `StatsUpdates` | abstract: every update of `property_stats` happens to all its rows at once, or not at all |
| `DatabaseAccess` | pools, connections and row locks under the API's threads and the daily job |
| `SearchServing` | the API: threads, Redis, the three tables; all steps of search and feedback |
| `SearchLedger` | abstract: what the API owes to the readers of its tables and to its clients |
| `RankingModel` | the model globals, read and written one at a time, against the trainer's save |
| `RequestContext` | the class-level dict between middleware and exception handlers |
| `Embeddings` | encoders of the API and of overlapping batches, stored vectors, and the scores searches get |
| `MeiliTasks` | the index and its task queue, and how `MeiliClient` submits tasks, polls them or gives up |
| `CatalogJobs` | the sync and the daily job, with `MeiliTasks` and `StatsTable`, against edits and serving |
| `RankMetrics` | pure operators: ranks, offline metrics, KPI counts and rates, the decision, training rows, groups |
| `WeeklyEvaluation` | KPI job and evaluation report over logs that keep changing |
| `Retraining` | the training file and the training, as one weekly job or two commands |
| `MC...` | constant definitions and symmetry for TLC (`CatalogJobs` and `RequestContext` need none) |
| `SearchLedger_proofs` | theorems of the abstract specification |
| `SearchServing_proofs` | the inductive invariant of `SearchServing`; cache, answers, rates, comparisons; that it implements `SearchLedger`, and what follows |
| `RankingModel_proofs` | the reload protocol for any number of threads and saves |
| `DatabaseAccess_proofs` | pool, locks, and that `DatabaseAccess` implements `StatsUpdates` |
| `Embeddings_proofs` | encoders, scores and stored vectors |
| `CatalogJobs_proofs` | the queue, the sync and the daily job |
| `WeeklyEvaluation_proofs` | metrics, KPI snapshots and decisions, for logs, lists and cut-offs of any size |
| `Retraining_proofs` | training rows, group sizes and the model, for logs and files of any size |

How they compose: `SearchServing` and `CatalogJobs` take a transaction on
`property_stats` as one step at its commit. `DatabaseAccess` is about the same
statements row by row, under locks that may be taken in opposite orders, and
shows that one step is what they amount to. All three use the operators of
`StatsTable`.

### SearchServing

One state record per thread (`handlers`): a program counter, the request, and
`execute()`'s locals. A step is one call that leaves the process:

| Action | Code |
|---|---|
| `StartSearch`, `StartFeedback` | the routes, up to the call of `execute()` |
| `CacheHit`, `CacheMiss` | `cache.get`; an adapter error is a miss |
| `SearchCandidates` | any duplicate-free list of at most `candidate_limit` properties |
| `Rerank` | any permutation of the candidates: scores come from a model and only decide the order |
| `InsertSearchLog` | `INSERT ... RETURNING id`: draws from the sequence, nothing visible yet |
| `CommitSearchLog` | the bulk UPSERT and the commit, with or without its acknowledgement |
| `CreateCompareLog` | the second transaction, with its computed columns |
| `CacheSet` | `setex` or its swallowed failure; builds the response |
| `ApplyFeedback` | the counters, the label, the commit; 404 is decided afterwards |
| `Fail` | any call raises: 502 for Meilisearch, 500 otherwise |
| `Reply`, `Expire`, `Crash` | the answer leaves; Redis forgets; the process dies |

Choices: a transaction takes effect at its commit, since no statement in it
reads what others write except through the UPSERTs' row locks, under which
they read the latest committed row. A rate is kept as the pair
`<<numerator, denominator>>` that determines the double; its CASE is kept.
Query text and filters are two fields of a condition, so that a key without the
text can be told from the real one. `me5_scores`, `updated_at` and formatting
are left out. `favorite` has the same code path as `inquiry`, so the runs use
`click` and `inquiry` (the module takes any set of actions that has `click`).
The 504 branch of the search route is left out: it catches the builtin
`TimeoutError`, and httpx timeouts are `HTTPError`s, answered 502. A failed
insert of a comparison leaves a gap in that table's sequence, which nothing
reads.

Operators whose comment says *a fault* (`NewResponseUnsliced`,
`LabelledCleared`, ...) belong to no behaviour: each is a plausible mistake in
the operator that follows it, put in its place to see that a property notices.

### RankingModel

`_load_model()` line by line: existence, mtime, the two tests, the load, the two
stores and the last read of the global are separate steps, and so are the two
stores of the branch that forgets the model. `BeginSave` truncates the file and
gives it a new mtime, `EndSave` completes it, perhaps in the same clock tick;
`KillTrainer` leaves it torn, and `Booster` is taken to raise on a torn file.
The file is never removed, as nothing in the repository does; the branches for
an unreadable directory and for a missing `lightgbm` are left out. `raced` is no
variable of the program: it records that two threads have been setting the
globals at once, the condition under which the code loses its guarantee.

### DatabaseAccess and StatsUpdates

`CheckPool`, `LockPool` and `BuildPool` are `_get_pool()`: the test outside the
lock, the test under it, and the construction. `Connect` borrows a connection
when fewer than `POSTGRES_POOL_MAX_SIZE` of the process's are lent, `TimeOut` is
the `PoolTimeout`. A statement is `TouchRow` row after row: a search in
the order of its ranking, the daily UPDATE in any order, a feedback its one row.
`TouchRow` waits while another transaction holds the row, and then works on the row
as it has been committed by then. `CommitRows` makes the rows visible, unlocks
them and gives the connection back; the daily job keeps its first connection,
asks for a second (`SelectInactive`), gives it back, calls Meilisearch
(`DeleteDocuments`) and logs the end (`FinishLog`). `Fail`, `TimeOut` and
`BreakDeadlock` unwind the blocks as the exceptions do; `Crash` ends a process.

What a statement creates is locked like a row that exists, as the unique index
does. Left out, because no other client waits for them: the daily job's other
two statements, the rows of `search_logs` (a feedback locks one, after its only
row of `property_stats`, and nothing later), and a pool that cannot be built.

`StatsUpdates` has clients that ask for an update and have it done, or not.

### Embeddings

A vector stands for what made it: its encoder, and for a property the version of
the row its text came from. `Search`, `LockEmbedder` and `LoadEmbedder` are
`get_embedder()`; `Embedder.__init__` swallows every exception and falls back to
a hash of another length while it keeps the model's name. `Rerank` is the one
SELECT and the comparisons, which give 0.0 (here `None`) for vectors of
different lengths. A batch is a process that reads (`FetchActive`), encodes with
an encoder of its own and stores all records in one transaction (`Upsert`).
`Edit` and `Rename` are external: nothing here edits properties or sets
`ME5_MODEL_NAME`, which a process reads when it starts. `overtaken` is no
variable of the program.

`StoredTogether` excepts the time after a commit of rows that were read before
another batch's commit. Without that exception it is false: with three changes
and two overlapping batches, the slow one puts older vectors back; the next run
that overlaps none repairs it, which `EmbeddingsCatchUp` says.

### RequestContext

`dispatch()` up to `call_next` (`Dispatch`), the route (`Route`), or a 422 whose
handler reads the dict inside the middleware (`Invalid`), and `dispatch()` after
it, which sets the header from its own local (`Respond`). An exception that
passes through the middleware (`Escape`) meets the global handler outside of it
(`HandleException`): the body has the id of the dict, and there is no header.
The ids passed to loggers go nowhere: `get_logger` returns a `LoggerAdapter` with
an empty `extra`, which replaces the one of the call. `user_id` is only logged,
so it is left out. `clear()` is never called by the program.

### SearchLedger

What a reader of the tables sees: searches with the set of properties they
showed, labels, clicks, two counters, the compared searches and the search each
client looks at. A search and its impressions are entered together; so are an
action and its label; a client is only shown a compared search. Retries, hits,
failures and crashes do not exist.

### MeiliTasks and CatalogJobs

A request enqueues a task; `Submit` is one that was answered, `SubmitLost` one
that arrived although its answer was lost (one that did not arrive is
`SyncEnd` or `DailyRaise`). `ProcessTask` is Meilisearch: it works its queue in
order, and any task may fail. A client that raises, at its 30 seconds or for any
other reason, leaves its task in the queue (`Unattended`). Creating an index that
exists fails; deleting from one that does not fails; settings and documents
create it.

`CatalogJobs` takes the sync request by request and the daily job statement by
statement. Its three statements run under READ COMMITTED, each with a snapshot of
its own; what the job has written is in `daily` until `CommitFeatures`, and rows of
`property_stats` that the first statement updated are `Locked` until then, so
`Serve` waits. `DailyRaise` is every exception and a kill: the transaction is
rolled back, or was committed and only its acknowledgement lost, and the job
log then says `failed` or stays `running`. `Edit` is external: no code here
changes `properties`. One sync and one daily job run at a time. `edited` and
`touched` are no variables of the program; they say which properties the
promises do not cover: those edited since, and those that a task enqueued behind
the job's own is about, which may change the index again before the job reads its
answer. An abandoned task in front is no exception: `JobsAwaited` holds because
the queue is worked off in order. `me5_score` and `processed_count` are left out,
`popularity_score` is determined by the rates.

### RankMetrics, WeeklyEvaluation and Retraining

Floats are millionths, rounded as the code rounds before it stores or compares
(the terms of a sum are rounded too, so an average may differ in its sixth
digit). The cut-offs 10 and 20, the limit of 5000 logs and the thresholds, which
the environment may set, are constants; the runs take the default thresholds.
`PHASE6_REQUIRE_RECALL_NON_DECREASE` is taken as its default, true. `ORDER BY id
DESC LIMIT n` is the set of the ids with fewer than `n` above them (`Newest`), and
the rows of a query are the concatenation of the rows of its logs.

`WeeklyEvaluation` has the KPI job (`KpiSelect`, `KpiUpsert`) and the report
(`Evaluate`, `InsertReport`, `LoadWeeklyKpi`, `SaveDecision`) step by step;
`run_offline_evaluation` is a report that ends early. Searches, comparisons and
feedback come from `SearchServing`, reduced to what the jobs read. A comparison is
committed after its log, so comparisons may come in another order than their
searches; `Joined` is the query's join of the comparisons, in the order of their
own ids, with the labels of the logs.

`Retraining` has the weekly job and the commands `training-generate` and
`training-fit`, one at a time. The training file is truncated, written in
pieces and closed; a kill leaves a part of it. A row that was cut off has no
label, which raises on reading. Feature columns are left out of the rows, since
only the presence of a row matters to groups and labels; LightGBM itself and
the metadata file, which nothing reads, are left out.

## Runs

| Run | Instance | Shows |
|---|---|---|
| `feedback_accounts` | two threads, one property and an unknown id, one condition with a single hit, two logs, two feedbacks | counters, rates, labels and logs agree, also for rows that a feedback creates; feedback answered is counted; logs only grow; `SearchServing` implements `SearchLedger` |
| `rankings_and_cache` | two threads, two conditions, all candidate lists and rerankings of two properties, two logs, no feedback | handlers agree with the tables; comparisons, cache and answers are backed |
| `model_reload` | two threads, two trainings | the reload protocol is right as long as two threads do not set the globals at once |
| `catalog_jobs` | one property with two contents, an edit, a queue of two, one impression; fair jobs and queue | jobs that report success have done what they report, in spite of lost requests, failed and abandoned tasks, and kills; repeated success brings index and features to the current rows |
| `database_access` | two threads and the daily job, two properties, pools of one or two | one pool, no lock left behind, atomic updates, everybody's end |
| `embeddings` | two threads, two batches, two properties, two models of one length, two changes | one encoder a process; comparable scores; all or nothing stored |
| `embeddings_converge` | two threads, two batches, one property, two models, one change; fair threads and batches | searches end, also one that waits for the lock while the other loads; stored vectors catch up |
| `weekly_evaluation` | two properties, two logs over two days, clicks and inquiries, a week of one row, one report, cut-offs 1 and 2 | KPI snapshots, also while logs move from one column to another; decisions and adoption |
| `retraining` | two properties, two logs | groups, labels and the trained model, also from a torn file |
| `doc_result_ids` | expected violation | `result_ids` holds more than what was returned |
| `doc_model_reload` | expected violation | a stale model may be taken for current |
| `doc_request_context` | expected violation | an error's body names another request |

**Bounds.** Two threads are enough for each race here: every conflict is between
two steps on one row, key, sequence or global, and a third thread repeats one of
the two. Two logs let a search be logged, cached and labelled while another one
is; with two properties a permutation can differ from its list, and `limit` 1 of
`candidate_limit` 2 cuts. `MaxLogs` bounds the ids; `MaxFeedback` bounds the
counters (a feedback starts while fewer have been counted, so two threads may
both start one and exceed it). In `feedback_accounts` a search finds the one
property or nothing, and its row can be created by either statement;
`rankings_and_cache` has no feedback (`MaxFeedback` 0: with one, its states are
too many), and checks nothing about counters or labels; of logs with several
properties, `ImpressionsMatchLogs` is a theorem only. The jobs of the catalogue
treat properties one by one: one property is enough for each way of being
listed, edited, delisted or missed, with an edit between any two steps; a queue
of two holds an abandoned task before a live one. In `database_access` two rows
in two orders make circles of waiting transactions, `MaxUpdates` 1 lets every
thread begin one update while none is committed (and so all three clients meet),
and a search finds nothing or both rows in either order. In `embeddings` the
models have vectors of one length, the case in which only names tell them apart;
the hash's length differs; two changes are two edits, two renames or one of
each. `embeddings_converge` has one property, since vectors catch up one by one
(that a batch stores them together is a question of `embeddings`), and starts
with one of the two names (`FairFromLarge`), which are alike. Two logs give two
groups (a first and a last), an average of two queries, and a day that is not
the KPI's; a week of one row lets the oldest row drop out; a cut-off of 1 drops
the second rank. `HitSets` has every search find both properties. An inquiry
takes its log out of the column of the clicks; as neither metrics nor decision
read the kind of a label, `KindsOrReports` keeps inquiries, and KPI rows that
count them, to the states without a report. That more `LogLimit` logs exist
occurs in the theorems only. `MaxSaves` 2 lets a model be replaced once and a
save be interrupted before or after. No state constraint is used but
`KindsOrReports`, a conjunct of the steps in `BoundedSpec`. All runs check for
deadlock except that `doc_*` stop at their violation: an API that can always
take another request never stops. The proofs do not depend on any of these
bounds.

**Fairness.** Nothing is asked of clients, of failures or of crashes.
`DatabaseAccess` asks weak fairness of `Go(c)`: threads run, the pool's wait has
a timeout, `_POOL_LOCK` is held only while a pool is built, and PostgreSQL
breaks deadlocks. It asks strong fairness of `TouchRow(c)`: waiting for a row
has no timeout, but PostgreSQL queues those who wait, so others do not take the
row for ever. `Embeddings` asks weak fairness of the steps of a search that has
begun (no call in it waits without end; the encoder's lock is held only while one
thread loads, and whoever gets it afterwards only finds the encoder) and of `StartBatch`, since docs/03:420
has the batch run daily; and strong fairness of `FetchActive` and `Upsert`: a
batch that is tried again and again succeeds at some time. Changes are finite
(`MaxChanges`), so the stored vectors can catch up. `CatalogJobs` asks weak
fairness of the steps of a job that has begun (requests and polls have timeouts,
so it goes on or ends) and of Meilisearch's queue. Nothing makes jobs succeed:
the two convergence properties assume that they do again and again, and only
then promise anything.

## What the violations say

- `ResultIdsReturned`: docs/03 calls `result_ids` the returned ids; the code
  logs, and counts impressions for, all candidates (100 by default, of which 20
  are returned). CTRs are therefore relative to candidates, not to what was shown.
- `NeverStale`: thread A loads the old model, the trainer saves, thread B loads
  the new one; A stores its model after B's and B its mtime after A's. The
  globals then hold the old model under the new mtime, and no later call
  reloads until the next training.
- `ContextIsOwn`: the context is called thread-local and is one dict; a request
  dispatched meanwhile replaces the id, and the body of an error then names that
  other request (a 422 has two different ids in its body and its header).

Disagreements that no run is about: docs/03:311 draws `ranking_compare_logs` 1:1
below `search_logs`, but the two are written by two transactions, so a failure
between them leaves a log without a comparison, whose impressions stay
counted (`ComparesMatchLogs` allows it); docs/03:254 has `model_name` stored with a
vector, and no reader compares it, so after a change of `ME5_MODEL_NAME` to a
model of the same length old and new vectors are compared until the next batch
(`ScoresOfOneSpace` excepts it); docs/03:290 has the `cvr` of a day as inquiries per
impression, while `kpi_service.py:14` (and its unit test) divides the inquiries by
the clicks and has 0 without clicks. The model follows the code: `TypeOK` of
`WeeklyEvaluation` says of a stored row that its rates are `KpiRates` of its
counts. As a log keeps its latest action only, an inquiry that follows a click
takes that click out of the denominator, and a day of one such search has a cvr
of 0; inquiries per impression are stored as `inquiry_rate`.

## What is proved

All theorems hold for every value of the constants that the named assumptions
admit: `ServingConstants`, `RankingModelConstants`, `DatabaseConstants`,
`EmbeddingConstants`, `CatalogConstants`, `MetricConstants`,
`EvaluationConstants`, `RetrainingConstants` (types, distinct names; that
properties are finitely many where a row count matters; that the cut-off of the
NDCG is at most the ten places its table of discounts has). Every invariant that
a passing run checks, and every action property, is also a theorem. Where a
cardinality is counted in `SearchServing`, the sets counted are assumed finite,
which follows from the bound on ids.

1. `SearchServing_proofs`: `Inv == TypeOK /\ HandlersMatchTables /\
   ComparesMatchLogs` is inductive. None of the three is so alone:
   `ComparesMatchLogs` needs to know that a thread about to insert a
   comparison names a committed log nobody has compared, `HandlersMatchTables`
   says so, and to keep it one needs that drawn ids are distinct, lie within the
   sequence and are not in the table. One lemma per action.
2. The same module, on top of `Inv`, by one step lemma each:
   `CacheBacked`, `AnswersBacked`, `ChangesPlausible` (a permutation cannot
   differ from its list in one place), `RatesFresh`, `LogsOnlyGrow`, and
   `FeedbackCounted` by a stronger statement on the number of outstanding answers.
3. The same module: under the mapping `Shown`, `Labels`, `Clicks`,
   `Impressions`, `Acted`, `Compared`, `Served` each step of `SearchServing` is
   a step of `SearchLedger` or leaves its variables unchanged.
4. `SearchLedger_proofs`: the ledger's accounts, for every ledger. Through 3
   they give `ImpressionsMatchLogs` and `LabelsCounted` of the tables.
5. `RankingModel_proofs`: the invariant ties each pending call (the mtime it has
   read, the model it has loaded) to the file and the globals. Its mtime never
   falls, a file under way is torn, and a torn file is not loaded: so a model
   loaded after an mtime was read is the file's if the file still has that mtime
   (`Tells`). While no two calls have set the globals at once (`~raced`), the
   same holds of the pair of globals.
6. `DatabaseAccess_proofs`: for any number of threads, rankings and pool sizes.
   `IInv` says who may be in which phase with how many connections, that the
   lock's holder is the one that builds, and that locks are exactly the written
   rows of open transactions. From the last it follows that a written row is the
   effect of its update on the row that is still committed, because nobody else
   can have committed it meanwhile: this is what the refinement to `StatsUpdates`
   needs at `CommitRows`. `RatesFresh` follows from the refinement.
7. `Embeddings_proofs`: one invariant of the serving half (every vector in a
   thread is the global's, the lock is its loader's) and one of the storing half
   (a batch's rows against the versions of the properties, unless stale).
8. `CatalogJobs_proofs`: `IInv` joins `TypeOK` with what the queue holds (at most
   one live task of a client, which is what the client asked for), with what a
   succeeded task means for the index (but for what tasks behind it are about), with
   what the daily job's features cover at each phase, and with the rows it has
   locked.
   `JobsAwaited`, `RatesHeld` and `SuccessMeansFeatures` are its consequences.
   None of them is inductive alone: that a task is over says nothing unless it is
   known whose it was and what it held. Abandoned tasks in front of a live one need
   no exception: when the live one is processed they are over, and whatever was
   enqueued behind it is in `touched`.
9. `WeeklyEvaluation_proofs`, in three layers.
   *Operators*: sums over finite sets (defined, independent of the order, monotone,
   bounded by term); quotients that round; the first place of a chosen property.
   They give that every metric is in 0 .. 1 and falls with the rank
   (`NdcgOrder`, `AvgPrecisionOrder`, `RecallOrder`), that averages keep both
   (`AverageTyped`, `AverageOrder`), and so do a whole report's metrics
   (`OfflineTyped`, `OfflineOrder`).
   *Invariant*: `IInv` adds to `KpiBehind` and `DecisionsReported` that the labels of
   a log are whole, that a pending KPI row is for a day that has begun, and where the
   metrics of a report under way come from. `KpiBehind` is kept because what a
   snapshot counts is counted in sets of rows that later searches and feedback
   only enlarge (`ContinuesShows`); the clicks, favorites and inquiries of a day are
   disjoint parts of its labelled rows (`SumOfActions`). `DecisionsReported` is kept
   because the join only gains comparisons and labels (`JoinedContinues`).
   *Adoption*: had no chosen property moved up, every metric of the reranking would
   be at most Meilisearch's, and the gain could not reach a positive threshold.
   `GainNeededAlways` has the hypothesis that one of the two thresholds is
   positive, as their defaults 0.02 and 0.01 are: the environment may set
   both to 0 or less, and then equal metrics are adopted, as the code says.
10. `Retraining_proofs`. `Fine(rows, logs)` says what makes rows fit for training:
   each is of a result of its log, positive only for a log with a label, at most
   once a search, in the order of the logs, and of no more searches than the
   limit. The rows of the query are fine (`TrainingRowsFine`); fine rows stay so when
   logs are added or labelled anew (`FineStill`: nothing is taken back), and when a
   kill cuts the file (`FineStart`). `IInv` is that the job and the file hold fine
   rows, and groups that were counted from them.
   For the groups, `Rounds` is the loop of `load_training_data` as a recursive
   function and `Grouped` its loop invariant: the groups closed so far end exactly
   where the search has changed. `Groups` is what the loop returns; `SameGroup`
   turns the ends into membership, which is what `GroupsMatchLogs` speaks of.
   Since rows are in order, a search cannot come back after its group was closed:
   without that conjunct of `Fine`, `GroupsMatchLogs` is false.

Induction. The induction theorems of the library take an operator as a parameter,
which no installed prover instantiates. `LeastNat` (a set of naturals has a least
element, from well-foundedness) and `NatSetInduction` (over a *set* closed under
successor) need none, and what 9 and 10 say of sums, concatenations and the
loop is proved with them, by first showing that the recursion has a solution
(`SumDefined`, `RoundsDefined`). Both modules have these lemmas.

Only model-checked: liveness (`TransactionsEnd`, `SearchesEnd`,
`EmbeddingsCatchUp`, `IndexConverges`, `FeaturesConverge`: out of the prover's
reach). `RequestContext` has no theorem, as its one property is refuted.

## What is not modelled

- Data whose values no property can tell apart: scores and vectors
  (floating-point numbers; the order they decide is any order), the filter
  expression, the wording of responses and logs.
- Migrations (run once) and the scripts, which call the API, check the source
  tree or rename files; `src/clients/redis_client.py`, which nothing uses;
  `dependencies.py`, which builds adapters and keeps no state; the report files,
  which are output only.
- Collisions of cache keys (values are formatted without escaping) are a hazard
  without a property: `SearchServing` keys entries by the condition itself.
- Impressions are not counted for cached responses while clicks on them are, so a
  rate may exceed 1; this is what the code says, and `RatesFresh` holds of it.
- The weekly summary takes the latest seven rows, which need not be seven days;
  and a decision that permits a retraining may be about an older model than the
  one it replaces. No document promises otherwise.

## Plan

In order of importance; 1 to 10 are done.

1. `SearchServing` with `StatsTable`, `SearchLedger`, and their theorems.
2. `RankingModel`, against the trainer as the second process.
3. `RequestContext`.
4. `MeiliTasks` and `CatalogJobs`.
5. `RankMetrics` and `WeeklyEvaluation`.
6. `Retraining`.
7. `DatabaseAccess` and `StatsUpdates`, and their theorems.
8. `Embeddings` and its theorems.
9. Theorems of `RankingModel` and `CatalogJobs`.
10. Theorems of `WeeklyEvaluation` and `Retraining`, with the lemmas on sums,
    ranks, metrics, training rows and groups.
11. An abstract daily job (one atomic refresh) that `CatalogJobs` implements, and
    a model of the cache key as the code formats it.
