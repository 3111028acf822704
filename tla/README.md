# AI engineering journey: a verification project

TLA+ models, TLC runs and TLAPS proofs for the programs of this repository:

* the *document intelligence service* (`projects/document_intelligence_service`,
  called `dis/` below), a FastAPI service with a separate ingestion worker that
  turns PDFs into searchable chunks in Qdrant, answers questions from them and
  evaluates itself. It is the one program here that keeps state and runs
  concurrently, and most of this project is about it;
* the *retrieval exercises* it grew out of (`labs/rag`);
* the *Titanic competition* (`competitions/titanic`): scripts that validate
  models and leave submissions behind, and a suite that sends them to Kaggle.

Paths are relative to `src/`.

## 1. Inventory

| Component | State it keeps | Operations | What is hard |
|---|---|---|---|
| Job registry, `dis/app/infrastructure/storage/sqlite_registry.py` | `ingestions` rows: job columns and `document_status`; `idempotency_keys`; `stage_events`; staged PDF bytes | accept, claim_job, list_recoverable_jobs, update_job, record_stage_event, set_document_status, list/get/delete document | claims and leases, whole-row updates from a caller's copy, busy check against running jobs, a listing cut off before leases are looked at, offset pages |
| In-memory registry, `.../in_memory_registry.py` | the same in dictionaries under one asyncio lock | the same port | must promise the same as SQLite; lost on restart |
| Ingestion worker, `dis/app/application/ingestion_worker.py` | locals of `run_job`: `current`, `active_stage`, `staged`, `published` | run_job: claim, seven stages, success, two failure handlers, `_fail` | each step is a transaction or a request of its own; crash, failure or another actor between any two |
| Worker process, `dis/app/worker_entrypoint.py`, `main.py` | none | poll, run one job, repeat | lease given to the listing differs from the one the claim uses |
| Chunk store, `dis/app/infrastructure/qdrant/chunk_store.py` | the points of each version, with an `active` flag | stage, verify, activate (two requests), discard, delete | no transaction across requests, lost replies, filters that must hit one version only |
| Document service and routes, `dis/app/application/document_service.py`, `dis/app/api/v1/documents.py` | none | upload (with background task), list, get, delete | delete is three steps over two stores |
| Ingestion service, `dis/app/application/ingestion_service.py` | none | validate, inspect, fingerprint, accept | idempotent acceptance under concurrent uploads, restarts with another pipeline |
| Sparse encoder, `dis/app/infrastructure/embeddings/sparse.py` | term numbers in memory and in one JSON file | fit, save, load, encode documents, encode query | two processes (or threads) on one file, numbers that outlive both in the index |
| Dense encoder | a loaded model | embed | none over time: a library call that may fail |
| Chunking, `dis/app/domain/chunks.py` | none | sections from markers, windows with overlap, pages | offsets and boundaries |
| Retrieval, `dis/app/application/retrieval_service.py`, `.../qdrant/retriever.py` | none | dense and sparse search, access filter, rank fusion, reranking | two searches of one query see two states of the index; limits and ties |
| Query service and gates, `dis/app/application/query_service.py`, `dis/app/domain/*safety.py`, `answerability.py` | trace sink, counters | prompt check, retrieval, evidence check, answerability gate, generation, validation | nine exits, one of them without a record; which of four scores decides |
| Evaluation service, `dis/app/application/evaluation_service.py` | runs in memory, artifacts on disk | create, execute, list | a background task per run; artifact and run are written apart |
| Offline evaluation, `dis/eval` | manifests and reports | benchmarks, metrics, calibration | scores on the boundary; outages among the observations |
| Health, metrics, tracing, contracts, errors | counters | observe, map | none over time |
| Demo page | none | calls the HTTP API | none |
| Retrieval exercises, `labs/rag` | points in Qdrant | split, store, search, gate, rerank, answer, tune thresholds | points of an earlier edition stay; three comparisons with one threshold |
| Other exercises and toolbox, `labs`, `ai_toolbox` | none | scripts on sample data | none |
| Titanic studies, `competitions/titanic/src` | processed data, results, reports and submissions as files | features, folds, ranking, ensembles, files | what a fold is fitted on; which members are trained; files of different runs |
| Titanic guard and suite, `risky_flip_guard.py`, `auto_experiment_suite.py` | three tables, a report, files sent to Kaggle | train, compare, qualify, file, send | a loop that a failed command or a kill ends anywhere |
| Titanic analyses and log; internship reports, data | documents | none | none |

How the service's parts interact: an upload (API process) inserts a row and
returns 202. A worker process polls the rows (or, with the embedded worker, a
background task of the API process is given the job id) and runs the job: it
claims the row, then per stage does the work, reads the row back and writes it
whole. The stages write points to Qdrant as inactive, verify them, flag the new
version active and the document's others inactive; then the row's
`document_status` and the job's success are written. A delete removes the
points and then marks the rows. A query sends one or two searches to the same
collection, filtered by `active`. Nothing but SQLite's own transactions makes
two steps atomic. An evaluation run is a background task that asks the
retrieval service case by case and writes an artifact and then its own status.
The competition's scripts share only files; the suite reads the submission the
model comparison left.

What makes the components correct:

* registry and worker: one run at a time works on a job that has attempts left; a
  job starts at most `max_attempts` times; success means stored points, and with
  one poller it is final and shows no error; every job settles. Whole-row
  writes from a caller's copy lose what another run wrote, and nothing in the code
  forbids it: with one poller there is no other run;
* acceptance: one job per upload identity and one identity per key, from
  either registry, whatever is sent twice or at once;
* listings: earlier jobs start first, nothing but live leases hides work, every
  job starts; a walk over the pages misses nothing;
* publication: a document that was searchable stays so, a failed job neither
  hides the old version nor shows its own;
* deletion: no rows are marked under a running job;
* sparse encoder: one number per term, the same for ever, known to queries;
* chunking: no text behind the first marker is lost, windows overlap as
  configured, page ranges are those of the text;
* queries: only what was searchable is shown, answers rest on a score that
  reached the minimum, and every query leaves one record, or none when its tenant
  or tags are refused;
* evaluation: reports say what the artifacts show, the threshold chosen is the
  best on the validation cases, every run ends;
* competition: no prediction is fitted on the label it is compared with (the choice
  of a vote's members is another matter), a submission is backed by the results
  that rank it, a file is sent when the tables list it as qualified;
* exercises: what was stored is found, context is earned, and the experiments
  that choose thresholds agree with the gate they choose them for.

## 2. Modules

| Module | Models | Role |
|---|---|---|
| `JobRegistry` | the `ingestions` table and each of its transactions | state and transactions; extended by `IngestionPipeline`, `IngestionAccept` and `RegistryListings` |
| `ChunkStore` | the collection and each request's effect | used by `IngestionPipeline` and `QueryService` |
| `IngestionPipeline` | worker runs, uploads, polling, deletes, crashes, lost replies, clock | the composition and its specification |
| `JobLifecycle` | what the registry promises of one job | abstract specification that `IngestionPipeline` implements |
| `IngestionProperties` | properties of the composition | what the runs check |
| `IngestionAccept` | `POST /documents` up to the receipt, both registries, keys, restarts | specification and properties |
| `IdempotentAcceptance` | what accepting promises | abstract specification that `IngestionAccept` implements |
| `RegistryListings` | the worker's listing and the client's pages over a changing table | specification and properties |
| `SparseVocabulary` | the BM25 vocabulary in worker, API, file and index | specification and properties |
| `Chunking` | `build_chunks` as a machine that cuts a window at a time | specification and properties |
| `Retrieval` | limits, fusion, reranking, the gate's decision | operators, extended by `QueryService` |
| `QueryService` | `QueryService.execute` beside a writer of the store | specification and properties |
| `EvaluationRuns` | evaluation runs, artifacts, metrics, calibration | specification and properties |
| `TitanicStudies` | fifteen scripts of the competition | state, steps and properties |
| `TitanicCampaign` | guard and suite, beside the studies | steps and properties |
| `RagLab` | `labs/rag` | steps and properties |
| `MC...` | values of constants; `MCExperiments` also composes the last three | TLC |
| `IngestionProofs`, `SparseProofs`, `AcceptProofs`, `ListingProofs`, `ChunkingProofs`, `QueryProofs`, `EvaluationProofs` | theorems about the module the name says | TLAPS |
| `ExperimentProofs` | theorems about `TitanicStudies`, `TitanicCampaign` and `RagLab` | TLAPS |

Operators whose comment starts with "Mutant" are plausible bugs of the
definition they stand before. No specification uses them; substituting one for
its definition must break a property, which shows that the property depends on
the code.

### JobRegistry

One row per accepted (tenant, content, pipeline) identity, named by its version
id. `jobs[v]` holds the columns that `update_job` writes as a block: status,
attempt_count, last_attempt_at, next_attempt_at, and of a failure whether
error_code and error_message are set (`error`) and whether failed_stage is
(`failedStage`). The two have different lives: a claim clears the first and not
the second, which every later write carries along and the job view shows
(`api/v1/jobs.py:55`). `docs[v]` is `document_status`, which `set_document_status` and
`delete_document` write. Each operator that primes a variable is one SQLite
transaction (`BEGIN IMMEDIATE`, or a single statement). `claim_job`'s early
returns are the predicates `ClaimFinished`, `ClaimExhausted`, `ClaimRefused` in
the code's order: a succeeded job and an *exhausted* job are both returned
as they are, which matters later.

Time is relative. The code compares `last_attempt_at` with now minus a lease
and `next_attempt_at` with now, and does nothing else with them, so a row keeps
an age, counted up to the longer of the two leases, and a remaining wait.
`Tick` moves both, in the rows and in the copies runs hold.

### ChunkStore

A version's points are written by deterministic ids and then flagged or deleted
by one filtered request each, so they share a state: absent, inactive, active.
`activate_version` is two requests and two operators. A partial upsert reads as
absent or inactive points that `Verified` rejects or that the next staging
overwrites; verification's count comparison is the one place that looks.

### IngestionPipeline

`workers[w]` is one run of `run_job`: its phase (which step is next), stage,
job, the copy of the row it holds while that copy is still to be written
(`snap`), whether a failure has to discard points (`staged`, the code's
`staged and not published`), and whether the error at hand is retried.

| Action | Code |
|---|---|
| `Upload`, `UploadAndRun` | `POST /documents`, with the background task in the embedded deployment; an upload of known content only hands over its job again |
| `Poll` | `run_worker`: `list_recoverable_jobs(limit=1)` and `run_job` |
| `ClaimNothing`, `ClaimSpent`, `Claim` | `claim_job` and the early return after it |
| `MarkIndexing`, `SaveStart` | `set_document_status`, first `update_job` |
| `LocalWork` | validate, extract_and_chunk, embed_dense, embed_sparse |
| `StageVersion`, `VerifyVersion`, `ShowVersion`, `HideOthers`, `Publish` | the Qdrant stages, the two requests of activation, `document_status = active` |
| `Refresh`, `SaveProgress`, `Succeed` | `_finish_stage` reads the row, `_set_progress` and the last write put it back |
| `RecordError`, `Reread`, `DiscardVersion`, `MarkFailed`, `SaveFailed`, `Schedule` | both exception handlers and `_fail` with its two row writes |
| `DeleteRequest`, `DeleteVectors`, `DeleteRegistry` | `DocumentService.delete_document` |
| `WorkerCrash`, `ApiCrash`, `Tick` | environment |

`Request` gives a store request three outcomes: done and reported, failed
without effect ("clean"), done with the reply lost ("lost").

### SparseVocabulary

`fitted` and `queried` are the `_vocabulary` dictionaries of the worker's and
the query's encoder, `file` the JSON state file (missing, whole or torn),
`indexed` the numbers inside the points of each batch. `fit_documents` is
stepwise, since it runs in a thread: `Look` (test and `len()`), `Assign`,
`Dump`, `Open` (truncates), `Write`, `Encode`. `Start` loads the file and cannot
happen with a torn one, because `__init__` raises. Worker and API stop and start
separately; an embedded worker, which does so with the API, has only some of
these behaviours, so the safety properties cover it as well.

### IngestionAccept

A version stands for (tenant, bytes, pipeline fingerprint), the three things
the code's identifiers are hashes of; the assumption that different triples
give different identifiers is named (`AcceptAssumption`). A request is
`Submit`, then `Refused` or `Prepare` (the thread that inspects the PDF), then
one of `accept`'s cases, each a transaction, or a critical section of the
in-memory registry's lock: `RefuseKey`, `AnswerByKey`, `Join`, `Create`, in
the code's order of tests. `RawKeys` go through `_normalize_key` (`KeyOf`):
stripped, blank means none, too long is an error. The in-memory registry keeps
a key in two dictionaries (`owner`, `stored`). A lost reply is an upload that
is sent again. `Restart` ends the requests in progress, may change the
fingerprint, and empties the in-memory registry. `receipts` is a history
variable.

### RegistryListings

`Selected` is the WHERE, `Earlier` the ORDER BY, `InWindow` the LIMIT (twice the
limit asked for, so two rows), `Offered` the filter by retry time and lease that
Python applies afterwards. Only the order of time stamps is kept (`created`,
`due`). A run is its claim and its outcome here, `IngestionPipeline` has the
steps between. `Page`, `BeginWalk` and `NextPage` are `list_documents` and a
client that follows its cursor to the end while documents are uploaded and
deleted.

### Chunking

A text is what the arithmetic sees of it: lengths of the pages, offsets of the
markers, blanks behind which a sentence ends. `Sectionize` and `Reject` are
`sectionize_pages` with its errors; `Cut` is one turn of the loop of
`chunk_parent_section`, `EndParent` a section that has no sentence left.
`PageBegin` is the running sum of `_page_boundaries`. `TextAssumption` is what the
extraction provides: page texts are stripped, and a marker begins with a letter
or a digit.

### Retrieval and QueryService

`SearchDense` and `SearchSparse` are the two requests of a hybrid query; each
sees the collection as it is then, and between them `Stage`, `Publish`,
`HideOthers`, `Discard` and `Delete` may happen. A score is what the policy asks
of it (below its minimum, or at least at it); fused scores are exact fractions,
because their order is what fusion is about, and are compared with `MinDense`
where a candidate has no score of its own for the policy. `Combine` is the
synchronous rest of `search`, with or without reranker, and the evidence policy.
`AskBlocked`, `RetrievalFails`, `Gate` (four refusals), `Generate` and
`GenerationFails` are exits of `execute` with a trace event or an error count;
`RetrievalRejected` is the one without: tenant or ACL tags that pass the contract
and that `search` refuses.

### EvaluationRuns

`Create` is the route with its background task; `Start`, `Execute`,
`OpenArtifact`, `WriteArtifact`, `Complete` are `execute_run`, `GiveUp` its
handler. `Execute` stands for the whole loop over the cases: each search
returns what it likes or fails, and nothing else reads the observations before
the loop ends. A score may lie below zero, as a cosine may (`BelowZero`), and
`Calibrate` refuses to run when any score does, also one of a case it does not
look at. `Confusion`, `Recalled`, `Candidates`, `Better`, `Threshold` are
`evaluate_no_answer`, `recall_at_k` and `calibrate_threshold` on integers.

### TitanicStudies and TitanicCampaign

A value is what it was computed from: a set of cells, attributes or label of a
passenger. So leakage is a statement about sets, whatever the models compute.
`Scripts` says of every script which features it builds, which files it reads,
how it validates and ranks, and what it writes in which order; `Start`, `Load`,
`Validate`, `SaveProcessed`, `SaveResults`, `SaveReport`,
`TrainBestAndSaveSubmission`, `Finish` and `Die` are the steps they share.
`FitGroupAgeStats` and `LookupGroupAge` are the age imputation that is fitted
per fold; `TopModels` and `FinalMembers` how the zoo's ensemble is evaluated and
found again. A prediction records what it was fitted on (`from`) and, if it is a
vote's, what its members were chosen by (`chosen`): `ValidatedVotes` says that
these are the scores on the very folds the vote is validated on.
`TitanicCampaign` is the suite's loop, `RunKaggleSubmit` with the outcomes of the
command, and the guard's counts and decision. Each of the three tables takes two
steps, because `to_csv` empties the file before it fills it (`OpenTable`, torn;
`FileTable`, whole).

### RagLab

`ChunkSentences`, `UpsertChunks`, `Search`, `Rerank`, `DecideAnswerability` are
the operators of the exercises; `GuardEntry`, `PipelineEntry` and
`EvaluationEntry` the scripts that ask questions, which differ in store, gate and
context. `RunExperiment` and `RunHybridWeightExperiment` take any observations
and compare what the experiments conclude from them with what retrieval does.

## 3. Runs

Passing runs (states are distinct states found):

| Run | Instance | Shows | States |
|---|---|---|---|
| `Poller` | one worker container with the shorter lease, an API that deletes, two versions of one document, one without text, clean and lost failures, 2 crashes, 3 attempts, fairness | `TypeOK`; `RunOwnsRow`: a working run's row says running, the premise of the busy check; `SuccessShowsPastFailures`: a succeeded row has no error and no retry time, and the stage it failed in only after an earlier attempt; `LifeCycle`: refinement of `JobLifecycle`; `DeletedWhileIdle`; `SpentStaysDeleted`; `JobsSettle`: every accepted job ends, or is abandoned in its last attempt, and stays so | 690,658 |
| `Embedded` | three background tasks of one file that is uploaded again and again (interchangeable, so with symmetry), runs within their lease, no failures, 2 API crashes, 3 attempts | `OneRunPerJob`: the claim is the only mutual exclusion, and it suffices for jobs with attempts left | 2,082,996, up to the names of tasks |
| `Reupload` | one background task, uploads that repeat, failures without effect, no crash | `SuccessIsStored`, `SuccessStaysVisible`: with spent jobs being run once more, publication keeps its promise when no reply is lost. Uploads here start whatever a poller would, and more | 47,923 |
| `Vocabulary` | worker and API container, one run at a time, crashes and failed saves anywhere | `TypeOK`, `VocabularyExact`, `IdsAreStable`, `QueryMeansIndexed` | 2,802 |
| `Acceptance` | two requests at once, three versions of two documents, one key, three headers, both registries, one restart | `OneJobPerUpload`, `KeyNamesOneUpload`, `ReceiptsResolve`, `AcceptancePromise`: refinement of `IdempotentAcceptance` | 639,455 |
| `Listings` | two containers, three jobs, two attempts, crashes at work | `StartsInOrder`, `OnlyLeasesHideWork`, `EveryJobStarts` | 500,386 |
| `Pages` | two clients, one worker, pages of one document, uploads and deletes between pages | `WalkIsComplete` | 109,687 |
| `Chunking` | every document of up to three pages (some empty) of two words, up to two markers anywhere or nowhere, every choice of sentence ends | `OverlapExact`, `SentencesCovered`, `TextIndexed`, `PagesExact` | 17,866 |
| `Query` | three versions of two documents with a chunk each, one of them unsafe, three modes, two scopes, failures, refused tenants | `SourcesWereSearchable`, `AnswersAreRelevant`, `UnrecordedOnlyIfInvalid`, `FusionKeepsOrder` | 1,103,932 |
| `Evaluation` | a gate run over all cases and a retrieval run over one split, six datasets of four cases, outages of single searches, scores below zero, failed writes, restarts without bound | `ReportsAreHonest`, `ThresholdIsBest`, `RunsEnd` | 974,136 |
| `Experiments` | any two script runs; two suite runs of two experiments, killed at any step, beside the model comparison; or the exercises with two editions of a PDF of two sections | `FoldHygiene`, `SubmissionIsBacked`, `SentIsQualified`, `LabAnswers` | 3,880,341 |

The type invariants of `IngestionAccept`, `RegistryListings`, `QueryService` and
`EvaluationRuns` are stated in their modules as the documentation of their
variables. They hold in these instances too but are not among the properties
checked there: the runs spend their time on what could be wrong. Those of
`IngestionAccept`, `QueryService` and `EvaluationRuns` are proved for all instances.

One run ends in a counterexample and refutes a statement of the repository:
`LostReply` violates `SuccessStaysVisible`. Activation took effect, its reply was
lost, the handler discards the only active version; `chunk_store.py:152` says "a
failed activation can never create a zero-active-version gap".

What else was met while modelling, where code and documentation disagree or a
reader may expect more than the code does:

* Ingestion.
  * A delete removes the vectors of a document whose job runs and then answers
    409; "after busy checks" says `document_service.py:70`.
  * A crash in the last attempt leaves the job running for ever and its document
    busy; `ingestion_worker.py:67` says "persist a terminal success/failure
    snapshot". `JobsSettle` names the state (`Abandoned`).
  * ADR-003 says that a failed job does not change the old active version. With a
    crash (`Reupload`, `MaxCrashes = 1`) `SuccessStaysVisible` fails: the crash
    comes after activation has hidden the old version, and the failing retries
    discard the new one. The same crash, with retries that fail before staging,
    leaves the points of a failed version active (`ingestion_worker.py:317`:
    nothing was staged by that attempt, so nothing is discarded).
  * `claim_job` hands back an exhausted job before it looks at the lease
    (`sqlite_registry.py:485`), so a repeated upload starts a second run beside
    the one of the last attempt. Two crashes lead to that attempt in `Embedded`,
    and both runs are in the model there; `OneRunPerJob` is about jobs with
    attempts left because without that clause the run refutes it.
  * Background tasks race where attempts fail, and this no property of a passing
    run describes. Between the two writes of `_fail` (`ingestion_worker.py:510`
    and the one after it) the row says failed and does not wait, so another task
    claims it, and the second write puts back what the first run had read:
    `OneRunPerJob` and `SuccessIsStored` fail in `Embedded` with
    `FailureModes = {"clean"}`. A run that outlasts its lease, which nothing renews
    or checks, meets a second one in the same way and may write its copy over
    that one's success (`LeaseHolds = FALSE`).
  * `failed_stage` is never cleared: a job that failed once and then succeeded
    goes on naming the stage of the failed attempt beside status succeeded
    (`sqlite_registry.py:495-503`, `api/v1/jobs.py:55`).
  * Uploading a deleted document again returns the receipt of the succeeded job:
    it is never ingested again.
  * The read model names the youngest ACTIVE row as the active version and no
    code demotes the row of the version activation has hidden.
* Vocabulary.
  * Two background tasks number two terms alike (`VocabularyExact` with two
    `Tasks`); "exact fitted vocabulary", `sparse.py:60`.
  * A crash during `write_text` leaves a file that no process can load; "keeps
    feature IDs stable across worker restarts", `sparse.py:63`.
  * The query encoder loads the state file once. The `README.md:108` of the
    service asks that query vocabulary and ingestion state stay the same; terms
    of documents ingested later are dropped from queries until the API restarts.
    `QueryMeansIndexed` is what remains true: no term is taken for another.
* Listings.
  * A worker asks for one job and looks at a window of two rows: while two jobs
    run under live leases, a third container does not see the queued ones.
  * Pages have "stable cursor pagination" by their docstring; the cursor is an
    offset, and a document is shown again for every document uploaded between
    two pages. That is the second half of `WalkIsComplete`.
* Chunking. Text before the first marker belongs to no section.
* Queries. A hybrid candidate without a dense score counts with its fused one.
  Such a chunk is in the sparse list only, so that score is at most
  1 / (rrf_k + 1), about 0.016 and far from the minimum of 0.331; but the
  settings allow `rrf_k` 1 and a minimum of 0 (`settings.py:47,55`), and there it
  passes the gate. `AnswersAreRelevant` names the condition
  (`FusedScoresAreLow`). Tenant or ACL tags that the contract admits and
  `normalize_tenant_id` or `normalize_acl_tags` refuses end a query with neither
  trace event nor error count (`query_service.py:126`). A hybrid answer may cite
  two versions of one document when an activation comes between its two
  searches. `min_margin` is 0 and rejects nothing. A `top_k` above the
  reranker's limit returns only as many candidates as that.
* Evaluation. A benchmark all of whose searches fail still succeeds, its outages
  counted as "no answer"; validation cases without candidates make a calibration
  refuse. `ndcg_at_k` passes over other documents, so that the only relevant one
  gets 1.0 at rank 5. The terminal-status test of `execute_run` never fires.
  `reranker_enabled` of a request is not used.
* Titanic. The members of the zoo's votes are chosen by scores on the folds the
  votes are then evaluated on (`model_zoo_ensemble.py:419`), so a vote's score is
  not independent of the labels it is measured with; `FoldHygiene` says that this
  happens in the zoo only. A kill inside a rewrite leaves a table torn, the
  qualified one too, after its experiments were sent. A dry run lists its
  experiments as submitted; a kill before the report leaves what was really sent
  unreported; `max_experiments` 0 ends in a `KeyError`. The guard's limit on ports
  of embarkation has no counterpart among the suite's arguments; its decision is
  what enforces it. What the guard had read may have been replaced by the model
  comparison when the file is sent.
* Exercises. Points are never deleted, so windows of an earlier, longer edition
  stay findable and may become context; only the parent section is looked up
  afresh. No threshold means 0, so a question whose best cosine is negative is
  refused, and the evaluation of a PDF then ends in an error. The calibration
  counts "no result" as score 0, answered under threshold 0, while the gate
  refuses: the exception in `CautionIsMonotone`.

README.md:141 and ADR-006 of the service disclaim coordination of several worker
containers; the ingestion items above need none: one poller, or the embedded
worker that `settings.py` turns on by default.

### Bounds

* Two versions in the pipeline runs: publication relates a version to another one
  of its document; a third adds no new relation (hide acts on each separately).
  Two documents where isolation between documents is the point. Three versions
  where order or identity matters: a queue of three is longer than the window of
  two, and three identities differ by document, by pipeline or by both.
* One worker for the compose deployment, which has one container. Two requests,
  pollers or walkers are the fewest that can race; three background tasks, so that
  two may be at work while a third asks for the same job.
* `MaxAttempts` is 3 in the code; 2 already has a first, a last and a spent
  attempt, 3 also a middle one.
* Leases of 1 or 2 ticks: a lease can be fresh, about to expire and expired. Retry
  delays of at most 1 tick: waiting or not is all a guard tells apart; the
  growth and cap of the delay are `Delay`, bounded by a lemma for every value.
* `MaxCrashes` bounds crashes at 1 or 2 (0 in `Reupload`, whose visibility
  promise no crash survives, see above): after two the run is in the same
  states again, with fewer attempts left, which the attempt bound also gives. Two
  are what `Embedded` needs to reach the last of 3 attempts without a failure.
  `MaxRestarts` 1 gives a registry with keys and receipts of two pipelines.
* The vocabulary has three terms and two overlapping batches: a known term, a
  new one, and a collision between terms of different batches. Nothing else is
  bounded there; crashes are unlimited.
* Chunking: windows of 3 sentences with overlap 1 (the defaults are 3 and 1) over
  sections of up to 6 sentences give one, two and three windows; two words to a
  page put markers and full stops on each side of every page break.
* Queries: `rrf_k` and the dense minimum have their defaults, 60 and 0.331; three
  chunks; candidate, fusion and rerank limits of 3, 3 and 2 with `TopK` 2, so that
  every cut is made on some path and passed over on another.
* Evaluation: scores 0 to 3 and below zero, so that four cases can tie, straddle the minimum and
  leave room for midpoints; a false negative costs more than a false positive.
* Competition: four training passengers, two of them survivors, are the fewest
  that two stratified folds can split in more than one way; two test passengers;
  two runs of scripts, enough for one run to find the files of another; two suite
  runs, so that a table of one is overwritten by the next. The user's thresholds
  are looser than the guard's where the two can be told apart. Scripts run one after
  another, and each of their files is written whole: only the tables of the suite,
  which are rewritten after files were sent, are emptied and filled in two steps.
* Exercises: windows of 2 with overlap 1 over sections of up to 3 sentences, two
  editions (a longer one replaced by a shorter one), two candidates, scores -1 to 1.

Deadlock checking is off: the service rests when no client sends anything, a
chunked document and a finished experiment are ends, and with a torn state file
no process can start.

### Fairness

* `IngestionPipeline!FairSpec`: a run in progress takes its next step (the event
  loop and the thread pool run it), a poller that finds a job takes one, an open
  delete goes on, and time passes. It assumes nothing of clients, and nothing of
  which outcome a request has. `Poll` is fair as a
  whole, not per job: with one job at a time, each of which ends, finitely many
  attempts remain for the others to wait for.
* `RegistryListings!Fairness`: every container keeps polling and working (one that
  crashes is restarted by its compose policy), and the clock runs. It does not
  assume that a particular job is ever offered; that is what `EveryJobStarts`
  shows.
* `EvaluationRuns!Spec`: the event loop resumes every task, and every search ends
  by its timeout.

The other specifications state no fairness: their properties are about what has
happened.

## 4. Proofs

What a listed theorem states holds for every value of the constants that the named
assumptions allow; the runs show the same on small instances. Every invariant and
every action property that a passing run checks is stated by a theorem. Each theorem
rests on an inductive invariant: it holds initially, every action keeps it, and the
properties follow from it. `...InvInit` and `...InvNext` are the first two of these
facts, and `...InvNext` has a step per action.

### Ingestion

`IngestionProofs` uses the named assumptions on constants (`DocAssumption`,
`NumAssumption`, `PipelineAssumption`). Its theorems differ in the deployment
they are about, because the code keeps different promises in each:

| Hypothesis | Deployment | Theorems | Invariant |
|---|---|---|---|
| none | any, whatever fails | `TypeCorrect` | `TypeInv`: `TypeOK`, and an occupied run has a job, an open request a document |
| `SinglePoller` | compose: not embedded, one container; any deletes, crashes, failures, lost replies | `RunKeepsRow`, `FailuresAreOutlived`, `JobsFollowLifeCycle` (the refinement), `DeletesMeetNoRun`, `SpentVersionsStayDeleted` | `OwnInv` |
| `OneTask` | one run at a time, embedded or not, nobody deletes; any uploads, crashes, failures, lost replies | `SuccessKeepsPoints` | `TaskInv` |
| `CleanFailures` | as `OneTask`, but no crash and no lost reply | `SuccessKeepsVisible` | `TaskInv`, `VisInv` |
| `CallsSucceed` | embedded, any number of background tasks, uploads and crashes; no failing call, no file without text, no delete, and no run that outlasts its lease, which the code does not ensure | `OneTaskPerJob` | `EmbeddedInv` |

* `OwnInv`. None of the properties is inductive: what a run writes back is what its
  copy says, so each needs that the copy still equals the row, which needs that
  nobody else writes job columns between reading and writing, which needs that the
  poller took a job that no run has. With one poller that is so because there is no
  other claimant, and the theorems are about just this deployment; they say
  nothing of two writers. `OwnsRow` says of a run, phase by phase, what its copy
  and its row are; `RowOK` what any row is. It also shows that one poller never
  reaches `ClaimSpent`: the listing excludes exhausted jobs and no one else claims.
  The two theorems about deletes follow: while a run works its row says running,
  so that the busy check sees it; and no step writes a row that is neither at work
  nor recoverable.
* `TaskInv`. A succeeded job keeps its points because whatever run comes later
  either belongs to another version (and discards only that one's points), or finds
  the job succeeded at its claim. `TaskOK` says for every phase what the run has
  already stored, and `StoredOK` what a succeeded row relies on. With several tasks that
  may fail (see `EmbeddedInv`) or a delete the property fails, and the hypothesis
  excludes just these.
* `VisInv`. `HideOthers` makes every other version of the document invisible, so what
  has to be carried from one step to the next is a witness: some version of the
  document is visible *and* its job has succeeded, or is the one about to
  (`VisibleFor`, `Shown`). `HideOthers` comes after the run's own version is shown,
  and from then on nothing can fail before success; but a lost reply of
  `HideOthers`, or a crash behind it, leaves the run's version to the next
  discard (the run `LostReply`, and section 3).
* `EmbeddedInv`. That two tasks do not work on one job is not inductive: it needs
  that a run at work keeps its lease fresh, which is kept from claim to
  success because each write puts back the row as it is, its age included
  (`EmbeddedOK`). It holds of jobs with attempts left. One claim, the last, turns a
  job into a spent one while its run goes on; from then on every task that asks is
  handed the job, and all that is known is that no write gives an attempt back
  (`SpentOK`), so that the job never again counts as one with attempts left. Crashes
  are unbounded; each only ends runs, and the lease outlives them. Each
  condition on failures, files, deletes and leases is needed, TLC refutes the
  property without any one of them: section 3 says what happens with failures and
  with runs that outlast the lease; an unparseable file ends in the same handler, and
  a delete takes away the points that a run at work is about to verify.

### The other parts of the service

`SparseProofs` uses `SparseAssumption`, and proves `SparseTypeCorrect` for any
number of tasks and, under `SoleTask` (one run at a time), `VocabularyStaysExact`,
`IdsStayStable`, `QueriesMeanIndexed` for any terms and batches. Its invariant
says that everything loaded, saved or indexed is part of the worker's
vocabulary, and unless the file is torn of the file's, and that numbers are
handed out in turn, so that `len()` is one no term has.

`AcceptProofs` uses `DocAssumption`, `NumAssumption` and `AcceptAssumption` (different
triples of tenant, bytes and fingerprint have different version ids), for any
number of versions, keys, requests and restarts and for both registries. It proves
`UploadsHaveOneJob`, `KeysNameOneUpload`, `ReceiptsCanBeFollowed`,
`AcceptTypeCorrect`, and `PromiseIsKept`: every step of the requests is one that
`IdempotentAcceptance` allows, or none. That a receipt given twice names one job
is not inductive: it needs that the key still leads to the same row, that the row
exists and keeps its number, that both dictionaries of the in-memory registry say
so, and that a number drawn is new. `AcceptInv` says these things.

`ListingProofs` uses `NumAssumption` and `ListingAssumption`, for any number of
jobs, containers and clients.

* `JobsStartInOrder`. The listing and the claim are two transactions, and between
  them jobs are accepted, claimed, failed and aged. `ListInv` says that a job not
  started waits for nothing, that rows are numbered as they come, and that a
  container on its way to the claim of a job not started holds the first of
  these. The step that establishes it (`OfferedFirst`) is about the window: what
  precedes the first job in the order of the query precedes every later one, so
  that the cut-off cannot hide it and show a later one.
* `LeasesAloneHideWork`. The query orders rows by `next_attempt_at`, Python filters
  them by it. With `DueOK` (the places of passed retry times stay within the
  table) every waiting row stands behind every row that does not wait
  (`WaitingLast`); so a waiting row in the window has in front of it, and in the
  window, whatever is recoverable.
* `WalksAreComplete`. An offset is not a place in a changing list. `WalkInv` relates
  the two: the documents listed at the beginning and not shown yet stand at or
  behind the offset, and what was shown twice so far, together with what was shown
  and still stands there, is at most what was uploaded since.

`ChunkingProofs` uses `WindowAssumption`, `DocumentAssumption` and `TextAssumption`,
for windows and overlaps of any size and documents of any length.

* `WindowsOverlapExactly`, `EverySentenceCovered`. The loop keeps one number, the
  start of the next window; `ChunkInv` says that the last window ends the overlap
  behind it and before the end of its section, so that the next one starts inside
  the last and gets beyond it.
* `PageRangesAreExact`, `NothingIsLost`. `SectionsInv` says that the sections stay those of
  the document; `SectionEnds` and `SectionOf` that they follow one another from the
  first marker to the end of the text. Where a page begins is a
  fold over the pages before it; `BeginsAreTotals` shows that the fold is the sum
  it looks like, and `PagesApart` that pages follow one another with one line
  break in between. Every sentence of a section is in a window, every character
  of it in a sentence.

`QueryProofs` needs only the assumptions of `Retrieval` and `QueryService`, for any
collection and any limits.

* `AnswersFromSearchable`, `GateJudgesRelevance`, `QueriesLeaveARecord`. `QueryInv`
  follows one query from its first search to its exit: `SourcesOK` says that each
  stage hands on part of what it was given, and what was searched was in `seen`;
  `GateOK` what the policy has found out; `OutcomeOK` what has been counted. That a
  fused score does not pass for a relevant one has its condition in the property
  (`FusedScoresAreLow`): what is compared is 1 / (rrf_k + rank), and no rank is below 1.
* `FusionIsMonotone`. That ranks are numbers without gaps is `RanksInOrder`, for any
  strict total order of a finite set; that a better rank in both lists makes the
  greater sum of quotients is `FusedMonotone`, by cross-multiplication.

`EvaluationProofs` uses `EvaluationAssumption`, for any dataset, resolution and cost.

* `SuccessIsReported`. A run computes its metrics twice from the same observations,
  and other runs, restarts and failed writes come in between. `EvalInv` says for
  each step of a run what its artifact holds already (`StepOK`, `ArtifactOK`);
  `ConfusionAddsUp` is the arithmetic of the counts.
* `CalibrationIsBest`. Thresholds are tried only between neighbouring scores. Any
  other one decides the cases like one of these, and among finitely many candidates
  one is best; `CalibratedOK` says that the artifact a threshold was computed from
  is the one still on disk.

### Competition and exercises

`ExperimentProofs` is about `StudySpec`, `CampaignSpec` and `LabSpec`, of which
`MCExperiments` checks a restriction: fewer runs, and either competition or
exercises.

* `PredictionsAreOutOfFold`. `FoldInv` says that a script works on the features it
  names and that its predictions are those of some fold of them. What is fitted
  on part of the passengers has no label outside that part, whichever of the feature
  builders a script composes. A vote is fitted and validated like its members; what
  they are chosen by is recorded beside it and only the script of the zoo has any.
* `SubmissionsAreBacked`. `BackedInv` says that the files of a script are those of
  its latest runs in the order in which they are written. That the members trained
  for the submission are those that were evaluated needs that the best single
  models, found again in the finished table, are those the ensembles were put
  together from before their own rows joined it.
* `SentFilesQualified`. `CampaignInv` follows one experiment through the loop:
  the file the guard judged is the one that is filed and the one that is sent,
  although other experiments and scripts write files meanwhile, and the rows the
  suite holds in memory are, step by step, what the qualified table has, is about to
  have, or has lost while it is torn. That the limits of the guard hold for what is
  sent uses nothing of the user's thresholds (`CampaignAssumption` leaves them free).
* `LabAnswersHold`. `StoredInv` says that the collection holds at least the chunks of the
  edition stored last, whatever earlier ones have left, and `WindowsCover` that these
  cover every section;
  `LabInv` what a question has gone through at each phase; `TrialInv` and the
  lemmas `GateIsMonotone`, `StricterAnswersLess`, `LeadersComeFirst` are about the
  experiments.

### Lemmas about finite sets

First elements of finite sets, and the folds over them, are reasoned about without
induction theorems, whose operator parameter the provers cannot instantiate: the
strict subset ordering of a finite set is well founded
(`FS_StrictSubsetOrderingWellFounded`), so that every non-empty family of
subsets has a minimal member (`MinimalSet`, `WFMin`). The smallest counterexample
takes the place of the induction step.

### Only model-checked

The liveness properties `JobsSettle`, `EveryJobStarts` and `RunsEnd` (liveness under
fairness is out of the prover's reach). Where a theorem has a hypothesis, the
run `LostReply`, the remarks of section 3 and those above say what goes wrong
without it.

## 5. Not modelled, and why

* SQLite errors (locked or full database) inside a run: every call that fails
  raises into the same handlers as a store failure; registry failures inside the
  handlers themselves leave the row as a crash does.
* Contents of stage events, progress, point counts, audit and metrics other than
  those of a query: written, never read by a guard. The schema migration.
* A job whose staged bytes are missing: rows are inserted with their bytes and
  never deleted.
* The length of a run. Nothing renews a lease, so a run may outlast it;
  `LeaseHolds` restricts the embedded runs to the lease, and no run assumes it
  of the poller, which cannot race with itself.
* The in-memory registry's listings and claims: no composition gives it a worker.
* Equal or decreasing `created_at` values (a clock that is set back): the order of
  rows is that of their acceptance.
* Hashes, chunk ids, token estimates; the prompt's cut at `max_evidence_chars`;
  warnings on an answer; tenant and access filters apart from the document scope
  they are applied with.
* Rank discounts, MRR, latency percentiles: real arithmetic. The formatting of
  reports.
* Dense encoding, PDF parsing, Ollama, cross-encoder, scikit-learn models:
  numerical or external; their failure, or any ranking they may produce, is an
  outcome of the action that calls them.
* API contracts, error mapping, health checks, the demo page: stateless.
* Figures and wording of the competition's reports, its error analyses and
  experiment log; the guard's own command line, which decides as the suite's guard
  does.
* Vectorizers, comparison scripts and the judgement of a language model's answer in
  the exercises; the other exercises and the toolbox, which keep no state.

## 6. Plan

Done: everything the first plan named (registry, worker, store and delete; the
vocabulary; acceptance; queue and read model; retrieval and query; chunking;
evaluation), and the competition and the retrieval exercises beyond it.

Also done: a theorem for every invariant and every action property that a run
checks.

Next:

1. What background tasks keep when attempts fail: counted starts, and success
   that only a run which overlapped it can undo; `SuccessIsStored` beside deletes,
   for documents nobody has deleted.
2. The abstract life cycle for background tasks, under `CallsSucceed`.
3. One module for the lemmas that several proof modules state for themselves
   (`MinimalSet`, first numbers), when their number of modules allows.
