-------------------------- MODULE IngestionPipeline --------------------------
(***************************************************************************)
(* The ingestion side of the document intelligence service: runs of        *)
(* IngestionWorker.run_job, the requests that upload and delete documents, *)
(* the job registry and the chunk store, with crashes, lost replies and    *)
(* the clock.  Registry and store share no transaction: every action below *)
(* is one registry transaction or one store request, and everything may    *)
(* happen in between.                                                      *)
(*                                                                         *)
(* Two deployments: with a separate worker container a poller takes jobs   *)
(* one at a time (Embedded = FALSE, one element of Workers per container); *)
(* otherwise every upload leaves a background task in the API process      *)
(* (Embedded = TRUE, Workers bounds the tasks that are alive at once) and  *)
(* nothing polls.                                                          *)
(***************************************************************************)
EXTENDS JobRegistry

CONSTANTS
  Workers,       \* runs of run_job that can be in progress
  Deleters,      \* DELETE requests that can be in progress
  NoVersion,     \* "no job", for an idle worker
  NoDoc,         \* "no document", for an idle deleter
  Embedded,      \* settings.embedded_worker with the SQLite registry
  Unparseable,   \* versions whose PDF has no indexable text
  FailureModes,  \* "clean": a call fails without effect; "lost": with it
  LeaseHolds,    \* environment: a run never outlasts its lease
  MaxCrashes     \* bound on process crashes

ASSUME PipelineAssumption ==
  /\ NoVersion \notin Versions
  /\ NoDoc \notin Docs
  /\ Embedded \in BOOLEAN
  /\ LeaseHolds \in BOOLEAN
  /\ Unparseable \subseteq Versions
  /\ FailureModes \subseteq {"clean", "lost"}
  /\ MaxCrashes \in Nat

VARIABLES points, workers, deleters, crashes

INSTANCE ChunkStore

vars == <<jobs, docs, points, workers, deleters, crashes>>

Phases == {"idle", "claim", "indexing", "start", "work", "hide", "publish",
           "refresh", "save", "succeed", "failed", "reread", "discard", "mark",
           "save_failed", "schedule"}

\* `inspect' also exists; its two stage events change nothing kept here.
Stages == {"validate", "extract_and_chunk", "embed_dense", "embed_sparse",
           "stage_qdrant", "verify", "activate"}

\* A run of run_job: the local variables that later steps depend on.
Worker == [phase     : Phases,
           stage     : Stages,
           job       : Versions \cup {NoVersion},
           snap      : Job,       \* `current', where it is still to be written
           staged    : BOOLEAN,   \* cleanup_version of a failure
           retryable : BOOLEAN]   \* kind of the error being handled

Deleter == [phase : {"idle", "vectors", "registry"},
            doc   : Docs \cup {NoDoc}]

IdleWorker == [phase |-> "idle", stage |-> "validate", job |-> NoVersion,
               snap |-> NoJob, staged |-> FALSE, retryable |-> FALSE]
IdleDeleter == [phase |-> "idle", doc |-> NoDoc]

TypeOK ==
  /\ RegistryTypeOK
  /\ StoreTypeOK
  /\ workers \in [Workers -> Worker]
  /\ deleters \in [Deleters -> Deleter]
  /\ crashes \in 0 .. MaxCrashes

Init ==
  /\ RegistryInit
  /\ StoreInit
  /\ workers = [w \in Workers |-> IdleWorker]
  /\ deleters = [r \in Deleters |-> IdleDeleter]
  /\ crashes = 0

\* After the claim and before the last write of the run.
Running(w) == workers[w].phase \notin {"idle", "claim"}

GoTo(w, phase) == workers' = [workers EXCEPT ![w] = [@ EXCEPT !.phase = phase]]
Take(w, v) == workers' = [workers EXCEPT ![w] = [IdleWorker EXCEPT !.phase = "claim", !.job = v]]
Return(w) == workers' = [workers EXCEPT ![w] = IdleWorker]

\* Nothing more to come of the copy once it has been written.
Stored == NoJob

-----------------------------------------------------------------------------
(* Uploads and polling *)

\* POST /documents of new content while a separate worker polls.
Upload(v) ==
  /\ ~Embedded
  /\ AcceptNew(v)
  /\ UNCHANGED <<points, workers, deleters, crashes>>

\* POST /documents with the embedded worker: the job, new or already known,
\* is handed to a background task.
UploadAndRun(v, w) ==
  /\ Embedded
  /\ workers[w].phase = "idle"
  /\ \/ AcceptNew(v)
     \/ Exists(v) /\ UNCHANGED <<jobs, docs>>
  /\ Take(w, v)
  /\ UNCHANGED <<points, deleters, crashes>>

\* run_worker: list one recoverable job and call run_job with it.
Poll(w, v) ==
  /\ ~Embedded
  /\ workers[w].phase = "idle"
  /\ Recoverable(v)
  /\ Take(w, v)
  /\ UNCHANGED <<jobs, docs, points, deleters, crashes>>

-----------------------------------------------------------------------------
(* run_job up to its first stage *)

\* run_job returns at once when the claim gives nothing or a finished job.
ClaimNothing(w) ==
  LET v == workers[w].job IN
  /\ workers[w].phase = "claim"
  /\ ClaimFinished(jobs[v]) \/ ClaimRefused(jobs[v])
  /\ Return(w)
  /\ UNCHANGED <<jobs, docs, points, deleters, crashes>>

\* An exhausted job is returned unchanged, and run_job goes on with it.
ClaimSpent(w) ==
  LET v == workers[w].job IN
  /\ workers[w].phase = "claim"
  /\ ClaimExhausted(jobs[v])
  /\ workers' = [workers EXCEPT ![w] = [@ EXCEPT !.phase = "indexing", !.snap = jobs[v]]]
  /\ UNCHANGED <<jobs, docs, points, deleters, crashes>>

Claim(w) ==
  LET v == workers[w].job IN
  /\ workers[w].phase = "claim"
  /\ ClaimGranted(jobs[v])
  /\ UpdateJob(v, Claimed(jobs[v]))
  /\ workers' = [workers EXCEPT ![w] = [@ EXCEPT !.phase = "indexing", !.snap = Claimed(jobs[v])]]
  /\ UNCHANGED <<docs, points, deleters, crashes>>

MarkIndexing(w) ==
  /\ workers[w].phase = "indexing"
  /\ SetDocumentStatus(workers[w].job, "indexing")
  /\ GoTo(w, "start")
  /\ UNCHANGED <<jobs, points, deleters, crashes>>

SaveStart(w) ==
  /\ workers[w].phase = "start"
  /\ UpdateJob(workers[w].job, [workers[w].snap EXCEPT !.status = "running"])
  /\ workers' = [workers EXCEPT ![w] = [@ EXCEPT !.phase = "work", !.stage = "validate",
                                                !.snap = Stored]]
  /\ UNCHANGED <<docs, points, deleters, crashes>>

-----------------------------------------------------------------------------
(* The stages.  A stage does its work, then _finish_stage reads the job    *)
(* back into `current'; a stage with a progress value writes it.           *)

HasProgress(stage) == stage # "embed_dense"

NextStage(stage) ==
  CASE stage = "validate"          -> "extract_and_chunk"
    [] stage = "extract_and_chunk" -> "embed_dense"
    [] stage = "embed_dense"       -> "embed_sparse"
    [] stage = "embed_sparse"      -> "stage_qdrant"
    [] stage = "stage_qdrant"      -> "verify"
    [] OTHER                       -> "activate"

\* What follows the work of a stage: `current' is read back for the next
\* write of the job, or not needed before a later stage reads it again.
WorkDone(w, staged) ==
  LET s == workers[w].stage IN
  workers' = IF HasProgress(s)
             THEN [workers EXCEPT ![w] = [@ EXCEPT !.phase = "refresh", !.staged = staged]]
             ELSE [workers EXCEPT ![w] = [@ EXCEPT !.stage = NextStage(s)]]

\* An exception leaves the stage for the handlers of run_job.
Raise(w, retryable) ==
  workers' = [workers EXCEPT ![w] = [@ EXCEPT !.phase = "failed", !.retryable = retryable]]

\* A store request that turns points into new: it succeeds, fails, or takes
\* effect with its reply lost.
Request(new, onReply, onError) ==
  \/ points' = new /\ onReply
  \/ "clean" \in FailureModes /\ UNCHANGED points /\ onError
  \/ "lost" \in FailureModes /\ points' = new /\ onError

\* Parsing and embedding touch neither registry nor store.  A text-free PDF
\* is the one error that is not retried.
LocalWork(w) ==
  LET s == workers[w].stage
      v == workers[w].job
      textFree == s = "extract_and_chunk" /\ v \in Unparseable
  IN
  /\ workers[w].phase = "work"
  /\ s \in {"validate", "extract_and_chunk", "embed_dense", "embed_sparse"}
  /\ \/ ~textFree /\ WorkDone(w, FALSE)
     \/ textFree /\ Raise(w, FALSE)
     \/ "clean" \in FailureModes /\ s # "validate" /\ Raise(w, TRUE)
  /\ UNCHANGED <<jobs, docs, points, deleters, crashes>>

StageVersion(w) ==
  /\ workers[w].phase = "work"
  /\ workers[w].stage = "stage_qdrant"
  /\ Request(Staged(workers[w].job), WorkDone(w, TRUE), Raise(w, TRUE))
  /\ UNCHANGED <<jobs, docs, deleters, crashes>>

\* Invalid counts raise INGESTION_FAILED, as does an unreachable store.
VerifyVersion(w) ==
  /\ workers[w].phase = "work"
  /\ workers[w].stage = "verify"
  /\ \/ Verified(workers[w].job) /\ WorkDone(w, TRUE)
     \/ ~Verified(workers[w].job) /\ Raise(w, TRUE)
     \/ "clean" \in FailureModes /\ Raise(w, TRUE)
  /\ UNCHANGED <<jobs, docs, points, deleters, crashes>>

\* activate_version, first request: show the new version ...
ShowVersion(w) ==
  /\ workers[w].phase = "work"
  /\ workers[w].stage = "activate"
  /\ Request(Flagged(workers[w].job), GoTo(w, "hide"), Raise(w, TRUE))
  /\ UNCHANGED <<jobs, docs, deleters, crashes>>

\* ... second request: hide the document's other versions.
HideOthers(w) ==
  /\ workers[w].phase = "hide"
  /\ Request(OthersHidden(workers[w].job), GoTo(w, "publish"), Raise(w, TRUE))
  /\ UNCHANGED <<jobs, docs, deleters, crashes>>

Publish(w) ==
  /\ workers[w].phase = "publish"
  /\ SetDocumentStatus(workers[w].job, "active")
  /\ GoTo(w, "refresh")
  /\ UNCHANGED <<jobs, points, deleters, crashes>>

Refresh(w) ==
  /\ workers[w].phase = "refresh"
  /\ workers' = [workers EXCEPT ![w] = [@ EXCEPT
       !.snap = jobs[workers[w].job],
       !.phase = IF workers[w].stage = "activate" THEN "succeed" ELSE "save"]]
  /\ UNCHANGED <<jobs, docs, points, deleters, crashes>>

SaveProgress(w) ==
  /\ workers[w].phase = "save"
  /\ UpdateJob(workers[w].job, [workers[w].snap EXCEPT !.status = "running"])
  /\ workers' = [workers EXCEPT ![w] = [@ EXCEPT !.phase = "work", !.snap = Stored,
                                                !.stage = NextStage(workers[w].stage)]]
  /\ UNCHANGED <<docs, points, deleters, crashes>>

Succeed(w) ==
  /\ workers[w].phase = "succeed"
  /\ UpdateJob(workers[w].job, [workers[w].snap EXCEPT !.status = "succeeded"])
  /\ Return(w)
  /\ UNCHANGED <<docs, points, deleters, crashes>>

-----------------------------------------------------------------------------
(* The handlers of run_job and _fail *)

RecordError(w) ==
  /\ workers[w].phase = "failed"
  /\ RecordFailure(workers[w].job)
  /\ GoTo(w, "reread")
  /\ UNCHANGED <<docs, points, deleters, crashes>>

Reread(w) ==
  /\ workers[w].phase = "reread"
  /\ workers' = [workers EXCEPT ![w] = [@ EXCEPT
       !.snap = jobs[workers[w].job],
       !.phase = IF workers[w].staged THEN "discard" ELSE "mark"]]
  /\ UNCHANGED <<jobs, docs, points, deleters, crashes>>

\* An error of discard_version escapes run_job: the rest of _fail is skipped.
DiscardVersion(w) ==
  /\ workers[w].phase = "discard"
  /\ Request(Discarded(workers[w].job), GoTo(w, "mark"), Return(w))
  /\ UNCHANGED <<jobs, docs, deleters, crashes>>

MarkFailed(w) ==
  /\ workers[w].phase = "mark"
  /\ SetDocumentStatus(workers[w].job, "failed")
  /\ GoTo(w, "save_failed")
  /\ UNCHANGED <<jobs, points, deleters, crashes>>

SaveFailed(w) ==
  LET failed == [workers[w].snap EXCEPT !.status = "failed", !.error = TRUE] IN
  /\ workers[w].phase = "save_failed"
  /\ UpdateJob(workers[w].job, failed)
  /\ workers' = [workers EXCEPT ![w] = [@ EXCEPT !.phase = "schedule", !.snap = failed]]
  /\ UNCHANGED <<docs, points, deleters, crashes>>

\* The second write: a time for the next attempt, or no attempt left.
Schedule(w) ==
  LET snap == workers[w].snap IN
  /\ workers[w].phase = "schedule"
  /\ UpdateJob(workers[w].job,
       IF workers[w].retryable /\ snap.attempts < MaxAttempts
       THEN [snap EXCEPT !.wait = Delay(snap.attempts)]
       ELSE [snap EXCEPT !.attempts = MaxAttempts, !.wait = 0])
  /\ Return(w)
  /\ UNCHANGED <<docs, points, deleters, crashes>>

-----------------------------------------------------------------------------
(* DELETE /documents/{id}: DocumentService.delete_document *)

\* The read model must exist and not be indexing.
DeleteRequest(r, d) ==
  /\ deleters[r].phase = "idle"
  /\ VersionsOf(d) # {}
  /\ DocumentStatusOf(d) # "indexing"
  /\ deleters' = [deleters EXCEPT ![r] = [phase |-> "vectors", doc |-> d]]
  /\ UNCHANGED <<jobs, docs, points, workers, crashes>>

EndRequest(r) == deleters' = [deleters EXCEPT ![r] = IdleDeleter]

\* A store error ends the request as DEPENDENCY_UNAVAILABLE.
DeleteVectors(r) ==
  /\ deleters[r].phase = "vectors"
  /\ Request(DocumentDeleted(deleters[r].doc),
             deleters' = [deleters EXCEPT ![r].phase = "registry"],
             EndRequest(r))
  /\ UNCHANGED <<jobs, docs, workers, crashes>>

\* 204, or 409 DOCUMENT_BUSY.
DeleteRegistry(r) ==
  /\ deleters[r].phase = "registry"
  /\ \/ DeleteRows(deleters[r].doc)
     \/ DeleteRefused(deleters[r].doc) /\ UNCHANGED docs
  /\ EndRequest(r)
  /\ UNCHANGED <<jobs, points, workers, crashes>>

-----------------------------------------------------------------------------
(* The environment *)

WorkerCrash(w) ==
  /\ ~Embedded
  /\ workers[w].phase # "idle"
  /\ crashes < MaxCrashes
  /\ crashes' = crashes + 1
  /\ Return(w)
  /\ UNCHANGED <<jobs, docs, points, deleters>>

\* The API process takes its requests and background tasks with it.
ApiCrash ==
  /\ crashes < MaxCrashes
  /\ crashes' = crashes + 1
  /\ deleters' = [r \in Deleters |-> IdleDeleter]
  /\ workers' = IF Embedded THEN [w \in Workers |-> IdleWorker] ELSE workers
  /\ <<workers, deleters>>' # <<workers, deleters>>
  /\ UNCHANGED <<jobs, docs, points>>

Tick ==
  /\ LeaseHolds => \A w \in Workers : Running(w) => jobs[workers[w].job].age + 1 < StaleAfter
  /\ jobs' = [v \in Versions |-> IF Exists(v) THEN Aged(jobs[v]) ELSE jobs[v]]
  /\ workers' = [w \in Workers |-> [workers[w] EXCEPT
                   !.snap = IF @.status # "none" THEN Aged(@) ELSE @]]
  /\ UNCHANGED <<docs, points, deleters, crashes>>

-----------------------------------------------------------------------------
WorkerStep(w) ==
  \/ ClaimNothing(w) \/ ClaimSpent(w) \/ Claim(w) \/ MarkIndexing(w) \/ SaveStart(w)
  \/ LocalWork(w) \/ StageVersion(w) \/ VerifyVersion(w)
  \/ ShowVersion(w) \/ HideOthers(w) \/ Publish(w)
  \/ Refresh(w) \/ SaveProgress(w) \/ Succeed(w)
  \/ RecordError(w) \/ Reread(w) \/ DiscardVersion(w) \/ MarkFailed(w)
  \/ SaveFailed(w) \/ Schedule(w)

DeleterStep(r) ==
  \/ DeleteVectors(r)
  \/ DeleteRegistry(r)

Next ==
  \/ \E v \in Versions : Upload(v)
  \/ \E v \in Versions, w \in Workers : UploadAndRun(v, w)
  \/ \E v \in Versions, w \in Workers : Poll(w, v)
  \/ \E w \in Workers : WorkerStep(w)
  \/ \E r \in Deleters, d \in Docs : DeleteRequest(r, d)
  \/ \E r \in Deleters : DeleterStep(r)
  \/ \E w \in Workers : WorkerCrash(w)
  \/ ApiCrash
  \/ Tick

Spec == Init /\ [][Next]_vars

\* The poller loops for ever and its container is restarted, an event loop
\* runs its tasks to the end, time passes; nobody has to send a request.
Fairness ==
  /\ \A w \in Workers : WF_vars(WorkerStep(w))
  /\ \A w \in Workers : WF_vars(\E v \in Versions : Poll(w, v))
  /\ \A r \in Deleters : WF_vars(DeleterStep(r))
  /\ WF_vars(Tick)

FairSpec == Spec /\ Fairness
=============================================================================
