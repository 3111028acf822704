--------------------------- MODULE IngestionProofs ---------------------------
(***************************************************************************)
(* Proofs about the ingestion model for every value of its constants:      *)
(* type correctness in every deployment; with one polling worker, that its *)
(* run owns the row of the job it works on; with one run at a time, what   *)
(* publication keeps; with several background tasks, that no two work on   *)
(* a job with attempts left while no call fails and none outlasts its      *)
(* lease.                                                                  *)
(***************************************************************************)
EXTENDS IngestionProperties, TLAPS

-----------------------------------------------------------------------------
(* Values *)

\* The age cap is a natural number and not below either lease.
LEMMA AgeCapNat == AgeCap \in Nat \ {0} /\ AgeCap >= StaleAfter /\ AgeCap >= PollStaleAfter
BY NumAssumption DEF AgeCap

\* The retry delay of _fail is a wait the row can hold.
LEMMA DelayBounded == ASSUME NEW n \in 0 .. MaxAttempts PROVE Delay(n) \in 0 .. BackoffCap
BY NumAssumption DEF Delay

\* Every change the code makes to a row's job columns gives job columns.
LEMMA JobChanges ==
  ASSUME NEW j \in Job
  PROVE  /\ Aged(j) \in Job
         /\ ClaimGranted(j) => Claimed(j) \in Job
         /\ \A s \in JobStatus : [j EXCEPT !.status = s] \in Job
         /\ [j EXCEPT !.error = TRUE, !.failedStage = TRUE] \in Job
         /\ [j EXCEPT !.status = "failed", !.error = TRUE] \in Job
         /\ [j EXCEPT !.wait = Delay(j.attempts)] \in Job
         /\ [j EXCEPT !.attempts = MaxAttempts, !.wait = 0] \in Job
<1>. USE NumAssumption, AgeCapNat
<1>1. j.attempts \in 0 .. MaxAttempts /\ j.age \in 0 .. AgeCap /\ j.wait \in 0 .. BackoffCap
  BY DEF Job
<1>2. Aged(j) \in Job
  <2>1. (IF j.age < AgeCap THEN j.age + 1 ELSE j.age) \in 0 .. AgeCap
    BY <1>1
  <2>2. (IF j.wait > 0 THEN j.wait - 1 ELSE 0) \in 0 .. BackoffCap
    BY <1>1
  <2>3. ASSUME NEW a \in 0 .. AgeCap, NEW b \in 0 .. BackoffCap
        PROVE  [j EXCEPT !.age = a, !.wait = b] \in Job
    BY DEF Job
  <2>. QED BY <2>1, <2>2, <2>3 DEF Aged
<1>3. ClaimGranted(j) => Claimed(j) \in Job
  <2>. SUFFICES ASSUME ClaimGranted(j) PROVE Claimed(j) \in Job
    OBVIOUS
  <2>1. j.attempts + 1 \in 0 .. MaxAttempts
    BY <1>1 DEF ClaimGranted, ClaimExhausted, ClaimFinished
  <2>2. 0 \in 0 .. BackoffCap /\ 0 \in 0 .. AgeCap /\ "running" \in JobStatus
    BY DEF JobStatus
  <2>3. ASSUME NEW a \in 0 .. MaxAttempts, NEW b \in 0 .. BackoffCap, NEW c \in 0 .. AgeCap
        PROVE  [j EXCEPT !.status = "running", !.error = FALSE, !.wait = b,
                         !.age = c, !.attempts = a] \in Job
    BY <2>2 DEF Job
  <2>. QED BY <2>1, <2>2, <2>3 DEF Claimed
<1>4. \A s \in JobStatus : [j EXCEPT !.status = s] \in Job
  BY DEF Job, JobStatus
<1>5. [j EXCEPT !.error = TRUE, !.failedStage = TRUE] \in Job /\ [j EXCEPT !.status = "failed", !.error = TRUE] \in Job
  BY DEF Job, JobStatus
<1>6. [j EXCEPT !.wait = Delay(j.attempts)] \in Job
  BY <1>1, DelayBounded DEF Job
<1>7. [j EXCEPT !.attempts = MaxAttempts, !.wait = 0] \in Job
  <2>1. MaxAttempts \in 0 .. MaxAttempts /\ 0 \in 0 .. BackoffCap
    OBVIOUS
  <2>. QED BY <2>1 DEF Job
<1>. QED BY <1>2, <1>3, <1>4, <1>5, <1>6, <1>7

-----------------------------------------------------------------------------
(* Type correctness *)

\* An occupied run has a job and an open DELETE request a document.
Assigned ==
  /\ \A w \in Workers : workers[w].phase # "idle" => workers[w].job \in Versions
  /\ \A r \in Deleters : deleters[r].phase # "idle" => deleters[r].doc \in Docs

TypeInv == TypeOK /\ Assigned

\* The locals of a run that has a job.
Occupied == {x \in Worker : x.job \in Versions}

\* The records that a step may leave an occupied worker with.
LEMMA WorkerChanges ==
  ASSUME NEW x \in Occupied
  PROVE  /\ \A p \in Phases : [x EXCEPT !.phase = p] \in Occupied
         /\ \A p \in Phases, j \in Job : /\ [x EXCEPT !.phase = p, !.snap = j] \in Occupied
                                        /\ [x EXCEPT !.snap = j, !.phase = p] \in Occupied
         /\ \A p \in Phases, s \in Stages, j \in Job :
              /\ [x EXCEPT !.phase = p, !.stage = s, !.snap = j] \in Occupied
              /\ [x EXCEPT !.phase = p, !.snap = j, !.stage = s] \in Occupied
         /\ \A s \in Stages : [x EXCEPT !.stage = s] \in Occupied
         /\ \A p \in Phases, b \in BOOLEAN :
              /\ [x EXCEPT !.phase = p, !.staged = b] \in Occupied
              /\ [x EXCEPT !.phase = p, !.retryable = b] \in Occupied
         /\ \A j \in Job : [x EXCEPT !.snap = j] \in Occupied
BY DEF Occupied, Worker

\* Idle workers and requests, and empty rows, have their types.
LEMMA IdleTypes ==
  /\ NoJob \in Job
  /\ IdleWorker \in Worker
  /\ IdleDeleter \in Deleter
  /\ \A v \in Versions : [IdleWorker EXCEPT !.phase = "claim", !.job = v] \in Occupied
  /\ \A s \in Stages : NextStage(s) \in Stages
<1>1. NoJob \in Job
  BY NumAssumption, AgeCapNat DEF NoJob, Job
<1>2. IdleWorker \in Worker
  BY <1>1 DEF IdleWorker, Worker, Phases, Stages
<1>3. IdleDeleter \in Deleter
  BY DEF IdleDeleter, Deleter
<1>4. \A v \in Versions : [IdleWorker EXCEPT !.phase = "claim", !.job = v] \in Occupied
  BY <1>2 DEF Occupied, IdleWorker, Worker, Phases
<1>5. \A s \in Stages : NextStage(s) \in Stages
  BY DEF Stages, NextStage
<1>. QED BY <1>1, <1>2, <1>3, <1>4, <1>5

\* Whatever a store request does, the collection keeps its type.
LEMMA StoreTypes ==
  ASSUME StoreTypeOK
  PROVE  /\ \A v \in Versions : /\ Staged(v) \in [Versions -> PointState]
                               /\ Flagged(v) \in [Versions -> PointState]
                               /\ OthersHidden(v) \in [Versions -> PointState]
                               /\ Discarded(v) \in [Versions -> PointState]
         /\ \A d \in Docs : DocumentDeleted(d) \in [Versions -> PointState]
BY DEF StoreTypeOK, PointState, Staged, Flagged, OthersHidden, Discarded, DocumentDeleted

\* The initial values have their types.
LEMMA TypeInvInit == Init => TypeInv
<1>. SUFFICES ASSUME Init PROVE TypeInv
  OBVIOUS
<1>1. RegistryTypeOK /\ StoreTypeOK
  BY IdleTypes DEF Init, RegistryInit, StoreInit, RegistryTypeOK, StoreTypeOK, PointState
<1>2. workers \in [Workers -> Worker] /\ deleters \in [Deleters -> Deleter]
  BY IdleTypes DEF Init
<1>3. crashes \in 0 .. MaxCrashes
  BY PipelineAssumption DEF Init
<1>4. Assigned
  BY DEF Init, Assigned, IdleWorker, IdleDeleter
<1>. QED BY <1>1, <1>2, <1>3, <1>4 DEF TypeInv, TypeOK

\* The frame of a step of worker w that leaves it with the locals x.
LEMMA TypeFrame ==
  ASSUME TypeInv, NEW w \in Workers,
         NEW x \in Occupied \cup {IdleWorker},
         workers' = [workers EXCEPT ![w] = x],
         jobs' \in [Versions -> Job],
         docs' \in [Versions -> DocumentStatus \cup {"none"}],
         points' \in [Versions -> PointState],
         UNCHANGED <<deleters, crashes>>
  PROVE  TypeInv'
<1>1. x \in Worker /\ (x.phase # "idle" => x.job \in Versions)
  <2>1. CASE x \in Occupied
    BY <2>1 DEF Occupied
  <2>2. CASE x = IdleWorker
    BY <2>2, IdleTypes DEF IdleWorker
  <2>. QED BY <2>1, <2>2
<1>2. workers' \in [Workers -> Worker]
  BY <1>1 DEF TypeInv, TypeOK
<1>3. \A u \in Workers : workers'[u].phase # "idle" => workers'[u].job \in Versions
  BY <1>1 DEF TypeInv, TypeOK, Assigned
<1>. QED BY <1>2, <1>3 DEF TypeInv, TypeOK, Assigned, RegistryTypeOK, StoreTypeOK

\* A worker step keeps the types.
LEMMA TypeInvWorker ==
  ASSUME TypeInv, NEW w \in Workers, WorkerStep(w)
  PROVE  TypeInv'
<1>. DEFINE job == jobs[workers[w].job]
<1>1. /\ jobs \in [Versions -> Job]
      /\ docs \in [Versions -> DocumentStatus \cup {"none"}]
      /\ points \in [Versions -> PointState] /\ StoreTypeOK
      /\ workers \in [Workers -> Worker]
      /\ workers[w] \in Worker /\ workers[w].snap \in Job /\ workers[w].stage \in Stages
  BY DEF TypeInv, TypeOK, RegistryTypeOK, StoreTypeOK, Worker
<1>2. workers[w].phase # "idle" => /\ workers[w] \in Occupied
                                   /\ workers[w].job \in Versions
                                   /\ job \in Job
  BY <1>1 DEF TypeInv, Assigned, Occupied
<1>3. CASE ClaimNothing(w)
  BY <1>1, <1>3, TypeFrame DEF ClaimNothing, Return
<1>4. CASE ClaimSpent(w)
  <2>. DEFINE y == [workers[w] EXCEPT !.phase = "indexing", !.snap = job]
  <2>1. y \in Occupied
    BY <1>1, <1>2, <1>4, WorkerChanges DEF ClaimSpent, Phases
  <2>2. workers' = [workers EXCEPT ![w] = y]
    BY <1>1, <1>4 DEF ClaimSpent
  <2>. QED BY <1>1, <1>4, <2>1, <2>2, TypeFrame DEF ClaimSpent
<1>5. CASE Claim(w)
  <2>. DEFINE y == [workers[w] EXCEPT !.phase = "indexing", !.snap = Claimed(job)]
  <2>1. y \in Occupied
    BY <1>1, <1>2, <1>5, WorkerChanges, JobChanges DEF Claim, Phases
  <2>2. workers' = [workers EXCEPT ![w] = y]
    BY <1>1, <1>5 DEF Claim
  <2>3. jobs' \in [Versions -> Job]
    BY <1>1, <1>2, <1>5, JobChanges DEF Claim, UpdateJob
  <2>. QED BY <1>1, <1>5, <2>1, <2>2, <2>3, TypeFrame DEF Claim
<1>6. CASE MarkIndexing(w)
  <2>. DEFINE y == [workers[w] EXCEPT !.phase = "start"]
  <2>1. y \in Occupied
    BY <1>1, <1>2, <1>6, WorkerChanges DEF MarkIndexing, Phases
  <2>2. workers' = [workers EXCEPT ![w] = y]
    BY <1>1, <1>6 DEF MarkIndexing, GoTo
  <2>3. docs' \in [Versions -> DocumentStatus \cup {"none"}]
    BY <1>1, <1>2, <1>6 DEF MarkIndexing, SetDocumentStatus, DocumentStatus
  <2>. QED BY <1>1, <1>6, <2>1, <2>2, <2>3, TypeFrame DEF MarkIndexing
<1>7. CASE SaveStart(w)
  <2>. DEFINE y == [workers[w] EXCEPT !.phase = "work", !.stage = "validate", !.snap = Stored]
  <2>1. y \in Occupied
    BY <1>1, <1>2, <1>7, WorkerChanges, IdleTypes DEF SaveStart, Phases, Stored, Stages
  <2>2. workers' = [workers EXCEPT ![w] = y]
    BY <1>1, <1>7 DEF SaveStart
  <2>3. jobs' \in [Versions -> Job]
    BY <1>1, <1>2, <1>7, JobChanges DEF SaveStart, UpdateJob, JobStatus
  <2>. QED BY <1>1, <1>7, <2>1, <2>2, <2>3, TypeFrame DEF SaveStart
<1>8. CASE Publish(w)
  <2>. DEFINE y == [workers[w] EXCEPT !.phase = "refresh"]
  <2>1. y \in Occupied
    BY <1>1, <1>2, <1>8, WorkerChanges DEF Publish, Phases
  <2>2. workers' = [workers EXCEPT ![w] = y]
    BY <1>1, <1>8 DEF Publish, GoTo
  <2>3. docs' \in [Versions -> DocumentStatus \cup {"none"}]
    BY <1>1, <1>2, <1>8 DEF Publish, SetDocumentStatus, DocumentStatus
  <2>. QED BY <1>1, <1>8, <2>1, <2>2, <2>3, TypeFrame DEF Publish
<1>9. CASE Refresh(w)
  <2>. DEFINE y == [workers[w] EXCEPT !.snap = job,
             !.phase = IF workers[w].stage = "activate" THEN "succeed" ELSE "save"]
  <2>1. y \in Occupied
    BY <1>1, <1>2, <1>9, WorkerChanges DEF Refresh, Phases
  <2>2. workers' = [workers EXCEPT ![w] = y]
    BY <1>1, <1>9 DEF Refresh
  <2>. QED BY <1>1, <1>9, <2>1, <2>2, TypeFrame DEF Refresh
<1>10. CASE SaveProgress(w)
  <2>. DEFINE y == [workers[w] EXCEPT !.phase = "work", !.snap = Stored,
             !.stage = NextStage(workers[w].stage)]
  <2>1. y \in Occupied
    BY <1>1, <1>2, <1>10, WorkerChanges, IdleTypes DEF SaveProgress, Phases, Stored
  <2>2. workers' = [workers EXCEPT ![w] = y]
    BY <1>1, <1>10 DEF SaveProgress
  <2>3. jobs' \in [Versions -> Job]
    BY <1>1, <1>2, <1>10, JobChanges DEF SaveProgress, UpdateJob, JobStatus
  <2>. QED BY <1>1, <1>10, <2>1, <2>2, <2>3, TypeFrame DEF SaveProgress
<1>11. CASE RecordError(w)
  <2>. DEFINE y == [workers[w] EXCEPT !.phase = "reread"]
  <2>1. y \in Occupied
    BY <1>1, <1>2, <1>11, WorkerChanges DEF RecordError, Phases
  <2>2. workers' = [workers EXCEPT ![w] = y]
    BY <1>1, <1>11 DEF RecordError, GoTo
  <2>3. jobs' \in [Versions -> Job]
    BY <1>1, <1>2, <1>11, JobChanges DEF RecordError, RecordFailure
  <2>. QED BY <1>1, <1>11, <2>1, <2>2, <2>3, TypeFrame DEF RecordError
<1>12. CASE Reread(w)
  <2>. DEFINE y == [workers[w] EXCEPT !.snap = job,
             !.phase = IF workers[w].staged THEN "discard" ELSE "mark"]
  <2>1. y \in Occupied
    BY <1>1, <1>2, <1>12, WorkerChanges DEF Reread, Phases
  <2>2. workers' = [workers EXCEPT ![w] = y]
    BY <1>1, <1>12 DEF Reread
  <2>. QED BY <1>1, <1>12, <2>1, <2>2, TypeFrame DEF Reread
<1>13. CASE MarkFailed(w)
  <2>. DEFINE y == [workers[w] EXCEPT !.phase = "save_failed"]
  <2>1. y \in Occupied
    BY <1>1, <1>2, <1>13, WorkerChanges DEF MarkFailed, Phases
  <2>2. workers' = [workers EXCEPT ![w] = y]
    BY <1>1, <1>13 DEF MarkFailed, GoTo
  <2>3. docs' \in [Versions -> DocumentStatus \cup {"none"}]
    BY <1>1, <1>2, <1>13 DEF MarkFailed, SetDocumentStatus, DocumentStatus
  <2>. QED BY <1>1, <1>13, <2>1, <2>2, <2>3, TypeFrame DEF MarkFailed
<1>14. CASE SaveFailed(w)
  <2>. DEFINE y == [workers[w] EXCEPT !.phase = "schedule",
             !.snap = [workers[w].snap EXCEPT !.status = "failed", !.error = TRUE]]
  <2>1. y \in Occupied
    BY <1>1, <1>2, <1>14, WorkerChanges, JobChanges DEF SaveFailed, Phases
  <2>2. workers' = [workers EXCEPT ![w] = y]
    BY <1>1, <1>14 DEF SaveFailed
  <2>3. jobs' \in [Versions -> Job]
    BY <1>1, <1>2, <1>14, JobChanges DEF SaveFailed, UpdateJob
  <2>. QED BY <1>1, <1>14, <2>1, <2>2, <2>3, TypeFrame DEF SaveFailed
<1>15. CASE Succeed(w)
  <2>1. jobs' \in [Versions -> Job]
    BY <1>1, <1>2, <1>15, JobChanges DEF Succeed, UpdateJob, JobStatus
  <2>. QED BY <1>1, <1>15, <2>1, TypeFrame DEF Succeed, Return
<1>16. CASE Schedule(w)
  <2>1. jobs' \in [Versions -> Job]
    BY <1>1, <1>2, <1>16, JobChanges DEF Schedule, UpdateJob
  <2>. QED BY <1>1, <1>16, <2>1, TypeFrame DEF Schedule, Return
<1>17. CASE ShowVersion(w)
  <2>1. points' \in [Versions -> PointState]
    BY <1>1, <1>2, <1>17, StoreTypes DEF ShowVersion, Request
  <2>2. CASE GoTo(w, "hide")
    <3>. DEFINE y == [workers[w] EXCEPT !.phase = "hide"]
    <3>1. y \in Occupied
      BY <1>1, <1>2, <1>17, WorkerChanges DEF ShowVersion, Phases
    <3>. QED BY <1>1, <1>17, <2>1, <2>2, <3>1, TypeFrame DEF ShowVersion, GoTo
  <2>3. CASE Raise(w, TRUE)
    <3>. DEFINE y == [workers[w] EXCEPT !.phase = "failed", !.retryable = TRUE]
    <3>1. y \in Occupied
      BY <1>1, <1>2, <1>17, WorkerChanges DEF ShowVersion, Phases
    <3>. QED BY <1>1, <1>17, <2>1, <2>3, <3>1, TypeFrame DEF ShowVersion, Raise
  <2>. QED BY <1>17, <2>2, <2>3 DEF ShowVersion, Request
<1>18. CASE HideOthers(w)
  <2>1. points' \in [Versions -> PointState]
    BY <1>1, <1>2, <1>18, StoreTypes DEF HideOthers, Request
  <2>2. CASE GoTo(w, "publish")
    <3>. DEFINE y == [workers[w] EXCEPT !.phase = "publish"]
    <3>1. y \in Occupied
      BY <1>1, <1>2, <1>18, WorkerChanges DEF HideOthers, Phases
    <3>. QED BY <1>1, <1>18, <2>1, <2>2, <3>1, TypeFrame DEF HideOthers, GoTo
  <2>3. CASE Raise(w, TRUE)
    <3>. DEFINE y == [workers[w] EXCEPT !.phase = "failed", !.retryable = TRUE]
    <3>1. y \in Occupied
      BY <1>1, <1>2, <1>18, WorkerChanges DEF HideOthers, Phases
    <3>. QED BY <1>1, <1>18, <2>1, <2>3, <3>1, TypeFrame DEF HideOthers, Raise
  <2>. QED BY <1>18, <2>2, <2>3 DEF HideOthers, Request
<1>19. CASE DiscardVersion(w)
  <2>1. points' \in [Versions -> PointState]
    BY <1>1, <1>2, <1>19, StoreTypes DEF DiscardVersion, Request
  <2>2. CASE GoTo(w, "mark")
    <3>. DEFINE y == [workers[w] EXCEPT !.phase = "mark"]
    <3>1. y \in Occupied
      BY <1>1, <1>2, <1>19, WorkerChanges DEF DiscardVersion, Phases
    <3>. QED BY <1>1, <1>19, <2>1, <2>2, <3>1, TypeFrame DEF DiscardVersion, GoTo
  <2>3. CASE Return(w)
    BY <1>1, <1>19, <2>1, <2>3, TypeFrame DEF DiscardVersion, Return
  <2>. QED BY <1>19, <2>2, <2>3 DEF DiscardVersion, Request
<1>20. CASE StageVersion(w)
  <2>1. points' \in [Versions -> PointState]
    BY <1>1, <1>2, <1>20, StoreTypes DEF StageVersion, Request
  <2>2. CASE WorkDone(w, TRUE)
    <3>. DEFINE y == [workers[w] EXCEPT !.phase = "refresh", !.staged = TRUE]
    <3>1. y \in Occupied
      BY <1>1, <1>2, <1>20, WorkerChanges DEF StageVersion, Phases
    <3>. QED BY <1>1, <1>20, <2>1, <2>2, <3>1, TypeFrame DEF StageVersion, WorkDone, HasProgress
  <2>3. CASE Raise(w, TRUE)
    <3>. DEFINE y == [workers[w] EXCEPT !.phase = "failed", !.retryable = TRUE]
    <3>1. y \in Occupied
      BY <1>1, <1>2, <1>20, WorkerChanges DEF StageVersion, Phases
    <3>. QED BY <1>1, <1>20, <2>1, <2>3, <3>1, TypeFrame DEF StageVersion, Raise
  <2>. QED BY <1>20, <2>2, <2>3 DEF StageVersion, Request
<1>21. CASE VerifyVersion(w)
  <2>1. CASE WorkDone(w, TRUE)
    <3>. DEFINE y == [workers[w] EXCEPT !.phase = "refresh", !.staged = TRUE]
    <3>1. y \in Occupied
      BY <1>1, <1>2, <1>21, WorkerChanges DEF VerifyVersion, Phases
    <3>. QED BY <1>1, <1>21, <2>1, <3>1, TypeFrame DEF VerifyVersion, WorkDone, HasProgress
  <2>2. CASE Raise(w, TRUE)
    <3>. DEFINE y == [workers[w] EXCEPT !.phase = "failed", !.retryable = TRUE]
    <3>1. y \in Occupied
      BY <1>1, <1>2, <1>21, WorkerChanges DEF VerifyVersion, Phases
    <3>. QED BY <1>1, <1>21, <2>2, <3>1, TypeFrame DEF VerifyVersion, Raise
  <2>. QED BY <1>21, <2>1, <2>2 DEF VerifyVersion
<1>22. CASE LocalWork(w)
  <2>1. CASE WorkDone(w, FALSE)
    <3>. DEFINE y == IF HasProgress(workers[w].stage)
                     THEN [workers[w] EXCEPT !.phase = "refresh", !.staged = FALSE]
                     ELSE [workers[w] EXCEPT !.stage = NextStage(workers[w].stage)]
    <3>1. y \in Occupied
      BY <1>1, <1>2, <1>22, WorkerChanges, IdleTypes DEF LocalWork, Phases
    <3>2. workers' = [workers EXCEPT ![w] = y]
      BY <2>1 DEF WorkDone
    <3>. QED BY <1>1, <1>22, <3>1, <3>2, TypeFrame DEF LocalWork
  <2>2. ASSUME NEW r \in BOOLEAN, Raise(w, r) PROVE TypeInv'
    <3>. DEFINE y == [workers[w] EXCEPT !.phase = "failed", !.retryable = r]
    <3>1. y \in Occupied
      BY <1>1, <1>2, <1>22, WorkerChanges DEF LocalWork, Phases
    <3>. QED BY <1>1, <1>22, <2>2, <3>1, TypeFrame DEF LocalWork, Raise
  <2>. QED BY <1>22, <2>1, <2>2 DEF LocalWork
<1>. QED BY <1>3, <1>4, <1>5, <1>6, <1>7, <1>8, <1>9, <1>10, <1>11, <1>12, <1>13, <1>14,
            <1>15, <1>16, <1>17, <1>18, <1>19, <1>20, <1>21, <1>22
         DEF WorkerStep

\* The frame of a step that changes no worker.
LEMMA TypeFrameOthers ==
  ASSUME TypeInv, UNCHANGED workers,
         jobs' \in [Versions -> Job],
         docs' \in [Versions -> DocumentStatus \cup {"none"}],
         points' \in [Versions -> PointState],
         deleters' \in [Deleters -> Deleter],
         \A r \in Deleters : deleters'[r].phase # "idle" => deleters'[r].doc \in Docs,
         UNCHANGED crashes
  PROVE  TypeInv'
BY DEF TypeInv, TypeOK, Assigned, RegistryTypeOK, StoreTypeOK

\* What acceptance does to the registry.
LEMMA TypeAccept ==
  ASSUME TypeInv, NEW v \in Versions, AcceptNew(v)
  PROVE  /\ jobs' \in [Versions -> Job]
         /\ docs' \in [Versions -> DocumentStatus \cup {"none"}]
<1>1. [NoJob EXCEPT !.status = "queued"] \in Job
  BY IdleTypes, JobChanges DEF JobStatus
<1>. QED BY <1>1 DEF TypeInv, TypeOK, RegistryTypeOK, AcceptNew, DocumentStatus

\* An upload keeps the types.
LEMMA TypeInvUpload ==
  ASSUME TypeInv, NEW v \in Versions, Upload(v)
  PROVE  TypeInv'
BY TypeAccept, TypeFrameOthers
   DEF Upload, TypeInv, TypeOK, RegistryTypeOK, StoreTypeOK, Assigned

\* A run that is started, by an upload or by the poller, has a job.
LEMMA TypeInvTaken ==
  ASSUME TypeInv, NEW v \in Versions, NEW w \in Workers,
         UploadAndRun(v, w) \/ Poll(w, v)
  PROVE  TypeInv'
<1>1. /\ jobs \in [Versions -> Job]
      /\ docs \in [Versions -> DocumentStatus \cup {"none"}]
      /\ points \in [Versions -> PointState]
  BY DEF TypeInv, TypeOK, RegistryTypeOK, StoreTypeOK
<1>2. [IdleWorker EXCEPT !.phase = "claim", !.job = v] \in Occupied
  BY IdleTypes
<1>3. CASE UploadAndRun(v, w)
  <2>1. CASE AcceptNew(v)
    BY <1>1, <1>2, <1>3, <2>1, TypeAccept, TypeFrame DEF UploadAndRun, Take
  <2>2. CASE UNCHANGED <<jobs, docs>>
    BY <1>1, <1>2, <1>3, <2>2, TypeFrame DEF UploadAndRun, Take
  <2>. QED BY <1>3, <2>1, <2>2 DEF UploadAndRun
<1>4. CASE Poll(w, v)
  BY <1>1, <1>2, <1>4, TypeFrame DEF Poll, Take
<1>. QED BY <1>3, <1>4

\* DELETE requests keep the types.
LEMMA TypeInvDeleter ==
  ASSUME TypeInv, NEW r \in Deleters,
         DeleterStep(r) \/ \E d \in Docs : DeleteRequest(r, d)
  PROVE  TypeInv'
<1>1. /\ jobs \in [Versions -> Job]
      /\ docs \in [Versions -> DocumentStatus \cup {"none"}]
      /\ points \in [Versions -> PointState] /\ StoreTypeOK
      /\ deleters \in [Deleters -> Deleter]
      /\ \A q \in Deleters : deleters[q].phase # "idle" => deleters[q].doc \in Docs
  BY DEF TypeInv, TypeOK, RegistryTypeOK, StoreTypeOK, Assigned
<1>2. ASSUME EndRequest(r)
      PROVE  /\ deleters' \in [Deleters -> Deleter]
             /\ \A q \in Deleters : deleters'[q].phase # "idle" => deleters'[q].doc \in Docs
  BY <1>1, <1>2, IdleTypes DEF EndRequest, IdleDeleter
<1>3. ASSUME NEW d \in Docs, DeleteRequest(r, d) PROVE TypeInv'
  <2>1. [phase |-> "vectors", doc |-> d] \in Deleter
    BY DEF Deleter
  <2>. QED BY <1>1, <1>3, <2>1, TypeFrameOthers DEF DeleteRequest
<1>4. CASE DeleteVectors(r)
  <2>1. deleters[r].doc \in Docs /\ deleters[r] \in Deleter
    BY <1>1, <1>4 DEF DeleteVectors
  <2>2. points' \in [Versions -> PointState]
    BY <1>1, <1>4, <2>1, StoreTypes DEF DeleteVectors, Request
  <2>3. CASE deleters' = [deleters EXCEPT ![r].phase = "registry"]
    <3>1. [deleters[r] EXCEPT !.phase = "registry"] \in Deleter
      BY <2>1 DEF Deleter
    <3>2. [deleters[r] EXCEPT !.phase = "registry"].doc = deleters[r].doc
      BY <2>1 DEF Deleter
    <3>3. deleters' = [deleters EXCEPT ![r] = [deleters[r] EXCEPT !.phase = "registry"]]
      BY <1>1, <2>3
    <3>. QED BY <1>1, <1>4, <2>1, <2>2, <3>1, <3>2, <3>3, TypeFrameOthers DEF DeleteVectors
  <2>4. CASE EndRequest(r)
    BY <1>1, <1>2, <1>4, <2>2, <2>4, TypeFrameOthers DEF DeleteVectors
  <2>. QED BY <1>4, <2>3, <2>4 DEF DeleteVectors, Request
<1>5. CASE DeleteRegistry(r)
  <2>1. docs' \in [Versions -> DocumentStatus \cup {"none"}]
    BY <1>1, <1>5 DEF DeleteRegistry, DeleteRows, DocumentStatus
  <2>. QED BY <1>1, <1>2, <1>5, <2>1, TypeFrameOthers DEF DeleteRegistry
<1>. QED BY <1>3, <1>4, <1>5 DEF DeleterStep

\* Crashes and the clock keep the types.
LEMMA TypeInvEnvironment ==
  ASSUME TypeInv, (\E w \in Workers : WorkerCrash(w)) \/ ApiCrash \/ Tick
  PROVE  TypeInv'
<1>1. /\ jobs \in [Versions -> Job]
      /\ workers \in [Workers -> Worker]
      /\ crashes \in 0 .. MaxCrashes /\ MaxCrashes \in Nat
      /\ \A u \in Workers : workers[u].phase # "idle" => workers[u].job \in Versions
  BY PipelineAssumption DEF TypeInv, TypeOK, RegistryTypeOK, Assigned
<1>2. IdleWorker.phase = "idle" /\ IdleDeleter.phase = "idle"
  BY DEF IdleWorker, IdleDeleter
<1>3. ASSUME NEW w \in Workers, WorkerCrash(w) PROVE TypeInv'
  <2>1. crashes' \in 0 .. MaxCrashes
    BY <1>1, <1>3 DEF WorkerCrash
  <2>2. /\ workers' \in [Workers -> Worker]
        /\ \A u \in Workers : workers'[u].phase # "idle" => workers'[u].job \in Versions
    BY <1>1, <1>2, <1>3, IdleTypes DEF WorkerCrash, Return
  <2>. QED BY <1>3, <2>1, <2>2
           DEF WorkerCrash, TypeInv, TypeOK, Assigned, RegistryTypeOK, StoreTypeOK
<1>4. CASE ApiCrash
  <2>1. crashes' \in 0 .. MaxCrashes
    BY <1>1, <1>4 DEF ApiCrash
  <2>2. /\ workers' \in [Workers -> Worker]
        /\ \A u \in Workers : workers'[u].phase # "idle" => workers'[u].job \in Versions
    BY <1>1, <1>2, <1>4, IdleTypes DEF ApiCrash
  <2>3. /\ deleters' \in [Deleters -> Deleter]
        /\ \A r \in Deleters : deleters'[r].phase # "idle" => deleters'[r].doc \in Docs
    BY <1>2, <1>4, IdleTypes DEF ApiCrash
  <2>. QED BY <1>4, <2>1, <2>2, <2>3
           DEF ApiCrash, TypeInv, TypeOK, Assigned, RegistryTypeOK, StoreTypeOK
<1>5. CASE Tick
  <2>1. jobs' \in [Versions -> Job]
    BY <1>1, <1>5, JobChanges DEF Tick
  <2>2. ASSUME NEW u \in Workers
        PROVE  /\ workers'[u] \in Worker
               /\ workers'[u].phase # "idle" => workers'[u].job \in Versions
    <3>1. workers[u] \in Worker /\ workers[u].snap \in Job
      BY <1>1 DEF Worker
    <3>2. PICK j \in Job : workers'[u] = [workers[u] EXCEPT !.snap = j]
      BY <1>5, <3>1, JobChanges DEF Tick
    <3>. QED BY <1>1, <3>1, <3>2 DEF Worker
  <2>3. workers' \in [Workers -> Worker]
    BY <1>5, <2>2 DEF Tick
  <2>. QED BY <1>5, <2>1, <2>2, <2>3
           DEF Tick, TypeInv, TypeOK, Assigned, RegistryTypeOK, StoreTypeOK
<1>. QED BY <1>3, <1>4, <1>5

\* Every action keeps the types.
LEMMA TypeInvNext == TypeInv /\ [Next]_vars => TypeInv'
<1>. SUFFICES ASSUME TypeInv, [Next]_vars PROVE TypeInv'
  OBVIOUS
<1>1. CASE Next
  <2>1. CASE \E v \in Versions : Upload(v)
    BY <2>1, TypeInvUpload
  <2>2. CASE \E v \in Versions, w \in Workers : UploadAndRun(v, w) \/ Poll(w, v)
    BY <2>2, TypeInvTaken
  <2>3. CASE \E w \in Workers : WorkerStep(w)
    BY <2>3, TypeInvWorker
  <2>4. CASE \E r \in Deleters : DeleterStep(r) \/ \E d \in Docs : DeleteRequest(r, d)
    BY <2>4, TypeInvDeleter
  <2>5. CASE (\E w \in Workers : WorkerCrash(w)) \/ ApiCrash \/ Tick
    BY <2>5, TypeInvEnvironment
  <2>. QED BY <1>1, <2>1, <2>2, <2>3, <2>4, <2>5 DEF Next
<1>2. CASE UNCHANGED vars
  BY <1>2 DEF vars, TypeInv, TypeOK, Assigned, RegistryTypeOK, StoreTypeOK
<1>. QED BY <1>1, <1>2

\* The invariant behind TypeCorrect.
THEOREM TypesAssigned == Spec => []TypeInv
BY TypeInvInit, TypeInvNext, PTL DEF Spec

\* In every deployment, whatever fails, the rows, the collection and the
\* locals of runs and requests hold values of their types; in particular no
\* job is started more than MaxAttempts times and no retry waits longer than
\* BackoffCap.
THEOREM TypeCorrect == Spec => []TypeOK
<1>1. TypeInv => TypeOK
  BY DEF TypeInv
<1>. QED BY <1>1, TypesAssigned, PTL

-----------------------------------------------------------------------------
(* One poller *)

\* The deployment of compose.yaml: no embedded worker, one worker container.
SinglePoller == ~Embedded /\ \A u, w \in Workers : u = w

\* Phases in which the run holds a copy that it is still to write.
CopyPhases == {"indexing", "start", "save", "succeed", "discard", "mark",
               "save_failed", "schedule"}

\* Phases of a run that has met no error.
CleanPhases == {"indexing", "start", "work", "hide", "publish", "refresh", "save",
                "succeed"}

\* What a run with the locals x has established about the row j of its job.
OwnsRow(x, j) ==
  /\ x.snap = IF x.phase \in CopyPhases THEN j ELSE NoJob
  /\ x.phase = "claim" => /\ j.attempts < MaxAttempts
                          /\ j.status \in {"queued", "running", "failed"}
  /\ x.phase \notin {"idle", "claim"} =>
       /\ j.status = IF x.phase = "schedule" THEN "failed" ELSE "running"
       /\ j.attempts > 0
  /\ x.phase \in CleanPhases => ~j.error /\ j.wait = 0 /\ (j.failedStage => j.attempts > 1)

\* What holds of any row.
RowOK(j) ==
  /\ j.status = "none" => j = NoJob
  /\ j.failedStage => j.attempts > 0
  /\ j.status = "succeeded" => ~j.error /\ j.wait = 0 /\ (j.failedStage => j.attempts > 1)

OwnInv ==
  /\ \A w \in Workers : OwnsRow(workers[w], jobs[workers[w].job])
  /\ \A v \in Versions : RowOK(jobs[v])

\* Before any job there is nothing to own.
LEMMA OwnInvInit == Init => OwnInv
<1>. SUFFICES ASSUME Init PROVE OwnInv
  OBVIOUS
<1>1. \A w \in Workers : OwnsRow(workers[w], jobs[workers[w].job])
  BY DEF Init, OwnsRow, IdleWorker, CopyPhases, CleanPhases
<1>2. \A v \in Versions : RowOK(jobs[v])
  BY DEF Init, RegistryInit, RowOK, NoJob
<1>. QED BY <1>1, <1>2 DEF OwnInv

\* An idle run has established nothing.
LEMMA IdleOwnsNothing == \A j : OwnsRow(IdleWorker, j)
BY DEF OwnsRow, IdleWorker, CopyPhases, CleanPhases

\* The frame of a step of the one run, which leaves it with the locals x.
LEMMA OwnFrame ==
  ASSUME SinglePoller, NEW w \in Workers, workers \in [Workers -> Worker],
         NEW x, workers' = [workers EXCEPT ![w] = x],
         OwnsRow(x, jobs'[x.job]),
         \A v \in Versions : RowOK(jobs'[v])
  PROVE  OwnInv'
<1>1. \A u \in Workers : workers'[u] = x
  BY DEF SinglePoller
<1>. QED BY <1>1 DEF OwnInv

\* The same when the step only reads the registry ...
LEMMA OwnRead ==
  ASSUME SinglePoller, TypeInv, OwnInv, NEW w \in Workers, UNCHANGED jobs,
         NEW x, x.job = workers[w].job,
         workers' = [workers EXCEPT ![w] = x],
         OwnsRow(x, jobs[workers[w].job])
  PROVE  OwnInv'
BY OwnFrame DEF OwnInv, TypeInv, TypeOK

\* ... and when it writes k over the row of its job.
LEMMA OwnWrite ==
  ASSUME SinglePoller, TypeInv, OwnInv, NEW w \in Workers, workers[w].job \in Versions,
         NEW k, UpdateJob(workers[w].job, k), RowOK(k),
         NEW x, x.job = workers[w].job,
         workers' = [workers EXCEPT ![w] = x],
         OwnsRow(x, k)
  PROVE  OwnInv'
<1>1. jobs \in [Versions -> Job] /\ workers \in [Workers -> Worker]
  BY DEF TypeInv, TypeOK, RegistryTypeOK
<1>2. jobs'[x.job] = k /\ \A v \in Versions : RowOK(jobs'[v])
  BY <1>1 DEF OwnInv, UpdateJob
<1>. QED BY <1>1, <1>2, OwnFrame

\* A run that ends leaves any legal row behind.
LEMMA OwnReturn ==
  ASSUME SinglePoller, TypeInv, NEW w \in Workers, Return(w),
         \A v \in Versions : RowOK(jobs'[v])
  PROVE  OwnInv'
BY OwnFrame, IdleOwnsNothing DEF Return, TypeInv, TypeOK

\* A step of the one run keeps what it has established about its row.
LEMMA OwnInvWorker ==
  ASSUME SinglePoller, TypeInv, OwnInv, NEW w \in Workers, WorkerStep(w)
  PROVE  OwnInv'
<1>. DEFINE x == workers[w]
            job == jobs[x.job]
<1>1. jobs \in [Versions -> Job] /\ workers \in [Workers -> Worker] /\ x \in Worker
  BY DEF TypeInv, TypeOK, RegistryTypeOK
<1>2. OwnsRow(x, job) /\ \A v \in Versions : RowOK(jobs[v])
  BY DEF OwnInv
<1>3. x.phase # "idle" => x \in Occupied /\ x.job \in Versions /\ job \in Job
  BY <1>1 DEF TypeInv, Assigned, Occupied
<1>4. CASE ClaimNothing(w)
  BY <1>2, <1>4, OwnReturn DEF ClaimNothing
<1>5. CASE ClaimSpent(w)
  \* impossible: the poller lists no exhausted job
  BY <1>2, <1>3, <1>5, NumAssumption DEF ClaimSpent, ClaimExhausted, OwnsRow, Job
<1>6. CASE Claim(w)
  <2>. DEFINE y == [x EXCEPT !.phase = "indexing", !.snap = Claimed(job)]
              k == Claimed(job)
  <2>1. y.job = x.job
    BY <1>1 DEF Worker
  <2>2. OwnsRow(y, k) /\ RowOK(k)
    BY <1>1, <1>2, <1>3, <1>6
    DEF Claim, OwnsRow, RowOK, Worker, Job, CopyPhases, CleanPhases, Claimed
  <2>3. workers' = [workers EXCEPT ![w] = y] /\ UpdateJob(x.job, k)
    BY <1>1, <1>2, <1>3, <1>6 DEF Claim, Claimed, OwnsRow, CopyPhases, Job, UpdateJob
  <2>. QED BY <1>3, <1>6, <2>1, <2>2, <2>3, OwnWrite DEF Claim
<1>7. CASE MarkIndexing(w)
  <2>. DEFINE y == [x EXCEPT !.phase = "start"]
  <2>1. y.job = x.job
    BY <1>1 DEF Worker
  <2>2. OwnsRow(y, job)
    BY <1>1, <1>2, <1>3, <1>7 DEF MarkIndexing, OwnsRow, Worker, CopyPhases, CleanPhases
  <2>3. workers' = [workers EXCEPT ![w] = y]
    BY <1>1, <1>2, <1>3, <1>7 DEF MarkIndexing, GoTo
  <2>. QED BY <1>3, <1>7, <2>1, <2>2, <2>3, OwnRead DEF MarkIndexing
<1>8. CASE SaveStart(w)
  <2>. DEFINE y == [x EXCEPT !.phase = "work", !.stage = "validate", !.snap = Stored]
              k == [x.snap EXCEPT !.status = "running"]
  <2>1. y.job = x.job
    BY <1>1 DEF Worker
  <2>2. OwnsRow(y, k) /\ RowOK(k)
    BY <1>1, <1>2, <1>3, <1>8
    DEF SaveStart, OwnsRow, RowOK, Worker, Job, CopyPhases, CleanPhases, Stored
  <2>3. workers' = [workers EXCEPT ![w] = y] /\ UpdateJob(x.job, k)
    BY <1>1, <1>2, <1>3, <1>8 DEF SaveStart, Stored, OwnsRow, CopyPhases, Job, UpdateJob
  <2>. QED BY <1>3, <1>8, <2>1, <2>2, <2>3, OwnWrite DEF SaveStart
<1>9. CASE Publish(w)
  <2>. DEFINE y == [x EXCEPT !.phase = "refresh"]
  <2>1. y.job = x.job
    BY <1>1 DEF Worker
  <2>2. OwnsRow(y, job)
    BY <1>1, <1>2, <1>3, <1>9 DEF Publish, OwnsRow, Worker, CopyPhases, CleanPhases
  <2>3. workers' = [workers EXCEPT ![w] = y]
    BY <1>1, <1>2, <1>3, <1>9 DEF Publish, GoTo
  <2>. QED BY <1>3, <1>9, <2>1, <2>2, <2>3, OwnRead DEF Publish
<1>10. CASE Refresh(w)
  <2>. DEFINE y == [x EXCEPT !.snap = job,
                             !.phase = IF x.stage = "activate" THEN "succeed" ELSE "save"]
  <2>1. y.job = x.job
    BY <1>1 DEF Worker
  <2>2. OwnsRow(y, job)
    BY <1>1, <1>2, <1>3, <1>10 DEF Refresh, OwnsRow, Worker, CopyPhases, CleanPhases
  <2>3. workers' = [workers EXCEPT ![w] = y]
    BY <1>1, <1>2, <1>3, <1>10 DEF Refresh
  <2>. QED BY <1>3, <1>10, <2>1, <2>2, <2>3, OwnRead DEF Refresh
<1>11. CASE SaveProgress(w)
  <2>. DEFINE y == [x EXCEPT !.phase = "work", !.snap = Stored, !.stage = NextStage(x.stage)]
              k == [x.snap EXCEPT !.status = "running"]
  <2>1. y.job = x.job
    BY <1>1 DEF Worker
  <2>2. OwnsRow(y, k) /\ RowOK(k)
    BY <1>1, <1>2, <1>3, <1>11
    DEF SaveProgress, OwnsRow, RowOK, Worker, Job, CopyPhases, CleanPhases, Stored
  <2>3. workers' = [workers EXCEPT ![w] = y] /\ UpdateJob(x.job, k)
    BY <1>1, <1>2, <1>3, <1>11 DEF SaveProgress, Stored, OwnsRow, CopyPhases, Job, UpdateJob
  <2>. QED BY <1>3, <1>11, <2>1, <2>2, <2>3, OwnWrite DEF SaveProgress
<1>12. CASE RecordError(w)
  <2>. DEFINE y == [x EXCEPT !.phase = "reread"]
              k == [job EXCEPT !.error = TRUE, !.failedStage = TRUE]
  <2>1. y.job = x.job
    BY <1>1 DEF Worker
  <2>2. OwnsRow(y, k) /\ RowOK(k)
    BY <1>1, <1>2, <1>3, <1>12
    DEF RecordError, OwnsRow, RowOK, Worker, Job, CopyPhases, CleanPhases, GoTo
  <2>3. workers' = [workers EXCEPT ![w] = y] /\ UpdateJob(x.job, k)
    BY <1>1, <1>2, <1>3, <1>12
    DEF RecordError, GoTo, OwnsRow, CopyPhases, Job, UpdateJob, RecordFailure
  <2>. QED BY <1>3, <1>12, <2>1, <2>2, <2>3, OwnWrite DEF RecordError
<1>13. CASE Reread(w)
  <2>. DEFINE y == [x EXCEPT !.snap = job, !.phase = IF x.staged THEN "discard" ELSE "mark"]
  <2>1. y.job = x.job
    BY <1>1 DEF Worker
  <2>2. OwnsRow(y, job)
    BY <1>1, <1>2, <1>3, <1>13 DEF Reread, OwnsRow, Worker, CopyPhases, CleanPhases
  <2>3. workers' = [workers EXCEPT ![w] = y]
    BY <1>1, <1>2, <1>3, <1>13 DEF Reread
  <2>. QED BY <1>3, <1>13, <2>1, <2>2, <2>3, OwnRead DEF Reread
<1>14. CASE MarkFailed(w)
  <2>. DEFINE y == [x EXCEPT !.phase = "save_failed"]
  <2>1. y.job = x.job
    BY <1>1 DEF Worker
  <2>2. OwnsRow(y, job)
    BY <1>1, <1>2, <1>3, <1>14 DEF MarkFailed, OwnsRow, Worker, CopyPhases, CleanPhases
  <2>3. workers' = [workers EXCEPT ![w] = y]
    BY <1>1, <1>2, <1>3, <1>14 DEF MarkFailed, GoTo
  <2>. QED BY <1>3, <1>14, <2>1, <2>2, <2>3, OwnRead DEF MarkFailed
<1>15. CASE SaveFailed(w)
  <2>. DEFINE y == [x EXCEPT !.phase = "schedule",
                             !.snap = [x.snap EXCEPT !.status = "failed", !.error = TRUE]]
              k == [x.snap EXCEPT !.status = "failed", !.error = TRUE]
  <2>1. y.job = x.job
    BY <1>1 DEF Worker
  <2>2. OwnsRow(y, k) /\ RowOK(k)
    BY <1>1, <1>2, <1>3, <1>15
    DEF SaveFailed, OwnsRow, RowOK, Worker, Job, CopyPhases, CleanPhases, Stored
  <2>3. workers' = [workers EXCEPT ![w] = y] /\ UpdateJob(x.job, k)
    BY <1>1, <1>2, <1>3, <1>15 DEF SaveFailed, OwnsRow, CopyPhases, Job, UpdateJob
  <2>. QED BY <1>3, <1>15, <2>1, <2>2, <2>3, OwnWrite DEF SaveFailed
<1>16. CASE Succeed(w)
  <2>1. RowOK([x.snap EXCEPT !.status = "succeeded"])
    BY <1>2, <1>3, <1>16 DEF Succeed, OwnsRow, RowOK, Job, CopyPhases, CleanPhases
  <2>2. \A v \in Versions : RowOK(jobs'[v])
    BY <1>1, <1>2, <1>3, <1>16, <2>1 DEF Succeed, UpdateJob
  <2>. QED BY <1>16, <2>2, OwnReturn DEF Succeed
<1>17. CASE Schedule(w)
  <2>1. RowOK([x.snap EXCEPT !.wait = Delay(x.snap.attempts)])
        /\ RowOK([x.snap EXCEPT !.attempts = MaxAttempts, !.wait = 0])
    BY <1>2, <1>3, <1>17, NumAssumption DEF Schedule, OwnsRow, RowOK, Job, CopyPhases
  <2>2. \A v \in Versions : RowOK(jobs'[v])
    BY <1>1, <1>2, <1>3, <1>17, <2>1 DEF Schedule, UpdateJob
  <2>. QED BY <1>17, <2>2, OwnReturn DEF Schedule
<1>18. CASE ShowVersion(w)
  <2>1. CASE GoTo(w, "hide")
    <3>. DEFINE y == [x EXCEPT !.phase = "hide"]
    <3>1. y.job = x.job
      BY <1>1 DEF Worker
    <3>2. OwnsRow(y, job)
      BY <1>1, <1>2, <1>3, <1>18 DEF ShowVersion, OwnsRow, Worker, CopyPhases, CleanPhases
    <3>. QED BY <1>3, <1>18, <2>1, <3>1, <3>2, OwnRead DEF ShowVersion, GoTo
  <2>2. CASE Raise(w, TRUE)
    <3>. DEFINE y == [x EXCEPT !.phase = "failed", !.retryable = TRUE]
    <3>1. y.job = x.job
      BY <1>1 DEF Worker
    <3>2. OwnsRow(y, job)
      BY <1>1, <1>2, <1>3, <1>18 DEF ShowVersion, OwnsRow, Worker, CopyPhases, CleanPhases
    <3>. QED BY <1>3, <1>18, <2>2, <3>1, <3>2, OwnRead DEF ShowVersion, Raise
  <2>. QED BY <1>18, <2>1, <2>2 DEF ShowVersion, Request
<1>19. CASE HideOthers(w)
  <2>1. CASE GoTo(w, "publish")
    <3>. DEFINE y == [x EXCEPT !.phase = "publish"]
    <3>1. y.job = x.job
      BY <1>1 DEF Worker
    <3>2. OwnsRow(y, job)
      BY <1>1, <1>2, <1>3, <1>19 DEF HideOthers, OwnsRow, Worker, CopyPhases, CleanPhases
    <3>. QED BY <1>3, <1>19, <2>1, <3>1, <3>2, OwnRead DEF HideOthers, GoTo
  <2>2. CASE Raise(w, TRUE)
    <3>. DEFINE y == [x EXCEPT !.phase = "failed", !.retryable = TRUE]
    <3>1. y.job = x.job
      BY <1>1 DEF Worker
    <3>2. OwnsRow(y, job)
      BY <1>1, <1>2, <1>3, <1>19 DEF HideOthers, OwnsRow, Worker, CopyPhases, CleanPhases
    <3>. QED BY <1>3, <1>19, <2>2, <3>1, <3>2, OwnRead DEF HideOthers, Raise
  <2>. QED BY <1>19, <2>1, <2>2 DEF HideOthers, Request
<1>20. CASE DiscardVersion(w)
  <2>1. CASE GoTo(w, "mark")
    <3>. DEFINE y == [x EXCEPT !.phase = "mark"]
    <3>1. y.job = x.job
      BY <1>1 DEF Worker
    <3>2. OwnsRow(y, job)
      BY <1>1, <1>2, <1>3, <1>20 DEF DiscardVersion, OwnsRow, Worker, CopyPhases, CleanPhases
    <3>. QED BY <1>3, <1>20, <2>1, <3>1, <3>2, OwnRead DEF DiscardVersion, GoTo
  <2>2. CASE Return(w)
    BY <1>2, <1>20, <2>2, OwnReturn DEF DiscardVersion
  <2>. QED BY <1>20, <2>1, <2>2 DEF DiscardVersion, Request
<1>21. CASE StageVersion(w)
  <2>1. CASE WorkDone(w, TRUE)
    <3>. DEFINE y == [x EXCEPT !.phase = "refresh", !.staged = TRUE]
    <3>1. y.job = x.job
      BY <1>1 DEF Worker
    <3>2. OwnsRow(y, job)
      BY <1>1, <1>2, <1>3, <1>21 DEF StageVersion, OwnsRow, Worker, CopyPhases, CleanPhases
    <3>. QED BY <1>3, <1>21, <2>1, <3>1, <3>2, OwnRead DEF StageVersion, WorkDone, HasProgress
  <2>2. CASE Raise(w, TRUE)
    <3>. DEFINE y == [x EXCEPT !.phase = "failed", !.retryable = TRUE]
    <3>1. y.job = x.job
      BY <1>1 DEF Worker
    <3>2. OwnsRow(y, job)
      BY <1>1, <1>2, <1>3, <1>21 DEF StageVersion, OwnsRow, Worker, CopyPhases, CleanPhases
    <3>. QED BY <1>3, <1>21, <2>2, <3>1, <3>2, OwnRead DEF StageVersion, Raise
  <2>. QED BY <1>21, <2>1, <2>2 DEF StageVersion, Request
<1>22. CASE VerifyVersion(w)
  <2>1. CASE WorkDone(w, TRUE)
    <3>. DEFINE y == [x EXCEPT !.phase = "refresh", !.staged = TRUE]
    <3>1. y.job = x.job
      BY <1>1 DEF Worker
    <3>2. OwnsRow(y, job)
      BY <1>1, <1>2, <1>3, <1>22 DEF VerifyVersion, OwnsRow, Worker, CopyPhases, CleanPhases
    <3>. QED BY <1>3, <1>22, <2>1, <3>1, <3>2, OwnRead DEF VerifyVersion, WorkDone, HasProgress
  <2>2. CASE Raise(w, TRUE)
    <3>. DEFINE y == [x EXCEPT !.phase = "failed", !.retryable = TRUE]
    <3>1. y.job = x.job
      BY <1>1 DEF Worker
    <3>2. OwnsRow(y, job)
      BY <1>1, <1>2, <1>3, <1>22 DEF VerifyVersion, OwnsRow, Worker, CopyPhases, CleanPhases
    <3>. QED BY <1>3, <1>22, <2>2, <3>1, <3>2, OwnRead DEF VerifyVersion, Raise
  <2>. QED BY <1>22, <2>1, <2>2 DEF VerifyVersion, Request
<1>23. CASE LocalWork(w)
  <2>1. CASE WorkDone(w, FALSE)
    <3>. DEFINE y == IF HasProgress(x.stage)
                     THEN [x EXCEPT !.phase = "refresh", !.staged = FALSE]
                     ELSE [x EXCEPT !.stage = NextStage(x.stage)]
    <3>1. y.job = x.job /\ OwnsRow(y, job)
      BY <1>1, <1>2, <1>3, <1>23 DEF LocalWork, OwnsRow, Worker, CopyPhases, CleanPhases
    <3>2. workers' = [workers EXCEPT ![w] = y]
      BY <2>1 DEF WorkDone
    <3>. QED BY <1>3, <1>23, <3>1, <3>1, <3>2, OwnRead DEF LocalWork
  <2>2. ASSUME NEW r \in BOOLEAN, Raise(w, r) PROVE OwnInv'
    <3>. DEFINE y == [x EXCEPT !.phase = "failed", !.retryable = r]
    <3>1. y.job = x.job /\ OwnsRow(y, job)
      BY <1>1, <1>2, <1>3, <1>23 DEF LocalWork, OwnsRow, Worker, CopyPhases, CleanPhases
    <3>. QED BY <1>3, <1>23, <2>2, <3>1, OwnRead DEF LocalWork, Raise
  <2>. QED BY <1>23, <2>1, <2>2 DEF LocalWork
<1>. QED BY <1>4, <1>5, <1>6, <1>7, <1>8, <1>9, <1>10, <1>11, <1>12, <1>13, <1>14, <1>15,
            <1>16, <1>17, <1>18, <1>19, <1>20, <1>21, <1>22, <1>23
         DEF WorkerStep

\* Uploads meet no run at work on their row; deletions and crashes write no row.
LEMMA OwnInvOthers ==
  ASSUME SinglePoller, TypeInv, OwnInv,
         \/ \E v \in Versions : Upload(v)
         \/ \E r \in Deleters : DeleterStep(r) \/ \E d \in Docs : DeleteRequest(r, d)
         \/ ApiCrash
  PROVE  OwnInv'
<1>1. UNCHANGED workers
  BY
  DEF SinglePoller, Upload, DeleterStep, DeleteRequest, DeleteVectors, DeleteRegistry,
      ApiCrash
<1>2. ASSUME NEW v \in Versions, Upload(v) PROVE OwnInv'
  <2>. DEFINE new == [NoJob EXCEPT !.status = "queued"]
  <2>1. jobs \in [Versions -> Job] /\ jobs[v].status = "none" /\ jobs' = [jobs EXCEPT ![v] = new]
    BY <1>2 DEF TypeInv, TypeOK, RegistryTypeOK, Upload, AcceptNew, Exists
  <2>2. RowOK(new)
    BY DEF RowOK, NoJob
  <2>3. ASSUME NEW w \in Workers
        PROVE  OwnsRow(workers'[w], jobs'[workers'[w].job])
    <3>1. OwnsRow(workers[w], jobs[workers[w].job])
      BY DEF OwnInv
    <3>2. CASE workers[w].phase = "idle"
      BY <1>1, <3>1, <3>2 DEF OwnsRow, CopyPhases, CleanPhases
    <3>3. CASE workers[w].phase # "idle"
      <4>1. workers[w].job \in Versions /\ workers[w].job # v
        BY <2>1, <3>1, <3>3 DEF OwnsRow, TypeInv, Assigned
      <4>. QED BY <1>1, <2>1, <3>1, <4>1
    <3>. QED BY <3>2, <3>3
  <2>. QED BY <2>1, <2>2, <2>3 DEF OwnInv
<1>3. CASE UNCHANGED jobs
  BY <1>1, <1>3 DEF OwnInv
<1>. QED BY <1>2, <1>3 DEF DeleterStep, DeleteRequest, DeleteVectors, DeleteRegistry, ApiCrash

\* The poller only takes jobs with an attempt left.
LEMMA OwnInvPoll ==
  ASSUME SinglePoller, TypeInv, OwnInv, NEW w \in Workers, NEW v \in Versions, Poll(w, v)
  PROVE  OwnInv'
<1>. DEFINE x == [IdleWorker EXCEPT !.phase = "claim", !.job = v]
<1>1. jobs \in [Versions -> Job] /\ workers \in [Workers -> Worker] /\ UNCHANGED jobs
  BY DEF TypeInv, TypeOK, RegistryTypeOK, Poll
<1>2. x.job = v /\ OwnsRow(x, jobs[v])
  BY DEF OwnsRow, IdleWorker, CopyPhases, CleanPhases, Poll, Recoverable
<1>3. workers' = [workers EXCEPT ![w] = x] /\ \A u \in Versions : RowOK(jobs'[u])
  BY <1>1 DEF Poll, Take, OwnInv
<1>. QED BY <1>1, <1>2, <1>3, OwnFrame

\* A crash ends the run, and the row it leaves is a legal one.
LEMMA OwnInvCrash ==
  ASSUME SinglePoller, TypeInv, OwnInv, NEW w \in Workers, WorkerCrash(w)
  PROVE  OwnInv'
BY OwnReturn DEF WorkerCrash, OwnInv

\* The clock ages the row and the copy alike.
LEMMA OwnInvTick ==
  ASSUME SinglePoller, TypeInv, OwnInv, Tick
  PROVE  OwnInv'
<1>. USE NumAssumption, AgeCapNat
<1>1. jobs \in [Versions -> Job] /\ workers \in [Workers -> Worker]
  BY DEF TypeInv, TypeOK, RegistryTypeOK
<1>2. NoJob.status = "none"
  BY DEF NoJob
<1>3. ASSUME NEW v \in Versions
      PROVE  /\ jobs'[v] = IF jobs[v].status # "none" THEN Aged(jobs[v]) ELSE jobs[v]
             /\ jobs'[v].status = jobs[v].status
             /\ jobs'[v].attempts = jobs[v].attempts
             /\ jobs'[v].error = jobs[v].error /\ jobs'[v].failedStage = jobs[v].failedStage
             /\ jobs[v].wait = 0 => jobs'[v].wait = 0
  <2>1. jobs'[v] = IF jobs[v].status # "none" THEN Aged(jobs[v]) ELSE jobs[v]
    BY DEF Tick, Exists
  <2>2. jobs[v] \in Job
    BY <1>1
  <2>3. CASE jobs[v].status # "none"
    <3>1. jobs'[v] = Aged(jobs[v])
      BY <2>1, <2>3
    <3>2. /\ Aged(jobs[v]).status = jobs[v].status
          /\ Aged(jobs[v]).attempts = jobs[v].attempts
          /\ Aged(jobs[v]).error = jobs[v].error /\ Aged(jobs[v]).failedStage = jobs[v].failedStage
          /\ jobs[v].wait = 0 => Aged(jobs[v]).wait = 0
      BY <2>2 DEF Aged, Job
    <3>. QED BY <2>1, <3>1, <3>2
  <2>4. CASE jobs[v].status = "none"
    BY <2>1, <2>4
  <2>. QED BY <2>3, <2>4
<1>4. ASSUME NEW v \in Versions PROVE RowOK(jobs'[v])
  BY <1>3 DEF OwnInv, RowOK
<1>5. ASSUME NEW w \in Workers PROVE OwnsRow(workers'[w], jobs'[workers'[w].job])
  <2>. DEFINE x == workers[w]
              y == workers'[w]
  <2>1. x \in Worker /\ OwnsRow(x, jobs[x.job])
    BY <1>1 DEF OwnInv
  <2>2. /\ y.phase = x.phase /\ y.job = x.job
        /\ y.snap = IF x.snap.status # "none" THEN Aged(x.snap) ELSE x.snap
    BY <1>1, <2>1 DEF Tick, Worker
  <2>3. CASE x.phase = "idle"
    BY <1>2, <2>1, <2>2, <2>3 DEF OwnsRow, CopyPhases, CleanPhases
  <2>4. CASE x.phase # "idle"
    <3>1. x.job \in Versions
      BY <2>4 DEF TypeInv, Assigned
    <3>2. y.snap = IF y.phase \in CopyPhases THEN jobs'[x.job] ELSE NoJob
      BY <1>2, <1>3, <2>1, <2>2, <3>1 DEF OwnsRow
    <3>. QED BY <1>3, <2>1, <2>2, <3>1, <3>2 DEF OwnsRow
  <2>. QED BY <2>3, <2>4
<1>. QED BY <1>4, <1>5 DEF OwnInv

\* With one poller every action keeps the ownership of rows.
LEMMA OwnInvNext == ASSUME SinglePoller PROVE TypeInv /\ OwnInv /\ [Next]_vars => OwnInv'
<1>. SUFFICES ASSUME TypeInv, OwnInv, [Next]_vars PROVE OwnInv'
  OBVIOUS
<1>1. CASE Next
  <2>1. ASSUME NEW w \in Workers, WorkerStep(w) PROVE OwnInv'
    BY <2>1, OwnInvWorker
  <2>2. ASSUME NEW w \in Workers, NEW v \in Versions, UploadAndRun(v, w) \/ Poll(w, v)
        PROVE  OwnInv'
    BY <2>2, OwnInvPoll DEF UploadAndRun, SinglePoller
  <2>3. ASSUME NEW w \in Workers, WorkerCrash(w) PROVE OwnInv'
    BY <2>3, OwnInvCrash
  <2>4. CASE Tick
    BY <2>4, OwnInvTick
  <2>5. CASE \/ \E v \in Versions : Upload(v)
             \/ \E r \in Deleters : DeleterStep(r) \/ \E d \in Docs : DeleteRequest(r, d)
             \/ ApiCrash
    BY <2>5, OwnInvOthers
  <2>6. CASE \E v \in Versions, w \in Workers : UploadAndRun(v, w)
    BY <2>2, <2>6
  <2>7. CASE \E v \in Versions, w \in Workers : Poll(w, v)
    BY <2>2, <2>7
  <2>8. CASE \E w \in Workers : WorkerStep(w)
    BY <2>1, <2>8
  <2>. QED BY <1>1, <2>3, <2>4, <2>5, <2>6, <2>7, <2>8 DEF Next
<1>2. CASE UNCHANGED vars
  BY <1>2 DEF vars, OwnInv
<1>. QED BY <1>1, <1>2

\* The inductive invariant of the single poller.
THEOREM RunInvariant == ASSUME SinglePoller PROVE Spec => [](TypeInv /\ OwnInv)
<1>1. Init => TypeInv /\ OwnInv
  BY TypeInvInit, OwnInvInit
<1>2. TypeInv /\ OwnInv /\ [Next]_vars => (TypeInv /\ OwnInv)'
  BY TypeInvNext, OwnInvNext
<1>. QED BY <1>1, <1>2, PTL DEF Spec

\* With one poller, whatever fails or crashes and whenever a DELETE arrives,
\* the row of the job that a run works on says running, so the busy check of
\* delete_document sees the run.
THEOREM RunKeepsRow == ASSUME SinglePoller PROVE Spec => []RunOwnsRow
<1>1. OwnInv => RunOwnsRow
  BY DEF OwnInv, OwnsRow, RunOwnsRow, Running
<1>. QED BY <1>1, RunInvariant, PTL

\* With one poller a finished job shows neither the error nor the retry time
\* of an attempt that failed before, and a failed stage only if one did.
THEOREM FailuresAreOutlived == ASSUME SinglePoller PROVE Spec => []SuccessShowsPastFailures
<1>1. OwnInv => SuccessShowsPastFailures
  BY DEF OwnInv, RowOK, SuccessShowsPastFailures
<1>. QED BY <1>1, RunInvariant, PTL

-----------------------------------------------------------------------------
(* The life cycle of a job *)

\* What JobLifecycle sees of the rows.
life == [v \in Versions |-> jobs[v].status]
tries == [v \in Versions |-> jobs[v].attempts]

\* A write of row v changes what is seen of v and nothing else.
LEMMA LifeOfWrite ==
  ASSUME TypeInv, NEW v \in Versions, NEW k, UpdateJob(v, k)
  PROVE  /\ life' = [life EXCEPT ![v] = k.status]
         /\ tries' = [tries EXCEPT ![v] = k.attempts]
BY DEF TypeInv, TypeOK, RegistryTypeOK, UpdateJob, life, tries

\* A write that keeps status and attempts is not seen.
LEMMA LifeStutter ==
  ASSUME TypeInv, NEW v \in Versions, NEW k, UpdateJob(v, k),
         k.status = jobs[v].status, k.attempts = jobs[v].attempts
  PROVE  UNCHANGED <<life, tries>>
BY LifeOfWrite DEF life, tries

\* Every step of the one run is a step of the life cycle, or not seen in it.
LEMMA WorkerLife ==
  ASSUME SinglePoller, TypeInv, OwnInv, NEW w \in Workers, WorkerStep(w)
  PROVE  Life!Next \/ UNCHANGED <<life, tries>>
<1>. DEFINE x == workers[w]
            v == workers[w].job
            job == jobs[workers[w].job]
<1>1. jobs \in [Versions -> Job] /\ x \in Worker /\ OwnsRow(x, job)
  BY DEF TypeInv, TypeOK, RegistryTypeOK, OwnInv
<1>2. x.phase # "idle" => /\ v \in Versions /\ job \in Job
                          /\ life[v] = job.status /\ tries[v] = job.attempts
  BY <1>1 DEF TypeInv, Assigned, life, tries
<1>3. CASE Claim(w)
  <2>1. Claimed(job).status = "running" /\ Claimed(job).attempts = job.attempts + 1
    BY <1>2, <1>3 DEF Claim, Claimed, Job
  <2>2. life' = [life EXCEPT ![v] = "running"] /\ tries' = [tries EXCEPT ![v] = job.attempts + 1]
    BY <1>2, <1>3, <2>1, LifeOfWrite DEF Claim
  <2>3. job.attempts < MaxAttempts /\ job.status \in {"queued", "failed", "running"}
    BY <1>1, <1>3 DEF Claim, OwnsRow
  <2>. QED BY <1>2, <1>3, <2>2, <2>3 DEF Claim, life, tries, Life!Next, Life!Begin, Life!Move
<1>4. CASE SaveStart(w) \/ SaveProgress(w)
  <2>1. job = x.snap /\ job.status = "running"
    BY <1>1, <1>4 DEF SaveStart, SaveProgress, OwnsRow, CopyPhases
  <2>2. [x.snap EXCEPT !.status = "running"] = job
    BY <1>2, <1>4, <2>1 DEF SaveStart, SaveProgress, Job
  <2>. QED BY <1>2, <1>4, <2>2, LifeStutter DEF SaveStart, SaveProgress
<1>5. CASE Succeed(w)
  <2>. DEFINE k == [x.snap EXCEPT !.status = "succeeded"]
  <2>1. job = x.snap /\ x.snap \in Job /\ job.status = "running"
    BY <1>1, <1>2, <1>5 DEF Succeed, OwnsRow, CopyPhases
  <2>2. k.status = "succeeded" /\ k.attempts = job.attempts
    BY <2>1 DEF Job
  <2>3. v \in Versions /\ UpdateJob(v, k)
    BY <1>2, <1>5 DEF Succeed
  <2>. HIDE DEF k
  <2>4. life' = [life EXCEPT ![v] = "succeeded"] /\ tries' = [tries EXCEPT ![v] = job.attempts]
    BY <2>2, <2>3, LifeOfWrite
  <2>. QED BY <1>2, <1>5, <2>1, <2>4
           DEF Succeed, life, tries, Life!Next, Life!Succeed, Life!Move
<1>6. CASE RecordError(w)
  <2>. DEFINE k == [job EXCEPT !.error = TRUE, !.failedStage = TRUE]
  <2>1. k.status = job.status /\ k.attempts = job.attempts
    BY <1>2, <1>6 DEF RecordError, Job
  <2>2. UpdateJob(v, k)
    BY <1>6 DEF RecordError, RecordFailure, UpdateJob
  <2>. QED BY <1>2, <1>6, <2>1, <2>2, LifeStutter DEF RecordError
<1>7. CASE SaveFailed(w)
  <2>. DEFINE k == [x.snap EXCEPT !.status = "failed", !.error = TRUE]
  <2>1. job = x.snap /\ x.snap \in Job /\ job.status = "running"
    BY <1>1, <1>2, <1>7 DEF SaveFailed, OwnsRow, CopyPhases
  <2>2. k.status = "failed" /\ k.attempts = job.attempts
    BY <2>1 DEF Job
  <2>3. v \in Versions /\ UpdateJob(v, k)
    BY <1>2, <1>7 DEF SaveFailed
  <2>. HIDE DEF k
  <2>4. life' = [life EXCEPT ![v] = "failed"] /\ tries' = [tries EXCEPT ![v] = job.attempts]
    BY <2>2, <2>3, LifeOfWrite
  <2>. QED BY <1>2, <1>7, <2>1, <2>4
           DEF SaveFailed, life, tries, Life!Next, Life!Fail, Life!Move
<1>8. CASE Schedule(w)
  <2>1. job = x.snap /\ x.snap \in Job /\ job.status = "failed"
    BY <1>1, <1>2, <1>8 DEF Schedule, OwnsRow, CopyPhases
  <2>2. ASSUME UpdateJob(v, [x.snap EXCEPT !.wait = Delay(x.snap.attempts)])
        PROVE  UNCHANGED <<life, tries>>
    <3>1. /\ [x.snap EXCEPT !.wait = Delay(x.snap.attempts)].status = job.status
          /\ [x.snap EXCEPT !.wait = Delay(x.snap.attempts)].attempts = job.attempts
      BY <2>1 DEF Job
    <3>. QED BY <1>2, <1>8, <2>2, <3>1, LifeStutter DEF Schedule
  <2>3. ASSUME UpdateJob(v, [x.snap EXCEPT !.attempts = MaxAttempts, !.wait = 0])
        PROVE  Life!Next
    <3>. DEFINE k == [x.snap EXCEPT !.attempts = MaxAttempts, !.wait = 0]
    <3>1. k.status = "failed" /\ k.attempts = MaxAttempts
      BY <2>1 DEF Job
    <3>2. v \in Versions /\ UpdateJob(v, k)
      BY <1>2, <1>8, <2>3 DEF Schedule
    <3>. HIDE DEF k
    <3>3. life' = [life EXCEPT ![v] = "failed"] /\ tries' = [tries EXCEPT ![v] = MaxAttempts]
      BY <3>1, <3>2, LifeOfWrite
    <3>. QED BY <1>2, <1>8, <2>1, <3>3
             DEF Schedule, life, tries, Life!Next, Life!GiveUp, Life!Move
  <2>. QED BY <1>8, <2>2, <2>3 DEF Schedule
<1>9. CASE UNCHANGED jobs
  BY <1>9 DEF life, tries
<1>. QED
  BY <1>3, <1>4, <1>5, <1>6, <1>7, <1>8, <1>9
  DEF WorkerStep, ClaimNothing, ClaimSpent, MarkIndexing, LocalWork, StageVersion,
      VerifyVersion, ShowVersion, HideOthers, Publish, Refresh, Reread, DiscardVersion, MarkFailed

\* The steps of everything else: acceptance begins a life, the clock is not seen.
LEMMA OtherLife ==
  ASSUME SinglePoller, TypeInv, OwnInv, Next, ~ \E w \in Workers : WorkerStep(w)
  PROVE  Life!Next \/ UNCHANGED <<life, tries>>
<1>1. jobs \in [Versions -> Job]
  BY DEF TypeInv, TypeOK, RegistryTypeOK
<1>2. ASSUME NEW v \in Versions, Upload(v) PROVE Life!Next
  <2>. DEFINE k == [NoJob EXCEPT !.status = "queued"]
  <2>1. jobs[v] = NoJob /\ UpdateJob(v, k)
    BY <1>2 DEF OwnInv, RowOK, Upload, AcceptNew, Exists, UpdateJob
  <2>2. k.status = "queued" /\ k.attempts = 0 /\ NoJob.status = "none" /\ NoJob.attempts = 0
    BY DEF NoJob
  <2>. HIDE DEF k
  <2>3. life' = [life EXCEPT ![v] = "queued"] /\ tries' = [tries EXCEPT ![v] = 0]
    BY <2>1, <2>2, LifeOfWrite
  <2>4. life[v] = "none" /\ tries[v] = 0
    BY <2>1, <2>2 DEF life, tries
  <2>. QED BY <2>3, <2>4 DEF life, tries, Life!Next, Life!Accept, Life!Move
<1>3. ASSUME Tick PROVE UNCHANGED <<life, tries>>
  <2>1. ASSUME NEW v \in Versions
        PROVE  jobs'[v].status = jobs[v].status /\ jobs'[v].attempts = jobs[v].attempts
    BY <1>1, <1>3 DEF Tick, Exists, Aged, Job
  <2>. QED BY <2>1 DEF life, tries
<1>4. CASE UNCHANGED jobs
  BY <1>4 DEF life, tries
<1>. QED BY <1>2, <1>3, <1>4
         DEF Next, SinglePoller, UploadAndRun, Poll, DeleteRequest, DeleterStep, DeleteVectors,
             DeleteRegistry, WorkerCrash, ApiCrash

\* With one poller every step is one of the abstract life cycle, or none.
LEMMA LifeNext ==
  ASSUME SinglePoller
  PROVE  TypeInv /\ OwnInv /\ [Next]_vars => [Life!Next]_<<life, tries>>
<1>. SUFFICES ASSUME TypeInv, OwnInv, [Next]_vars PROVE Life!Next \/ UNCHANGED <<life, tries>>
  OBVIOUS
<1>1. CASE Next
  BY <1>1, WorkerLife, OtherLife
<1>2. CASE UNCHANGED vars
  BY <1>2 DEF vars, life, tries
<1>. QED BY <1>1, <1>2

\* With one poller the registry keeps its promise to every job: at most
\* MaxAttempts starts, each counted, success only from a started run and for
\* ever.
THEOREM JobsFollowLifeCycle == ASSUME SinglePoller PROVE Spec => LifeCycle
<1>1. Init => Life!Init
  BY DEF Init, RegistryInit, NoJob, Life!Init
<1>2. TypeInv /\ OwnInv /\ [Next]_vars
        => [Life!Next]_<<[v \in Versions |-> jobs[v].status],
                         [v \in Versions |-> jobs[v].attempts]>>
  BY LifeNext DEF life, tries
<1>. QED BY <1>1, <1>2, RunInvariant, PTL DEF Spec, LifeCycle, Life!Spec

-----------------------------------------------------------------------------
(* Deletion *)

\* Who writes the status of a version: its acceptance, a run at work on it, or
\* a DELETE that has found no job of the document busy.
LEMMA StatusWriters ==
  ASSUME TypeInv, Next, NEW v \in Versions, docs'[v] # docs[v]
  PROVE  \/ ~Exists(v) /\ docs'[v] = "indexing"
         \/ \E w \in Workers : /\ workers[w].phase \in {"indexing", "publish", "mark"}
                               /\ workers[w].job = v
                               /\ docs'[v] # "deleted"
         \/ ~Busy(DocOf[v]) /\ docs'[v] = "deleted"
<1>1. docs \in [Versions -> DocumentStatus \cup {"none"}]
  BY DEF TypeInv, TypeOK, RegistryTypeOK
<1>2. ASSUME NEW u \in Versions, AcceptNew(u) PROVE ~Exists(v) /\ docs'[v] = "indexing"
  BY <1>1, <1>2 DEF AcceptNew
<1>3. ASSUME NEW w \in Workers, WorkerStep(w)
      PROVE  /\ workers[w].phase \in {"indexing", "publish", "mark"}
             /\ workers[w].job = v
             /\ docs'[v] # "deleted"
  <2>1. MarkIndexing(w) \/ Publish(w) \/ MarkFailed(w) \/ UNCHANGED docs
    BY <1>3 DEF WorkerStep, ClaimNothing, ClaimSpent, Claim, SaveStart, LocalWork, StageVersion,
        VerifyVersion, ShowVersion, HideOthers, Refresh, SaveProgress, Succeed, RecordError,
        Reread, DiscardVersion, SaveFailed, Schedule
  <2>2. ASSUME NEW s, SetDocumentStatus(workers[w].job, s) PROVE workers[w].job = v /\ docs'[v] = s
    BY <1>1, <2>2 DEF SetDocumentStatus
  <2>. QED BY <2>1, <2>2 DEF MarkIndexing, Publish, MarkFailed
<1>4. ASSUME NEW r \in Deleters, DeleteRegistry(r)
      PROVE  ~Busy(DocOf[v]) /\ docs'[v] = "deleted"
  BY <1>1, <1>4 DEF DeleteRegistry, DeleteRows, VersionsOf
<1>5. CASE UNCHANGED docs
  BY <1>5
<1>. QED BY <1>2, <1>3, <1>4, <1>5
         DEF Next, Upload, UploadAndRun, Poll, DeleteRequest, DeleterStep, DeleteVectors,
             WorkerCrash, ApiCrash, Tick

\* With one poller rows are marked deleted only while no run is at work on the
\* document: what the run writes later cannot undo a 204.
THEOREM DeletesMeetNoRun == ASSUME SinglePoller PROVE Spec => DeletedWhileIdle
<1>1. ASSUME TypeInv, OwnInv, Next, NEW v \in Versions, docs[v] # "deleted", docs'[v] = "deleted",
             NEW w \in Workers, Running(w), workers[w].phase # "schedule"
      PROVE  DocOf[workers[w].job] # DocOf[v]
  <2>1. ~Busy(DocOf[v])
    BY <1>1, StatusWriters
  <2>2. workers[w].job \in Versions /\ jobs[workers[w].job].status = "running"
    BY <1>1 DEF Running, TypeInv, Assigned, OwnInv, OwnsRow
  <2>. QED BY <2>1, <2>2 DEF Busy, VersionsOf, Exists
<1>2. TypeInv /\ OwnInv /\ [Next]_vars =>
        [\A v \in Versions : docs[v] # "deleted" /\ docs'[v] = "deleted" =>
           \A w \in Workers : Running(w) /\ workers[w].phase # "schedule"
              => DocOf[workers[w].job] # DocOf[v]]_vars
  BY <1>1
<1>. QED BY <1>2, RunInvariant, PTL DEF Spec, DeletedWhileIdle

\* With one poller a deleted version whose job has succeeded or has no attempt
\* left is never given another status.
THEOREM SpentVersionsStayDeleted == ASSUME SinglePoller PROVE Spec => SpentStaysDeleted
<1>1. ASSUME TypeInv, OwnInv, Next, NEW v \in Versions, docs[v] = "deleted", Finished(v)
      PROVE  docs'[v] = "deleted"
  <2>. SUFFICES ASSUME docs'[v] # docs[v] PROVE docs'[v] = "deleted"
    BY <1>1
  <2>1. Exists(v) /\ jobs[v].status # "running"
    BY <1>1 DEF Finished, Exists
  <2>2. ASSUME NEW w \in Workers, workers[w].phase \in {"indexing", "publish", "mark"},
               workers[w].job = v
        PROVE  FALSE
    <3>1. OwnsRow(workers[w], jobs[v])
      BY <1>1, <2>2 DEF OwnInv
    <3>. QED BY <2>1, <2>2, <3>1 DEF OwnsRow
  <2>3. ~Exists(v) \/ (~Busy(DocOf[v]) /\ docs'[v] = "deleted")
    BY <1>1, <2>2, StatusWriters
  <2>. QED BY <2>1, <2>3
<1>2. TypeInv /\ OwnInv /\ [Next]_vars =>
        [\A v \in Versions : /\ docs[v] = "deleted"
                             /\ Finished(v)
                             => docs'[v] = "deleted"]_vars
  BY <1>1
<1>. QED BY <1>2, RunInvariant, PTL DEF Spec, SpentStaysDeleted

-----------------------------------------------------------------------------
(* Publication *)

\* One run at a time, in either deployment, and nobody deletes.
OneTask == Deleters = {} /\ \A u, w \in Workers : u = w

\* The run has hidden the document's other versions and is about to succeed.
Shown(x) == x.phase \in {"publish", "succeed"} \/ (x.phase = "refresh" /\ x.stage = "activate")

\* What a run with the locals x has established about the row j, the points p
\* and the document status s of its version.
TaskOK(x, j, p, s) ==
  /\ x.snap = IF x.phase \in CopyPhases THEN j ELSE NoJob
  /\ x.phase # "idle" => j.status # "none"
  /\ x.phase \notin {"idle", "claim"} => j.status # "succeeded"
  /\ x.phase = "save" => x.stage # "activate"
  /\ x.phase \in {"hide", "publish", "succeed"} => x.stage = "activate"
  /\ \/ x.phase \in {"refresh", "save"} /\ x.stage = "verify"
     \/ x.phase = "work" /\ x.stage = "activate"
     => p = "inactive"
  /\ x.phase = "hide" \/ Shown(x) => p = "active"
  /\ Shown(x) /\ x.phase # "publish" => s = "active"

\* What holds of any row j with its points p and document status s.
StoredOK(j, p, s) ==
  /\ j.status = "none" => j = NoJob
  /\ j.status = "succeeded" => p # "absent" /\ s = "active"

TaskInv ==
  /\ \A w \in Workers : LET v == workers[w].job IN TaskOK(workers[w], jobs[v], points[v], docs[v])
  /\ \A v \in Versions : StoredOK(jobs[v], points[v], docs[v])

\* An idle run has established nothing.
LEMMA IdleTask == \A j, p, s : TaskOK(IdleWorker, j, p, s)
BY DEF TaskOK, IdleWorker, CopyPhases, Shown

\* Before any job there is nothing to publish.
LEMMA TaskInvInit == Init => TaskInv
<1>. SUFFICES ASSUME Init PROVE TaskInv
  OBVIOUS
<1>1. \A w \in Workers : LET v == workers[w].job IN TaskOK(workers[w], jobs[v], points[v], docs[v])
  BY IdleTask DEF Init
<1>2. \A v \in Versions : StoredOK(jobs[v], points[v], docs[v])
  BY DEF Init, RegistryInit, StoredOK, NoJob
<1>. QED BY <1>1, <1>2 DEF TaskInv

\* The frame of a step of the one run: it writes the row and the document
\* status of its version only, and removes no other version's points.
LEMMA TaskFrame ==
  ASSUME OneTask, TaskInv, NEW w \in Workers, NEW v \in Versions,
         \/ workers'[w] = IdleWorker
         \/ workers'[w].job = v /\ TaskOK(workers'[w], jobs'[v], points'[v], docs'[v]),
         StoredOK(jobs'[v], points'[v], docs'[v]),
         \A u \in Versions \ {v} : /\ jobs'[u] = jobs[u] /\ docs'[u] = docs[u]
                                   /\ points[u] # "absent" => points'[u] # "absent"
  PROVE  TaskInv'
<1>1. \A u \in Workers : LET t == workers'[u].job IN TaskOK(workers'[u], jobs'[t], points'[t], docs'[t])
  BY IdleTask DEF OneTask
<1>2. \A u \in Versions : StoredOK(jobs'[u], points'[u], docs'[u])
  BY DEF TaskInv, StoredOK
<1>. QED BY <1>1, <1>2 DEF TaskInv

\* A step of the one run keeps what it has established.
LEMMA TaskInvWorker ==
  ASSUME OneTask, TypeInv, TaskInv, NEW w \in Workers, WorkerStep(w)
  PROVE  TaskInv'
<1>. DEFINE x == workers[w]
            v == x.job
            job == jobs[v]
<1>1. /\ jobs \in [Versions -> Job] /\ workers \in [Workers -> Worker] /\ x \in Worker
      /\ docs \in [Versions -> DocumentStatus \cup {"none"}]
      /\ points \in [Versions -> PointState]
  BY DEF TypeInv, TypeOK, RegistryTypeOK, StoreTypeOK
<1>2. TaskOK(x, job, points[v], docs[v])
  BY DEF TaskInv
<1>3. x.phase # "idle" => v \in Versions /\ job \in Job /\ StoredOK(job, points[v], docs[v])
  BY <1>1 DEF TypeInv, Assigned, TaskInv
<1>4. CASE ClaimNothing(w)
  BY <1>1, <1>3, <1>4, TaskFrame DEF ClaimNothing, Return
<1>5. CASE ClaimSpent(w)
  <2>1. TaskOK(workers'[w], job, points[v], docs[v]) /\ workers'[w].job = v
    BY <1>1, <1>2, <1>3, <1>5 DEF ClaimSpent, ClaimExhausted, ClaimFinished, TaskOK, Worker, CopyPhases, Shown
  <2>. QED BY <1>3, <1>5, <2>1, TaskFrame DEF ClaimSpent
<1>6. CASE Claim(w)
  <2>1. jobs'[v] = Claimed(job) /\ jobs'[v].status = "running"
    BY <1>1, <1>3, <1>6 DEF Claim, UpdateJob, Claimed, Job
  <2>2. TaskOK(workers'[w], jobs'[v], points[v], docs[v]) /\ workers'[w].job = v
    BY <1>1, <1>2, <1>3, <1>6, <2>1 DEF Claim, TaskOK, Worker, CopyPhases, Shown
  <2>. QED BY <1>1, <1>3, <1>6, <2>1, <2>2, TaskFrame DEF Claim, UpdateJob, StoredOK
<1>7. CASE MarkIndexing(w)
  <2>1. job.status # "succeeded"
    BY <1>2, <1>7 DEF MarkIndexing, TaskOK
  <2>2. TaskOK(workers'[w], job, points[v], docs'[v]) /\ workers'[w].job = v
    BY <1>1, <1>2, <1>3, <1>7 DEF MarkIndexing, GoTo, TaskOK, Worker, CopyPhases, Shown
  <2>. QED BY <1>1, <1>3, <1>7, <2>1, <2>2, TaskFrame DEF MarkIndexing, SetDocumentStatus, StoredOK
<1>8. CASE SaveStart(w) \/ SaveProgress(w)
  <2>1. jobs' = [jobs EXCEPT ![v] = [job EXCEPT !.status = "running"]]
    BY <1>2, <1>8 DEF SaveStart, SaveProgress, UpdateJob, TaskOK, CopyPhases
  <2>2. jobs'[v].status = "running"
    BY <1>1, <1>3, <1>8, <2>1 DEF Job, SaveStart, SaveProgress
  <2>3. /\ workers'[w].phase = "work" /\ workers'[w].job = v /\ workers'[w].snap = NoJob
        /\ workers'[w].stage = "activate" => points[v] = "inactive"
    <3>1. CASE SaveStart(w)
      BY <1>1, <3>1 DEF SaveStart, Stored, Worker
    <3>2. CASE SaveProgress(w)
      BY <1>1, <1>2, <3>2 DEF SaveProgress, Stored, Worker, TaskOK, Stages, NextStage
    <3>. QED BY <1>8, <3>1, <3>2
  <2>4. TaskOK(workers'[w], jobs'[v], points[v], docs[v])
    BY <2>2, <2>3 DEF TaskOK, CopyPhases, Shown
  <2>. QED BY <1>1, <1>3, <1>8, <2>1, <2>2, <2>3, <2>4, TaskFrame DEF SaveStart, SaveProgress, StoredOK
<1>9. CASE LocalWork(w)
  <2>1. TaskOK(workers'[w], job, points[v], docs[v]) /\ workers'[w].job = v
    <3>1. CASE WorkDone(w, FALSE)
      <4>1. CASE x.stage = "embed_dense"
        BY <1>1, <1>2, <1>3, <1>9, <3>1, <4>1
        DEF LocalWork, WorkDone, HasProgress, NextStage, TaskOK, Worker, CopyPhases, Shown
      <4>2. CASE x.stage # "embed_dense"
        BY <1>1, <1>2, <1>3, <1>9, <3>1, <4>2
        DEF LocalWork, WorkDone, HasProgress, TaskOK, Worker, CopyPhases, Shown
      <4>. QED BY <4>1, <4>2
    <3>2. ASSUME NEW r \in BOOLEAN, Raise(w, r)
          PROVE  TaskOK(workers'[w], job, points[v], docs[v]) /\ workers'[w].job = v
      BY <1>1, <1>2, <1>3, <1>9, <3>2 DEF LocalWork, Raise, TaskOK, Worker, CopyPhases, Shown
    <3>. QED BY <1>9, <3>1, <3>2 DEF LocalWork
  <2>. QED BY <1>3, <1>9, <2>1, TaskFrame DEF LocalWork
<1>10. CASE StageVersion(w)
  <2>1. points' = points \/ points' = Staged(v)
    BY <1>10 DEF StageVersion, Request
  <2>2. TaskOK(workers'[w], job, points'[v], docs[v]) /\ workers'[w].job = v
    <3>1. CASE WorkDone(w, TRUE)
      BY <1>1, <1>2, <1>3, <1>10, <3>1
      DEF StageVersion, WorkDone, HasProgress, TaskOK, Worker, CopyPhases, Shown
    <3>2. CASE Raise(w, TRUE)
      BY <1>1, <1>2, <1>3, <1>10, <3>2 DEF StageVersion, Raise, TaskOK, Worker, CopyPhases, Shown
    <3>. QED BY <1>10, <3>1, <3>2 DEF StageVersion, Request
  <2>3. StoredOK(job, points'[v], docs[v])
    BY <1>2, <1>3, <1>10 DEF StageVersion, TaskOK, StoredOK
  <2>. QED BY <1>1, <1>3, <1>10, <2>1, <2>2, <2>3, TaskFrame DEF StageVersion, Staged
<1>11. CASE VerifyVersion(w)
  <2>1. TaskOK(workers'[w], job, points[v], docs[v]) /\ workers'[w].job = v
    <3>1. CASE WorkDone(w, TRUE) /\ Verified(v)
      BY <1>1, <1>2, <1>3, <1>11, <3>1
      DEF VerifyVersion, Verified, WorkDone, HasProgress, TaskOK, Worker, CopyPhases, Shown
    <3>2. CASE Raise(w, TRUE)
      BY <1>1, <1>2, <1>3, <1>11, <3>2 DEF VerifyVersion, Raise, TaskOK, Worker, CopyPhases, Shown
    <3>. QED BY <1>11, <3>1, <3>2 DEF VerifyVersion
  <2>. QED BY <1>3, <1>11, <2>1, TaskFrame DEF VerifyVersion
<1>12. CASE ShowVersion(w)
  <2>1. points' = points \/ points' = Flagged(v)
    BY <1>12 DEF ShowVersion, Request
  <2>2. TaskOK(workers'[w], job, points'[v], docs[v]) /\ workers'[w].job = v
    <3>1. CASE GoTo(w, "hide") /\ points' = Flagged(v)
      BY <1>1, <1>2, <1>3, <1>12, <3>1
      DEF ShowVersion, GoTo, Flagged, TaskOK, Worker, CopyPhases, Shown
    <3>2. CASE Raise(w, TRUE)
      BY <1>1, <1>2, <1>3, <1>12, <3>2 DEF ShowVersion, Raise, TaskOK, Worker, CopyPhases, Shown
    <3>. QED BY <1>12, <3>1, <3>2 DEF ShowVersion, Request
  <2>3. StoredOK(job, points'[v], docs[v])
    BY <1>2, <1>3, <1>12 DEF ShowVersion, TaskOK, StoredOK
  <2>. QED BY <1>1, <1>3, <1>12, <2>1, <2>2, <2>3, TaskFrame DEF ShowVersion, Flagged
<1>13. CASE HideOthers(w)
  <2>1. points' = points \/ points' = OthersHidden(v)
    BY <1>13 DEF HideOthers, Request
  <2>2. points'[v] = points[v] /\ \A u \in Versions : points[u] # "absent" => points'[u] # "absent"
    BY <1>1, <1>3, <1>13, <2>1 DEF HideOthers, OthersHidden
  <2>3. TaskOK(workers'[w], job, points[v], docs[v]) /\ workers'[w].job = v
    <3>1. CASE GoTo(w, "publish")
      BY <1>1, <1>2, <1>3, <1>13, <3>1 DEF HideOthers, GoTo, TaskOK, Worker, CopyPhases, Shown
    <3>2. CASE Raise(w, TRUE)
      BY <1>1, <1>2, <1>3, <1>13, <3>2 DEF HideOthers, Raise, TaskOK, Worker, CopyPhases, Shown
    <3>. QED BY <1>13, <3>1, <3>2 DEF HideOthers, Request
  <2>. QED BY <1>3, <1>13, <2>2, <2>3, TaskFrame DEF HideOthers
<1>14. CASE Publish(w)
  <2>1. job.status # "succeeded" /\ docs'[v] = "active"
    BY <1>1, <1>2, <1>3, <1>14 DEF Publish, SetDocumentStatus, TaskOK
  <2>2. TaskOK(workers'[w], job, points[v], docs'[v]) /\ workers'[w].job = v
    BY <1>1, <1>2, <1>3, <1>14, <2>1 DEF Publish, GoTo, TaskOK, Worker, CopyPhases, Shown
  <2>. QED BY <1>1, <1>3, <1>14, <2>1, <2>2, TaskFrame DEF Publish, SetDocumentStatus, StoredOK
<1>15. CASE Refresh(w)
  <2>1. TaskOK(workers'[w], job, points[v], docs[v]) /\ workers'[w].job = v
    BY <1>1, <1>2, <1>3, <1>15 DEF Refresh, TaskOK, Worker, CopyPhases, Shown
  <2>. QED BY <1>3, <1>15, <2>1, TaskFrame DEF Refresh
<1>16. CASE Succeed(w)
  <2>1. jobs' = [jobs EXCEPT ![v] = [job EXCEPT !.status = "succeeded"]]
    BY <1>2, <1>16 DEF Succeed, UpdateJob, TaskOK, CopyPhases
  <2>2. jobs'[v].status = "succeeded" /\ points[v] = "active" /\ docs[v] = "active"
    BY <1>1, <1>2, <1>3, <1>16, <2>1 DEF Job, Succeed, TaskOK, Shown
  <2>3. workers'[w] = IdleWorker
    BY <1>1, <1>16 DEF Succeed, Return
  <2>. QED BY <1>1, <1>3, <1>16, <2>1, <2>2, <2>3, TaskFrame DEF Succeed, StoredOK
<1>17. CASE RecordError(w)
  <2>1. jobs' = [jobs EXCEPT ![v] = [job EXCEPT !.error = TRUE, !.failedStage = TRUE]]
    BY <1>17 DEF RecordError, RecordFailure
  <2>2. jobs'[v].status = job.status
    BY <1>1, <1>3, <1>17, <2>1 DEF Job, RecordError
  <2>3. TaskOK(workers'[w], jobs'[v], points[v], docs[v]) /\ workers'[w].job = v
    BY <1>1, <1>2, <1>3, <1>17, <2>2 DEF RecordError, GoTo, TaskOK, Worker, CopyPhases, Shown
  <2>4. StoredOK(jobs'[v], points[v], docs[v])
    BY <1>2, <1>3, <1>17, <2>2 DEF RecordError, StoredOK, TaskOK
  <2>. QED BY <1>1, <1>3, <1>17, <2>1, <2>3, <2>4, TaskFrame DEF RecordError
<1>18. CASE Reread(w)
  <2>1. TaskOK(workers'[w], job, points[v], docs[v]) /\ workers'[w].job = v
    BY <1>1, <1>2, <1>3, <1>18 DEF Reread, TaskOK, Worker, CopyPhases, Shown
  <2>. QED BY <1>3, <1>18, <2>1, TaskFrame DEF Reread
<1>19. CASE DiscardVersion(w)
  <2>1. points' = points \/ points' = Discarded(v)
    BY <1>19 DEF DiscardVersion, Request
  <2>2. \/ workers'[w] = IdleWorker
        \/ workers'[w].job = v /\ TaskOK(workers'[w], job, points'[v], docs[v])
    <3>1. CASE GoTo(w, "mark")
      BY <1>1, <1>2, <1>3, <1>19, <3>1 DEF DiscardVersion, GoTo, TaskOK, Worker, CopyPhases, Shown
    <3>2. CASE Return(w)
      BY <1>1, <3>2 DEF Return
    <3>. QED BY <1>19, <3>1, <3>2 DEF DiscardVersion, Request
  <2>3. StoredOK(job, points'[v], docs[v])
    BY <1>2, <1>3, <1>19 DEF DiscardVersion, TaskOK, StoredOK
  <2>. QED BY <1>1, <1>3, <1>19, <2>1, <2>2, <2>3, TaskFrame DEF DiscardVersion, Discarded
<1>20. CASE MarkFailed(w)
  <2>1. job.status # "succeeded"
    BY <1>2, <1>20 DEF MarkFailed, TaskOK
  <2>2. TaskOK(workers'[w], job, points[v], docs'[v]) /\ workers'[w].job = v
    BY <1>1, <1>2, <1>3, <1>20 DEF MarkFailed, GoTo, TaskOK, Worker, CopyPhases, Shown
  <2>. QED BY <1>1, <1>3, <1>20, <2>1, <2>2, TaskFrame DEF MarkFailed, SetDocumentStatus, StoredOK
<1>21. CASE SaveFailed(w)
  <2>. DEFINE k == [x.snap EXCEPT !.status = "failed", !.error = TRUE]
  <2>1. jobs' = [jobs EXCEPT ![v] = k] /\ x.snap = job
    BY <1>2, <1>21 DEF SaveFailed, UpdateJob, TaskOK, CopyPhases
  <2>2. jobs'[v] = k /\ k.status = "failed"
    BY <1>1, <1>3, <1>21, <2>1 DEF Job, SaveFailed
  <2>3. TaskOK(workers'[w], jobs'[v], points[v], docs[v]) /\ workers'[w].job = v
    BY <1>1, <1>2, <1>3, <1>21, <2>2 DEF SaveFailed, TaskOK, Worker, CopyPhases, Shown
  <2>. QED BY <1>1, <1>3, <1>21, <2>1, <2>2, <2>3, TaskFrame DEF SaveFailed, StoredOK
<1>22. CASE Schedule(w)
  <2>1. PICK k : /\ jobs' = [jobs EXCEPT ![v] = k]
                 /\ \/ k = [job EXCEPT !.wait = Delay(job.attempts)]
                    \/ k = [job EXCEPT !.attempts = MaxAttempts, !.wait = 0]
    BY <1>2, <1>22 DEF Schedule, UpdateJob, TaskOK, CopyPhases
  <2>2. jobs'[v] = k /\ k.status = job.status
    BY <1>1, <1>3, <1>22, <2>1 DEF Job, Schedule
  <2>3. workers'[w] = IdleWorker
    BY <1>1, <1>22 DEF Schedule, Return
  <2>4. StoredOK(jobs'[v], points[v], docs[v])
    BY <1>2, <1>3, <1>22, <2>2 DEF Schedule, StoredOK, TaskOK
  <2>. QED BY <1>1, <1>3, <1>22, <2>1, <2>3, <2>4, TaskFrame DEF Schedule
<1>. QED BY <1>4, <1>5, <1>6, <1>7, <1>8, <1>9, <1>10, <1>11, <1>12, <1>13, <1>14, <1>15,
            <1>16, <1>17, <1>18, <1>19, <1>20, <1>21, <1>22
         DEF WorkerStep

\* A step that leaves the one run alone and writes no row at work.
LEMMA TaskInvUpload ==
  ASSUME OneTask, TypeInv, TaskInv, NEW v \in Versions, AcceptNew(v), UNCHANGED points
  PROVE  /\ \A w \in Workers : LET t == workers[w].job
                               IN  TaskOK(workers[w], jobs'[t], points'[t], docs'[t])
         /\ \A u \in Versions : StoredOK(jobs'[u], points'[u], docs'[u])
         /\ jobs'[v].status = "queued"
<1>1. /\ jobs \in [Versions -> Job] /\ workers \in [Workers -> Worker]
      /\ docs \in [Versions -> DocumentStatus \cup {"none"}]
  BY DEF TypeInv, TypeOK, RegistryTypeOK
<1>2. jobs'[v].status = "queued" /\ \A u \in Versions \ {v} : jobs'[u] = jobs[u] /\ docs'[u] = docs[u]
  BY <1>1 DEF AcceptNew, NoJob
<1>3. ASSUME NEW w \in Workers
      PROVE  LET t == workers[w].job IN TaskOK(workers[w], jobs'[t], points'[t], docs'[t])
  <2>1. LET t == workers[w].job IN TaskOK(workers[w], jobs[t], points[t], docs[t])
    BY DEF TaskInv
  <2>2. CASE workers[w].phase = "idle"
    BY <2>1, <2>2 DEF TaskOK, CopyPhases, Shown
  <2>3. CASE workers[w].phase # "idle"
    <3>1. workers[w].job \in Versions \ {v}
      BY <2>1, <2>3 DEF TaskOK, TypeInv, Assigned, AcceptNew, Exists
    <3>. QED BY <1>2, <2>1, <3>1
  <2>. QED BY <2>2, <2>3
<1>4. ASSUME NEW u \in Versions PROVE StoredOK(jobs'[u], points'[u], docs'[u])
  BY <1>2 DEF StoredOK, TaskInv
<1>. QED BY <1>2, <1>3, <1>4

\* The poller takes a job that has neither succeeded nor run out of attempts,
\* an upload any job; crashes end the run.
LEMMA TaskInvOthers ==
  ASSUME OneTask, TypeInv, TaskInv,
         \/ \E v \in Versions : Upload(v)
         \/ \E v \in Versions, w \in Workers : UploadAndRun(v, w) \/ Poll(w, v)
         \/ \E w \in Workers : WorkerCrash(w)
         \/ ApiCrash
  PROVE  TaskInv'
<1>1. jobs \in [Versions -> Job] /\ workers \in [Workers -> Worker]
  BY DEF TypeInv, TypeOK, RegistryTypeOK
<1>2. ASSUME NEW v \in Versions, Upload(v) PROVE TaskInv'
  BY <1>2, TaskInvUpload DEF Upload, TaskInv
<1>3. ASSUME NEW v \in Versions, NEW w \in Workers, Take(w, v), jobs'[v].status # "none",
             \A u \in Versions : StoredOK(jobs'[u], points'[u], docs'[u])
      PROVE  TaskInv'
  <2>1. workers'[w].phase = "claim" /\ workers'[w].job = v /\ workers'[w].snap = NoJob
    BY <1>1, <1>3 DEF Take, IdleWorker
  <2>2. TaskOK(workers'[w], jobs'[v], points'[v], docs'[v])
    BY <1>3, <2>1 DEF TaskOK, CopyPhases, Shown
  <2>3. \A u \in Workers : LET t == workers'[u].job IN TaskOK(workers'[u], jobs'[t], points'[t], docs'[t])
    BY <2>1, <2>2 DEF OneTask
  <2>. QED BY <1>3, <2>3 DEF TaskInv
<1>4. ASSUME NEW v \in Versions, NEW w \in Workers, UploadAndRun(v, w) PROVE TaskInv'
  <2>1. CASE AcceptNew(v)
    BY <1>3, <1>4, <2>1, TaskInvUpload DEF UploadAndRun
  <2>2. CASE Exists(v) /\ UNCHANGED <<jobs, docs>>
    BY <1>3, <1>4, <2>2 DEF UploadAndRun, Exists, TaskInv
  <2>. QED BY <1>4, <2>1, <2>2 DEF UploadAndRun
<1>5. ASSUME NEW v \in Versions, NEW w \in Workers, Poll(w, v) PROVE TaskInv'
  BY <1>3, <1>5 DEF Poll, Recoverable, TaskInv
<1>6. ASSUME UNCHANGED <<jobs, docs, points>>,
             \A w \in Workers : workers'[w] \in {IdleWorker, workers[w]}
      PROVE  TaskInv'
  <2>1. \A w \in Workers : LET t == workers'[w].job IN TaskOK(workers'[w], jobs[t], points[t], docs[t])
    BY <1>6, IdleTask DEF TaskInv
  <2>. QED BY <1>6, <2>1 DEF TaskInv
<1>7. ASSUME NEW w \in Workers, WorkerCrash(w) PROVE TaskInv'
  BY <1>1, <1>6, <1>7 DEF WorkerCrash, Return
<1>8. CASE ApiCrash
  BY <1>1, <1>6, <1>8 DEF ApiCrash
<1>. QED BY <1>2, <1>4, <1>5, <1>7, <1>8

\* The clock ages the row and the copy alike.
LEMMA TaskInvTick ==
  ASSUME TypeInv, TaskInv, Tick
  PROVE  TaskInv' /\ \A v \in Versions : jobs'[v].status = jobs[v].status
<1>1. jobs \in [Versions -> Job] /\ workers \in [Workers -> Worker] /\ NoJob.status = "none"
  BY DEF TypeInv, TypeOK, RegistryTypeOK, NoJob
<1>2. ASSUME NEW v \in Versions
      PROVE  /\ jobs'[v] = IF jobs[v].status # "none" THEN Aged(jobs[v]) ELSE jobs[v]
             /\ jobs'[v].status = jobs[v].status
  BY <1>1 DEF Tick, Exists, Aged, Job
<1>3. ASSUME NEW v \in Versions PROVE StoredOK(jobs'[v], points'[v], docs'[v])
  BY <1>2 DEF Tick, TaskInv, StoredOK
<1>4. ASSUME NEW w \in Workers
      PROVE  LET t == workers'[w].job IN TaskOK(workers'[w], jobs'[t], points'[t], docs'[t])
  <2>. DEFINE x == workers[w]
              y == workers'[w]
  <2>1. x \in Worker /\ TaskOK(x, jobs[x.job], points[x.job], docs[x.job])
    BY <1>1 DEF TaskInv
  <2>2. /\ y.phase = x.phase /\ y.job = x.job /\ y.stage = x.stage
        /\ y.snap = IF x.snap.status # "none" THEN Aged(x.snap) ELSE x.snap
    BY <1>1, <2>1 DEF Tick, Worker
  <2>3. CASE x.phase = "idle"
    BY <1>1, <2>1, <2>2, <2>3 DEF TaskOK, CopyPhases, Shown
  <2>4. CASE x.phase # "idle"
    <3>1. x.job \in Versions
      BY <2>4 DEF TypeInv, Assigned
    <3>2. y.snap = IF y.phase \in CopyPhases THEN jobs'[x.job] ELSE NoJob
      BY <1>1, <1>2, <2>1, <2>2, <3>1 DEF TaskOK
    <3>. QED BY <1>2, <2>1, <2>2, <3>1, <3>2 DEF TaskOK, Tick, Shown
  <2>. QED BY <2>3, <2>4
<1>. QED BY <1>2, <1>3, <1>4 DEF TaskInv

\* Every action keeps what the one run has established.
LEMMA TaskInvNext == ASSUME OneTask PROVE TypeInv /\ TaskInv /\ [Next]_vars => TaskInv'
<1>. SUFFICES ASSUME TypeInv, TaskInv, [Next]_vars PROVE TaskInv'
  OBVIOUS
<1>1. CASE Next
  <2>1. CASE \E w \in Workers : WorkerStep(w)
    BY <2>1, TaskInvWorker
  <2>2. CASE Tick
    BY <2>2, TaskInvTick
  <2>3. CASE \/ \E v \in Versions : Upload(v)
             \/ \E v \in Versions, w \in Workers : UploadAndRun(v, w) \/ Poll(w, v)
             \/ \E w \in Workers : WorkerCrash(w)
             \/ ApiCrash
    BY <2>3, TaskInvOthers
  <2>. QED BY <1>1, <2>1, <2>2, <2>3 DEF Next, OneTask
<1>2. CASE UNCHANGED vars
  BY <1>2 DEF vars, TaskInv
<1>. QED BY <1>1, <1>2

\* The inductive invariant of a single run without deletions.
THEOREM TaskInvariant == ASSUME OneTask PROVE Spec => [](TypeInv /\ TaskInv)
<1>1. Init => TypeInv /\ TaskInv
  BY TypeInvInit, TaskInvInit
<1>2. TypeInv /\ TaskInv /\ [Next]_vars => (TypeInv /\ TaskInv)'
  BY TypeInvNext, TaskInvNext
<1>. QED BY <1>1, <1>2, PTL DEF Spec

\* While nobody deletes, a succeeded job has its version recorded active and its
\* points stored, whatever requests fail or lose their replies and whenever the
\* process crashes: no later run, of this version or of another of the same
\* document, takes them away.
THEOREM SuccessKeepsPoints == ASSUME OneTask PROVE Spec => []SuccessIsStored
<1>1. TaskInv => SuccessIsStored
  BY DEF TaskInv, StoredOK, SuccessIsStored
<1>. QED BY <1>1, TaskInvariant, PTL

\* No reply is lost and no process dies.
CleanFailures == OneTask /\ FailureModes \subseteq {"clean"} /\ MaxCrashes = 0

\* A visible version whose job has succeeded or is about to.
VisibleFor(v, u) ==
  /\ u \in Visible(DocOf[v])
  /\ jobs[u].status = "succeeded" \/ \E w \in Workers : workers[w].job = u /\ Shown(workers[w])

VisInv == \A v \in Versions : jobs[v].status = "succeeded" => \E u \in Versions : VisibleFor(v, u)

\* The frame of a step of the run that shows and hides no other version: the
\* one visible version keeps its points and its claim to them.
LEMMA VisFrame ==
  ASSUME OneTask, TaskInv, VisInv, NEW w \in Workers, NEW v \in Versions,
         \A u \in Versions \ {v} : jobs'[u] = jobs[u] /\ points'[u] = points[u],
         jobs'[v].status # "succeeded", jobs[v].status # "succeeded",
         Shown(workers[w]) => /\ workers[w].job = v /\ workers'[w].job = v /\ Shown(workers'[w])
                              /\ points'[v] = points[v]
  PROVE  VisInv'
<1>. SUFFICES ASSUME NEW t \in Versions, jobs'[t].status = "succeeded"
              PROVE  \E u \in Versions : VisibleFor(t, u)'
  BY DEF VisInv
<1>1. jobs[t].status = "succeeded"
  OBVIOUS
<1>2. PICK u \in Versions : VisibleFor(t, u)
  BY <1>1 DEF VisInv
<1>3. CASE jobs[u].status = "succeeded"
  BY <1>2, <1>3 DEF VisibleFor, Visible
<1>4. CASE jobs[u].status # "succeeded"
  <2>1. workers[w].job = u /\ Shown(workers[w])
    BY <1>2, <1>4 DEF VisibleFor, OneTask
  <2>. QED BY <1>2, <2>1 DEF VisibleFor, Visible
<1>. QED BY <1>3, <1>4

\* A step of the run never leaves the document of a succeeded job without a
\* visible version: it hides the others after its own is shown, and from then on
\* nothing can fail before it has succeeded.
LEMMA VisInvWorker ==
  ASSUME CleanFailures, TypeInv, TaskInv, VisInv, NEW w \in Workers, WorkerStep(w)
  PROVE  VisInv'
<1>. DEFINE x == workers[w]
            v == x.job
            job == jobs[v]
<1>1. /\ jobs \in [Versions -> Job] /\ workers \in [Workers -> Worker] /\ x \in Worker
      /\ points \in [Versions -> PointState] /\ DocOf \in [Versions -> Docs]
  BY DocAssumption DEF TypeInv, TypeOK, RegistryTypeOK, StoreTypeOK
<1>2. TaskOK(x, job, points[v], docs[v]) /\ OneTask
  BY DEF TaskInv, CleanFailures
<1>3. v \in Versions /\ job \in Job
  BY <1>1 DEF TypeInv, Assigned, WorkerStep, ClaimNothing, ClaimSpent, Claim, MarkIndexing,
      SaveStart, LocalWork, StageVersion, VerifyVersion, ShowVersion, HideOthers, Publish,
      Refresh, SaveProgress, Succeed, RecordError, Reread, DiscardVersion, MarkFailed,
      SaveFailed, Schedule
<1>4. CASE ClaimNothing(w) \/ ClaimSpent(w)
  <2>1. ~Shown(x) /\ UNCHANGED <<jobs, points>>
    BY <1>4 DEF ClaimNothing, ClaimSpent, Shown
  <2>2. \A t \in Versions : \A u \in Versions : VisibleFor(t, u) => VisibleFor(t, u)'
    BY <1>2, <2>1 DEF VisibleFor, Visible, OneTask
  <2>. QED BY <2>1, <2>2 DEF VisInv
<1>5. CASE Claim(w)
  <2>1. jobs'[v].status = "running" /\ job.status # "succeeded" /\ ~Shown(x)
    BY <1>1, <1>3, <1>5 DEF Claim, UpdateJob, Claimed, Job, Shown, ClaimGranted, ClaimFinished
  <2>. QED BY <1>1, <1>2, <1>3, <1>5, <2>1, VisFrame DEF Claim, UpdateJob
<1>6. CASE MarkIndexing(w) \/ LocalWork(w) \/ VerifyVersion(w) \/ Reread(w) \/ MarkFailed(w)
  <2>1. ~Shown(x) /\ UNCHANGED <<jobs, points>> /\ job.status # "succeeded"
    BY <1>2, <1>6 DEF MarkIndexing, LocalWork, VerifyVersion, Reread, MarkFailed, Shown, TaskOK
  <2>. QED BY <1>2, <1>3, <2>1, VisFrame
<1>7. CASE SaveStart(w) \/ SaveProgress(w)
  <2>1. ~Shown(x) /\ UNCHANGED points /\ job.status # "succeeded"
    BY <1>2, <1>7 DEF SaveStart, SaveProgress, Shown, TaskOK
  <2>2. jobs' = [jobs EXCEPT ![v] = [job EXCEPT !.status = "running"]]
    BY <1>2, <1>7 DEF SaveStart, SaveProgress, UpdateJob, TaskOK, CopyPhases
  <2>3. jobs'[v].status = "running"
    BY <1>1, <1>3, <2>2 DEF Job
  <2>. QED BY <1>1, <1>2, <1>3, <2>1, <2>2, <2>3, VisFrame
<1>8. CASE StageVersion(w) \/ ShowVersion(w) \/ DiscardVersion(w)
  <2>1. ~Shown(x) /\ UNCHANGED jobs /\ job.status # "succeeded"
    BY <1>2, <1>8 DEF StageVersion, ShowVersion, DiscardVersion, Shown, TaskOK
  <2>2. points' \in {points, Staged(v), Flagged(v), Discarded(v)}
    BY <1>8 DEF StageVersion, ShowVersion, DiscardVersion, Request
  <2>3. \A u \in Versions \ {v} : points'[u] = points[u]
    BY <1>1, <1>3, <2>2 DEF Staged, Flagged, Discarded
  <2>. QED BY <1>2, <1>3, <2>1, <2>3, VisFrame
<1>9. CASE HideOthers(w)
  <2>1. ~Shown(x) /\ UNCHANGED jobs /\ points[v] = "active" /\ job.status # "succeeded"
    BY <1>2, <1>9 DEF HideOthers, Shown, TaskOK
  <2>2. CASE points' = points
    BY <1>2, <1>3, <2>1, <2>2, VisFrame
  <2>3. CASE points' = OthersHidden(v) /\ GoTo(w, "publish")
    <3>1. workers'[w].job = v /\ Shown(workers'[w])
      BY <1>1, <2>3 DEF GoTo, Worker, Shown
    <3>2. points'[v] = "active" /\ \A u \in Versions : DocOf[u] # DocOf[v] => points'[u] = points[u]
      BY <1>1, <1>3, <2>1, <2>3 DEF OthersHidden
    <3>3. ASSUME NEW t \in Versions, NEW u \in Versions, u = v, DocOf[t] = DocOf[v]
          PROVE  VisibleFor(t, u)'
      BY <1>3, <3>1, <3>2, <3>3 DEF VisibleFor, Visible
    <3>4. ASSUME NEW t \in Versions, jobs'[t].status = "succeeded", DocOf[t] # DocOf[v]
          PROVE  \E u \in Versions : VisibleFor(t, u)'
      <4>1. PICK u \in Versions : VisibleFor(t, u)
        BY <2>1, <3>4 DEF VisInv
      <4>2. DocOf[u] # DocOf[v] /\ jobs[u].status = "succeeded"
        BY <1>2, <2>1, <3>4, <4>1 DEF VisibleFor, Visible, OneTask
      <4>. QED BY <2>1, <3>2, <4>1, <4>2 DEF VisibleFor, Visible
    <3>. QED BY <1>3, <3>3, <3>4 DEF VisInv
  <2>. QED BY <1>9, <2>2, <2>3 DEF HideOthers, Request, CleanFailures
<1>10. CASE Publish(w) \/ Refresh(w)
  <2>1. UNCHANGED <<jobs, points>> /\ workers'[w].job = v /\ job.status # "succeeded"
    BY <1>1, <1>2, <1>10 DEF Publish, Refresh, GoTo, Worker, TaskOK
  <2>2. Shown(x) => Shown(workers'[w])
    BY <1>1, <1>2, <1>10 DEF Publish, Refresh, GoTo, Worker, TaskOK, Shown
  <2>3. \A u \in Versions \ {v} : jobs'[u] = jobs[u] /\ points'[u] = points[u]
    BY <2>1
  <2>. QED BY <1>2, <1>3, <2>1, <2>2, <2>3, VisFrame
<1>11. CASE Succeed(w)
  <2>1. /\ UNCHANGED points /\ points[v] = "active"
        /\ jobs' = [jobs EXCEPT ![v] = [job EXCEPT !.status = "succeeded"]]
    BY <1>2, <1>11 DEF Succeed, UpdateJob, TaskOK, CopyPhases, Shown
  <2>2. jobs'[v].status = "succeeded" /\ \A u \in Versions \ {v} : jobs'[u] = jobs[u]
    BY <1>1, <1>3, <2>1 DEF Job
  <2>3. \A t, u \in Versions : VisibleFor(t, u) => VisibleFor(t, u)'
    BY <1>2, <2>1, <2>2 DEF VisibleFor, Visible, OneTask
  <2>4. \A t \in Versions : t = v => VisibleFor(t, t)'
    BY <1>3, <2>1, <2>2 DEF VisibleFor, Visible
  <2>. QED BY <1>3, <2>2, <2>3, <2>4 DEF VisInv
<1>12. CASE RecordError(w)
  <2>1. /\ ~Shown(x) /\ UNCHANGED points /\ job.status # "succeeded"
        /\ jobs' = [jobs EXCEPT ![v] = [job EXCEPT !.error = TRUE, !.failedStage = TRUE]]
    BY <1>2, <1>12 DEF RecordError, RecordFailure, Shown, TaskOK
  <2>2. jobs'[v].status = job.status
    BY <1>1, <1>3, <2>1 DEF Job
  <2>. QED BY <1>1, <1>2, <1>3, <2>1, <2>2, VisFrame
<1>13. CASE SaveFailed(w)
  <2>1. /\ ~Shown(x) /\ UNCHANGED points /\ job.status # "succeeded"
        /\ jobs' = [jobs EXCEPT ![v] = [job EXCEPT !.status = "failed", !.error = TRUE]]
    BY <1>2, <1>13 DEF SaveFailed, UpdateJob, Shown, TaskOK, CopyPhases
  <2>2. jobs'[v].status = "failed"
    BY <1>1, <1>3, <2>1 DEF Job
  <2>. QED BY <1>1, <1>2, <1>3, <2>1, <2>2, VisFrame
<1>14. CASE Schedule(w)
  <2>1. ~Shown(x) /\ UNCHANGED points /\ job.status # "succeeded"
    BY <1>2, <1>14 DEF Schedule, Shown, TaskOK
  <2>2. PICK k : /\ jobs' = [jobs EXCEPT ![v] = k]
                 /\ \/ k = [job EXCEPT !.wait = Delay(job.attempts)]
                    \/ k = [job EXCEPT !.attempts = MaxAttempts, !.wait = 0]
    BY <1>2, <1>14 DEF Schedule, UpdateJob, TaskOK, CopyPhases
  <2>3. jobs'[v].status = job.status
    BY <1>1, <1>3, <2>2 DEF Job
  <2>. QED BY <1>1, <1>2, <1>3, <2>1, <2>2, <2>3, VisFrame
<1>. QED BY <1>4, <1>5, <1>6, <1>7, <1>8, <1>9, <1>10, <1>11, <1>12, <1>13, <1>14
         DEF WorkerStep

\* Uploads and polls start from an idle run, whose versions are all succeeded
\* ones; the clock changes no status.
LEMMA VisInvNext == ASSUME CleanFailures PROVE TypeInv /\ TaskInv /\ VisInv /\ [Next]_vars => VisInv'
<1>. SUFFICES ASSUME TypeInv, TaskInv, VisInv, [Next]_vars PROVE VisInv'
  OBVIOUS
<1>1. jobs \in [Versions -> Job] /\ workers \in [Workers -> Worker] /\ OneTask
  BY DEF TypeInv, TypeOK, RegistryTypeOK, CleanFailures
<1>2. ASSUME UNCHANGED points,
             \A u \in Versions : /\ jobs[u].status = "succeeded" => jobs'[u].status = "succeeded"
                                 /\ jobs'[u].status = "succeeded" => jobs[u].status = "succeeded",
             \A w \in Workers : Shown(workers[w]) => /\ workers'[w].job = workers[w].job
                                                     /\ Shown(workers'[w])
      PROVE  VisInv'
  <2>1. \A t, u \in Versions : VisibleFor(t, u) => VisibleFor(t, u)'
    BY <1>2 DEF VisibleFor, Visible
  <2>. QED BY <1>2, <2>1 DEF VisInv
<1>3. ASSUME NEW v \in Versions, AcceptNew(v)
      PROVE  \A u \in Versions : /\ jobs[u].status = "succeeded" => jobs'[u].status = "succeeded"
                                 /\ jobs'[u].status = "succeeded" => jobs[u].status = "succeeded"
  BY <1>1, <1>3 DEF AcceptNew, Exists, NoJob
<1>4. ASSUME NEW v \in Versions, Upload(v) PROVE VisInv'
  BY <1>2, <1>3, <1>4 DEF Upload
<1>5. ASSUME NEW v \in Versions, NEW w \in Workers, UploadAndRun(v, w) \/ Poll(w, v) PROVE VisInv'
  <2>1. \A u \in Workers : ~Shown(workers[u])
    BY <1>1, <1>5 DEF UploadAndRun, Poll, Shown, OneTask
  <2>. QED BY <1>2, <1>3, <1>5, <2>1 DEF UploadAndRun, Poll
<1>6. CASE Tick
  <2>1. \A v \in Versions : jobs'[v].status = jobs[v].status
    BY <1>6, TaskInvTick
  <2>2. ASSUME NEW w \in Workers
        PROVE  /\ workers'[w].phase = workers[w].phase /\ workers'[w].stage = workers[w].stage
               /\ workers'[w].job = workers[w].job
    BY <1>1, <1>6 DEF Tick, Worker
  <2>. QED BY <1>2, <1>6, <2>1, <2>2 DEF Tick, Shown
<1>7. CASE UNCHANGED vars
  BY <1>2, <1>7 DEF vars
<1>8. ASSUME (\E w \in Workers : WorkerCrash(w)) \/ ApiCrash PROVE FALSE
  BY <1>8 DEF WorkerCrash, ApiCrash, CleanFailures, TypeInv, TypeOK
<1>. QED BY <1>4, <1>5, <1>6, <1>7, <1>8, VisInvWorker DEF Next, OneTask, CleanFailures

\* While nobody deletes, no reply is lost and no process dies, a document with
\* a succeeded job is never without a visible version, though later runs fail at
\* any point, spent jobs are run once more and other versions are published:
\* what the comment of activate_version promises.
THEOREM SuccessKeepsVisible == ASSUME CleanFailures PROVE Spec => []SuccessStaysVisible
<1>1. VisInv => SuccessStaysVisible
  BY DEF VisInv, VisibleFor, SuccessStaysVisible
<1>2. Init => VisInv
  BY DEF Init, RegistryInit, VisInv, NoJob
<1>3. OneTask
  BY DEF CleanFailures
<1>4. TypeInv /\ TaskInv /\ VisInv /\ [Next]_vars => VisInv'
  BY VisInvNext
<1>. QED BY <1>1, <1>2, <1>3, <1>4, TaskInvariant, PTL DEF Spec

-----------------------------------------------------------------------------
(* Several background tasks *)

\* Embedded runs, of which none outlasts its lease, a store that never fails,
\* parseable files and no deletions.
CallsSucceed ==
  /\ Embedded /\ LeaseHolds
  /\ FailureModes = {} /\ Unparseable = {} /\ Deleters = {}

\* What a run with the locals x has established about the row j and the points
\* p of its version while the job has attempts left ...
EmbeddedOK(x, j, p) ==
  /\ x.phase \in {"claim"} \cup CleanPhases
  /\ x.snap = IF x.phase \in CopyPhases THEN j ELSE NoJob
  /\ x.phase = "save" => x.stage # "activate"
  /\ x.phase \in {"hide", "publish"} => x.stage = "activate"
  /\ x.phase # "claim" => j.status = "running" /\ j.age < StaleAfter
  /\ \/ x.phase \in {"refresh", "save"} /\ x.stage \in {"stage_qdrant", "verify"}
     \/ x.phase = "work" /\ x.stage \in {"verify", "activate"}
     => p = "inactive"

\* ... and when they are spent: that no write gives one back.
SpentOK(x) == x.phase \in CopyPhases => x.snap.status # "none" /\ x.snap.attempts = MaxAttempts

RunOK(x, j, p) ==
  /\ j.status # "none"
  /\ IF j.attempts < MaxAttempts THEN EmbeddedOK(x, j, p) ELSE SpentOK(x)

EmbeddedInv ==
  /\ OneRunPerJob
  /\ \A w \in Workers :
       IF workers[w].phase = "idle" THEN workers[w].snap = NoJob
       ELSE RunOK(workers[w], jobs[workers[w].job], points[workers[w].job])


\* Nothing has been claimed in the initial state.
LEMMA EmbeddedInvInit == Init => EmbeddedInv
BY DEF Init, EmbeddedInv, OneRunPerJob, Running, IdleWorker

\* The frame of a step of a run w on the job of v: the attempts of the job are
\* spent before and after it, or no other run is at work on it.
LEMMA EmbeddedFrame ==
  ASSUME TypeInv, EmbeddedInv, NEW w \in Workers, NEW v \in Versions,
         workers[w].job = v, workers[w].phase # "idle",
         \A u \in Workers \ {w} : workers'[u] = workers[u],
         \A u \in Versions \ {v} : /\ jobs'[u] = jobs[u]
                                   /\ points[u] = "inactive" => points'[u] = "inactive",
         \/ workers'[w] = IdleWorker
         \/ /\ workers'[w].phase # "idle" /\ workers'[w].job = v
            /\ RunOK(workers'[w], jobs'[v], points'[v]),
         jobs'[v].status # "none",
         \/ jobs[v].attempts = MaxAttempts /\ jobs'[v].attempts = MaxAttempts
         \/ /\ jobs[v].attempts < MaxAttempts
            /\ \A u \in Workers \ {w} : Running(u) => workers[u].job # v
  PROVE  EmbeddedInv'
<1>. USE NumAssumption
<1>1. workers'[w] = IdleWorker => workers'[w].phase = "idle" /\ workers'[w].snap = NoJob
  BY DEF IdleWorker
<1>2. ASSUME NEW u \in Workers, workers'[u].phase \notin {"idle", "claim"}
      PROVE  (u = w /\ workers'[u].job = v) \/ (u # w /\ Running(u))
  <2>1. CASE u = w
    BY <1>1, <1>2, <2>1
  <2>2. CASE u # w
    BY <1>2, <2>2 DEF Running
  <2>. QED BY <2>1, <2>2
<1>3. OneRunPerJob'
  <2>. SUFFICES ASSUME NEW u1 \in Workers, NEW u2 \in Workers,
                       workers'[u1].phase \notin {"idle", "claim"},
                       workers'[u2].phase \notin {"idle", "claim"},
                       workers'[u1].job = workers'[u2].job,
                       jobs'[workers'[u1].job].attempts < MaxAttempts
                PROVE  u1 = u2
    BY DEF OneRunPerJob, Running
  <2>1. CASE workers'[u1].job = v
    <3>1. \A u \in Workers \ {w} : Running(u) => workers[u].job # v
      BY <2>1
    <3>2. u1 = w /\ u2 = w
      BY <1>2, <2>1, <3>1
    <3>. QED BY <3>2
  <2>2. CASE workers'[u1].job # v
    <3>1. u1 # w /\ u2 # w /\ Running(u1) /\ Running(u2)
      BY <1>2, <2>2
    <3>2. workers[u1].job \in Versions \ {v} /\ workers[u1].job = workers[u2].job
      BY <2>2, <3>1 DEF TypeInv, Assigned, Running
    <3>3. jobs'[workers[u1].job] = jobs[workers[u1].job] /\ workers'[u1] = workers[u1]
      BY <3>1, <3>2
    <3>. QED BY <3>1, <3>2, <3>3 DEF EmbeddedInv, OneRunPerJob
  <2>. QED BY <2>1, <2>2
<1>4. ASSUME NEW u \in Workers
      PROVE  LET y == workers'[u]
             IN  IF y.phase = "idle" THEN y.snap = NoJob ELSE RunOK(y, jobs'[y.job], points'[y.job])
  <2>1. CASE u = w
    BY <1>1, <2>1
  <2>2. CASE u # w /\ workers[u].phase = "idle"
    BY <2>2 DEF EmbeddedInv
  <2>3. CASE u # w /\ workers[u].phase # "idle"
    <3>1. workers[u].job \in Versions /\ workers'[u] = workers[u]
      BY <2>3 DEF TypeInv, Assigned
    <3>2. RunOK(workers[u], jobs[workers[u].job], points[workers[u].job])
      BY <2>3 DEF EmbeddedInv
    <3>3. CASE workers[u].job # v
      BY <2>3, <3>1, <3>2, <3>3 DEF RunOK, EmbeddedOK
    <3>4. CASE workers[u].job = v /\ jobs[v].attempts = MaxAttempts
      BY <2>3, <3>1, <3>2, <3>4 DEF RunOK
    <3>5. CASE workers[u].job = v /\ jobs[v].attempts < MaxAttempts
      <4>1. workers[u].phase = "claim" /\ workers[u].snap = NoJob
        BY <2>3, <3>2, <3>5 DEF RunOK, EmbeddedOK, Running, CopyPhases
      <4>. QED BY <2>3, <3>1, <3>5, <4>1 DEF RunOK, EmbeddedOK, SpentOK, CopyPhases
    <3>. QED BY <3>3, <3>4, <3>5
  <2>. QED BY <2>1, <2>2, <2>3
<1>. QED BY <1>3, <1>4 DEF EmbeddedInv

\* The frame of a step of a run that leaves its row with attempts as it was.
LEMMA EmbeddedWrite ==
  ASSUME TypeInv, EmbeddedInv, NEW w \in Workers, NEW v \in Versions, workers[w].job = v,
         Running(w), jobs[v].attempts < MaxAttempts,
         \A u \in Workers \ {w} : workers'[u] = workers[u],
         \A u \in Versions \ {v} : /\ jobs'[u] = jobs[u]
                                   /\ points[u] = "inactive" => points'[u] = "inactive",
         jobs'[v] = jobs[v],
         workers'[w].job = v, Running(w)', EmbeddedOK(workers'[w], jobs[v], points'[v])
  PROVE  EmbeddedInv'
<1>1. \A u \in Workers \ {w} : Running(u) => workers[u].job # v
  BY DEF EmbeddedInv, OneRunPerJob
<1>2. workers[w].phase # "idle" /\ workers'[w].phase # "idle"
  BY DEF Running
<1>3. jobs[v].status # "none"
  BY <1>2 DEF EmbeddedInv, RunOK
<1>4. RunOK(workers'[w], jobs'[v], points'[v])
  BY <1>3 DEF RunOK
<1>. QED BY <1>1, <1>2, <1>3, <1>4, EmbeddedFrame

\* However many runs go on with a job whose attempts are spent, and however
\* they fail, they write none back and keep to the points of their version.
LEMMA EmbeddedInvSpent ==
  ASSUME TypeInv, EmbeddedInv, NEW w \in Workers, WorkerStep(w),
         workers[w].phase # "idle", ~(jobs[workers[w].job].attempts < MaxAttempts)
  PROVE  EmbeddedInv'
<1>. DEFINE x == workers[w]
            v == x.job
            job == jobs[v]
<1>. USE NumAssumption, PipelineAssumption
<1>1. /\ jobs \in [Versions -> Job] /\ workers \in [Workers -> Worker] /\ x \in Worker
      /\ points \in [Versions -> PointState] /\ x.snap \in Job
  BY DEF TypeInv, TypeOK, RegistryTypeOK, StoreTypeOK, Worker
<1>2. v \in Versions /\ job \in Job /\ job.attempts = MaxAttempts
  <2>1. v \in Versions /\ job \in Job
    BY <1>1 DEF TypeInv, Assigned
  <2>2. job.attempts \in 0 .. MaxAttempts
    BY <2>1 DEF Job
  <2>3. ~(job.attempts < MaxAttempts)
    OBVIOUS
  <2>. QED BY <2>1, <2>2, <2>3
<1>3. job.status # "none" /\ SpentOK(x)
  <2>1. RunOK(x, job, points[v])
    BY DEF EmbeddedInv
  <2>. QED BY <1>2, <2>1 DEF RunOK
<1>4. \/ jobs' = jobs
      \/ jobs' = [jobs EXCEPT ![v] = [@ EXCEPT !.error = TRUE, !.failedStage = TRUE]]
      \/ \E k \in Job : k.status # "none" /\ k.attempts = MaxAttempts /\ jobs' = [jobs EXCEPT ![v] = k]
  <2>1. CASE SaveStart(w) \/ SaveProgress(w)
    <3>. DEFINE k == [x.snap EXCEPT !.status = "running"]
    <3>1. k \in Job
      BY <1>1, JobChanges DEF JobStatus
    <3>2. x.snap.status # "none" /\ x.snap.attempts = MaxAttempts
      BY <1>3, <2>1 DEF SaveStart, SaveProgress, SpentOK, CopyPhases
    <3>3. k.status # "none" /\ k.attempts = MaxAttempts
      BY <1>1, <3>2 DEF Job
    <3>4. jobs' = [jobs EXCEPT ![v] = k]
      BY <2>1 DEF SaveStart, SaveProgress, UpdateJob
    <3>. QED BY <3>1, <3>3, <3>4
  <2>2. CASE Succeed(w)
    <3>. DEFINE k == [x.snap EXCEPT !.status = "succeeded"]
    <3>1. k \in Job
      BY <1>1, JobChanges DEF JobStatus
    <3>2. x.snap.status # "none" /\ x.snap.attempts = MaxAttempts
      BY <1>3, <2>2 DEF Succeed, SpentOK, CopyPhases
    <3>3. k.status # "none" /\ k.attempts = MaxAttempts
      BY <1>1, <3>2 DEF Job
    <3>4. jobs' = [jobs EXCEPT ![v] = k]
      BY <2>2 DEF Succeed, UpdateJob
    <3>. QED BY <3>1, <3>3, <3>4
  <2>3. CASE SaveFailed(w)
    <3>. DEFINE k == [x.snap EXCEPT !.status = "failed", !.error = TRUE]
    <3>1. k \in Job
      BY <1>1, JobChanges DEF JobStatus
    <3>2. x.snap.status # "none" /\ x.snap.attempts = MaxAttempts
      BY <1>3, <2>3 DEF SaveFailed, SpentOK, CopyPhases
    <3>3. k.status # "none" /\ k.attempts = MaxAttempts
      BY <1>1, <3>2 DEF Job
    <3>4. jobs' = [jobs EXCEPT ![v] = k]
      BY <2>3 DEF SaveFailed, UpdateJob
    <3>. QED BY <3>1, <3>3, <3>4
  <2>4. CASE Schedule(w)
    <3>. DEFINE k == [x.snap EXCEPT !.attempts = MaxAttempts, !.wait = 0]
    <3>1. k \in Job
      BY <1>1, JobChanges DEF JobStatus
    <3>2. x.snap.status # "none" /\ x.snap.attempts = MaxAttempts
      BY <1>3, <2>4 DEF Schedule, SpentOK, CopyPhases
    <3>3. k.status # "none" /\ k.attempts = MaxAttempts
      BY <1>1, <3>2 DEF Job
    <3>4. jobs' = [jobs EXCEPT ![v] = k]
      <4>1. ~(x.snap.attempts < MaxAttempts)
        BY <3>2
      <4>. QED BY <2>4, <4>1 DEF Schedule, UpdateJob
    <3>. QED BY <3>1, <3>3, <3>4
  <2>5. CASE RecordError(w)
    BY <2>5 DEF RecordError, RecordFailure
  <2>6. ~Claim(w)
    BY <1>2 DEF Claim, ClaimGranted, ClaimExhausted, ClaimFinished
  <2>. QED BY <2>1, <2>2, <2>3, <2>4, <2>5, <2>6
           DEF WorkerStep, ClaimNothing, ClaimSpent, MarkIndexing, LocalWork, StageVersion,
               VerifyVersion, ShowVersion, HideOthers, Publish, Refresh, Reread, DiscardVersion,
               MarkFailed
<1>5. /\ \A u \in Versions \ {v} : jobs'[u] = jobs[u]
      /\ jobs'[v].status # "none" /\ jobs'[v].attempts = MaxAttempts
  <2>. HIDE DEF v, x, job
  <2>1. CASE jobs' = jobs
    BY <1>2, <1>3, <2>1 DEF job
  <2>2. CASE jobs' = [jobs EXCEPT ![v] = [@ EXCEPT !.error = TRUE, !.failedStage = TRUE]]
    BY <1>1, <1>2, <1>3, <2>2 DEF job, Job
  <2>3. CASE \E k \in Job : k.status # "none" /\ k.attempts = MaxAttempts /\ jobs' = [jobs EXCEPT ![v] = k]
    BY <1>1, <1>2, <2>3
  <2>. QED BY <1>4, <2>1, <2>2, <2>3
<1>6. \A u \in Versions \ {v} : points[u] = "inactive" => points'[u] = "inactive"
  <2>1. CASE StageVersion(w)
    BY <1>1, <2>1 DEF StageVersion, Request, Staged
  <2>2. CASE ShowVersion(w)
    BY <1>1, <2>2 DEF ShowVersion, Request, Flagged
  <2>3. CASE HideOthers(w)
    BY <1>1, <2>3 DEF HideOthers, Request, OthersHidden
  <2>4. CASE DiscardVersion(w)
    BY <1>1, <2>4 DEF DiscardVersion, Request, Discarded
  <2>. QED BY <2>1, <2>2, <2>3, <2>4
           DEF WorkerStep, ClaimNothing, ClaimSpent, Claim, MarkIndexing, SaveStart, LocalWork,
               VerifyVersion, Publish, Refresh, SaveProgress, Succeed, RecordError, Reread,
               MarkFailed, SaveFailed, Schedule
<1>7. \E z : /\ workers' = [workers EXCEPT ![w] = z]
             /\ z = IdleWorker \/ (z.phase # "idle" /\ z.job = v /\ SpentOK(z))
  <2>1. CASE ClaimNothing(w) \/ Succeed(w) \/ Schedule(w)
    BY <2>1 DEF ClaimNothing, Succeed, Schedule, Return
  <2>2. CASE ClaimSpent(w)
    <3>. DEFINE z == [x EXCEPT !.phase = "indexing", !.snap = job]
    <3>1. z.phase # "idle" /\ z.job = v /\ SpentOK(z)
      BY <1>1, <1>2, <1>3 DEF SpentOK, Worker
    <3>. QED BY <2>2, <3>1 DEF ClaimSpent
  <2>3. CASE Refresh(w)
    <3>. DEFINE z == [x EXCEPT !.snap = job, !.phase = IF x.stage = "activate" THEN "succeed" ELSE "save"]
    <3>1. z.phase # "idle" /\ z.job = v /\ SpentOK(z)
      BY <1>1, <1>2, <1>3 DEF SpentOK, Worker
    <3>. QED BY <2>3, <3>1 DEF Refresh
  <2>4. CASE Reread(w)
    <3>. DEFINE z == [x EXCEPT !.snap = job, !.phase = IF x.staged THEN "discard" ELSE "mark"]
    <3>1. z.phase # "idle" /\ z.job = v /\ SpentOK(z)
      BY <1>1, <1>2, <1>3 DEF SpentOK, Worker
    <3>. QED BY <2>4, <3>1 DEF Reread
  <2>5. ASSUME NEW p \in {"start", "save_failed", "mark"}, x.phase \in CopyPhases, GoTo(w, p)
        PROVE  \E z : /\ workers' = [workers EXCEPT ![w] = z]
                      /\ z.phase # "idle" /\ z.job = v /\ SpentOK(z)
    <3>. DEFINE z == [x EXCEPT !.phase = p]
    <3>1. z.phase # "idle" /\ z.job = v /\ SpentOK(z)
      BY <1>1, <1>3, <2>5 DEF SpentOK, Worker
    <3>. QED BY <2>5, <3>1 DEF GoTo
  <2>6. CASE MarkIndexing(w) \/ MarkFailed(w)
    BY <2>5, <2>6 DEF MarkIndexing, MarkFailed, CopyPhases
  <2>7. CASE DiscardVersion(w)
    BY <2>5, <2>7 DEF DiscardVersion, Request, Return, CopyPhases
  <2>8. CASE SaveFailed(w)
    <3>. DEFINE k == [x.snap EXCEPT !.status = "failed", !.error = TRUE]
                z == [x EXCEPT !.phase = "schedule", !.snap = k]
    <3>1. k.status # "none" /\ k.attempts = MaxAttempts
      BY <1>1, <1>3, <2>8 DEF SaveFailed, SpentOK, CopyPhases, Job
    <3>2. z.phase # "idle" /\ z.job = v /\ z.snap = k
      BY <1>1 DEF Worker
    <3>3. SpentOK(z)
      BY <3>1, <3>2 DEF SpentOK
    <3>. QED BY <2>8, <3>2, <3>3 DEF SaveFailed
  <2>9. ASSUME NEW p \in {"work", "hide", "publish", "refresh", "failed", "reread"}, NEW z,
               workers' = [workers EXCEPT ![w] = z], z.phase = p, z.job = v
        PROVE  z.phase # "idle" /\ SpentOK(z)
    BY <2>9 DEF SpentOK, CopyPhases
  <2>10. ASSUME NEW p \in {"hide", "publish", "refresh", "reread"}, GoTo(w, p)
         PROVE  \E z : /\ workers' = [workers EXCEPT ![w] = z]
                       /\ z.phase # "idle" /\ z.job = v /\ SpentOK(z)
    <3>. DEFINE z == [x EXCEPT !.phase = p]
    <3>1. z.phase = p /\ z.job = v
      BY <1>1 DEF Worker
    <3>2. workers' = [workers EXCEPT ![w] = z]
      BY <2>10 DEF GoTo
    <3>. HIDE DEF z
    <3>. QED BY <2>9, <3>1, <3>2
  <2>11. ASSUME NEW b \in BOOLEAN, Raise(w, b)
         PROVE  \E z : /\ workers' = [workers EXCEPT ![w] = z]
                       /\ z.phase # "idle" /\ z.job = v /\ SpentOK(z)
    <3>. DEFINE z == [x EXCEPT !.phase = "failed", !.retryable = b]
    <3>1. z.phase = "failed" /\ z.job = v
      BY <1>1 DEF Worker
    <3>2. workers' = [workers EXCEPT ![w] = z]
      BY <2>11 DEF Raise
    <3>. HIDE DEF z
    <3>. QED BY <2>9, <3>1, <3>2
  <2>12. ASSUME NEW b \in BOOLEAN, x.phase = "work", WorkDone(w, b)
         PROVE  \E z : /\ workers' = [workers EXCEPT ![w] = z]
                       /\ z.phase # "idle" /\ z.job = v /\ SpentOK(z)
    <3>. DEFINE z == IF HasProgress(x.stage) THEN [x EXCEPT !.phase = "refresh", !.staged = b]
                     ELSE [x EXCEPT !.stage = NextStage(x.stage)]
    <3>1. z.phase \in {"refresh", "work"} /\ z.job = v
      BY <1>1, <2>12 DEF Worker
    <3>2. workers' = [workers EXCEPT ![w] = z]
      BY <2>12 DEF WorkDone
    <3>. HIDE DEF z
    <3>. QED BY <2>9, <3>1, <3>2
  <2>13. CASE Publish(w) \/ RecordError(w)
    BY <2>10, <2>13 DEF Publish, RecordError
  <2>14. CASE ShowVersion(w) \/ HideOthers(w)
    BY <2>10, <2>11, <2>14 DEF ShowVersion, HideOthers, Request
  <2>15. CASE LocalWork(w) \/ StageVersion(w) \/ VerifyVersion(w)
    BY <2>11, <2>12, <2>15 DEF LocalWork, StageVersion, VerifyVersion, Request
  <2>16. CASE SaveStart(w)
    <3>. DEFINE z == [x EXCEPT !.phase = "work", !.stage = "validate", !.snap = Stored]
    <3>1. z.phase = "work" /\ z.job = v
      BY <1>1 DEF Worker
    <3>2. workers' = [workers EXCEPT ![w] = z]
      BY <2>16 DEF SaveStart
    <3>. HIDE DEF z
    <3>. QED BY <2>9, <3>1, <3>2
  <2>17. CASE SaveProgress(w)
    <3>. DEFINE z == [x EXCEPT !.phase = "work", !.snap = Stored, !.stage = NextStage(x.stage)]
    <3>1. z.phase = "work" /\ z.job = v
      BY <1>1 DEF Worker
    <3>2. workers' = [workers EXCEPT ![w] = z]
      BY <2>17 DEF SaveProgress
    <3>. HIDE DEF z
    <3>. QED BY <2>9, <3>1, <3>2
  <2>18. ~Claim(w)
    BY <1>2 DEF Claim, ClaimGranted, ClaimExhausted, ClaimFinished
  <2>. QED BY <2>1, <2>2, <2>3, <2>4, <2>6, <2>7, <2>8, <2>13, <2>14, <2>15, <2>16, <2>17, <2>18
           DEF WorkerStep
<1>8. /\ \A u \in Workers \ {w} : workers'[u] = workers[u]
      /\ workers'[w] = IdleWorker
         \/ (workers'[w].phase # "idle" /\ workers'[w].job = v /\ SpentOK(workers'[w]))
  BY <1>1, <1>7
<1>9. SpentOK(workers'[w]) => RunOK(workers'[w], jobs'[v], points'[v])
  BY <1>5 DEF RunOK
<1>. HIDE DEF x, v, job
<1>. QED BY <1>2, <1>5, <1>6, <1>8, <1>9, EmbeddedFrame DEF x, v, job

\* A task that claims finds nobody at work on the job; from then on its lease
\* is fresh, and no other task is given the job.
LEMMA EmbeddedInvWorker ==
  ASSUME CallsSucceed, TypeInv, EmbeddedInv, NEW w \in Workers, WorkerStep(w),
         workers[w].phase # "idle", jobs[workers[w].job].attempts < MaxAttempts
  PROVE  EmbeddedInv'
<1>. DEFINE x == workers[w]
            v == x.job
            job == jobs[v]
<1>. USE NumAssumption, PipelineAssumption
<1>1. /\ jobs \in [Versions -> Job] /\ workers \in [Workers -> Worker] /\ x \in Worker
      /\ points \in [Versions -> PointState]
  BY DEF TypeInv, TypeOK, RegistryTypeOK, StoreTypeOK
<1>2. EmbeddedOK(x, job, points[v]) /\ job.status # "none"
  BY DEF EmbeddedInv, RunOK
<1>3. v \in Versions /\ job \in Job
  BY <1>1 DEF TypeInv, Assigned
<1>4. CASE ClaimNothing(w)
  <2>1. /\ \A u \in Workers \ {w} : workers'[u] = workers[u]
        /\ workers'[w] = IdleWorker /\ ~Running(w)'
    BY <1>1, <1>4 DEF ClaimNothing, Return, Running, IdleWorker
  <2>2. OneRunPerJob'
    BY <1>4, <2>1 DEF OneRunPerJob, EmbeddedInv, ClaimNothing, Running
  <2>. QED BY <1>4, <2>1, <2>2 DEF ClaimNothing, EmbeddedInv, IdleWorker
<1>5. CASE ClaimSpent(w)
  \* impossible: the job has attempts left
  BY <1>3, <1>5 DEF ClaimSpent, ClaimExhausted, Job
<1>6. CASE Claim(w)
  <2>1. ~(job.status = "running" /\ job.age < StaleAfter)
    BY <1>3, <1>6 DEF Claim, ClaimGranted, ClaimFinished, ClaimExhausted, ClaimRefused, LeaseFresh
  <2>2. \A u \in Workers : Running(u) => workers[u].job # v
    BY <2>1 DEF EmbeddedInv, RunOK, EmbeddedOK, Running
  <2>3. /\ jobs'[v] = Claimed(job) /\ jobs'[v].status = "running" /\ jobs'[v].age = 0
        /\ jobs'[v].attempts = job.attempts + 1
    BY <1>1, <1>3, <1>6 DEF Claim, UpdateJob, Claimed, Job
  <2>4. jobs'[v].attempts < MaxAttempts \/ jobs'[v].attempts = MaxAttempts
    BY <1>3, <2>3 DEF Job
  <2>5. workers'[w].job = v /\ workers'[w].phase = "indexing" /\ workers'[w].snap = jobs'[v]
    BY <1>1, <1>6, <2>3 DEF Claim, Worker
  <2>6. RunOK(workers'[w], jobs'[v], points'[v])
    BY <2>3, <2>4, <2>5 DEF RunOK, EmbeddedOK, SpentOK, CopyPhases, CleanPhases
  <2>7. /\ \A u \in Workers \ {w} : workers'[u] = workers[u]
        /\ workers'[w].phase # "idle" /\ jobs'[v].status # "none"
    BY <1>1, <1>6, <2>3, <2>5 DEF Claim
  <2>8. \A u \in Versions \ {v} : /\ jobs'[u] = jobs[u]
                                  /\ points[u] = "inactive" => points'[u] = "inactive"
    BY <1>1, <1>6 DEF Claim, UpdateJob
  <2>. HIDE DEF v, x, job
  <2>. QED BY <1>3, <2>2, <2>5, <2>6, <2>7, <2>8, EmbeddedFrame DEF x, v, job
<1>7. CASE MarkIndexing(w)
  <2>1. EmbeddedOK(workers'[w], job, points[v]) /\ workers'[w].job = v /\ Running(w)'
    BY <1>1, <1>2, <1>7 DEF MarkIndexing, GoTo, EmbeddedOK, Worker, CopyPhases, CleanPhases, Running
  <2>. QED BY <1>1, <1>3, <1>7, <2>1, EmbeddedWrite DEF MarkIndexing, GoTo, Running
<1>8. CASE SaveStart(w) \/ SaveProgress(w)
  <2>1. x.snap = job /\ job.status = "running" /\ job.age < StaleAfter
    BY <1>2, <1>8 DEF SaveStart, SaveProgress, EmbeddedOK, CopyPhases
  <2>2. jobs' = [jobs EXCEPT ![v] = job]
    BY <1>1, <1>3, <1>8, <2>1 DEF SaveStart, SaveProgress, UpdateJob, Job
  <2>3. /\ workers'[w].phase = "work" /\ workers'[w].job = v /\ workers'[w].snap = NoJob
        /\ workers'[w].stage \in {"verify", "activate"} => points[v] = "inactive"
    <3>1. CASE SaveStart(w)
      BY <1>1, <3>1 DEF SaveStart, Stored, Worker
    <3>2. CASE SaveProgress(w)
      BY <1>1, <1>2, <3>2 DEF SaveProgress, Stored, Worker, EmbeddedOK, Stages, NextStage
    <3>. QED BY <1>8, <3>1, <3>2
  <2>4. EmbeddedOK(workers'[w], job, points[v]) /\ Running(w)'
    BY <2>1, <2>3 DEF EmbeddedOK, CopyPhases, CleanPhases, Running
  <2>. QED BY <1>1, <1>3, <1>8, <2>2, <2>3, <2>4, EmbeddedWrite DEF SaveStart, SaveProgress, Running
<1>9. CASE LocalWork(w)
  <2>1. WorkDone(w, FALSE)
    BY <1>3, <1>9 DEF LocalWork, CallsSucceed
  <2>2. EmbeddedOK(workers'[w], job, points[v]) /\ workers'[w].job = v /\ Running(w)'
    <3>1. CASE x.stage = "embed_dense"
      BY <1>1, <1>2, <1>9, <2>1, <3>1
      DEF LocalWork, WorkDone, HasProgress, NextStage, EmbeddedOK, Worker, CopyPhases, CleanPhases,
          Running
    <3>2. CASE x.stage # "embed_dense"
      BY <1>1, <1>2, <1>9, <2>1, <3>2
      DEF LocalWork, WorkDone, HasProgress, EmbeddedOK, Worker, CopyPhases, CleanPhases, Running
    <3>. QED BY <3>1, <3>2
  <2>. QED BY <1>1, <1>3, <1>9, <2>1, <2>2, EmbeddedWrite DEF LocalWork, WorkDone, Running
<1>10. CASE StageVersion(w)
  <2>1. WorkDone(w, TRUE) /\ points' = Staged(v)
    BY <1>10 DEF StageVersion, Request, CallsSucceed
  <2>2. points'[v] = "inactive" /\ \A u \in Versions \ {v} : points'[u] = points[u]
    BY <1>1, <1>3, <1>10, <2>1 DEF Staged, StageVersion
  <2>3. EmbeddedOK(workers'[w], job, points'[v]) /\ workers'[w].job = v /\ Running(w)'
    BY <1>1, <1>2, <1>10, <2>1, <2>2
    DEF StageVersion, WorkDone, HasProgress, EmbeddedOK, Worker, CopyPhases, CleanPhases, Running
  <2>. QED BY <1>1, <1>3, <1>10, <2>1, <2>2, <2>3, EmbeddedWrite
           DEF StageVersion, WorkDone, HasProgress, Running
<1>11. CASE VerifyVersion(w)
  <2>1. WorkDone(w, TRUE) /\ points[v] = "inactive"
    BY <1>2, <1>11 DEF VerifyVersion, Verified, EmbeddedOK, CallsSucceed
  <2>2. EmbeddedOK(workers'[w], job, points[v]) /\ workers'[w].job = v /\ Running(w)'
    BY <1>1, <1>2, <1>11, <2>1
    DEF VerifyVersion, WorkDone, HasProgress, EmbeddedOK, Worker, CopyPhases, CleanPhases, Running
  <2>. QED BY <1>1, <1>3, <1>11, <2>1, <2>2, EmbeddedWrite
           DEF VerifyVersion, WorkDone, HasProgress, Running
<1>12. CASE ShowVersion(w)
  <2>1. GoTo(w, "hide") /\ points' = Flagged(v)
    BY <1>12 DEF ShowVersion, Request, CallsSucceed
  <2>2. \A u \in Versions \ {v} : points'[u] = points[u]
    BY <2>1 DEF Flagged
  <2>3. EmbeddedOK(workers'[w], job, points'[v]) /\ workers'[w].job = v /\ Running(w)'
    BY <1>1, <1>2, <1>12, <2>1
    DEF ShowVersion, GoTo, EmbeddedOK, Worker, CopyPhases, CleanPhases, Running
  <2>. QED BY <1>1, <1>3, <1>12, <2>1, <2>2, <2>3, EmbeddedWrite DEF ShowVersion, GoTo, Running
<1>13. CASE HideOthers(w)
  <2>1. GoTo(w, "publish") /\ points' = OthersHidden(v)
    BY <1>13 DEF HideOthers, Request, CallsSucceed
  <2>2. \A u \in Versions : points[u] = "inactive" => points'[u] = "inactive"
    BY <2>1 DEF OthersHidden
  <2>3. EmbeddedOK(workers'[w], job, points'[v]) /\ workers'[w].job = v /\ Running(w)'
    BY <1>1, <1>2, <1>13, <2>1
    DEF HideOthers, GoTo, EmbeddedOK, Worker, CopyPhases, CleanPhases, Running
  <2>. QED BY <1>1, <1>3, <1>13, <2>1, <2>2, <2>3, EmbeddedWrite DEF HideOthers, GoTo, Running
<1>14. CASE Publish(w)
  <2>1. x.stage \notin {"stage_qdrant", "verify"}
    BY <1>2, <1>14 DEF Publish, EmbeddedOK
  <2>2. EmbeddedOK(workers'[w], job, points[v]) /\ workers'[w].job = v /\ Running(w)'
    BY <1>1, <1>2, <1>14, <2>1 DEF Publish, GoTo, EmbeddedOK, Worker, CopyPhases, CleanPhases, Running
  <2>. QED BY <1>1, <1>3, <1>14, <2>2, EmbeddedWrite DEF Publish, GoTo, Running
<1>15. CASE Refresh(w)
  <2>1. EmbeddedOK(workers'[w], job, points[v]) /\ workers'[w].job = v /\ Running(w)'
    BY <1>1, <1>2, <1>15 DEF Refresh, EmbeddedOK, Worker, CopyPhases, CleanPhases, Running
  <2>. QED BY <1>1, <1>3, <1>15, <2>1, EmbeddedWrite DEF Refresh, Running
<1>16. CASE Succeed(w)
  <2>1. x.snap = job /\ Running(w)
    BY <1>2, <1>16 DEF Succeed, EmbeddedOK, CopyPhases, Running
  <2>2. jobs'[v].status = "succeeded"
    BY <1>1, <1>3, <1>16, <2>1 DEF Succeed, UpdateJob, Job
  <2>3. \A u \in Workers \ {w} : Running(u) => workers[u].job # v
    BY <2>1 DEF EmbeddedInv, OneRunPerJob
  <2>. QED BY <1>1, <1>3, <1>16, <2>2, <2>3, EmbeddedFrame DEF Succeed, Return, UpdateJob
<1>17. CASE x.phase \notin {"claim"} \cup CleanPhases
  BY <1>2, <1>17 DEF EmbeddedOK
<1>. QED BY <1>4, <1>5, <1>6, <1>7, <1>8, <1>9, <1>10, <1>11, <1>12, <1>13, <1>14, <1>15,
            <1>16, <1>17
         DEF WorkerStep, RecordError, Reread, DiscardVersion, MarkFailed, SaveFailed, Schedule,
             CleanPhases

\* An upload starts a task for a job that nobody has met, or for any other.
LEMMA EmbeddedInvUpload ==
  ASSUME TypeInv, EmbeddedInv, NEW v \in Versions, NEW w \in Workers, UploadAndRun(v, w)
  PROVE  EmbeddedInv'
<1>. USE NumAssumption
<1>1. /\ jobs \in [Versions -> Job] /\ workers \in [Workers -> Worker]
      /\ workers[w].phase = "idle" /\ UNCHANGED points
  BY DEF TypeInv, TypeOK, RegistryTypeOK, UploadAndRun
<1>2. /\ workers'[w].phase = "claim" /\ workers'[w].job = v /\ workers'[w].snap = NoJob
      /\ \A u \in Workers \ {w} : workers'[u] = workers[u]
  BY <1>1 DEF UploadAndRun, Take, IdleWorker
<1>3. ASSUME NEW u \in Versions, jobs[u].status # "none" PROVE jobs'[u] = jobs[u]
  BY <1>1, <1>3 DEF UploadAndRun, AcceptNew, Exists
<1>4. jobs'[v].status # "none" /\ jobs'[v].attempts \in 0 .. MaxAttempts
  <2>1. CASE jobs' = jobs /\ Exists(v)
    BY <1>1, <2>1 DEF Exists, Job
  <2>2. CASE AcceptNew(v)
    BY <1>1, <2>2 DEF AcceptNew, NoJob
  <2>. QED BY <2>1, <2>2 DEF UploadAndRun
<1>5. ASSUME NEW u \in Workers, u # w, workers[u].phase # "idle"
      PROVE  /\ workers[u].job \in Versions /\ jobs'[workers[u].job] = jobs[workers[u].job]
             /\ RunOK(workers[u], jobs[workers[u].job], points[workers[u].job])
  <2>1. workers[u].job \in Versions
    BY <1>5 DEF TypeInv, Assigned
  <2>2. RunOK(workers[u], jobs[workers[u].job], points[workers[u].job])
    BY <1>5 DEF EmbeddedInv
  <2>. QED BY <1>3, <2>1, <2>2 DEF RunOK
<1>6. ASSUME NEW u \in Workers
      PROVE  LET y == workers'[u]
             IN  IF y.phase = "idle" THEN y.snap = NoJob ELSE RunOK(y, jobs'[y.job], points'[y.job])
  <2>1. CASE u = w
    BY <1>2, <1>4, <2>1 DEF RunOK, EmbeddedOK, SpentOK, CopyPhases
  <2>2. CASE u # w
    BY <1>1, <1>2, <1>5, <2>2 DEF EmbeddedInv
  <2>. QED BY <2>1, <2>2
<1>7. OneRunPerJob'
  BY <1>2, <1>5 DEF EmbeddedInv, OneRunPerJob, Running
<1>. QED BY <1>6, <1>7 DEF EmbeddedInv

\* A crash of the API process ends every task.
LEMMA EmbeddedInvCrash == ASSUME Embedded, ApiCrash PROVE EmbeddedInv'
BY DEF ApiCrash, EmbeddedInv, OneRunPerJob, Running, IdleWorker

\* No tick takes a run out of its lease.
LEMMA EmbeddedInvTick ==
  ASSUME CallsSucceed, TypeInv, EmbeddedInv, Tick
  PROVE  EmbeddedInv'
<1>. USE NumAssumption, AgeCapNat
<1>1. jobs \in [Versions -> Job] /\ workers \in [Workers -> Worker] /\ NoJob.status = "none"
  BY DEF TypeInv, TypeOK, RegistryTypeOK, NoJob
<1>2. ASSUME NEW j \in Job
      PROVE  /\ Aged(j).status = j.status /\ Aged(j).attempts = j.attempts
             /\ j.age + 1 < StaleAfter => Aged(j).age < StaleAfter
  <2>1. /\ Aged(j).status = j.status /\ Aged(j).attempts = j.attempts
        /\ Aged(j).age = IF j.age < AgeCap THEN j.age + 1 ELSE j.age
    BY DEF Aged, Job
  <2>2. j.age \in Nat
    BY DEF Job
  <2>. QED BY <2>1, <2>2
<1>3. ASSUME NEW v \in Versions
      PROVE  /\ jobs[v] \in Job
             /\ jobs'[v] = IF jobs[v].status # "none" THEN Aged(jobs[v]) ELSE jobs[v]
  BY <1>1 DEF Tick, Exists
<1>4. ASSUME NEW w \in Workers
      PROVE  /\ workers'[w].phase = workers[w].phase /\ workers'[w].job = workers[w].job
             /\ workers'[w].stage = workers[w].stage /\ workers[w].snap \in Job
             /\ workers'[w].snap = IF workers[w].snap.status # "none" THEN Aged(workers[w].snap)
                                   ELSE workers[w].snap
  BY <1>1 DEF Tick, Worker
<1>5. ASSUME NEW w \in Workers, workers[w].phase # "idle"
      PROVE  LET v == workers[w].job
             IN  v \in Versions /\ RunOK(workers'[w], jobs'[v], points'[v])
                 /\ jobs'[v].attempts = jobs[v].attempts
  <2>. DEFINE x == workers[w]
              v == x.job
              y == workers'[w]
  <2>1. v \in Versions /\ RunOK(x, jobs[v], points[v])
    BY <1>5 DEF TypeInv, Assigned, EmbeddedInv
  <2>2. /\ jobs[v].status # "none" /\ jobs'[v] = Aged(jobs[v]) /\ jobs[v] \in Job
        /\ jobs'[v].status = jobs[v].status /\ jobs'[v].attempts = jobs[v].attempts
    BY <1>2, <1>3, <2>1 DEF RunOK
  <2>3. CASE jobs[v].attempts < MaxAttempts
    <3>1. EmbeddedOK(x, jobs[v], points[v])
      BY <2>1, <2>3 DEF RunOK
    <3>2. y.snap = IF y.phase \in CopyPhases THEN jobs'[v] ELSE NoJob
      BY <1>1, <1>4, <2>2, <3>1 DEF EmbeddedOK
    <3>3. x.phase # "claim" => jobs'[v].age < StaleAfter
      BY <1>2, <1>5, <2>2 DEF Tick, CallsSucceed, Running
    <3>4. EmbeddedOK(y, jobs'[v], points'[v])
      BY <1>4, <2>2, <3>1, <3>2, <3>3 DEF EmbeddedOK, Tick
    <3>. QED BY <2>1, <2>2, <2>3, <3>4 DEF RunOK
  <2>4. CASE ~(jobs[v].attempts < MaxAttempts)
    <3>1. SpentOK(x)
      BY <2>1, <2>4 DEF RunOK
    <3>2. SpentOK(y)
      BY <1>2, <1>4, <3>1 DEF SpentOK
    <3>. QED BY <2>1, <2>2, <2>4, <3>2 DEF RunOK
  <2>. QED BY <2>3, <2>4
<1>6. OneRunPerJob'
  BY <1>4, <1>5 DEF EmbeddedInv, OneRunPerJob, Running
<1>7. ASSUME NEW w \in Workers, workers[w].phase = "idle" PROVE workers'[w].snap = NoJob
  BY <1>1, <1>4, <1>7 DEF EmbeddedInv
<1>. QED BY <1>4, <1>5, <1>6, <1>7 DEF EmbeddedInv

\* Every action keeps what the tasks have established.
LEMMA EmbeddedInvNext ==
  ASSUME CallsSucceed
  PROVE  TypeInv /\ EmbeddedInv /\ [Next]_vars => EmbeddedInv'
<1>. SUFFICES ASSUME TypeInv, EmbeddedInv, [Next]_vars PROVE EmbeddedInv'
  OBVIOUS
<1>1. CASE Next
  <2>1. ASSUME NEW w \in Workers, WorkerStep(w) PROVE EmbeddedInv'
    <3>1. workers[w].phase # "idle"
      BY <2>1
      DEF WorkerStep, ClaimNothing, ClaimSpent, Claim, MarkIndexing, SaveStart, LocalWork,
          StageVersion, VerifyVersion, ShowVersion, HideOthers, Publish, Refresh, SaveProgress,
          Succeed, RecordError, Reread, DiscardVersion, MarkFailed, SaveFailed, Schedule
    <3>. QED BY <2>1, <3>1, EmbeddedInvSpent, EmbeddedInvWorker
  <2>2. CASE \E v \in Versions, w \in Workers : UploadAndRun(v, w)
    BY <2>2, EmbeddedInvUpload
  <2>3. CASE Tick
    BY <2>3, EmbeddedInvTick
  <2>4. CASE ApiCrash
    BY <2>4, EmbeddedInvCrash DEF CallsSucceed
  <2>. QED BY <1>1, <2>1, <2>2, <2>3, <2>4 DEF Next, CallsSucceed, Upload, Poll, WorkerCrash
<1>2. CASE UNCHANGED vars
  BY <1>2 DEF vars, EmbeddedInv, OneRunPerJob, Running
<1>. QED BY <1>1, <1>2

\* The inductive invariant of several tasks.
THEOREM EmbeddedInvariant == ASSUME CallsSucceed PROVE Spec => [](TypeInv /\ EmbeddedInv)
<1>1. Init => TypeInv /\ EmbeddedInv
  BY TypeInvInit, EmbeddedInvInit
<1>2. TypeInv /\ EmbeddedInv /\ [Next]_vars => (TypeInv /\ EmbeddedInv)'
  BY TypeInvNext, EmbeddedInvNext
<1>. QED BY <1>1, <1>2, PTL DEF Spec

\* However many background tasks uploads have started and however often the
\* process crashed, no two of them work on a job that has attempts left, as
\* long as none outlasts its lease, which the code nowhere renews or checks
\* (LeaseHolds), and no call of a run fails: the claim is the only mutual
\* exclusion there is.
THEOREM OneTaskPerJob == ASSUME CallsSucceed PROVE Spec => []OneRunPerJob
<1>1. EmbeddedInv => OneRunPerJob
  BY DEF EmbeddedInv
<1>. QED BY <1>1, EmbeddedInvariant, PTL
=============================================================================
