----------------------------- MODULE JobRegistry -----------------------------
(***************************************************************************)
(* The `ingestions' table of SqliteIngestionRegistry, one row per accepted *)
(* (tenant, content, pipeline) identity, which the code names by its       *)
(* version id.  The columns that the job machinery writes together are one *)
(* record in jobs[v]; the document_status column, which has writers of its *)
(* own, is docs[v].  Every operator below that primes a variable is one    *)
(* SQLite transaction.                                                     *)
(*                                                                         *)
(* Times are relative: age is how long ago last_attempt_at was, counted up *)
(* to AgeCap, and wait is how far next_attempt_at lies ahead, 0 when it is *)
(* NULL or past.  The code only ever compares these two with the present   *)
(* and with a lease, so a NULL last_attempt_at reads as age AgeCap.        *)
(* Progress, stage events, point counts and messages are left out.  Of an  *)
(* error only its presence is kept: error is error_code and error_message, *)
(* which come and go together, failedStage the failed_stage column, which  *)
(* a claim leaves as it is.                                                *)
(***************************************************************************)
EXTENDS Naturals

CONSTANTS
  Versions,        \* version ids: one row, and one job, each
  Docs,            \* logical document ids
  DocOf,           \* [Versions -> Docs]; versions of a document differ in pipeline fingerprint
  MaxAttempts,     \* the max_attempts column, 3 in every row the code writes
  StaleAfter,      \* lease length claim_job assumes, in ticks
  PollStaleAfter,  \* lease length the poller lists with (worker_stale_after_seconds)
  BackoffCap       \* longest retry delay, in ticks

ASSUME DocAssumption == DocOf \in [Versions -> Docs]
ASSUME NumAssumption ==
  /\ MaxAttempts \in Nat \ {0}
  /\ StaleAfter \in Nat \ {0}
  /\ PollStaleAfter \in Nat \ {0}
  /\ BackoffCap \in Nat \ {0}

VARIABLES jobs, docs

JobStatus == {"queued", "running", "succeeded", "failed"}
DocumentStatus == {"indexing", "active", "failed", "deleted"}

AgeCap == IF StaleAfter > PollStaleAfter THEN StaleAfter ELSE PollStaleAfter

\* A row's job columns; status "none" stands for a row that does not exist.
Job == [status      : JobStatus \cup {"none"},
        attempts    : 0 .. MaxAttempts,
        age         : 0 .. AgeCap,
        wait        : 0 .. BackoffCap,
        error       : BOOLEAN,
        failedStage : BOOLEAN]

NoJob == [status |-> "none", attempts |-> 0, age |-> AgeCap, wait |-> 0,
          error |-> FALSE, failedStage |-> FALSE]

RegistryTypeOK ==
  /\ jobs \in [Versions -> Job]
  /\ docs \in [Versions -> DocumentStatus \cup {"none"}]

RegistryInit ==
  /\ jobs = [v \in Versions |-> NoJob]
  /\ docs = [v \in Versions |-> "none"]

Exists(v) == jobs[v].status # "none"
VersionsOf(d) == {v \in Versions : DocOf[v] = d /\ Exists(v)}

-----------------------------------------------------------------------------
(* Acceptance and leases.  A definition whose comment begins with `Mutant' is *)
(* a plausible bug in the definition below it; no model uses it.             *)

\* Mutant: the row of a known identity is replaced.
AcceptReplacing(v) ==
  /\ jobs' = [jobs EXCEPT ![v] = [NoJob EXCEPT !.status = "queued"]]
  /\ docs' = [docs EXCEPT ![v] = "indexing"]

\* accept: a new identity gets a queued job and an indexing version.
AcceptNew(v) ==
  /\ ~Exists(v)
  /\ jobs' = [jobs EXCEPT ![v] = [NoJob EXCEPT !.status = "queued"]]
  /\ docs' = [docs EXCEPT ![v] = "indexing"]

LeaseFresh(j, lease) == j.status = "running" /\ j.age < lease

\* The tests of claim_job, in the order of its early returns.
ClaimFinished(j)  == j.status = "succeeded"
ClaimExhausted(j) == ~ClaimFinished(j) /\ j.attempts >= MaxAttempts

\* Mutant: only the retry time is tested, not the lease.
ClaimRefusedIgnoringLease(j) ==
  ~ClaimFinished(j) /\ ~ClaimExhausted(j) /\ j.wait > 0

ClaimRefused(j)   == /\ ~ClaimFinished(j)
                     /\ ~ClaimExhausted(j)
                     /\ j.wait > 0 \/ LeaseFresh(j, StaleAfter)
ClaimGranted(j)   == ~(ClaimFinished(j) \/ ClaimExhausted(j) \/ ClaimRefused(j))

\* Mutants: the claim leaves the status, the error or the count as it was.
ClaimedUnmarked(j) == [j EXCEPT !.error = FALSE, !.wait = 0, !.age = 0, !.attempts = @ + 1]
ClaimedWithError(j) == [j EXCEPT !.status = "running", !.wait = 0, !.age = 0, !.attempts = @ + 1]
ClaimedUncounted(j) == [j EXCEPT !.status = "running", !.error = FALSE, !.wait = 0, !.age = 0]

\* The claim clears error_code, error_message and next_attempt_at only.
Claimed(j) == [j EXCEPT !.status = "running", !.error = FALSE, !.wait = 0,
                        !.age = 0, !.attempts = @ + 1]

\* Mutants: a worker that died is not made up for; spent jobs are listed.
RecoverableIdle(v) ==
  jobs[v].status \in {"queued", "failed"} /\ jobs[v].attempts < MaxAttempts /\ jobs[v].wait = 0
RecoverableSpent(v) ==
  /\ jobs[v].status \in {"queued", "failed", "running"}
  /\ jobs[v].attempts <= MaxAttempts
  /\ jobs[v].wait = 0
  /\ ~LeaseFresh(jobs[v], PollStaleAfter)

\* list_recoverable_jobs; its ORDER BY and LIMIT are not kept here.
Recoverable(v) ==
  /\ jobs[v].status \in {"queued", "failed", "running"}
  /\ jobs[v].attempts < MaxAttempts
  /\ jobs[v].wait = 0
  /\ ~LeaseFresh(jobs[v], PollStaleAfter)

-----------------------------------------------------------------------------
(* Writes of the worker *)

\* update_job overwrites every job column of the row with the caller's copy.
UpdateJob(v, snapshot) == jobs' = [jobs EXCEPT ![v] = snapshot]

\* record_stage_event with a failed event sets the row's error columns and
\* its failed_stage.
RecordFailure(v) == jobs' = [jobs EXCEPT ![v] = [@ EXCEPT !.error = TRUE, !.failedStage = TRUE]]

SetDocumentStatus(v, status) == docs' = [docs EXCEPT ![v] = status]

\* Mutant: the delay has no upper bound.
DelayUnbounded(n) == 2 ^ (IF n > 0 THEN n - 1 ELSE 0)

\* The delay _fail puts on the next attempt: 2^(n-1), at most BackoffCap.
Delay(n) == LET d == 2 ^ (IF n > 0 THEN n - 1 ELSE 0)
            IN  IF d \in 1 .. BackoffCap THEN d ELSE BackoffCap

-----------------------------------------------------------------------------
(* Documents *)

\* The status of the read model get_document returns for d.
DocumentStatusOf(d) ==
  LET statuses == {docs[v] : v \in VersionsOf(d)}
  IN  IF "active" \in statuses THEN "active"
      ELSE IF "indexing" \in statuses THEN "indexing"
      ELSE IF "failed" \in statuses THEN "failed"
      ELSE "deleted"

\* Mutant: only queued jobs block a delete.
BusyQueued(d) == \E v \in VersionsOf(d) : jobs[v].status = "queued"

Busy(d) == \E v \in VersionsOf(d) : jobs[v].status \in {"queued", "running"}

\* delete_document: refused as DOCUMENT_BUSY, or every version is marked.
DeleteRefused(d) == Busy(d)
DeleteRows(d) ==
  /\ ~Busy(d)
  /\ docs' = [v \in Versions |-> IF v \in VersionsOf(d) THEN "deleted" ELSE docs[v]]

-----------------------------------------------------------------------------
(* One tick of the wall clock, for a row and for a worker's copy of one. *)
Aged(j) == [j EXCEPT !.age  = IF j.age < AgeCap THEN j.age + 1 ELSE j.age,
                     !.wait = IF j.wait > 0 THEN j.wait - 1 ELSE 0]
=============================================================================
