------------------------- MODULE IngestionProperties -------------------------
(***************************************************************************)
(* What the ingestion side must get right, and what its documentation says *)
(* it does.  Which runs check a property, and under which deployment and   *)
(* failures it holds, is in the README.                                    *)
(***************************************************************************)
EXTENDS IngestionPipeline

\* A job that will not be worked on again.
Finished(v) ==
  \/ jobs[v].status = "succeeded"
  \/ jobs[v].status = "failed" /\ jobs[v].attempts = MaxAttempts

-----------------------------------------------------------------------------
(* Leases *)

\* No two runs of run_job work on a job that has attempts left: the claim
\* alone keeps the tasks of repeated uploads apart.  A job without attempts
\* left is given to every task that asks for it (ClaimSpent).
OneRunPerJob ==
  \A w1, w2 \in Workers :
    /\ Running(w1) /\ Running(w2) /\ workers[w1].job = workers[w2].job
    /\ jobs[workers[w1].job].attempts < MaxAttempts
    => w1 = w2

\* From the claim to the last write the row says that the job is running,
\* which is what the busy check of delete_document looks at; only between
\* the two writes of _fail does it already say failed.
RunOwnsRow ==
  \A w \in Workers : Running(w) =>
    jobs[workers[w].job].status =
      IF workers[w].phase = "schedule" THEN "failed" ELSE "running"

\* What the job view shows of failures once a job has succeeded: neither an
\* error nor a retry time, although every stage writes back the whole row.
\* The stage that failed is still shown (no claim clears failed_stage), but
\* only if an attempt before the one that succeeded did fail.
SuccessShowsPastFailures ==
  \A v \in Versions : jobs[v].status = "succeeded" =>
    /\ ~jobs[v].error /\ jobs[v].wait = 0
    /\ jobs[v].failedStage => jobs[v].attempts > 1

\* The job rows follow the life cycle the registry promises.
Life == INSTANCE JobLifecycle WITH
          life  <- [v \in Versions |-> jobs[v].status],
          tries <- [v \in Versions |-> jobs[v].attempts]
LifeCycle == Life!Spec

-----------------------------------------------------------------------------
(* Publication *)

\* Unless the document is deleted, a succeeded job has its version recorded
\* active and its points still stored.
SuccessIsStored ==
  \A v \in Versions : jobs[v].status = "succeeded" =>
    points[v] # "absent" /\ docs[v] = "active"

\* activate_version: "a failed activation can never create a
\* zero-active-version gap".  Once a version of a document was ingested
\* successfully, searches find a version of it at every moment.
SuccessStaysVisible ==
  \A v \in Versions : jobs[v].status = "succeeded" => Visible(DocOf[v]) # {}

-----------------------------------------------------------------------------
(* Deletion *)

\* Rows are marked deleted only while no run works on any of the document's
\* versions: nothing the run writes later can undo a 204.
DeletedWhileIdle ==
  [][\A v \in Versions : docs[v] # "deleted" /\ docs'[v] = "deleted" =>
       \A w \in Workers : Running(w) /\ workers[w].phase # "schedule"
          => DocOf[workers[w].job] # DocOf[v]]_vars

\* A deleted version with no attempt left stays deleted.
SpentStaysDeleted ==
  [][\A v \in Versions :
       /\ docs[v] = "deleted"
       /\ Finished(v)
       => docs'[v] = "deleted"]_vars

-----------------------------------------------------------------------------
(* Progress *)

\* A worker died, or gave up on the store, in the last attempt: the row says
\* running, and the poller's attempt_count < max_attempts leaves it alone.
Abandoned(v) == jobs[v].status = "running" /\ jobs[v].attempts = MaxAttempts

\* Every accepted job is worked on until it has succeeded, failed for good or
\* been abandoned in its last attempt, and that is how it stays.
JobsSettle ==
  \A v \in Versions : Exists(v) ~> [](Finished(v) \/ Abandoned(v))
=============================================================================
