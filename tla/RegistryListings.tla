-------------------------- MODULE RegistryListings ---------------------------
(***************************************************************************)
(* The two ordered readings of the ingestions table while it changes:      *)
(*  - list_recoverable_jobs, by which worker containers take jobs up.  It  *)
(*    orders by COALESCE(next_attempt_at, created_at), cuts the result off *)
(*    at twice the limit and only then looks at leases and retry times;    *)
(*    run_worker asks for one job at a time;                               *)
(*  - list_documents, the offset pages of GET /documents.                  *)
(* A run of run_job is its claim and its outcome here: IngestionPipeline   *)
(* has the steps between.                                                  *)
(*                                                                         *)
(* Time stamps are kept by their order only.  created numbers the rows as  *)
(* they are accepted.  due of a row whose next_attempt_at is set and past  *)
(* is the number of rows there were when it passed, so that the retry      *)
(* stands behind these rows and before later ones; retries that passed     *)
(* between the same two uploads stand in the order of their rows.  A       *)
(* retry time still ahead is the row's wait.                               *)
(***************************************************************************)
EXTENDS JobRegistry, FiniteSets

CONSTANTS
  Pollers,     \* worker containers
  Walkers,     \* clients that read the document list page by page and delete documents
  TenantOf,    \* [Docs -> tenants]
  PageSize,    \* documents per page
  NoTenant, NoVersion

ASSUME ListingAssumption ==
  /\ IsFiniteSet(Versions)
  /\ PageSize \in Nat \ {0}
  /\ NoTenant \notin {TenantOf[d] : d \in Docs}
  /\ NoVersion \notin Versions

VARIABLES created, due, pollers, walkers

vars == <<jobs, docs, created, due, pollers, walkers>>

Poller == [phase : {"list", "claim", "work"}, job : Versions \cup {NoVersion}]
IdlePoller == [phase |-> "list", job |-> NoVersion]

Walker == [tenant : {TenantOf[d] : d \in Docs} \cup {NoTenant},
           offset : Nat,
           shown  : SUBSET Docs,    \* the documents on the pages so far
           again  : Nat,            \* how many of them had been shown before
           begun  : SUBSET Docs]    \* the documents listed when the walk began
IdleWalker == [tenant |-> NoTenant, offset |-> 0, shown |-> {}, again |-> 0, begun |-> {}]

Rows == {v \in Versions : Exists(v)}

TypeOK ==
  /\ RegistryTypeOK
  /\ created \in [Versions -> 0 .. Cardinality(Rows)]
  /\ due \in [Versions -> 0 .. Cardinality(Rows)]
  /\ pollers \in [Pollers -> Poller]
  /\ walkers \in [Walkers -> Walker]

Init ==
  /\ RegistryInit
  /\ created = [v \in Versions |-> 0]
  /\ due = [v \in Versions |-> 0]
  /\ pollers = [p \in Pollers |-> IdlePoller]
  /\ walkers = [w \in Walkers |-> IdleWalker]

Accept(v) ==
  /\ AcceptNew(v)
  /\ created' = [created EXCEPT ![v] = Cardinality(Rows) + 1]
  /\ UNCHANGED <<due, pollers, walkers>>

-----------------------------------------------------------------------------
(* list_recoverable_jobs *)

\* Mutant: the rows without attempts left are sorted out after the LIMIT.
SelectedSpent(v) == jobs[v].status \in {"queued", "failed", "running"}

Selected(v) ==
  /\ jobs[v].status \in {"queued", "failed", "running"}
  /\ jobs[v].attempts < MaxAttempts

\* Mutants: newest first; by creation alone.
EarlierNewestFirst(u, v) == created[u] > created[v]
EarlierByCreation(u, v) == created[u] < created[v]

\* ORDER BY COALESCE(next_attempt_at, created_at).
Earlier(u, v) ==
  LET key(x) == IF jobs[x].wait > 0 THEN 2 * (Cardinality(Versions) + jobs[x].wait)
                ELSE IF due[x] > 0 THEN 2 * due[x] + 1
                ELSE 2 * created[x]
  IN  key(u) < key(v) \/ (key(u) = key(v) /\ created[u] < created[v])

\* run_worker asks for one job.
Limit == 1

\* The rows that LIMIT lets through.
InWindow(v) ==
  /\ Selected(v)
  /\ Cardinality({u \in Versions : Selected(u) /\ Earlier(u, v)}) < 2 * Limit

\* Recoverable sorts out retry times still ahead and live leases.
Offered(v) ==
  /\ InWindow(v)
  /\ Recoverable(v)
  /\ \A u \in Versions : InWindow(u) /\ Recoverable(u) => ~Earlier(u, v)

Poll(p) ==
  /\ pollers[p].phase = "list"
  /\ \E v \in Versions :
       /\ Offered(v)
       /\ pollers' = [pollers EXCEPT ![p] = [phase |-> "claim", job |-> v]]
  /\ UNCHANGED <<jobs, docs, created, due, walkers>>

-----------------------------------------------------------------------------
(* run_job: its claim and its outcome *)

EndRun(p) == pollers' = [pollers EXCEPT ![p] = IdlePoller]

Skip(p) ==
  /\ pollers[p].phase = "claim"
  /\ ClaimFinished(jobs[pollers[p].job]) \/ ClaimRefused(jobs[pollers[p].job])
  /\ EndRun(p)
  /\ UNCHANGED <<jobs, docs, created, due, walkers>>

\* claim_job clears next_attempt_at; a job without attempts left is worked on
\* with its row as it is.
Claim(p) ==
  LET v == pollers[p].job IN
  /\ pollers[p].phase = "claim"
  /\ \/ ClaimGranted(jobs[v]) /\ UpdateJob(v, Claimed(jobs[v])) /\ due' = [due EXCEPT ![v] = 0]
     \/ ClaimExhausted(jobs[v]) /\ UNCHANGED <<jobs, due>>
  /\ SetDocumentStatus(v, "indexing")
  /\ pollers' = [pollers EXCEPT ![p].phase = "work"]
  /\ UNCHANGED <<created, walkers>>

Finish(p) ==
  LET v == pollers[p].job IN
  /\ pollers[p].phase = "work"
  /\ UpdateJob(v, [jobs[v] EXCEPT !.status = "succeeded"])
  /\ SetDocumentStatus(v, "active")
  /\ EndRun(p)
  /\ UNCHANGED <<created, due, walkers>>

\* _fail: another attempt later, or none.
Fail(p) ==
  LET v == pollers[p].job
      failed == [jobs[v] EXCEPT !.status = "failed", !.error = TRUE, !.failedStage = TRUE]
  IN
  /\ pollers[p].phase = "work"
  /\ UpdateJob(v, IF failed.attempts < MaxAttempts
                  THEN [failed EXCEPT !.wait = Delay(failed.attempts)]
                  ELSE failed)
  /\ SetDocumentStatus(v, "failed")
  /\ EndRun(p)
  /\ UNCHANGED <<created, due, walkers>>

\* A container dies at work.  One that dies before its claim leaves nothing
\* behind and is as good as one that has yet to poll.
Crash(p) ==
  /\ pollers[p].phase = "work"
  /\ EndRun(p)
  /\ UNCHANGED <<jobs, docs, created, due, walkers>>

Tick ==
  /\ jobs' = [v \in Versions |-> IF Exists(v) THEN Aged(jobs[v]) ELSE jobs[v]]
  /\ jobs' # jobs
  /\ due' = [v \in Versions |-> IF jobs[v].wait = 1 THEN Cardinality(Rows) ELSE due[v]]
  /\ UNCHANGED <<docs, created, pollers, walkers>>

-----------------------------------------------------------------------------
(* list_documents *)

\* created_at of a document: that of its first version.
CreatedAt(d) ==
  CHOOSE n \in {created[v] : v \in VersionsOf(d)} : \A v \in VersionsOf(d) : n <= created[v]

\* Mutant: deleted documents are not listed.
ListableNotDeleted(t) ==
  {d \in Docs : TenantOf[d] = t /\ VersionsOf(d) # {} /\ DocumentStatusOf(d) # "deleted"}

Listable(t) == {d \in Docs : TenantOf[d] = t /\ VersionsOf(d) # {}}

\* Newest first: a document stands behind all that were created after it.
Position(d) ==
  Cardinality({c \in Listable(TenantOf[d]) : CreatedAt(c) > CreatedAt(d)})

Page(t, offset) == {d \in Listable(t) : Position(d) \in offset .. offset + PageSize - 1}

BeginWalk(w, t) ==
  /\ walkers[w].tenant = NoTenant
  /\ Listable(t) # {}
  /\ walkers' = [walkers EXCEPT ![w] = [IdleWalker EXCEPT !.tenant = t, !.begun = Listable(t)]]
  /\ UNCHANGED <<jobs, docs, created, due, pollers>>

Turned(me) ==
  LET page == Page(me.tenant, me.offset)
  IN  [me EXCEPT !.shown = @ \cup page,
                 !.again = @ + Cardinality(page \cap me.shown),
                 !.offset = @ + PageSize]

\* One page; it carries a next cursor as long as documents lie beyond it.
LastPage(me) == me.offset + PageSize >= Cardinality(Listable(me.tenant))

NextPage(w) ==
  /\ walkers[w].tenant # NoTenant
  /\ walkers' = [walkers EXCEPT ![w] =
       IF LastPage(walkers[w]) THEN IdleWalker ELSE Turned(walkers[w])]
  /\ UNCHANGED <<jobs, docs, created, due, pollers>>

Delete(d) ==
  /\ VersionsOf(d) # {}
  /\ DocumentStatusOf(d) # "indexing"
  /\ DeleteRows(d)
  /\ UNCHANGED <<jobs, created, due, pollers, walkers>>

-----------------------------------------------------------------------------
PollerStep(p) == Poll(p) \/ Skip(p) \/ Claim(p) \/ Finish(p) \/ Fail(p)

Next ==
  \/ \E v \in Versions : Accept(v)
  \/ \E p \in Pollers : PollerStep(p) \/ Crash(p)
  \/ \E w \in Walkers : NextPage(w) \/ \E d \in Docs : BeginWalk(w, TenantOf[d]) \/ Delete(d)
  \/ Tick

\* Containers keep polling and working, a crashed one is restarted, a job in
\* work ends one way or the other, and the clock runs.
Fairness ==
  /\ \A p \in Pollers : WF_vars(PollerStep(p))
  /\ WF_vars(Tick)

Spec == Init /\ [][Next]_vars /\ Fairness

-----------------------------------------------------------------------------
(* Properties *)

\* First come, first served: no job is started while an earlier one has not
\* been, however many containers poll, crash and retry.
StartsInOrder ==
  [][\A p \in Pollers :
       pollers[p].phase = "claim" /\ pollers'[p].phase = "work"
       /\ jobs[pollers[p].job].attempts = 0 =>
         \A v \in Versions : Exists(v) /\ jobs[v].attempts = 0
           => created[pollers[p].job] <= created[v]]_vars

\* A poll that finds nothing means that nothing can be done, unless running
\* jobs with live leases fill the window: jobs that wait for a retry and jobs
\* without attempts left never hide another one.
OnlyLeasesHideWork ==
  (\E v \in Versions : Recoverable(v)) =>
    \/ \E v \in Versions : Offered(v)
    \/ \A v \in Versions : InWindow(v) => LeaseFresh(jobs[v], PollStaleAfter)

\* Every accepted job is started although only a window of the table is looked
\* at: crashes, retries and running jobs at its head give way.
EveryJobStarts == \A v \in Versions : Exists(v) ~> jobs[v].attempts > 0

\* Documents uploaded or deleted between two pages do not make a walk miss a
\* document that was listed when it began, and a document is shown again only
\* for every newer document that pushed it on.
WalkIsComplete ==
  [][\A w \in Walkers :
       walkers[w].tenant # NoTenant /\ walkers'[w].tenant = NoTenant =>
         LET seen == Turned(walkers[w]) IN
         /\ seen.begun \subseteq seen.shown
         /\ seen.again <= Cardinality(Listable(seen.tenant) \ seen.begun)]_vars
=============================================================================
