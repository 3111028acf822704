---------------------------- MODULE ListingProofs ----------------------------
(***************************************************************************)
(* Theorems about RegistryListings, for any number of jobs, containers,    *)
(* clients and documents, any page size and any lease, retry and attempt   *)
(* limits.                                                                 *)
(*  - Jobs are started in the order they came, although a worker sees a    *)
(*    window of two rows only.  The listing is read before the claim; what *)
(*    carries the order over to the claim is that a row accepted in        *)
(*    between is younger than all others and that attempts are never taken *)
(*    back.                                                                *)
(*  - Nothing but live leases hides work from a poll: jobs that wait for a *)
(*    retry stand behind all others.                                       *)
(*  - A walk over the document list is complete: a document accepted in    *)
(*    between pushes every other one on by one place, and so at most one   *)
(*    over the edge of the next page.                                      *)
(***************************************************************************)
EXTENDS RegistryListings, FiniteSetTheorems, WellFoundedInduction, TLAPS

-----------------------------------------------------------------------------
(* Rows *)

Row == [status : JobStatus \cup {"none"}, attempts : Nat, age : Nat, wait : Nat,
        error : BOOLEAN, failedStage : BOOLEAN]

\* The retry delay is a number of ticks.
LEMMA DelayNat == ASSUME NEW n \in Nat PROVE Delay(n) \in Nat
BY NumAssumption DEF Delay

\* What the steps make of a row is a row, with at least its attempts.
LEMMA RowChanges ==
  ASSUME NEW j \in Row
  PROVE  /\ Aged(j) \in Row /\ Aged(j).status = j.status /\ Aged(j).attempts = j.attempts
         /\ j.wait = 0 => Aged(j).wait = 0
         /\ Claimed(j) \in Row /\ Claimed(j).status = "running" /\ Claimed(j).attempts = j.attempts + 1
         /\ \A s \in JobStatus : [j EXCEPT !.status = s] \in Row
         /\ [j EXCEPT !.status = "failed", !.error = TRUE, !.failedStage = TRUE] \in Row
         /\ \A w \in Nat : [j EXCEPT !.wait = w] \in Row
<1>1. j.attempts \in Nat /\ j.age \in Nat /\ j.wait \in Nat
  BY DEF Row
<1>2. ASSUME NEW a \in Nat, NEW w \in Nat
      PROVE  [j EXCEPT !.age = a, !.wait = w] \in Row
  BY DEF Row
<1>3. (IF j.age < AgeCap THEN j.age + 1 ELSE j.age) \in Nat /\ (IF j.wait > 0 THEN j.wait - 1 ELSE 0) \in Nat
  BY <1>1
<1>4. Aged(j) \in Row
  BY <1>2, <1>3 DEF Aged
<1>5. Aged(j).status = j.status /\ Aged(j).attempts = j.attempts /\ (j.wait = 0 => Aged(j).wait = 0)
  BY DEF Aged, Row
<1>6. Claimed(j) \in Row /\ Claimed(j).status = "running" /\ Claimed(j).attempts = j.attempts + 1
  <2>1. j.attempts + 1 \in Nat
    BY <1>1
  <2>2. "running" \in JobStatus
    BY DEF JobStatus
  <2>3. ASSUME NEW a \in Nat, NEW w \in Nat, NEW c \in Nat
        PROVE  [j EXCEPT !.status = "running", !.error = FALSE, !.wait = w,
                         !.age = c, !.attempts = a] \in Row
    BY <2>2 DEF Row
  <2>4. Claimed(j) \in Row
    BY <2>1, <2>3 DEF Claimed
  <2>5. Claimed(j).status = "running" /\ Claimed(j).attempts = j.attempts + 1
    BY DEF Claimed, Row
  <2>. QED BY <2>4, <2>5
<1>7. /\ \A s \in JobStatus : [j EXCEPT !.status = s] \in Row
      /\ [j EXCEPT !.status = "failed", !.error = TRUE, !.failedStage = TRUE] \in Row
      /\ \A w \in Nat : [j EXCEPT !.wait = w] \in Row
  <2>1. \A s \in JobStatus : [j EXCEPT !.status = s] \in Row
    BY DEF Row
  <2>2. [j EXCEPT !.status = "failed", !.error = TRUE, !.failedStage = TRUE] \in Row
    <3>1. "failed" \in JobStatus
      BY DEF JobStatus
    <3>2. \A s \in JobStatus : [j EXCEPT !.status = s, !.error = TRUE, !.failedStage = TRUE] \in Row
      BY DEF Row
    <3>. QED BY <3>1, <3>2
  <2>3. \A w \in Nat : [j EXCEPT !.wait = w] \in Row
    BY DEF Row
  <2>. QED BY <2>1, <2>2, <2>3
<1>. QED BY <1>4, <1>5, <1>6, <1>7

\* The table has finitely many rows, and one more when one is accepted.
LEMMA RowCount == Cardinality(Rows) \in Nat /\ IsFiniteSet(Rows)
<1>1. Rows \in SUBSET Versions
  BY DEF Rows
<1>. QED BY <1>1, ListingAssumption, FS_Subset, FS_CardinalityType

-----------------------------------------------------------------------------
(* The order *)

Key(x) == IF jobs[x].wait > 0 THEN 2 * (Cardinality(Versions) + jobs[x].wait)
          ELSE IF due[x] > 0 THEN 2 * due[x] + 1
          ELSE 2 * created[x]

ShapeOK ==
  /\ jobs \in [Versions -> Row]
  /\ created \in [Versions -> Nat]
  /\ due \in [Versions -> Nat]
  /\ pollers \in [Pollers -> Poller]

\* The order of the query is that of the keys.
LEMMA EarlierByKey ==
  \A u, v : Earlier(u, v) <=> Key(u) < Key(v) \/ (Key(u) = Key(v) /\ created[u] < created[v])
BY DEF Earlier, Key

\* Keys are numbers.
LEMMA KeyInt == ShapeOK => \A v \in Versions : Key(v) \in Int /\ created[v] \in Int
<1>1. Cardinality(Versions) \in Nat
  BY ListingAssumption, FS_CardinalityType
<1>. QED BY <1>1 DEF ShapeOK, Key, Row

-----------------------------------------------------------------------------
(* The invariant *)

Unstarted(v) == Exists(v) /\ jobs[v].attempts = 0

\* A job that has not been started waits for nothing, and so does a row to come.
FreshOK ==
  \A v \in Versions :
    /\ Unstarted(v) => jobs[v].status = "queued"
    /\ Unstarted(v) \/ ~Exists(v) => jobs[v].wait = 0 /\ due[v] = 0

\* Rows are numbered as they come.
CreatedOK == \A v \in Versions : Exists(v) => created[v] <= Cardinality(Rows)

\* A container that is about to start a job for the first time starts the first one.
PollersOK ==
  \A p \in Pollers :
    /\ pollers[p].phase \in {"claim", "work"} => pollers[p].job \in Versions /\ Exists(pollers[p].job)
    /\ pollers[p].phase = "work" => jobs[pollers[p].job].attempts > 0
    /\ pollers[p].phase = "claim" /\ jobs[pollers[p].job].attempts = 0 =>
         \A v \in Versions : Unstarted(v) => created[pollers[p].job] <= created[v]

ListInv == ShapeOK /\ FreshOK /\ CreatedOK /\ PollersOK

\* An empty table satisfies it.
LEMMA ListInvInit == Init => ListInv
<1>. SUFFICES ASSUME Init PROVE ListInv
  OBVIOUS
<1>1. NoJob \in Row
  BY NumAssumption DEF NoJob, Row, AgeCap
<1>2. ShapeOK
  BY <1>1 DEF Init, RegistryInit, ShapeOK, IdlePoller, Poller
<1>3. FreshOK /\ CreatedOK /\ PollersOK
  BY DEF Init, RegistryInit, FreshOK, CreatedOK, PollersOK, Unstarted, Exists, NoJob, IdlePoller
<1>. QED BY <1>2, <1>3 DEF ListInv

\* The first job not started yet is in the window, and nothing but a start
\* takes its place.
LEMMA OfferedFirst ==
  ASSUME ListInv, NEW v \in Versions, Offered(v), jobs[v].attempts = 0,
         NEW u \in Versions, Unstarted(u)
  PROVE  created[v] <= created[u]
<1>. SUFFICES ASSUME created[u] < created[v] PROVE FALSE
  BY DEF ListInv, ShapeOK
<1>1. Unstarted(v) /\ InWindow(v)
  BY DEF Offered, InWindow, Selected, Unstarted, Exists
<1>2. Key(u) = 2 * created[u] /\ Key(v) = 2 * created[v]
  BY <1>1 DEF ListInv, FreshOK, Key
<1>3. Earlier(u, v)
  BY <1>2, EarlierByKey DEF ListInv, ShapeOK
<1>4. Selected(u) /\ Recoverable(u)
  BY NumAssumption DEF Selected, Recoverable, LeaseFresh, Unstarted, ListInv, FreshOK
<1>. DEFINE Before(x) == {y \in Versions : Selected(y) /\ Earlier(y, x)}
<1>5. Before(u) \in SUBSET Before(v)
  <2>. SUFFICES ASSUME NEW y \in Versions, Earlier(y, u) PROVE Earlier(y, v)
    OBVIOUS
  <2>1. /\ Key(y) \in Int /\ Key(u) \in Int /\ Key(v) \in Int
        /\ created[y] \in Int /\ created[u] \in Int /\ created[v] \in Int
    BY KeyInt DEF ListInv
  <2>. QED BY <2>1, <1>3, EarlierByKey
<1>6. IsFiniteSet(Before(v)) /\ IsFiniteSet(Before(u))
  BY ListingAssumption, FS_Subset
<1>7. Cardinality(Before(u)) <= Cardinality(Before(v)) /\ Cardinality(Before(u)) \in Nat
      /\ Cardinality(Before(v)) \in Nat
  BY <1>5, <1>6, FS_Subset, FS_CardinalityType
<1>8. InWindow(u)
  BY <1>1, <1>4, <1>7 DEF InWindow, Limit
<1>. QED BY <1>3, <1>4, <1>8 DEF Offered

-----------------------------------------------------------------------------
(* Every step preserves it *)

\* A step of containers that keeps the rows, and changes them only to attempt
\* a job once more or to let time pass, keeps what the invariant says of them.
LEMMA RowsKept ==
  ASSUME ListInv, ShapeOK', UNCHANGED created,
         \A v \in Versions : Exists(v)' <=> Exists(v),
         \A v \in Versions : jobs'[v].attempts >= jobs[v].attempts,
         \A v \in Versions : jobs'[v].attempts = 0 \/ ~Exists(v) =>
           /\ jobs'[v].status = jobs[v].status
           /\ jobs[v].wait = 0 => jobs'[v].wait = 0
           /\ jobs[v].wait = 0 => due'[v] = due[v]
  PROVE  FreshOK' /\ CreatedOK' /\ \A v \in Versions : Unstarted(v)' => Unstarted(v)
<1>1. \A v \in Versions : jobs[v].attempts \in Nat /\ jobs'[v].attempts \in Nat
  BY DEF ListInv, ShapeOK, Row
<1>2. \A v \in Versions : Unstarted(v)' => Unstarted(v)
  BY <1>1 DEF Unstarted
<1>3. FreshOK'
  BY <1>2 DEF ListInv, FreshOK, Unstarted, Exists
<1>4. Rows' = Rows
  BY DEF Rows
<1>5. CreatedOK'
  BY <1>4 DEF ListInv, CreatedOK
<1>. QED BY <1>2, <1>3, <1>5

\* And so it keeps the invariant, when the containers it moves go on as they
\* should: back to the list, or to work on a job that has been attempted.
LEMMA InvKept ==
  ASSUME ListInv, ShapeOK', UNCHANGED created,
         \A v \in Versions : Exists(v)' <=> Exists(v),
         \A v \in Versions : jobs'[v].attempts >= jobs[v].attempts,
         \A v \in Versions : jobs'[v].attempts = 0 \/ ~Exists(v) =>
           /\ jobs'[v].status = jobs[v].status
           /\ jobs[v].wait = 0 => jobs'[v].wait = 0
           /\ jobs[v].wait = 0 => due'[v] = due[v],
         \A p \in Pollers :
           \/ pollers'[p] = pollers[p]
           \/ pollers'[p].phase = "list"
           \/ /\ pollers[p].phase = "claim" /\ pollers'[p].phase = "work"
              /\ pollers'[p].job = pollers[p].job
              /\ jobs'[pollers[p].job].attempts > 0
  PROVE  ListInv'
<1>1. FreshOK' /\ CreatedOK' /\ \A v \in Versions : Unstarted(v)' => Unstarted(v)
  BY RowsKept
<1>2. PollersOK'
  <2>. SUFFICES ASSUME NEW p \in Pollers, NEW k, k = pollers'[p].job, pollers'[p].phase # "list"
       PROVE  /\ k \in Versions /\ Exists(k)'
              /\ pollers'[p].phase = "work" => jobs'[k].attempts > 0
              /\ pollers'[p].phase = "claim" /\ jobs'[k].attempts = 0 =>
                   \A v \in Versions : Unstarted(v)' => created[k] <= created[v]
    BY DEF PollersOK, Exists, Unstarted
  <2>1. pollers'[p].job = pollers[p].job /\ pollers[p].phase \in {"claim", "work"}
    BY DEF ListInv, ShapeOK, Poller
  <2>2. k = pollers[p].job
    BY <2>1
  <2>3. k \in Versions /\ Exists(k)
    BY <2>1, <2>2 DEF ListInv, PollersOK
  <2>4. jobs[k].attempts \in Nat /\ jobs'[k].attempts \in Nat
    BY <2>3 DEF ListInv, ShapeOK, Row
  <2>5. pollers'[p].phase = "work" => jobs'[k].attempts > 0
    BY <2>1, <2>2, <2>3, <2>4 DEF ListInv, PollersOK
  <2>6. pollers'[p].phase = "claim" /\ jobs'[k].attempts = 0 =>
          \A v \in Versions : Unstarted(v)' => created[k] <= created[v]
    <3>. SUFFICES ASSUME pollers'[p].phase = "claim", jobs'[k].attempts = 0
         PROVE \A v \in Versions : Unstarted(v) => created[k] <= created[v]
      BY <1>1
    <3>1. pollers[p].phase = "claim" /\ jobs[k].attempts = 0
      BY <2>3, <2>4
    <3>. QED BY <3>1, <2>2 DEF ListInv, PollersOK
  <2>7. Exists(k)'
    BY <2>3
  <2>. QED BY <2>3, <2>5, <2>6, <2>7
<1>. QED BY <1>1, <1>2 DEF ListInv

\* A step of a container that leaves the rows alone.
LEMMA RowsUnmoved ==
  ASSUME ListInv, ShapeOK', UNCHANGED <<jobs, created, due>>,
         \A p \in Pollers : pollers'[p] = pollers[p] \/ pollers'[p].phase = "list"
  PROVE  ListInv'
<1>1. \A v \in Versions : jobs[v].attempts \in Nat
  BY DEF ListInv, ShapeOK, Row
<1>. QED BY <1>1, InvKept DEF Exists

\* A step of a container with the row of its own job.
LEMMA OwnRow ==
  ASSUME ListInv, UNCHANGED created,
         NEW p \in Pollers, NEW v \in Versions, NEW j \in Row,
         v = pollers[p].job, pollers[p].phase \in {"claim", "work"},
         jobs' = [jobs EXCEPT ![v] = j],
         j.status # "none", j.attempts >= jobs[v].attempts, j.attempts > 0,
         due' = due \/ due' = [due EXCEPT ![v] = 0],
         \/ pollers' = [pollers EXCEPT ![p] = IdlePoller]
         \/ pollers' = [pollers EXCEPT ![p].phase = "work"] /\ pollers[p].phase = "claim"
  PROVE  ListInv'
<1>1. Exists(v)
  BY DEF ListInv, PollersOK
<1>2. \A u \in Versions : jobs[u].attempts \in Nat
  BY DEF ListInv, ShapeOK, Row
<1>3. ShapeOK'
  <2>1. jobs' \in [Versions -> Row] /\ due' \in [Versions -> Nat] /\ created' \in [Versions -> Nat]
    BY DEF ListInv, ShapeOK
  <2>2. pollers' \in [Pollers -> Poller]
    BY DEF ListInv, ShapeOK, Poller, IdlePoller
  <2>. QED BY <2>1, <2>2 DEF ShapeOK
<1>4. \A u \in Versions : jobs'[u] = IF u = v THEN j ELSE jobs[u]
  BY DEF ListInv, ShapeOK
<1>5. \A u \in Versions : u # v => due'[u] = due[u]
  BY DEF ListInv, ShapeOK
<1>6. \A u \in Versions : Exists(u)' <=> Exists(u)
  BY <1>1, <1>4 DEF Exists
<1>7. \A u \in Versions : jobs'[u].attempts >= jobs[u].attempts
  BY <1>2, <1>4
<1>8. j.attempts # 0
  BY DEF Row
<1>9. \A u \in Versions : jobs'[u].attempts = 0 \/ ~Exists(u) =>
        /\ jobs'[u].status = jobs[u].status
        /\ jobs[u].wait = 0 => jobs'[u].wait = 0
        /\ jobs[u].wait = 0 => due'[u] = due[u]
  BY <1>1, <1>4, <1>5, <1>8
<1>10. \A q \in Pollers :
         \/ pollers'[q] = pollers[q]
         \/ pollers'[q].phase = "list"
         \/ /\ pollers[q].phase = "claim" /\ pollers'[q].phase = "work"
            /\ pollers'[q].job = pollers[q].job
            /\ jobs'[pollers[q].job].attempts > 0
  BY <1>4 DEF ListInv, ShapeOK, IdlePoller, Poller
<1>. QED BY <1>3, <1>6, <1>7, <1>9, <1>10, InvKept

\* Every action keeps the invariant.
LEMMA ListInvNext == ListInv /\ [Next]_vars => ListInv'
<1>. SUFFICES ASSUME ListInv, [Next]_vars PROVE ListInv'
  OBVIOUS
<1>1. ShapeOK
  BY DEF ListInv
<1>2. \A p \in Pollers : pollers[p].phase \in {"claim", "work"} =>
        /\ pollers[p].job \in Versions /\ Exists(pollers[p].job)
        /\ jobs[pollers[p].job] \in Row
        /\ jobs[pollers[p].job].attempts \in Nat
  BY DEF ListInv, ShapeOK, PollersOK, Row
<1>3. CASE UNCHANGED vars
  BY <1>1, <1>3, RowsUnmoved DEF vars, ShapeOK
<1>4. ASSUME NEW v \in Versions, Accept(v) PROVE ListInv'
  <2>1. Cardinality(Rows) \in Nat /\ IsFiniteSet(Rows)
    BY RowCount
  <2>2. PICK n \in Nat : n = Cardinality(Rows)
    BY <2>1
  <2>3. PICK j : j = [NoJob EXCEPT !.status = "queued"]
    OBVIOUS
  <2>4. j \in Row /\ j.status = "queued" /\ j.attempts = 0 /\ j.wait = 0
    BY <2>3, NumAssumption DEF NoJob, Row, AgeCap, JobStatus
  <2>5. ~Exists(v) /\ jobs' = [jobs EXCEPT ![v] = j] /\ created' = [created EXCEPT ![v] = n + 1]
        /\ due' = due /\ pollers' = pollers
    BY <1>4, <2>2, <2>3 DEF Accept, AcceptNew
  <2>6. ShapeOK'
    BY <1>1, <2>4, <2>5 DEF ShapeOK
  <2>7. \A u \in Versions : jobs'[u] = (IF u = v THEN j ELSE jobs[u])
                            /\ created'[u] = (IF u = v THEN n + 1 ELSE created[u])
    BY <1>1, <2>5 DEF ShapeOK
  <2>8. FreshOK'
    BY <2>4, <2>5, <2>7 DEF ListInv, FreshOK, Unstarted, Exists
  <2>9. Cardinality(Rows)' = n + 1
    <3>1. Rows' = Rows \cup {v} /\ v \notin Rows
      BY <2>4, <2>5, <2>7 DEF Rows, Exists
    <3>2. Cardinality(Rows \cup {v}) = n + 1
      BY <2>1, <2>2, <3>1, FS_AddElement
    <3>. QED BY <3>1, <3>2
  <2>10. \A u \in Versions : Exists(u) => created[u] <= n /\ created[u] \in Nat
    BY <1>1, <2>2 DEF ListInv, CreatedOK, ShapeOK
  <2>11. CreatedOK'
    BY <2>7, <2>9, <2>10 DEF CreatedOK, Exists
  <2>12. PollersOK'
    <3>. SUFFICES ASSUME NEW p \in Pollers, NEW k, k = pollers[p].job, pollers[p].phase # "list"
         PROVE  /\ k \in Versions /\ Exists(k)'
                /\ pollers[p].phase = "work" => jobs'[k].attempts > 0
                /\ pollers[p].phase = "claim" /\ jobs'[k].attempts = 0 =>
                     \A u \in Versions : Unstarted(u)' => created'[k] <= created'[u]
      BY <2>5 DEF PollersOK, Exists, Unstarted
    <3>1. k \in Versions /\ Exists(k) /\ k # v
      BY <1>1, <1>2, <2>5 DEF ShapeOK, Poller
    <3>2. jobs'[k] = jobs[k] /\ created'[k] = created[k] /\ created[k] <= n /\ created[k] \in Nat
      BY <2>7, <2>10, <3>1
    <3>3. pollers[p].phase = "work" => jobs[k].attempts > 0
      BY DEF ListInv, PollersOK
    <3>4. ASSUME pollers[p].phase = "claim", jobs[k].attempts = 0,
                 NEW u \in Versions, Unstarted(u)'
          PROVE  created[k] <= created'[u]
      <4>1. CASE u = v
        BY <2>7, <3>2, <4>1
      <4>2. CASE u # v
        <5>1. Unstarted(u)
          BY <2>7, <3>4, <4>2 DEF Unstarted, Exists
        <5>. QED BY <2>7, <3>4, <4>2, <5>1 DEF ListInv, PollersOK
      <4>. QED BY <4>1, <4>2
    <3>. QED BY <3>1, <3>2, <3>3, <3>4 DEF Exists
  <2>. QED BY <2>6, <2>8, <2>11, <2>12 DEF ListInv
<1>5. ASSUME NEW p \in Pollers, Poll(p) PROVE ListInv'
  <2>1. PICK v \in Versions : Offered(v) /\ pollers' = [pollers EXCEPT ![p] = [phase |-> "claim", job |-> v]]
    BY <1>5 DEF Poll
  <2>2. UNCHANGED <<jobs, created, due>>
    BY <1>5 DEF Poll
  <2>3. ShapeOK'
    BY <1>1, <2>1, <2>2 DEF ShapeOK, Poller
  <2>4. FreshOK' /\ CreatedOK'
    BY <2>2 DEF ListInv, FreshOK, CreatedOK, Unstarted, Exists, Rows
  <2>5. Exists(v)
    BY <2>1 DEF Offered, InWindow, Selected, Exists
  <2>6. jobs[v].attempts = 0 => \A u \in Versions : Unstarted(u) => created[v] <= created[u]
    BY <2>1, OfferedFirst
  <2>7. pollers'[p] = [phase |-> "claim", job |-> v] /\ \A q \in Pollers : q # p => pollers'[q] = pollers[q]
    BY <1>1, <2>1 DEF ShapeOK
  <2>8. PollersOK'
    BY <2>2, <2>5, <2>6, <2>7 DEF ListInv, PollersOK, Exists, Unstarted
  <2>. QED BY <2>3, <2>4, <2>8 DEF ListInv
<1>6. ASSUME NEW p \in Pollers, Skip(p) \/ Crash(p) PROVE ListInv'
  <2>1. pollers' = [pollers EXCEPT ![p] = IdlePoller] /\ UNCHANGED <<jobs, created, due>>
    BY <1>6 DEF Skip, Crash, EndRun
  <2>2. ShapeOK' /\ \A q \in Pollers : pollers'[q] = pollers[q] \/ pollers'[q].phase = "list"
    BY <1>1, <2>1 DEF ShapeOK, Poller, IdlePoller
  <2>. QED BY <2>1, <2>2, RowsUnmoved
<1>7. ASSUME NEW p \in Pollers, Claim(p) PROVE ListInv'
  <2>1. PICK v : v = pollers[p].job
    OBVIOUS
  <2>2. pollers[p].phase = "claim" /\ v \in Versions /\ jobs[v] \in Row /\ jobs[v].attempts \in Nat /\ Exists(v)
    BY <1>2, <1>7, <2>1 DEF Claim
  <2>3. pollers' = [pollers EXCEPT ![p].phase = "work"] /\ UNCHANGED created
    BY <1>7 DEF Claim
  <2>4. CASE jobs' = [jobs EXCEPT ![v] = Claimed(jobs[v])] /\ due' = [due EXCEPT ![v] = 0]
    <3>1. PICK j : j = Claimed(jobs[v])
      OBVIOUS
    <3>2. j \in Row /\ j.status = "running" /\ j.attempts = jobs[v].attempts + 1
      BY <2>2, <3>1, RowChanges
    <3>3. j.status # "none" /\ j.attempts >= jobs[v].attempts /\ j.attempts > 0
      BY <2>2, <3>2
    <3>. QED BY <2>1, <2>2, <2>3, <2>4, <3>1, <3>2, <3>3, OwnRow
  <2>5. CASE ClaimExhausted(jobs[v]) /\ UNCHANGED <<jobs, due>>
    <3>1. jobs[v].attempts > 0
      BY <2>2, <2>5, NumAssumption DEF ClaimExhausted
    <3>2. jobs' = [jobs EXCEPT ![v] = jobs[v]]
      BY <1>1, <2>5 DEF ShapeOK
    <3>3. jobs[v].status # "none" /\ jobs[v].attempts >= jobs[v].attempts
      BY <2>2 DEF Exists
    <3>. QED BY <2>1, <2>2, <2>3, <2>5, <3>1, <3>2, <3>3, OwnRow
  <2>. QED BY <1>7, <2>1, <2>4, <2>5 DEF Claim, UpdateJob
<1>8. ASSUME NEW p \in Pollers, Finish(p) \/ Fail(p) PROVE ListInv'
  <2>1. PICK v : v = pollers[p].job
    OBVIOUS
  <2>2. /\ pollers[p].phase = "work" /\ v \in Versions /\ jobs[v] \in Row /\ jobs[v].attempts \in Nat
        /\ jobs[v].attempts > 0
    BY <1>2, <1>8, <2>1 DEF Finish, Fail, ListInv, PollersOK
  <2>3. pollers' = [pollers EXCEPT ![p] = IdlePoller] /\ UNCHANGED <<created, due>>
    BY <1>8 DEF Finish, Fail, EndRun
  <2>4. PICK j \in Row : jobs' = [jobs EXCEPT ![v] = j] /\ j.status # "none" /\ j.attempts = jobs[v].attempts
    <3>1. CASE Finish(p)
      <4>1. PICK j : j = [jobs[v] EXCEPT !.status = "succeeded"]
        OBVIOUS
      <4>2. j \in Row /\ j.status # "none" /\ j.attempts = jobs[v].attempts
        BY <2>2, <4>1, RowChanges DEF JobStatus, Row
      <4>. QED BY <2>1, <3>1, <4>1, <4>2 DEF Finish, UpdateJob
    <3>2. CASE Fail(p)
      <4>1. PICK f : f = [jobs[v] EXCEPT !.status = "failed", !.error = TRUE, !.failedStage = TRUE]
        OBVIOUS
      <4>2. f \in Row /\ f.status # "none" /\ f.attempts = jobs[v].attempts
        BY <2>2, <4>1, RowChanges DEF Row
      <4>3. Delay(f.attempts) \in Nat
        BY <2>2, <4>2, DelayNat
      <4>4. PICK j : j = IF f.attempts < MaxAttempts THEN [f EXCEPT !.wait = Delay(f.attempts)] ELSE f
        OBVIOUS
      <4>5. [f EXCEPT !.wait = Delay(f.attempts)] \in Row
        BY <4>2, <4>3, RowChanges
      <4>6. j \in Row /\ j.status # "none" /\ j.attempts = jobs[v].attempts
        BY <4>2, <4>4, <4>5 DEF Row
      <4>. QED BY <2>1, <3>2, <4>1, <4>4, <4>6 DEF Fail, UpdateJob
    <3>. QED BY <1>8, <3>1, <3>2
  <2>5. j.attempts >= jobs[v].attempts /\ j.attempts > 0
    BY <2>2, <2>4
  <2>. QED BY <2>1, <2>2, <2>3, <2>4, <2>5, OwnRow
<1>9. ASSUME Tick PROVE ListInv'
  <2>1. /\ jobs' = [v \in Versions |-> IF Exists(v) THEN Aged(jobs[v]) ELSE jobs[v]]
        /\ UNCHANGED <<created, pollers>>
    BY <1>9 DEF Tick
  <2>2. PICK n \in Nat : due' = [v \in Versions |-> IF jobs[v].wait = 1 THEN n ELSE due[v]]
    BY <1>9, RowCount DEF Tick
  <2>3. \A v \in Versions : jobs[v] \in Row /\ jobs[v].attempts \in Nat
    BY <1>1 DEF ShapeOK, Row
  <2>4. \A v \in Versions : /\ jobs'[v] \in Row /\ jobs'[v].status = jobs[v].status
                            /\ jobs'[v].attempts = jobs[v].attempts
                            /\ jobs[v].wait = 0 => jobs'[v].wait = 0 /\ due'[v] = due[v]
    <3>. SUFFICES ASSUME NEW v \in Versions
         PROVE  /\ jobs'[v] \in Row /\ jobs'[v].status = jobs[v].status
                /\ jobs'[v].attempts = jobs[v].attempts
                /\ jobs[v].wait = 0 => jobs'[v].wait = 0 /\ due'[v] = due[v]
      OBVIOUS
    <3>1. jobs'[v] = IF Exists(v) THEN Aged(jobs[v]) ELSE jobs[v]
      BY <2>1
    <3>2. jobs[v].wait = 0 => due'[v] = due[v]
      BY <2>2
    <3>3. /\ Aged(jobs[v]) \in Row /\ Aged(jobs[v]).status = jobs[v].status
          /\ Aged(jobs[v]).attempts = jobs[v].attempts
          /\ jobs[v].wait = 0 => Aged(jobs[v]).wait = 0
      BY <2>3, RowChanges
    <3>. QED BY <2>3, <3>1, <3>2, <3>3
  <2>5. ShapeOK'
    BY <1>1, <2>1, <2>2, <2>4 DEF ShapeOK
  <2>6. \A v \in Versions : Exists(v)' <=> Exists(v)
    BY <2>4 DEF Exists
  <2>7. \A v \in Versions : jobs'[v].attempts >= jobs[v].attempts
    BY <2>3, <2>4
  <2>. QED BY <2>1, <2>4, <2>5, <2>6, <2>7, InvKept
<1>10. ASSUME \/ \E w \in Walkers : NextPage(w) \/ \E d \in Docs : BeginWalk(w, TenantOf[d])
              \/ \E d \in Docs : Delete(d)
       PROVE  ListInv'
  <2>1. UNCHANGED <<jobs, created, due, pollers>>
    BY <1>10 DEF NextPage, BeginWalk, Delete
  <2>2. ShapeOK'
    BY <1>1, <2>1 DEF ShapeOK
  <2>. QED BY <2>1, <2>2, RowsUnmoved
<1>. QED BY <1>3, <1>4, <1>5, <1>6, <1>7, <1>8, <1>9, <1>10 DEF Next, PollerStep

-----------------------------------------------------------------------------
(* The theorem *)

\* First come, first served: a container never starts a job while a job
\* accepted before it has not been started, whatever the containers do between
\* the listing and the claim and whichever of them crash.
THEOREM JobsStartInOrder == Spec => StartsInOrder
<1>1. ListInv => \A p \in Pollers :
        pollers[p].phase = "claim" /\ pollers'[p].phase = "work" /\ jobs[pollers[p].job].attempts = 0 =>
          \A v \in Versions : Exists(v) /\ jobs[v].attempts = 0 => created[pollers[p].job] <= created[v]
  BY DEF ListInv, PollersOK, Unstarted
<1>. QED BY <1>1, ListInvInit, ListInvNext, PTL DEF Spec, StartsInOrder

-----------------------------------------------------------------------------
(* The window *)

\* Rows accepted and retries passed are numbered within the table.
DueOK == \A v \in Versions : due[v] <= Cardinality(Versions)

\* The table holds no more rows than there are versions.
LEMMA RowBound == Cardinality(Rows) <= Cardinality(Versions)
BY ListingAssumption, FS_Subset DEF Rows

\* Every action keeps the numbers of retries within the table.
LEMMA DueOKNext == ListInv /\ DueOK /\ [Next]_vars => DueOK'
<1>. SUFFICES ASSUME ListInv, DueOK, [Next]_vars PROVE DueOK'
  OBVIOUS
<1>1. Cardinality(Versions) \in Nat /\ due \in [Versions -> Nat]
  BY ListingAssumption, FS_CardinalityType DEF ListInv, ShapeOK
<1>2. CASE UNCHANGED due
  BY <1>2 DEF DueOK
<1>3. ASSUME NEW p \in Pollers, Claim(p), due' = [due EXCEPT ![pollers[p].job] = 0] PROVE DueOK'
  BY <1>1, <1>3 DEF DueOK
<1>4. CASE Tick
  BY <1>1, <1>4, RowBound DEF Tick, DueOK
<1>. QED BY <1>2, <1>3, <1>4
         DEF Next, vars, Accept, PollerStep, Poll, Skip, Claim, Finish, Fail, Crash, NextPage,
             BeginWalk, Delete

\* A job that waits for a retry stands behind every job that does not.
LEMMA WaitingLast ==
  ASSUME ListInv, DueOK, NEW u \in Versions, NEW v \in Versions,
         Exists(v), jobs[u].wait > 0, jobs[v].wait = 0
  PROVE  Earlier(v, u)
<1>1. Cardinality(Versions) \in Nat /\ Cardinality(Rows) \in Nat /\ Cardinality(Rows) <= Cardinality(Versions)
  BY ListingAssumption, FS_CardinalityType, RowCount, RowBound
<1>2. created[v] \in Nat /\ due[v] \in Nat /\ jobs[u].wait \in Nat
  BY DEF ListInv, ShapeOK, Row
<1>3. created[v] <= Cardinality(Versions) /\ due[v] <= Cardinality(Versions)
  BY <1>1, <1>2 DEF ListInv, CreatedOK, DueOK
<1>4. Key(v) < Key(u)
  BY <1>1, <1>2, <1>3 DEF Key
<1>. QED BY <1>4, EarlierByKey

\* What stands before a row of the window is in the window.
LEMMA WindowClosed ==
  ASSUME ListInv, NEW u \in Versions, NEW v \in Versions, Selected(v), Earlier(v, u), InWindow(u)
  PROVE  InWindow(v)
<1>. DEFINE Before(x) == {y \in Versions : Selected(y) /\ Earlier(y, x)}
<1>1. Before(v) \in SUBSET Before(u)
  <2>. SUFFICES ASSUME NEW y \in Versions, Earlier(y, v) PROVE Earlier(y, u)
    OBVIOUS
  <2>1. /\ Key(y) \in Int /\ Key(u) \in Int /\ Key(v) \in Int
        /\ created[y] \in Int /\ created[u] \in Int /\ created[v] \in Int
    BY KeyInt DEF ListInv
  <2>. QED BY <2>1, EarlierByKey
<1>2. IsFiniteSet(Before(u)) /\ IsFiniteSet(Before(v))
  BY ListingAssumption, FS_Subset
<1>3. /\ Cardinality(Before(v)) <= Cardinality(Before(u))
      /\ Cardinality(Before(u)) \in Nat /\ Cardinality(Before(v)) \in Nat
  BY <1>1, <1>2, FS_Subset, FS_CardinalityType
<1>. QED BY <1>3 DEF InWindow, Limit

\* The window has an earliest row among those that can be worked on: it has no
\* more than two rows.
LEMMA EarliestOffered ==
  ASSUME ListInv, NEW v \in Versions, InWindow(v), Recoverable(v)
  PROVE  \E u \in Versions : Offered(u)
<1>1. CASE ~ \E u \in Versions : InWindow(u) /\ Recoverable(u) /\ Earlier(u, v)
  BY <1>1 DEF Offered
<1>2. ASSUME NEW u \in Versions, InWindow(u), Recoverable(u), Earlier(u, v)
      PROVE  Offered(u)
  <2>. DEFINE Before == {y \in Versions : Selected(y) /\ Earlier(y, v)}
  <2>. SUFFICES ASSUME NEW x \in Versions, InWindow(x), Earlier(x, u) PROVE FALSE
    BY <1>2 DEF Offered
  <2>1. /\ Key(x) \in Int /\ Key(u) \in Int /\ Key(v) \in Int
        /\ created[x] \in Int /\ created[u] \in Int /\ created[v] \in Int
    BY KeyInt DEF ListInv
  <2>2. x # u /\ Earlier(x, v)
    BY <1>2, <2>1, EarlierByKey
  <2>3. {x, u} \in SUBSET Before /\ IsFiniteSet(Before)
    BY <1>2, <2>2, ListingAssumption, FS_Subset DEF InWindow
  <2>4. Cardinality({x, u}) = 2
    <3>1. IsFiniteSet({u}) /\ Cardinality({u}) = 1
      BY FS_Singleton
    <3>2. {x, u} = {u} \cup {x} /\ x \notin {u}
      BY <2>2
    <3>. QED BY <3>1, <3>2, FS_AddElement
  <2>5. 2 <= Cardinality(Before) /\ Cardinality(Before) \in Nat
    BY <2>3, <2>4, FS_Subset, FS_CardinalityType
  <2>. QED BY <2>5 DEF InWindow, Limit
<1>. QED BY <1>1, <1>2

\* Nothing but live leases hides work from a poll: jobs that wait for a retry
\* sort behind all others and jobs without attempts left are not selected, so
\* that with a row in the window that is under no lease some job that can be
\* worked on is in it.
THEOREM LeasesAloneHideWork == Spec => []OnlyLeasesHideWork
<1>1. ListInv /\ DueOK => OnlyLeasesHideWork
  <2>. SUFFICES ASSUME ListInv, DueOK, NEW v \in Versions, Recoverable(v),
                       NEW u \in Versions, InWindow(u), ~LeaseFresh(jobs[u], PollStaleAfter)
       PROVE  \E x \in Versions : Offered(x)
    BY DEF OnlyLeasesHideWork
  <2>1. jobs[u].wait \in Nat
    BY DEF ListInv, ShapeOK, Row
  <2>2. CASE jobs[u].wait = 0
    BY <2>2, EarliestOffered DEF InWindow, Selected, Recoverable
  <2>3. CASE jobs[u].wait > 0
    <3>1. Selected(v) /\ Exists(v) /\ jobs[v].wait = 0
      BY DEF Recoverable, Selected, Exists
    <3>2. InWindow(v)
      BY <2>3, <3>1, WaitingLast, WindowClosed
    <3>. QED BY <3>2, EarliestOffered
  <2>. QED BY <2>1, <2>2, <2>3
<1>2. Init => DueOK
  <2>1. Cardinality(Versions) \in Nat
    BY ListingAssumption, FS_CardinalityType
  <2>2. 0 <= Cardinality(Versions)
    BY <2>1
  <2>3. Init => \A v \in Versions : due[v] = 0
    BY DEF Init
  <2>. QED BY <2>2, <2>3, Zenon DEF DueOK
<1>. QED BY <1>1, <1>2, ListInvInit, ListInvNext, DueOKNext, PTL DEF Spec

-----------------------------------------------------------------------------
(* Pages *)

\* Every nonempty set of natural numbers has a least one.
LEMMA LeastNumber ==
  ASSUME NEW S \in SUBSET Nat, S # {}
  PROVE  \E n \in S : \A m \in S : n <= m
<1>1. PICK k \in S : TRUE
  OBVIOUS
<1>. DEFINE F == {1 .. n : n \in {m \in S : m <= k}}
<1>2. IsFiniteSet(1 .. k)
  BY FS_Interval
<1>3. PICK R : R = StrictSubsetOrdering(1 .. k)
  OBVIOUS
<1>4. PICK D : D = FiniteSubsetsOf(1 .. k)
  OBVIOUS
<1>5. IsWellFoundedOn(R, D)
  BY <1>2, <1>3, <1>4, FS_StrictSubsetOrderingWellFounded
<1>6. F \subseteq D /\ F # {}
  <2>1. \A n \in S : n <= k => (1 .. n) \subseteq (1 .. k)
    OBVIOUS
  <2>2. D = SUBSET (1 .. k)
    BY <1>2, <1>4, FS_FiniteSubsetsOfFinite
  <2>. QED BY <2>1, <2>2
<1>7. PICK X \in F : \A Y \in F : ~(<<Y, X>> \in R)
  BY <1>5, <1>6, WFMin
<1>8. PICK n \in S : n <= k /\ X = 1 .. n
  BY <1>7
<1>9. ASSUME NEW m \in S, m < n PROVE FALSE
  <2>1. (1 .. m) \in F /\ (1 .. m) \subseteq X /\ (1 .. m) # X
    <3>1. n \in X /\ n \notin 1 .. m
      BY <1>8, <1>9
    <3>. QED BY <1>8, <1>9, <3>1
  <2>2. <<1 .. m, X>> \in R
    BY <1>3, <1>8, <2>1 DEF StrictSubsetOrdering
  <2>. QED BY <1>7, <2>1, <2>2
<1>. QED BY <1>8, <1>9

\* Every row has its own number.
OrderOK ==
  /\ CreatedOK
  /\ created \in [Versions -> Nat]
  /\ \A u, v \in Versions : Exists(u) /\ Exists(v) /\ u # v => created[u] # created[v]

\* The document of the first version is as old as that version.
CreatedAtOK ==
  \A d \in Docs : VersionsOf(d) # {} =>
    \E v \in VersionsOf(d) : /\ CreatedAt(d) = created[v]
                             /\ \A u \in VersionsOf(d) : created[v] <= created[u]

\* created_at of a listed document is the least number among its rows.
LEMMA CreatedAtIsFirst == OrderOK => CreatedAtOK
<1>. SUFFICES ASSUME OrderOK, NEW d \in Docs, VersionsOf(d) # {}
     PROVE  \E v \in VersionsOf(d) : /\ CreatedAt(d) = created[v]
                                     /\ \A u \in VersionsOf(d) : created[v] <= created[u]
  BY DEF CreatedAtOK
<1>. DEFINE S == {created[v] : v \in VersionsOf(d)}
<1>1. S \in SUBSET Nat /\ S # {}
  BY DEF OrderOK, VersionsOf
<1>2. PICK n \in S : \A m \in S : n <= m
  BY <1>1, LeastNumber
<1>3. PICK k : k = CreatedAt(d)
  OBVIOUS
<1>4. k \in S /\ \A v \in VersionsOf(d) : k <= created[v]
  BY <1>2, <1>3 DEF CreatedAt
<1>. QED BY <1>3, <1>4

\* A tenant lists finitely many documents.
LEMMA ListableFinite == \A t : IsFiniteSet(Listable(t))
<1>. SUFFICES ASSUME NEW t PROVE IsFiniteSet(Listable(t))
  OBVIOUS
<1>. DEFINE f == [v \in Versions |-> DocOf[v]]
            T == {DocOf[v] : v \in Versions}
<1>1. f \in Surjection(Versions, T)
  BY DEF Surjection
<1>2. IsFiniteSet(T)
  BY <1>1, ListingAssumption, FS_Surjection
<1>3. Listable(t) \in SUBSET T
  BY DEF Listable, VersionsOf
<1>. QED BY <1>2, <1>3, FS_Subset

\* The documents that stand before d.
Newer(d) == {c \in Listable(TenantOf[d]) : CreatedAt(c) > CreatedAt(d)}

\* Positions are numbers, below the length of the list for a listed document.
PositionsOK ==
  \A t : \A d \in Listable(t) :
    /\ Position(d) \in Nat /\ Position(d) < Cardinality(Listable(t))
    /\ CreatedAt(d) \in Nat
    /\ \A e \in Listable(t) : CreatedAt(e) < CreatedAt(d) => Position(d) < Position(e)
    /\ \A e \in Listable(t) : e # d => CreatedAt(e) # CreatedAt(d)

\* Two documents never share a position.
LEMMA PositionsDiffer == OrderOK => PositionsOK
<1>. SUFFICES ASSUME OrderOK, NEW t, NEW d \in Listable(t)
     PROVE  /\ Position(d) \in Nat /\ Position(d) < Cardinality(Listable(t))
            /\ CreatedAt(d) \in Nat
            /\ \A e \in Listable(t) : CreatedAt(e) < CreatedAt(d) => Position(d) < Position(e)
            /\ \A e \in Listable(t) : e # d => CreatedAt(e) # CreatedAt(d)
  BY DEF PositionsOK
<1>1. CreatedAtOK
  BY CreatedAtIsFirst
<1>2. ASSUME NEW e \in Listable(t)
      PROVE  \E v \in VersionsOf(e) : CreatedAt(e) = created[v] /\ created[v] \in Nat
  BY <1>1 DEF CreatedAtOK, Listable, OrderOK, VersionsOf
<1>3. ASSUME NEW e \in Listable(t)
      PROVE  /\ IsFiniteSet(Newer(e)) /\ e \notin Newer(e)
             /\ Newer(e) \subseteq Listable(t) /\ Newer(e) \cup {e} \subseteq Listable(t)
             /\ Position(e) = Cardinality(Newer(e)) /\ Position(e) \in Nat
             /\ Cardinality(Newer(e) \cup {e}) = Position(e) + 1
             /\ IsFiniteSet(Newer(e) \cup {e})
  <2>1. TenantOf[e] = t /\ CreatedAt(e) \in Nat
    BY <1>2 DEF Listable
  <2>2. Newer(e) \subseteq Listable(t) /\ e \notin Newer(e)
    BY <2>1 DEF Newer
  <2>3. IsFiniteSet(Newer(e))
    BY <2>2, ListableFinite, FS_Subset
  <2>4. Position(e) = Cardinality(Newer(e)) /\ Position(e) \in Nat
    BY <2>3, FS_CardinalityType DEF Position, Newer
  <2>. QED BY <2>2, <2>3, <2>4, FS_AddElement
<1>4. Position(d) < Cardinality(Listable(t))
  <2>1. IsFiniteSet(Listable(t)) /\ Cardinality(Listable(t)) \in Nat
    BY ListableFinite, FS_CardinalityType
  <2>2. Newer(d) \cup {d} \in SUBSET Listable(t)
    BY <1>3
  <2>3. Cardinality(Newer(d) \cup {d}) <= Cardinality(Listable(t))
    BY <2>1, <2>2, FS_Subset
  <2>4. Cardinality(Newer(d) \cup {d}) = Position(d) + 1 /\ Position(d) \in Nat
    BY <1>3
  <2>. QED BY <2>1, <2>3, <2>4
<1>5. ASSUME NEW e \in Listable(t), CreatedAt(e) < CreatedAt(d) PROVE Position(d) < Position(e)
  <2>1. Newer(d) \cup {d} \subseteq Newer(e)
    <3>1. TenantOf[e] = t /\ TenantOf[d] = t
      BY DEF Listable
    <3>2. \A c \in Listable(t) : CreatedAt(c) \in Nat
      BY <1>2
    <3>. QED BY <1>5, <3>1, <3>2 DEF Newer
  <2>2. Cardinality(Newer(d) \cup {d}) <= Cardinality(Newer(e))
    <3>1. Newer(d) \cup {d} \in SUBSET Newer(e) /\ IsFiniteSet(Newer(e))
      BY <1>3, <2>1
    <3>. QED BY <3>1, FS_Subset
  <2>3. Position(d) + 1 <= Position(e) /\ Position(d) \in Nat /\ Position(e) \in Nat
    BY <1>3, <2>2
  <2>. QED BY <2>3
<1>6. ASSUME NEW e \in Listable(t), e # d PROVE CreatedAt(e) # CreatedAt(d)
  <2>1. PICK u \in VersionsOf(e) : CreatedAt(e) = created[u]
    BY <1>2
  <2>2. PICK v \in VersionsOf(d) : CreatedAt(d) = created[v]
    BY <1>2
  <2>. QED BY <1>6, <2>1, <2>2 DEF OrderOK, VersionsOf
<1>7. Position(d) \in Nat /\ CreatedAt(d) \in Nat
  BY <1>2, <1>3
<1>. QED BY <1>4, <1>5, <1>6, <1>7

\* No step removes a row or changes its number, and new rows are the youngest.
Grown ==
  /\ \A v \in Versions : Exists(v) => Exists(v)' /\ created'[v] = created[v]
  /\ \A u, v \in Versions : Exists(u) /\ ~Exists(v) /\ Exists(v)' => created[u] < created'[v]

\* Listed documents keep their dates, and those to come are younger.
LEMMA DatesKept ==
  ASSUME Grown, OrderOK, CreatedAtOK, OrderOK', CreatedAtOK', NEW d \in Docs, VersionsOf(d) # {}
  PROVE  /\ VersionsOf(d)' # {} /\ CreatedAt(d)' = CreatedAt(d)
         /\ \A c \in Docs : VersionsOf(c) = {} /\ VersionsOf(c)' # {} => CreatedAt(d) < CreatedAt(c)'
<1>1. PICK v \in VersionsOf(d) : /\ CreatedAt(d) = created[v]
                                 /\ \A u \in VersionsOf(d) : created[v] <= created[u]
  BY DEF CreatedAtOK
<1>2. /\ v \in Versions /\ Exists(v) /\ DocOf[v] = d /\ v \in VersionsOf(d)'
      /\ created[v] \in Nat /\ created'[v] = created[v]
  BY <1>1 DEF VersionsOf, Grown, OrderOK
<1>3. ASSUME NEW c \in Docs, NEW u \in VersionsOf(c)', CreatedAt(c)' = created'[u]
      PROVE  /\ u \in Versions /\ Exists(u)' /\ DocOf[u] = c /\ created'[u] \in Nat
             /\ Exists(u) => u \in VersionsOf(c) /\ created'[u] = created[u]
             /\ ~Exists(u) => created[v] < created'[u]
  BY <1>2, <1>3 DEF VersionsOf, Grown, OrderOK
<1>4. CreatedAt(d)' = CreatedAt(d)
  <2>1. PICK u \in VersionsOf(d)' : /\ CreatedAt(d)' = created'[u]
                                    /\ \A t \in VersionsOf(d)' : created'[u] <= created'[t]
    BY <1>2 DEF CreatedAtOK
  <2>2. created'[u] <= created'[v]
    BY <1>2, <2>1
  <2>3. Exists(u)
    BY <1>2, <1>3, <2>1, <2>2
  <2>. QED BY <1>1, <1>2, <1>3, <2>1, <2>2, <2>3 DEF OrderOK
<1>5. ASSUME NEW c \in Docs, VersionsOf(c) = {}, VersionsOf(c)' # {}
      PROVE  CreatedAt(d) < CreatedAt(c)'
  <2>1. PICK u \in VersionsOf(c)' : CreatedAt(c)' = created'[u]
    BY <1>5 DEF CreatedAtOK
  <2>. QED BY <1>1, <1>3, <1>5, <2>1
<1>. QED BY <1>2, <1>4, <1>5

\* What the pages shown so far have established about the walk me.
WalkOK(me) ==
  LET listed == Listable(me.tenant) IN
  /\ me.begun \subseteq listed /\ me.shown \subseteq listed
  /\ \A d \in me.begun : d \in me.shown \/ Position(d) >= me.offset
  /\ me.again + Cardinality({d \in me.shown : Position(d) >= me.offset})
       <= Cardinality(listed \ me.begun)

\* A step that lists at most one document more keeps it: the new document pushes
\* every other one on by one place, and so at most one of those shown over the
\* edge of the next page.
LEMMA WalkKept ==
  ASSUME Grown, OrderOK, OrderOK', NEW me \in Walker, WalkOK(me),
         CreatedAtOK, CreatedAtOK', PositionsOK,
         NEW c, Listable(me.tenant)' \subseteq Listable(me.tenant) \cup {c}
  PROVE  WalkOK(me)'
<1>. DEFINE t == me.tenant
            L == Listable(t)
            A == {d \in me.shown : Position(d) >= me.offset}
            B == {d \in me.shown : Position(d)' >= me.offset}
<1>1. me.offset \in Nat /\ me.again \in Nat
  BY DEF Walker
<1>2. /\ IsFiniteSet(L) /\ IsFiniteSet(A) /\ IsFiniteSet(L \ me.begun)
      /\ Cardinality(A) \in Nat /\ Cardinality(L \ me.begun) \in Nat
  <2>1. A \in SUBSET L /\ L \ me.begun \in SUBSET L
    BY DEF WalkOK
  <2>2. IsFiniteSet(L)
    BY ListableFinite
  <2>. QED BY <2>1, <2>2, FS_Subset, FS_CardinalityType
<1>3. \A d \in L : d \in Docs /\ VersionsOf(d) # {} /\ TenantOf[d] = t
  BY DEF Listable
<1>4. L \subseteq Listable(t)'
  BY <1>3, DatesKept DEF Listable
<1>5. ASSUME NEW d \in L
      PROVE  /\ Position(d) \in Nat
             /\ Newer(d)' = Newer(d) \cup (Listable(t)' \ L)
             /\ Position(d) = Cardinality(Newer(d)) /\ Position(d)' = Cardinality(Newer(d)')
             /\ IsFiniteSet(Newer(d)) /\ Newer(d) \subseteq L
  <2>1. CreatedAt(d)' = CreatedAt(d) /\ \A e \in L : CreatedAt(e)' = CreatedAt(e)
    BY <1>3, DatesKept
  <2>2. ASSUME NEW e \in Listable(t)', e \notin L PROVE CreatedAt(d)' < CreatedAt(e)'
    <3>1. e \in Docs /\ VersionsOf(e) = {} /\ VersionsOf(e)' # {}
      BY <2>2 DEF Listable
    <3>. QED BY <1>3, <2>1, <3>1, DatesKept
  <2>3. Newer(d)' = Newer(d) \cup (Listable(t)' \ L)
    <3>1. Newer(d)' = {e \in Listable(t)' : CreatedAt(e)' > CreatedAt(d)'}
      BY <1>3 DEF Newer
    <3>2. Newer(d) = {e \in L : CreatedAt(e) > CreatedAt(d)}
      BY <1>3 DEF Newer
    <3>. QED BY <1>4, <2>1, <2>2, <3>1, <3>2
  <2>4. Newer(d) \in SUBSET L
    BY <1>3 DEF Newer
  <2>5. IsFiniteSet(Newer(d))
    BY <1>2, <2>4, FS_Subset
  <2>. QED BY <2>3, <2>4, <2>5 DEF Position, Newer, PositionsOK
<1>6. CASE Listable(t)' = L
  <2>1. \A d \in L : Position(d)' = Position(d)
    BY <1>5, <1>6
  <2>2. me.begun \subseteq L /\ me.shown \subseteq L
    BY DEF WalkOK
  <2>3. B = A
    BY <2>1, <2>2
  <2>. QED BY <1>6, <2>1, <2>2, <2>3 DEF WalkOK
<1>7. CASE Listable(t)' # L
  <2>1. c \notin L /\ Listable(t)' = L \cup {c}
    BY <1>4, <1>7
  <2>2. \A d \in L : Position(d)' = Position(d) + 1
    <3>. SUFFICES ASSUME NEW d \in L PROVE Position(d)' = Position(d) + 1
      OBVIOUS
    <3>1. Newer(d)' = Newer(d) \cup {c} /\ c \notin Newer(d)
      BY <1>5, <2>1
    <3>2. Cardinality(Newer(d) \cup {c}) = Cardinality(Newer(d)) + 1
      BY <1>5, <3>1, FS_AddElement
    <3>. QED BY <1>5, <3>1, <3>2
  <2>3. me.begun \subseteq L /\ me.shown \subseteq L
    BY DEF WalkOK
  <2>4. Cardinality(B) <= Cardinality(A) + 1 /\ Cardinality(B) \in Nat
    <3>1. B = {d \in me.shown : Position(d) + 1 >= me.offset}
      BY <2>2, <2>3
    <3>2. CASE \E e \in me.shown : Position(e) + 1 = me.offset
      <4>1. PICK e \in me.shown : Position(e) + 1 = me.offset
        BY <3>2
      <4>2. ASSUME NEW d \in me.shown, Position(d) = Position(e) PROVE d = e
        <5>1. /\ CreatedAt(d) \in Nat /\ CreatedAt(e) \in Nat /\ Position(d) \in Nat
              /\ ~(CreatedAt(d) < CreatedAt(e)) /\ ~(CreatedAt(e) < CreatedAt(d))
              /\ d # e => CreatedAt(d) # CreatedAt(e)
          BY <2>3, <4>2 DEF PositionsOK
        <5>. QED BY <5>1
      <4>3. B \in SUBSET (A \cup {e})
        <5>. SUFFICES ASSUME NEW d \in me.shown, Position(d) + 1 >= me.offset, d # e
             PROVE  Position(d) >= me.offset
          BY <3>1
        <5>. QED BY <1>1, <1>5, <2>3, <4>1, <4>2
      <4>4. IsFiniteSet(A \cup {e}) /\ Cardinality(A \cup {e}) <= Cardinality(A) + 1
        <5>1. /\ IsFiniteSet(A \cup {e})
              /\ Cardinality(A \cup {e}) = IF e \in A THEN Cardinality(A) ELSE Cardinality(A) + 1
          BY <1>2, FS_AddElement
        <5>. QED BY <1>2, <5>1
      <4>5. /\ Cardinality(B) <= Cardinality(A \cup {e})
            /\ Cardinality(B) \in Nat /\ Cardinality(A \cup {e}) \in Nat
        <5>1. IsFiniteSet(B) /\ Cardinality(B) <= Cardinality(A \cup {e})
          BY <4>3, <4>4, FS_Subset
        <5>. QED BY <4>4, <5>1, FS_CardinalityType
      <4>6. Cardinality(A) + 1 \in Nat
        BY <1>2
      <4>. QED BY <4>4, <4>5, <4>6
    <3>3. CASE ~ \E e \in me.shown : Position(e) + 1 = me.offset
      <4>1. B \in SUBSET A
        BY <1>1, <1>5, <2>3, <3>1, <3>3
      <4>2. Cardinality(B) <= Cardinality(A) /\ Cardinality(B) \in Nat
        BY <1>2, <4>1, FS_Subset, FS_CardinalityType
      <4>. QED BY <1>2, <4>2
    <3>. QED BY <3>2, <3>3
  <2>5. Cardinality(Listable(t)' \ me.begun) = Cardinality(L \ me.begun) + 1
    <3>1. Listable(t)' \ me.begun = (L \ me.begun) \cup {c} /\ c \notin L \ me.begun
      BY <2>1, <2>3
    <3>. QED BY <1>2, <3>1, FS_AddElement
  <2>6. me.again + Cardinality(A) <= Cardinality(L \ me.begun)
    BY DEF WalkOK
  <2>7. \A d \in me.begun : d \in me.shown \/ Position(d)' >= me.offset
    BY <1>1, <1>5, <2>2, <2>3 DEF WalkOK
  <2>8. me.again + Cardinality(B) <= Cardinality(Listable(t)' \ me.begun)
    BY <1>1, <1>2, <2>4, <2>5, <2>6
  <2>9. me.begun \subseteq Listable(t)' /\ me.shown \subseteq Listable(t)'
    BY <1>4, <2>3
  <2>. QED BY <2>7, <2>8, <2>9 DEF WalkOK
<1>. QED BY <1>6, <1>7

\* The same of the state after a step.
LEMMA CreatedAtIsFirstNext == OrderOK' => CreatedAtOK'
BY CreatedAtIsFirst, PTL

\* A container at a job writes to a row that is there.
LEMMA RowReplaced ==
  ASSUME ListInv, NEW p \in Pollers, pollers[p].phase \in {"claim", "work"}, NEW u, u = pollers[p].job,
         NEW j, j.status # "none", jobs' = [jobs EXCEPT ![u] = j]
  PROVE  \A v \in Versions : Exists(v)' <=> Exists(v)
<1>1. jobs \in [Versions -> Row] /\ u \in Versions /\ Exists(u)
  BY DEF ListInv, ShapeOK, PollersOK
<1>2. \A v \in Versions : jobs'[v] = IF v = u THEN j ELSE jobs[v]
  BY <1>1
<1>. QED BY <1>1, <1>2 DEF Exists

\* An upload adds a row, the youngest; no other step adds or removes one.
LEMMA RowsGrow ==
  ListInv /\ [Next]_vars =>
    \/ \E v \in Versions : Accept(v)
    \/ UNCHANGED created /\ \A v \in Versions : Exists(v)' <=> Exists(v)
<1>. SUFFICES ASSUME ListInv, [Next]_vars, ~ \E v \in Versions : Accept(v)
     PROVE  UNCHANGED created /\ \A v \in Versions : Exists(v)' <=> Exists(v)
  OBVIOUS
<1>1. jobs \in [Versions -> Row]
  BY DEF ListInv, ShapeOK
<1>2. UNCHANGED created
  BY DEF Next, vars, PollerStep, Poll, Skip, Claim, Finish, Fail, Crash, Tick, NextPage,
         BeginWalk, Delete
<1>3. CASE UNCHANGED jobs
  BY <1>2, <1>3 DEF Exists
<1>5. \A p \in Pollers : pollers[p].phase \in {"claim", "work"} => jobs[pollers[p].job] \in Row
  BY <1>1 DEF ListInv, PollersOK
<1>6. ASSUME NEW p \in Pollers, Claim(p) PROVE \A v \in Versions : Exists(v)' <=> Exists(v)
  <2>1. CASE UNCHANGED jobs
    BY <1>2, <2>1 DEF Exists
  <2>2. CASE jobs' = [jobs EXCEPT ![pollers[p].job] = Claimed(jobs[pollers[p].job])]
    <3>1. PICK u : u = pollers[p].job
      OBVIOUS
    <3>2. PICK j : j = Claimed(jobs[u])
      OBVIOUS
    <3>3. pollers[p].phase \in {"claim", "work"} /\ jobs[u] \in Row
      BY <1>5, <1>6, <3>1 DEF Claim
    <3>4. j.status # "none" /\ jobs' = [jobs EXCEPT ![u] = j]
      BY <2>2, <3>1, <3>2, <3>3, RowChanges
    <3>. QED BY <3>1, <3>3, <3>4, RowReplaced
  <2>3. UNCHANGED jobs \/ jobs' = [jobs EXCEPT ![pollers[p].job] = Claimed(jobs[pollers[p].job])]
    BY <1>6 DEF Claim, UpdateJob
  <2>. QED BY <2>1, <2>2, <2>3
<1>7. ASSUME NEW p \in Pollers, Finish(p) PROVE \A v \in Versions : Exists(v)' <=> Exists(v)
  <2>1. PICK u : u = pollers[p].job
    OBVIOUS
  <2>2. PICK j : j = [jobs[u] EXCEPT !.status = "succeeded"]
    OBVIOUS
  <2>3. pollers[p].phase \in {"claim", "work"} /\ jobs[u] \in Row
    BY <1>5, <1>7, <2>1 DEF Finish
  <2>4. j.status # "none"
    BY <2>2, <2>3 DEF Row
  <2>5. jobs' = [jobs EXCEPT ![u] = j]
    BY <1>7, <2>1, <2>2 DEF Finish, UpdateJob
  <2>. QED BY <2>1, <2>3, <2>4, <2>5, RowReplaced
<1>8. ASSUME NEW p \in Pollers, Fail(p) PROVE \A v \in Versions : Exists(v)' <=> Exists(v)
  <2>1. PICK u : u = pollers[p].job
    OBVIOUS
  <2>2. pollers[p].phase \in {"claim", "work"} /\ jobs[u] \in Row
    BY <1>5, <1>8, <2>1 DEF Fail
  <2>3. PICK f : f = [jobs[u] EXCEPT !.status = "failed", !.error = TRUE, !.failedStage = TRUE]
    OBVIOUS
  <2>4. f \in Row /\ f.status = "failed"
    BY <2>2, <2>3, RowChanges DEF Row
  <2>5. \A w : [f EXCEPT !.wait = w].status = "failed"
    BY <2>4 DEF Row
  <2>6. PICK j : j = IF f.attempts < MaxAttempts THEN [f EXCEPT !.wait = Delay(f.attempts)] ELSE f
    OBVIOUS
  <2>7. j.status # "none"
    BY <2>4, <2>5, <2>6
  <2>8. jobs' = [jobs EXCEPT ![u] = j]
    BY <1>8, <2>1, <2>3, <2>6 DEF Fail, UpdateJob
  <2>. QED BY <2>1, <2>2, <2>7, <2>8, RowReplaced
<1>9. ASSUME Tick PROVE \A v \in Versions : Exists(v)' <=> Exists(v)
  <2>1. \A v \in Versions : Exists(v) => Aged(jobs[v]).status = jobs[v].status
    BY <1>1, RowChanges
  <2>2. \A v \in Versions : jobs'[v] = IF Exists(v) THEN Aged(jobs[v]) ELSE jobs[v]
    BY <1>9 DEF Tick
  <2>. QED BY <2>1, <2>2 DEF Exists
<1>10. \/ UNCHANGED jobs
       \/ \E p \in Pollers : Claim(p) \/ Finish(p) \/ Fail(p)
       \/ Tick
  BY DEF Next, vars, PollerStep, Poll, Skip, Crash, NextPage, BeginWalk, Delete
<1>. QED BY <1>2, <1>3, <1>6, <1>7, <1>8, <1>9, <1>10

\* Every action keeps the rows and their numbers and lists at most one document more.
LEMMA OrderKept ==
  ListInv /\ OrderOK /\ ListInv' /\ [Next]_vars =>
    Grown /\ OrderOK' /\ \E c : \A t : Listable(t)' \subseteq Listable(t) \cup {c}
<1>. SUFFICES ASSUME ListInv, OrderOK, ListInv', [Next]_vars
     PROVE Grown /\ OrderOK' /\ \E c : \A t : Listable(t)' \subseteq Listable(t) \cup {c}
  OBVIOUS
<1>1. CreatedOK' /\ created' \in [Versions -> Nat]
  BY DEF ListInv, ShapeOK
<1>2. CASE UNCHANGED created /\ \A v \in Versions : Exists(v)' <=> Exists(v)
  <2>1. \A d : VersionsOf(d)' = VersionsOf(d)
    BY <1>2 DEF VersionsOf
  <2>2. \A t : Listable(t)' = Listable(t)
    BY <2>1 DEF Listable
  <2>. QED BY <1>1, <1>2, <2>2 DEF Grown, OrderOK
<1>3. ASSUME NEW v \in Versions, Accept(v)
      PROVE  Grown /\ OrderOK' /\ \E c : \A t : Listable(t)' \subseteq Listable(t) \cup {c}
  <2>1. PICK n \in Nat : n = Cardinality(Rows)
    BY RowCount
  <2>2. ~Exists(v) /\ created' = [created EXCEPT ![v] = n + 1]
    BY <1>3, <2>1 DEF Accept, AcceptNew
  <2>3. \A u \in Versions : /\ created'[u] = (IF u = v THEN n + 1 ELSE created[u])
                            /\ u # v => (Exists(u)' <=> Exists(u))
    BY <1>3, <2>2 DEF Accept, AcceptNew, Exists, OrderOK, ListInv, ShapeOK
  <2>4. \A u \in Versions : Exists(u) => created[u] \in Nat /\ created[u] < n + 1 /\ Exists(u)'
    BY <2>1, <2>2, <2>3 DEF OrderOK, CreatedOK
  <2>5. Grown
    BY <2>2, <2>3, <2>4 DEF Grown
  <2>6. \A u, w \in Versions : Exists(u)' /\ Exists(w)' /\ u # w => created'[u] # created'[w]
    <3>. SUFFICES ASSUME NEW u \in Versions, NEW w \in Versions, Exists(u)', Exists(w)', u # w
         PROVE  created'[u] # created'[w]
      OBVIOUS
    <3>1. CASE u # v /\ w # v
      BY <2>3, <3>1 DEF OrderOK
    <3>2. CASE u = v
      BY <2>1, <2>3, <2>4, <3>2
    <3>3. CASE w = v
      BY <2>1, <2>3, <2>4, <3>3
    <3>. QED BY <3>1, <3>2, <3>3
  <2>7. \A t : Listable(t)' \subseteq Listable(t) \cup {DocOf[v]}
    <3>1. \A d : d # DocOf[v] => VersionsOf(d)' \subseteq VersionsOf(d)
      BY <2>3 DEF VersionsOf
    <3>. QED BY <3>1 DEF Listable
  <2>. QED BY <1>1, <2>5, <2>6, <2>7 DEF OrderOK
<1>. QED BY <1>2, <1>3, RowsGrow

-----------------------------------------------------------------------------
(* Walks *)

WalkInv ==
  /\ walkers \in [Walkers -> Walker]
  /\ OrderOK
  /\ \A w \in Walkers : walkers[w].tenant # NoTenant => WalkOK(walkers[w])

\* Turning a page keeps what is known of the walk: what the page shows again
\* will not be shown by the pages behind it.
LEMMA PageTurned ==
  ASSUME NEW me \in Walker, WalkOK(me), PositionsOK
  PROVE  Turned(me) \in Walker /\ WalkOK(Turned(me))
<1>. DEFINE L == Listable(me.tenant)
            page == Page(me.tenant, me.offset)
            A == {d \in me.shown : Position(d) >= me.offset}
            B == {d \in me.shown : Position(d) >= me.offset + PageSize}
<1>1. me.offset \in Nat /\ me.again \in Nat /\ PageSize \in Nat /\ me.shown \subseteq L /\ me.begun \subseteq L
  BY ListingAssumption DEF Walker, WalkOK
<1>2. page \subseteq L /\ L \subseteq Docs
  BY DEF Page, Listable
<1>3. \A d \in L : /\ Position(d) \in Nat
                   /\ d \in page <=> Position(d) >= me.offset /\ Position(d) < me.offset + PageSize
  BY <1>1 DEF PositionsOK, Page
<1>4. IsFiniteSet(A) /\ IsFiniteSet(B) /\ IsFiniteSet(page \cap me.shown)
  <2>1. A \in SUBSET L /\ B \in SUBSET L /\ page \cap me.shown \in SUBSET L
    BY <1>1
  <2>. QED BY <2>1, ListableFinite, FS_Subset
<1>5. A = B \cup (page \cap me.shown) /\ B \cap (page \cap me.shown) = {}
  BY <1>1, <1>3
<1>6. /\ Cardinality(A) = Cardinality(B) + Cardinality(page \cap me.shown)
      /\ Cardinality(A) \in Nat /\ Cardinality(B) \in Nat /\ Cardinality(page \cap me.shown) \in Nat
  <2>1. Cardinality(A) \in Nat /\ Cardinality(B) \in Nat /\ Cardinality(page \cap me.shown) \in Nat
    BY <1>4, FS_CardinalityType
  <2>2. Cardinality(A) = Cardinality(B) + Cardinality(page \cap me.shown)
                         - Cardinality(B \cap (page \cap me.shown))
    BY <1>4, <1>5, FS_Union
  <2>3. Cardinality(B \cap (page \cap me.shown)) = 0
    BY <1>5, FS_EmptySet
  <2>. QED BY <2>1, <2>2, <2>3
<1>7. PICK seen : seen = Turned(me)
  OBVIOUS
<1>8. /\ seen.tenant = me.tenant /\ seen.begun = me.begun /\ seen.shown = me.shown \cup page
      /\ seen.again = me.again + Cardinality(page \cap me.shown)
      /\ seen.offset = me.offset + PageSize
  BY <1>7 DEF Turned, Walker
<1>9. seen \in Walker
  <2>1. me.again + Cardinality(page \cap me.shown) \in Nat /\ me.offset + PageSize \in Nat
    BY <1>1, <1>6
  <2>2. me.shown \cup page \in SUBSET Docs
    BY <1>1, <1>2
  <2>3. ASSUME NEW s \in SUBSET Docs, NEW a \in Nat, NEW o \in Nat
        PROVE  [me EXCEPT !.shown = s, !.again = a, !.offset = o] \in Walker
    BY DEF Walker
  <2>4. seen = [me EXCEPT !.shown = me.shown \cup page, !.again = me.again + Cardinality(page \cap me.shown),
                          !.offset = me.offset + PageSize]
    BY <1>7 DEF Turned, Walker
  <2>. QED BY <2>1, <2>2, <2>3, <2>4
<1>10. {d \in seen.shown : Position(d) >= seen.offset} = B
  BY <1>1, <1>2, <1>3, <1>8
<1>11. seen.again + Cardinality(B) <= Cardinality(L \ me.begun)
  <2>1. me.again + Cardinality(A) <= Cardinality(L \ me.begun)
    BY DEF WalkOK
  <2>. QED BY <1>1, <1>6, <1>8, <2>1
<1>12. \A d \in seen.begun : d \in seen.shown \/ Position(d) >= seen.offset
  BY <1>1, <1>3, <1>8 DEF WalkOK
<1>13. WalkOK(seen)
  BY <1>1, <1>2, <1>8, <1>10, <1>11, <1>12 DEF WalkOK
<1>. QED BY <1>7, <1>9, <1>13

\* The last page ends the walk with all that was there when it began.
LEMMA WalkEnds ==
  ASSUME NEW me \in Walker, WalkOK(me), PositionsOK, LastPage(me)
  PROVE  /\ Turned(me).begun \subseteq Turned(me).shown
         /\ Turned(me).again <= Cardinality(Listable(Turned(me).tenant) \ Turned(me).begun)
<1>1. PICK seen : seen = Turned(me)
  OBVIOUS
<1>2. seen \in Walker /\ WalkOK(seen)
  BY <1>1, PageTurned
<1>3. seen.tenant = me.tenant /\ seen.begun = me.begun /\ seen.offset = me.offset + PageSize
  BY <1>1 DEF Turned, Walker
<1>4. Cardinality(Listable(seen.tenant)) \in Nat
  BY ListableFinite, FS_CardinalityType
<1>5. \A d \in Listable(seen.tenant) : ~(Position(d) >= seen.offset)
  <2>1. seen.offset >= Cardinality(Listable(seen.tenant)) /\ seen.offset \in Nat
    BY <1>2, <1>3 DEF LastPage, Walker
  <2>2. \A d \in Listable(seen.tenant) : Position(d) \in Nat /\ Position(d) < Cardinality(Listable(seen.tenant))
    BY DEF PositionsOK
  <2>. QED BY <1>4, <2>1, <2>2
<1>6. seen.begun \subseteq seen.shown
  BY <1>2, <1>5 DEF WalkOK
<1>7. {d \in seen.shown : Position(d) >= seen.offset} = {}
  BY <1>2, <1>5 DEF WalkOK
<1>8. seen.again + 0 <= Cardinality(Listable(seen.tenant) \ seen.begun)
  BY <1>2, <1>7, FS_EmptySet DEF WalkOK
<1>9. seen.again \in Nat
  BY <1>2 DEF Walker
<1>. QED BY <1>1, <1>6, <1>8, <1>9

\* No page is turned and nothing is uploaded before the first step.
LEMMA WalkInvInit == Init => WalkInv
<1>. SUFFICES ASSUME Init PROVE WalkInv
  OBVIOUS
<1>1. OrderOK
  BY ListInvInit DEF OrderOK, ListInv, ShapeOK, Init, RegistryInit, NoJob, Exists
<1>2. IdleWalker \in Walker /\ IdleWalker.tenant = NoTenant
  BY DEF IdleWalker, Walker
<1>. QED BY <1>1, <1>2 DEF Init, WalkInv

\* Every action keeps the invariant of the walks.
LEMMA WalkInvNext == ListInv /\ ListInv' /\ WalkInv /\ [Next]_vars => WalkInv'
<1>. SUFFICES ASSUME ListInv, ListInv', WalkInv, [Next]_vars PROVE WalkInv'
  OBVIOUS
<1>1. OrderOK /\ OrderOK' /\ Grown
  BY OrderKept DEF WalkInv
<1>2. CreatedAtOK /\ CreatedAtOK' /\ PositionsOK
  BY <1>1, CreatedAtIsFirst, CreatedAtIsFirstNext, PositionsDiffer
<1>3. CASE UNCHANGED walkers
  <2>1. PICK c : \A t : Listable(t)' \subseteq Listable(t) \cup {c}
    BY <1>1, OrderKept
  <2>2. ASSUME NEW w \in Walkers, walkers'[w].tenant # NoTenant PROVE WalkOK(walkers[w])'
    <3>1. PICK me : me = walkers[w]
      OBVIOUS
    <3>2. me \in Walker /\ WalkOK(me)
      BY <1>3, <2>2, <3>1 DEF WalkInv
    <3>3. WalkOK(me)'
      BY <1>1, <1>2, <2>1, <3>2, WalkKept
    <3>. QED BY <1>3, <3>1, <3>3 DEF WalkOK
  <2>. QED BY <1>1, <1>3, <2>2 DEF WalkInv
<1>4. ASSUME NEW w \in Walkers, NextPage(w) \/ \E d \in Docs : BeginWalk(w, TenantOf[d])
      PROVE  WalkInv'
  <2>1. UNCHANGED <<jobs, docs, created, due, pollers>>
    BY <1>4 DEF NextPage, BeginWalk
  <2>2. ASSUME NEW me, WalkOK(me) PROVE WalkOK(me)'
    <3>1. \A d : VersionsOf(d)' = VersionsOf(d)
      BY <2>1 DEF VersionsOf, Exists
    <3>2. \A d : CreatedAt(d)' = CreatedAt(d)
      BY <2>1, <3>1 DEF CreatedAt
    <3>3. \A t : Listable(t)' = Listable(t)
      BY <3>1 DEF Listable
    <3>4. \A d : Position(d)' = Position(d)
      BY <3>2, <3>3 DEF Position
    <3>. QED BY <2>2, <3>3, <3>4 DEF WalkOK
  <2>3. PICK x \in Walker : /\ walkers' = [walkers EXCEPT ![w] = x]
                            /\ x.tenant # NoTenant => WalkOK(x)
    <3>1. CASE NextPage(w)
      <4>1. walkers[w] \in Walker /\ WalkOK(walkers[w])
        BY <3>1 DEF NextPage, WalkInv
      <4>2. CASE LastPage(walkers[w])
        <5>1. IdleWalker \in Walker /\ IdleWalker.tenant = NoTenant
          BY DEF IdleWalker, Walker
        <5>2. walkers' = [walkers EXCEPT ![w] = IdleWalker]
          BY <3>1, <4>2 DEF NextPage
        <5>. QED BY <5>1, <5>2
      <4>3. CASE ~LastPage(walkers[w])
        BY <1>2, <3>1, <4>1, <4>3, PageTurned DEF NextPage
      <4>. QED BY <4>2, <4>3
    <3>2. ASSUME NEW d \in Docs, BeginWalk(w, TenantOf[d])
          PROVE  \E x \in Walker : /\ walkers' = [walkers EXCEPT ![w] = x]
                                   /\ x.tenant # NoTenant => WalkOK(x)
      <4>1. PICK x : x = [IdleWalker EXCEPT !.tenant = TenantOf[d], !.begun = Listable(TenantOf[d])]
        OBVIOUS
      <4>2. x \in Walker
        BY <4>1 DEF IdleWalker, Walker, Listable
      <4>3. /\ x.tenant = TenantOf[d] /\ x.begun = Listable(TenantOf[d]) /\ x.shown = {}
            /\ x.offset = 0 /\ x.again = 0
        BY <4>1 DEF IdleWalker
      <4>4. {e \in x.shown : Position(e) >= x.offset} = {} /\ x.begun = Listable(x.tenant)
        BY <4>3
      <4>5. Listable(x.tenant) \ x.begun = {} /\ Cardinality({}) = 0
        BY <4>4, FS_EmptySet
      <4>6. x.again + Cardinality({}) <= Cardinality({})
        BY <4>3, <4>5
      <4>7. \A e \in x.begun : Position(e) >= x.offset
        BY <1>2, <4>3, <4>4 DEF PositionsOK
      <4>8. WalkOK(x)
        BY <4>3, <4>4, <4>5, <4>6, <4>7 DEF WalkOK
      <4>. QED BY <3>2, <4>1, <4>2, <4>8 DEF BeginWalk
    <3>. QED BY <1>4, <3>1, <3>2
  <2>4. \A u \in Walkers : walkers'[u] = IF u = w THEN x ELSE walkers[u]
    BY <2>3 DEF WalkInv
  <2>5. walkers' \in [Walkers -> Walker]
    BY <2>3 DEF WalkInv
  <2>6. ASSUME NEW u \in Walkers, walkers'[u].tenant # NoTenant PROVE WalkOK(walkers[u])'
    <3>1. PICK me : me = walkers'[u]
      OBVIOUS
    <3>2. WalkOK(me)
      BY <2>3, <2>4, <2>6, <3>1 DEF WalkInv
    <3>3. WalkOK(me)'
      BY <2>2, <3>2
    <3>. QED BY <3>1, <3>3 DEF WalkOK
  <2>. QED BY <1>1, <2>5, <2>6 DEF WalkInv
<1>5. \/ UNCHANGED walkers
      \/ \E w \in Walkers : NextPage(w) \/ \E d \in Docs : BeginWalk(w, TenantOf[d])
  BY DEF Next, vars, Accept, PollerStep, Poll, Skip, Claim, Finish, Fail, Crash, Tick, Delete
<1>. QED BY <1>3, <1>4, <1>5

\* Uploads and deletions between two pages never make a walk miss a document
\* that was listed when it began, and a document is shown again only for every
\* newer one that pushed it on to the next page.
THEOREM WalksAreComplete == Spec => WalkIsComplete
<1>1. WalkInv /\ [Next]_vars =>
        [\A w \in Walkers :
           walkers[w].tenant # NoTenant /\ walkers'[w].tenant = NoTenant =>
             LET seen == Turned(walkers[w]) IN
             /\ seen.begun \subseteq seen.shown
             /\ seen.again <= Cardinality(Listable(seen.tenant) \ seen.begun)]_vars
  <2>. SUFFICES ASSUME WalkInv, [Next]_vars, NEW w \in Walkers,
                       walkers[w].tenant # NoTenant, walkers'[w].tenant = NoTenant
       PROVE  /\ Turned(walkers[w]).begun \subseteq Turned(walkers[w]).shown
              /\ Turned(walkers[w]).again
                   <= Cardinality(Listable(Turned(walkers[w]).tenant) \ Turned(walkers[w]).begun)
    OBVIOUS
  <2>1. walkers[w] \in Walker /\ WalkOK(walkers[w]) /\ PositionsOK
    BY PositionsDiffer DEF WalkInv
  <2>2. NextPage(w)
    <3>1. walkers'[w] # walkers[w]
      OBVIOUS
    <3>2. \E u \in Walkers : NextPage(u) \/ \E d \in Docs : BeginWalk(u, TenantOf[d])
      BY <3>1 DEF Next, vars, Accept, PollerStep, Poll, Skip, Claim, Finish, Fail, Crash, Tick, Delete
    <3>3. ASSUME NEW u \in Walkers, NEW d \in Docs, BeginWalk(u, TenantOf[d]) PROVE FALSE
      <4>1. walkers'[u] = [IdleWalker EXCEPT !.tenant = TenantOf[d], !.begun = Listable(TenantOf[d])]
            /\ \A v \in Walkers : v # u => walkers'[v] = walkers[v]
        BY <3>3 DEF BeginWalk, WalkInv
      <4>2. walkers'[u].tenant = TenantOf[d] /\ TenantOf[d] # NoTenant
        BY <4>1, ListingAssumption DEF IdleWalker
      <4>. QED BY <3>1, <4>1, <4>2
    <3>4. ASSUME NEW u \in Walkers, NextPage(u), u # w PROVE FALSE
      BY <3>1, <3>4 DEF NextPage, WalkInv
    <3>. QED BY <3>2, <3>3, <3>4
  <2>3. LastPage(walkers[w])
    <3>1. CASE ~LastPage(walkers[w])
      <4>1. walkers'[w] = Turned(walkers[w])
        BY <2>2, <3>1 DEF NextPage, WalkInv
      <4>2. Turned(walkers[w]).tenant = walkers[w].tenant
        BY <2>1 DEF Turned, Walker
      <4>. QED BY <4>1, <4>2
    <3>. QED BY <3>1
  <2>. QED BY <2>1, <2>3, WalkEnds
<1>. QED BY <1>1, ListInvInit, ListInvNext, WalkInvInit, WalkInvNext, PTL DEF Spec, WalkIsComplete
=============================================================================
