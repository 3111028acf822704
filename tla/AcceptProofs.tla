---------------------------- MODULE AcceptProofs -----------------------------
(***************************************************************************)
(* Theorems about IngestionAccept, for any number of versions, keys,       *)
(* concurrent requests and restarts, and either registry.                  *)
(*                                                                         *)
(* None of the properties is inductive.  That a repeated upload is told    *)
(* the same job needs that its key leads to the row it led to before,      *)
(* which needs that the row exists, that both dictionaries of the          *)
(* in-memory registry name it, and that a number drawn for a new job is    *)
(* one no row has.  AcceptInv says these things of the registry.           *)
(***************************************************************************)
EXTENDS IngestionAccept, TLAPS

-----------------------------------------------------------------------------
(* The invariant *)

\* A request that has been sent carries one of the headers, and one that has
\* been prepared an identity.
RequestsOK ==
  \A r \in Requests :
    /\ requests[r].phase # "idle" => requests[r].key \in RawKeys
    /\ requests[r].phase = "accept" => requests[r].version \in Versions

\* Rows, and only rows, have a job, whose number has been drawn.
RowsNumbered == \A v \in Versions : (Exists(v) <=> jobId[v] # 0) /\ jobId[v] <= minted

JobsDistinct == \A u, v \in Versions : jobId[u] = jobId[v] /\ jobId[u] # 0 => u = v

KeysLead ==
  \A k \in Keys :
    /\ owner[k] # NoVersion => Exists(owner[k])
    /\ backend = "memory" => stored[k] = owner[k]

ReceiptsTrue ==
  \A a \in receipts :
    /\ jobId[a.upload] = a.job
    /\ a.key # NoKey => owner[a.key] = a.upload

AcceptInv == TypeOK /\ RequestsOK /\ RowsNumbered /\ JobsDistinct /\ KeysLead /\ ReceiptsTrue

-----------------------------------------------------------------------------
(* Values *)

\* The row of a new identity, and the absence of a row, are job records.
LEMMA NewRowType == NoJob \in Job /\ [NoJob EXCEPT !.status = "queued"] \in Job
<1>1. AgeCap \in Nat
  BY NumAssumption DEF AgeCap
<1>2. 0 \in 0 .. MaxAttempts /\ 0 \in 0 .. BackoffCap /\ AgeCap \in 0 .. AgeCap
  BY <1>1, NumAssumption
<1>. QED BY <1>2 DEF NoJob, Job, JobStatus

\* The header of a prepared request normalizes to a key, to none or to a bad one.
LEMMA KeyType ==
  ASSUME AcceptInv, NEW r \in Requests, requests[r].phase = "accept"
  PROVE  KeyAt(r) \in Keys \cup {NoKey, BadKey} /\ requests[r].version \in Versions
<1>1. requests[r].key \in RawKeys /\ requests[r].version \in Versions
  BY DEF AcceptInv, RequestsOK
<1>. QED BY <1>1, AcceptAssumption DEF KeyAt

\* The request that ends is idle, the others are as they were.
LEMMA EndType ==
  ASSUME AcceptInv, NEW r \in Requests, End(r)
  PROVE  requests' \in [Requests -> Request] /\ RequestsOK'
<1>1. IdleRequest \in Request
  BY DEF IdleRequest, Request
<1>2. requests' \in [Requests -> Request]
  BY <1>1 DEF AcceptInv, TypeOK, End
<1>3. RequestsOK'
  BY DEF AcceptInv, TypeOK, RequestsOK, End, IdleRequest
<1>. QED BY <1>2, <1>3

\* A step that changes the requests alone disturbs nothing else.
LEMMA RegistryKept ==
  ASSUME AcceptInv, requests' \in [Requests -> Request], RequestsOK',
         UNCHANGED <<registry, backend, fingerprint, restarts>>
  PROVE  AcceptInv'
<1>1. TypeOK'
  BY DEF AcceptInv, TypeOK, RegistryTypeOK, registry
<1>2. RowsNumbered' /\ JobsDistinct' /\ KeysLead' /\ ReceiptsTrue'
  BY DEF AcceptInv, RowsNumbered, JobsDistinct, KeysLead, ReceiptsTrue, Exists, registry
<1>. QED BY <1>1, <1>2 DEF AcceptInv

-----------------------------------------------------------------------------
(* Every step preserves it *)

\* An empty registry, of either kind, satisfies it.
LEMMA AcceptInvInit == Init => AcceptInv
<1>. SUFFICES ASSUME Init PROVE AcceptInv
  OBVIOUS
<1>. USE DEF Init, EmptyRegistry, RegistryInit
<1>1. IdleRequest \in Request
  BY DEF IdleRequest, Request
<1>2. TypeOK
  BY <1>1, NewRowType, AcceptAssumption DEF TypeOK, RegistryTypeOK
<1>3. RequestsOK
  BY DEF RequestsOK, IdleRequest
<1>4. RowsNumbered /\ JobsDistinct
  BY DEF RowsNumbered, JobsDistinct, Exists, NoJob
<1>5. KeysLead /\ ReceiptsTrue
  BY DEF KeysLead, ReceiptsTrue
<1>. QED BY <1>2, <1>3, <1>4, <1>5 DEF AcceptInv

\* Sending, refusing and preparing a request leave the registry alone.
LEMMA AcceptInvPrepare ==
  ASSUME AcceptInv, NEW r \in Requests,
         Submit(r) \/ Refused(r) \/ Prepare(r) \/ RefuseKey(r)
  PROVE  AcceptInv'
<1>1. CASE Submit(r)
  <2>1. PICK d \in Docs, k \in RawKeys :
          requests' = [requests EXCEPT ![r] =
            [phase |-> "prepare", doc |-> d, key |-> k, version |-> NoVersion]]
    BY <1>1 DEF Submit
  <2>2. requests' \in [Requests -> Request]
    BY <2>1 DEF AcceptInv, TypeOK, Request
  <2>3. RequestsOK'
    BY <2>1 DEF AcceptInv, TypeOK, RequestsOK
  <2>. QED BY <1>1, <2>2, <2>3, RegistryKept DEF Submit
<1>2. CASE Refused(r) \/ RefuseKey(r)
  BY <1>2, EndType, RegistryKept DEF Refused, RefuseKey
<1>3. CASE Prepare(r)
  <2>1. PICK v \in Versions :
          requests' = [requests EXCEPT ![r] = [@ EXCEPT !.phase = "accept", !.version = v]]
    BY <1>3 DEF Prepare
  <2>2. requests[r] \in Request /\ requests[r].phase = "prepare" /\ requests[r].key \in RawKeys
    BY <1>3 DEF Prepare, AcceptInv, TypeOK, RequestsOK
  <2>3. [requests[r] EXCEPT !.phase = "accept", !.version = v] \in Request
    BY <2>2 DEF Request
  <2>4. requests' \in [Requests -> Request]
    BY <2>1, <2>3 DEF AcceptInv, TypeOK
  <2>5. RequestsOK'
    BY <2>1, <2>2 DEF AcceptInv, TypeOK, RequestsOK, Request
  <2>. QED BY <1>3, <2>4, <2>5, RegistryKept DEF Prepare
<1>. QED BY <1>1, <1>2, <1>3

\* The row a key leads to is that of the identity it was sent with.
LEMMA KeyLeadsBack ==
  ASSUME AcceptInv, NEW r \in Requests, AnswerByKey(r)
  PROVE  /\ KeyAt(r) \in Keys
         /\ Remembered(KeyAt(r)) = requests[r].version
         /\ owner[KeyAt(r)] = requests[r].version
         /\ requests[r].version \in Versions
         /\ Exists(requests[r].version)
<1>1. KeyAt(r) \in Keys /\ requests[r].version \in Versions
  BY KeyType DEF AnswerByKey
<1>2. Remembered(KeyAt(r)) = owner[KeyAt(r)]
  BY <1>1 DEF AcceptInv, KeysLead, Remembered
<1>3. owner[KeyAt(r)] = requests[r].version
  BY <1>1, <1>2 DEF AnswerByKey, Conflict, Bound
<1>. QED BY <1>1, <1>2, <1>3, AcceptAssumption DEF AcceptInv, KeysLead

\* A key that is known is answered with the job it was answered with before.
LEMMA AcceptInvAnswer ==
  ASSUME AcceptInv, NEW r \in Requests, AnswerByKey(r)
  PROVE  AcceptInv'
<1>. DEFINE k == KeyAt(r)
            v == requests[r].version
<1>1. UNCHANGED <<jobs, docs, jobId, minted, owner, stored, backend, fingerprint, restarts>>
  BY DEF AnswerByKey
<1>2. receipts' = receipts \cup {[upload |-> v, key |-> k, job |-> jobId[v]]}
  BY <1>1, KeyLeadsBack DEF AnswerByKey, HandOut
<1>3. jobId[v] \in Nat \ {0}
  BY KeyLeadsBack DEF AcceptInv, TypeOK, RowsNumbered
<1>4. TypeOK'
  <2>1. receipts' \subseteq Receipt
    BY <1>2, <1>3, KeyLeadsBack DEF AcceptInv, TypeOK, Receipt
  <2>. QED BY <1>1, <2>1, EndType DEF AnswerByKey, AcceptInv, TypeOK, RegistryTypeOK
<1>5. RowsNumbered' /\ JobsDistinct' /\ KeysLead'
  BY <1>1 DEF AcceptInv, RowsNumbered, JobsDistinct, KeysLead, Exists
<1>6. ReceiptsTrue'
  BY <1>1, <1>2, KeyLeadsBack DEF AcceptInv, ReceiptsTrue
<1>. QED BY <1>4, <1>5, <1>6, EndType DEF AcceptInv, AnswerByKey

\* A request that neither its key nor a conflict answers has no key, or one
\* that is free or names its own identity.
LEMMA KeyFree ==
  ASSUME AcceptInv, NEW r \in Requests, Unanswered(r)
  PROVE  /\ requests[r].version \in Versions
         /\ KeyAt(r) \in Keys \cup {NoKey}
         /\ KeyAt(r) # NoKey => owner[KeyAt(r)] = NoVersion
<1>1. requests[r].version \in Versions /\ KeyAt(r) \in Keys \cup {NoKey}
  BY KeyType DEF Unanswered
<1>2. KeyAt(r) \in Keys => Remembered(KeyAt(r)) = owner[KeyAt(r)]
  BY DEF AcceptInv, KeysLead, Remembered
<1>. QED BY <1>1, <1>2 DEF Unanswered

\* Binding a free key to an identity whose row exists keeps keys and receipts right.
LEMMA BindKeeps ==
  ASSUME AcceptInv, NEW v \in Versions, NEW k \in Keys \cup {NoKey},
         k # NoKey => owner[k] = NoVersion,
         Bind(k, v), HandOut(v, k, v), UNCHANGED backend,
         jobId'[v] \in Nat \ {0}, Exists(v)',
         \A u \in Versions : Exists(u) => Exists(u)' /\ jobId'[u] = jobId[u]
  PROVE  /\ owner' \in [Keys -> Versions \cup {NoVersion}]
         /\ stored' \in [Keys -> Versions \cup {NoVersion}]
         /\ receipts' \subseteq Receipt
         /\ KeysLead' /\ ReceiptsTrue'
<1>1. receipts' = receipts \cup {[upload |-> v, key |-> k, job |-> jobId'[v]]}
  BY DEF HandOut
<1>2. owner' \in [Keys -> Versions \cup {NoVersion}] /\ stored' \in [Keys -> Versions \cup {NoVersion}]
  BY DEF Bind, AcceptInv, TypeOK
<1>3. receipts' \subseteq Receipt
  BY <1>1 DEF AcceptInv, TypeOK, Receipt
<1>4. \A l \in Keys : owner'[l] = IF l = k THEN v ELSE owner[l]
  BY AcceptAssumption DEF Bind, AcceptInv, TypeOK
<1>5. KeysLead'
  <2>. SUFFICES ASSUME NEW l \in Keys
                PROVE  /\ owner'[l] # NoVersion => jobs'[owner'[l]].status # "none"
                       /\ backend' = "memory" => stored'[l] = owner'[l]
    BY DEF KeysLead, Exists
  <2>1. owner'[l] # NoVersion => jobs'[owner'[l]].status # "none"
    <3>1. CASE l = k
      BY <3>1, <1>4 DEF Exists
    <3>2. CASE l # k
      <4>1. owner'[l] = owner[l]
        BY <1>4, <3>2
      <4>2. owner[l] # NoVersion => owner[l] \in Versions /\ Exists(owner[l])
        BY DEF AcceptInv, TypeOK, KeysLead
      <4>. QED BY <4>1, <4>2 DEF Exists
    <3>. QED BY <3>1, <3>2
  <2>2. backend' = "memory" => stored'[l] = owner'[l]
    BY AcceptAssumption DEF Bind, AcceptInv, TypeOK, KeysLead
  <2>. QED BY <2>1, <2>2
<1>6. ReceiptsTrue'
  <2>. SUFFICES ASSUME NEW a \in receipts'
                PROVE  jobId'[a.upload] = a.job /\ (a.key # NoKey => owner'[a.key] = a.upload)
    BY DEF ReceiptsTrue
  <2>1. CASE a \in receipts
    <3>1. /\ a.upload \in Versions /\ a.key \in Keys \cup {NoKey} /\ a.job # 0
          /\ jobId[a.upload] = a.job
          /\ a.key # NoKey => owner[a.key] = a.upload
      BY <2>1 DEF AcceptInv, TypeOK, Receipt, ReceiptsTrue
    <3>2. Exists(a.upload)
      BY <3>1 DEF AcceptInv, RowsNumbered
    <3>3. a.key # NoKey => a.key \in Keys /\ a.key # k
      BY <3>1, AcceptAssumption
    <3>. QED BY <3>1, <3>2, <3>3, <1>4
  <2>2. CASE a = [upload |-> v, key |-> k, job |-> jobId'[v]]
    BY <2>2, <1>4
  <2>. QED BY <1>1, <2>1, <2>2
<1>. QED BY <1>2, <1>3, <1>5, <1>6

\* A known identity is answered with its row, to which the key now leads.
LEMMA AcceptInvJoin ==
  ASSUME AcceptInv, NEW r \in Requests, Join(r)
  PROVE  AcceptInv'
<1>. PICK k, v : k = KeyAt(r) /\ v = requests[r].version
  OBVIOUS
<1>1. UNCHANGED <<jobs, docs, jobId, minted, backend, fingerprint, restarts>>
  BY DEF Join
<1>2. v \in Versions /\ k \in Keys \cup {NoKey} /\ (k # NoKey => owner[k] = NoVersion)
  BY KeyFree DEF Join
<1>3. Exists(v)' /\ \A u \in Versions : Exists(u) => Exists(u)' /\ jobId'[u] = jobId[u]
  BY <1>1 DEF Join, Exists
<1>4. jobId'[v] \in Nat \ {0}
  BY <1>1, <1>2 DEF Join, AcceptInv, TypeOK, RowsNumbered
<1>5. Bind(k, v) /\ HandOut(v, k, v)
  BY DEF Join
<1>6. /\ owner' \in [Keys -> Versions \cup {NoVersion}]
      /\ stored' \in [Keys -> Versions \cup {NoVersion}]
      /\ receipts' \subseteq Receipt
      /\ KeysLead' /\ ReceiptsTrue'
  BY <1>1, <1>2, <1>3, <1>4, <1>5, BindKeeps
<1>7. requests' \in [Requests -> Request] /\ RequestsOK'
  BY EndType DEF Join
<1>8. RowsNumbered' /\ JobsDistinct'
  BY <1>1 DEF AcceptInv, RowsNumbered, JobsDistinct, Exists
<1>9. TypeOK'
  BY <1>1, <1>6, <1>7 DEF AcceptInv, TypeOK, RegistryTypeOK
<1>. QED BY <1>6, <1>7, <1>8, <1>9 DEF AcceptInv

\* A new identity gets a row and a number that no row has.
LEMMA AcceptInvCreate ==
  ASSUME AcceptInv, NEW r \in Requests, Create(r)
  PROVE  AcceptInv'
<1>. PICK k, v : k = KeyAt(r) /\ v = requests[r].version
  OBVIOUS
<1>1. UNCHANGED <<backend, fingerprint, restarts>> /\ minted' = minted + 1
  BY DEF Create
<1>2. v \in Versions /\ k \in Keys \cup {NoKey} /\ (k # NoKey => owner[k] = NoVersion)
  BY KeyFree DEF Create
<1>3. ~Exists(v) /\ jobs \in [Versions -> Job] /\ docs \in [Versions -> DocumentStatus \cup {"none"}]
      /\ jobId \in [Versions -> Nat] /\ minted \in Nat
  BY DEF Create, AcceptNew, AcceptInv, TypeOK, RegistryTypeOK
<1>4. jobs' = [jobs EXCEPT ![v] = [NoJob EXCEPT !.status = "queued"]]
      /\ docs' = [docs EXCEPT ![v] = "indexing"]
      /\ jobId' = [jobId EXCEPT ![v] = minted + 1]
  BY DEF Create, AcceptNew
<1>5. RegistryTypeOK' /\ jobId' \in [Versions -> Nat] /\ minted' \in Nat
  <2>1. jobs' \in [Versions -> Job]
    BY <1>3, <1>4, NewRowType
  <2>2. docs' \in [Versions -> DocumentStatus \cup {"none"}]
    BY <1>3, <1>4 DEF DocumentStatus
  <2>. QED BY <1>1, <1>3, <1>4, <2>1, <2>2 DEF RegistryTypeOK
<1>6. Exists(v)' /\ jobId'[v] = minted + 1
  BY <1>2, <1>3, <1>4 DEF Exists, NoJob
<1>7. \A u \in Versions \ {v} : (Exists(u)' <=> Exists(u)) /\ jobId'[u] = jobId[u]
  BY <1>3, <1>4 DEF Exists
<1>8. \A u \in Versions : Exists(u) => Exists(u)' /\ jobId'[u] = jobId[u]
  BY <1>3, <1>7
<1>9. jobId'[v] \in Nat \ {0}
  BY <1>3, <1>6
<1>10. Bind(k, v) /\ HandOut(v, k, v)
  BY DEF Create
<1>11. /\ owner' \in [Keys -> Versions \cup {NoVersion}]
       /\ stored' \in [Keys -> Versions \cup {NoVersion}]
       /\ receipts' \subseteq Receipt
       /\ KeysLead' /\ ReceiptsTrue'
  BY <1>1, <1>2, <1>6, <1>8, <1>9, <1>10, BindKeeps
<1>12. requests' \in [Requests -> Request] /\ RequestsOK'
  BY EndType DEF Create
<1>13. \A u \in Versions : jobId[u] <= minted
  BY DEF AcceptInv, RowsNumbered
<1>14. RowsNumbered'
  <2>. SUFFICES ASSUME NEW u \in Versions
                PROVE  (Exists(u)' <=> jobId'[u] # 0) /\ jobId'[u] <= minted'
    BY DEF RowsNumbered
  <2>1. CASE u = v
    BY <2>1, <1>1, <1>3, <1>6
  <2>2. CASE u # v
    <3>1. (Exists(u) <=> jobId[u] # 0) /\ jobId[u] <= minted
      BY DEF AcceptInv, RowsNumbered
    <3>. QED BY <2>2, <3>1, <1>1, <1>3, <1>7
  <2>. QED BY <2>1, <2>2
<1>15. JobsDistinct'
  <2>. SUFFICES ASSUME NEW u \in Versions, NEW w \in Versions,
                       jobId'[u] = jobId'[w], jobId'[u] # 0
                PROVE  u = w
    BY DEF JobsDistinct
  <2>1. \A x \in Versions \ {v} : jobId'[x] # jobId'[v]
    BY <1>3, <1>6, <1>7, <1>13
  <2>2. u # v /\ w # v => u = w
    BY <1>7 DEF AcceptInv, JobsDistinct
  <2>. QED BY <2>1, <2>2
<1>16. TypeOK'
  BY <1>1, <1>5, <1>11, <1>12 DEF AcceptInv, TypeOK
<1>. QED BY <1>11, <1>12, <1>14, <1>15, <1>16 DEF AcceptInv

\* What the worker does with rows takes none away.
LEMMA AcceptInvEnvironment ==
  ASSUME AcceptInv,
         (\E v \in Versions : Settle(v)) \/ (\E d \in Docs : Delete(d))
  PROVE  AcceptInv'
<1>1. UNCHANGED <<jobId, minted, owner, stored, receipts, backend, fingerprint, requests, restarts>>
  BY DEF Settle, Delete
<1>2. RegistryTypeOK' /\ \A u \in Versions : Exists(u)' <=> Exists(u)
  <2>. USE DEF AcceptInv, TypeOK, RegistryTypeOK, Exists
  <2>1. ASSUME NEW v \in Versions, Settle(v)
        PROVE  RegistryTypeOK' /\ \A u \in Versions : Exists(u)' <=> Exists(u)
    <3>1. PICK s \in {"succeeded", "failed"} : jobs' = [jobs EXCEPT ![v].status = s]
      BY <2>1 DEF Settle
    <3>2. [jobs[v] EXCEPT !.status = s] \in Job /\ jobs[v].status # "none"
      BY <2>1 DEF Settle, Job, JobStatus
    <3>3. jobs' \in [Versions -> Job]
      BY <3>1, <3>2
    <3>4. docs' \in [Versions -> DocumentStatus \cup {"none"}]
      BY <2>1 DEF Settle, DocumentStatus
    <3>5. \A u \in Versions : jobs'[u].status # "none" <=> jobs[u].status # "none"
      BY <3>1, <3>2 DEF Job
    <3>. QED BY <3>3, <3>4, <3>5
  <2>2. ASSUME NEW d \in Docs, Delete(d)
        PROVE  RegistryTypeOK' /\ \A u \in Versions : Exists(u)' <=> Exists(u)
    BY <2>2 DEF Delete, DeleteRows, DocumentStatus
  <2>. QED BY <2>1, <2>2
<1>3. TypeOK' /\ RequestsOK'
  BY <1>1, <1>2 DEF AcceptInv, TypeOK, RequestsOK
<1>4. RowsNumbered' /\ JobsDistinct'
  BY <1>1, <1>2 DEF AcceptInv, RowsNumbered, JobsDistinct
<1>5. KeysLead'
  BY <1>1, <1>2 DEF AcceptInv, TypeOK, KeysLead
<1>6. ReceiptsTrue'
  BY <1>1 DEF AcceptInv, ReceiptsTrue
<1>. QED BY <1>3, <1>4, <1>5, <1>6 DEF AcceptInv

\* A restart keeps the registry or empties all of it.
LEMMA AcceptInvRestart ==
  ASSUME AcceptInv, NEW f \in Fingerprints, Restart(f)
  PROVE  AcceptInv'
<1>. USE DEF Restart
<1>1. requests' \in [Requests -> Request] /\ RequestsOK'
  BY DEF IdleRequest, Request, RequestsOK
<1>2. restarts' \in 0 .. MaxRestarts /\ fingerprint' \in Fingerprints /\ UNCHANGED <<minted, backend>>
  BY AcceptAssumption DEF AcceptInv, TypeOK
<1>3. CASE backend = "sqlite"
  <2>1. TypeOK'
    BY <1>1, <1>2, <1>3 DEF AcceptInv, TypeOK, RegistryTypeOK
  <2>. QED BY <1>1, <1>3, <2>1
         DEF AcceptInv, RowsNumbered, JobsDistinct, KeysLead, ReceiptsTrue, Exists
<1>4. CASE backend # "sqlite"
  <2>1. TypeOK'
    BY <1>1, <1>2, <1>4, NewRowType DEF AcceptInv, TypeOK, RegistryTypeOK
  <2>2. RowsNumbered'
    BY <1>2, <1>4 DEF AcceptInv, TypeOK, RowsNumbered, Exists, NoJob
  <2>3. JobsDistinct' /\ KeysLead' /\ ReceiptsTrue'
    BY <1>4 DEF JobsDistinct, KeysLead, ReceiptsTrue
  <2>. QED BY <1>1, <2>1, <2>2, <2>3 DEF AcceptInv
<1>. QED BY <1>3, <1>4

\* Every action keeps the invariant.
LEMMA AcceptInvNext == AcceptInv /\ [Next]_vars => AcceptInv'
<1>. SUFFICES ASSUME AcceptInv, [Next]_vars PROVE AcceptInv'
  OBVIOUS
<1>1. CASE \E r \in Requests : RequestStep(r)
  BY <1>1, AcceptInvPrepare, AcceptInvAnswer, AcceptInvJoin, AcceptInvCreate DEF RequestStep
<1>2. CASE (\E v \in Versions : Settle(v)) \/ (\E d \in Docs : Delete(d))
  BY <1>2, AcceptInvEnvironment
<1>3. CASE \E f \in Fingerprints : Restart(f)
  BY <1>3, AcceptInvRestart
<1>4. CASE UNCHANGED vars
  <2>1. requests' \in [Requests -> Request] /\ RequestsOK'
    BY <1>4 DEF vars, AcceptInv, TypeOK, RequestsOK
  <2>. QED BY <1>4, <2>1, RegistryKept DEF vars
<1>. QED BY <1>1, <1>2, <1>3, <1>4 DEF Next

\* The registry keeps what it has told its clients.
THEOREM RegistryInvariant == Spec => []AcceptInv
<1>. QED BY AcceptInvInit, AcceptInvNext, PTL DEF Spec

-----------------------------------------------------------------------------
(* What clients are promised *)

\* The variables of the acceptance model have their types, in particular every
\* receipt names a job.
THEOREM AcceptTypeCorrect == Spec => []TypeOK
<1>1. AcceptInv => TypeOK
  BY DEF AcceptInv
<1>. QED BY RegistryInvariant, <1>1, PTL

\* All receipts for one upload identity name one job and those for different
\* ones different jobs, however uploads interleave, repeat and restart.
THEOREM UploadsHaveOneJob == Spec => []OneJobPerUpload
<1>1. AcceptInv => OneJobPerUpload
  BY DEF AcceptInv, TypeOK, Receipt, ReceiptsTrue, JobsDistinct, OneJobPerUpload
<1>. QED BY RegistryInvariant, <1>1, PTL

\* A key never comes to name a second upload.
THEOREM KeysNameOneUpload == Spec => []KeyNamesOneUpload
<1>1. AcceptInv => KeyNamesOneUpload
  BY DEF AcceptInv, ReceiptsTrue, KeyNamesOneUpload
<1>. QED BY RegistryInvariant, <1>1, PTL

\* The job of a receipt is found and its document lists the version; no key
\* leads to a missing row.
THEOREM ReceiptsCanBeFollowed == Spec => []ReceiptsResolve
<1>1. AcceptInv => ReceiptsResolve
  <2>. SUFFICES ASSUME AcceptInv PROVE ReceiptsResolve
    OBVIOUS
  <2>1. ASSUME NEW a \in receipts
        PROVE  jobId[a.upload] = a.job /\ a.upload \in VersionsOf(DocOf[a.upload])
    <3>1. a.upload \in Versions /\ a.job # 0 /\ jobId[a.upload] = a.job
      BY DEF AcceptInv, TypeOK, Receipt, ReceiptsTrue
    <3>2. Exists(a.upload)
      BY <3>1 DEF AcceptInv, RowsNumbered
    <3>. QED BY <3>1, <3>2 DEF VersionsOf
  <2>2. ASSUME NEW k \in Keys, Remembered(k) # NoVersion
        PROVE  Exists(Remembered(k))
    BY <2>2 DEF AcceptInv, KeysLead, Remembered
  <2>. QED BY <2>1, <2>2 DEF ReceiptsResolve
<1>. QED BY RegistryInvariant, <1>1, PTL

-----------------------------------------------------------------------------
(* Either registry implements IdempotentAcceptance *)

Lead == [k \in Keys |-> Remembered(k)]

\* No receipts and no keys: the abstract initial state.
LEMMA PromiseInit == Init => Promise!Init
  BY DEF Init, EmptyRegistry, Promise!Init, Remembered

\* An answer of the registry is an answer of the abstract one.
LEMMA AnswerIsPromised ==
  ASSUME AcceptInv, AcceptInv', NEW v \in Versions, NEW k \in Keys \cup {NoKey},
         k # NoKey => owner[k] \in {NoVersion, v},
         owner' = IF k = NoKey THEN owner ELSE [owner EXCEPT ![k] = v],
         HandOut(v, k, v),
         jobId'[v] # 0, jobId[v] # 0 => jobId'[v] = jobId[v],
         \A u \in Versions \ {v} : jobId'[u] = jobId[u]
  PROVE  Promise!Next
<1>1. Lead = owner /\ Lead' = owner'
  BY DEF AcceptInv, TypeOK, KeysLead, Lead, Remembered
<1>2. \A u \in Versions \ {v} : jobId'[v] # jobId[u]
  BY DEF AcceptInv, JobsDistinct
<1>3. Promise!Answer(v, k)
  BY <1>1, <1>2 DEF Promise!Answer, HandOut, Lead
<1>. QED BY <1>3 DEF Promise!Next

\* Every step is one the abstract specification allows, or none.
LEMMA PromiseNext ==
  AcceptInv /\ AcceptInv' /\ [Next]_vars
    => [Promise!Next]_<<jobId, [k \in Keys |-> Remembered(k)], receipts>>
<1>. SUFFICES ASSUME AcceptInv, AcceptInv', [Next]_vars
              PROVE  Promise!Next \/ UNCHANGED <<jobId, Lead, receipts>>
  BY DEF Lead
<1>. DEFINE Same == UNCHANGED <<jobId, owner, stored, receipts, backend>>
<1>1. Same => UNCHANGED <<jobId, Lead, receipts>>
  BY DEF Lead, Remembered
<1>2. ASSUME NEW r \in Requests, Submit(r) \/ Refused(r) \/ Prepare(r) \/ RefuseKey(r)
      PROVE  Same
  BY <1>2 DEF Submit, Refused, Prepare, RefuseKey, registry
<1>3. ASSUME NEW r \in Requests, AnswerByKey(r)
      PROVE  Promise!Next
  <2>. PICK k, v : k = KeyAt(r) /\ v = requests[r].version
    OBVIOUS
  <2>1. k \in Keys /\ v \in Versions /\ owner[k] = v /\ Remembered(k) = v /\ Exists(v)
    BY <1>3, KeyLeadsBack
  <2>2. UNCHANGED <<jobId, owner>> /\ HandOut(v, k, v)
    BY <1>3, <2>1 DEF AnswerByKey
  <2>3. owner' = [owner EXCEPT ![k] = v] /\ k # NoKey /\ jobId[v] # 0
    BY <2>1, <2>2, AcceptAssumption DEF AcceptInv, TypeOK, RowsNumbered
  <2>. QED BY <2>1, <2>2, <2>3, AnswerIsPromised
<1>4. ASSUME NEW r \in Requests, Join(r) \/ Create(r)
      PROVE  Promise!Next
  <2>. PICK k, v : k = KeyAt(r) /\ v = requests[r].version
    OBVIOUS
  <2>1. v \in Versions /\ k \in Keys \cup {NoKey} /\ (k # NoKey => owner[k] = NoVersion)
    BY <1>4, KeyFree DEF Join, Create
  <2>2. Bind(k, v) /\ HandOut(v, k, v)
    BY <1>4 DEF Join, Create
  <2>3. jobId'[v] # 0 /\ (jobId[v] # 0 => jobId'[v] = jobId[v])
        /\ \A u \in Versions \ {v} : jobId'[u] = jobId[u]
    BY <1>4, <2>1 DEF Join, Create, AcceptNew, AcceptInv, TypeOK, RowsNumbered
  <2>. QED BY <2>1, <2>2, <2>3, AnswerIsPromised DEF Bind
<1>5. ASSUME (\E v \in Versions : Settle(v)) \/ (\E d \in Docs : Delete(d))
      PROVE  Same
  BY <1>5 DEF Settle, Delete
<1>6. ASSUME NEW f \in Fingerprints, Restart(f)
      PROVE  Promise!Next \/ Same
  <2>1. CASE backend = "sqlite"
    BY <1>6, <2>1 DEF Restart
  <2>2. CASE backend # "sqlite"
    <3>1. Lead' = [k \in Keys |-> NoVersion]
      BY <1>6, <2>2 DEF Restart, Lead, Remembered
    <3>. QED BY <1>6, <2>2, <3>1 DEF Restart, Promise!Next, Promise!Forget, Lead
  <2>. QED BY <2>1, <2>2
<1>7. CASE UNCHANGED vars
  BY <1>7, <1>1 DEF vars, registry
<1>. QED BY <1>1, <1>2, <1>3, <1>4, <1>5, <1>6, <1>7 DEF Next, RequestStep

\* Accepting with keys in two tables, or in three dictionaries, does what the
\* abstract registry promises.
THEOREM PromiseIsKept == Spec => AcceptancePromise
<1>1. AcceptInv /\ AcceptInv' /\ [Next]_vars
        => [Promise!Next]_<<jobId, [k \in Keys |-> Remembered(k)], receipts>>
  BY PromiseNext
<1>. QED BY PromiseInit, <1>1, RegistryInvariant, PTL DEF Spec, AcceptancePromise, Promise!Spec
=============================================================================
