--------------------------- MODULE IngestionAccept ---------------------------
(***************************************************************************)
(* POST /documents up to the receipt: requests that validate an upload in  *)
(* a thread and then have it accepted by the registry, either the SQLite   *)
(* one (its ingestions and idempotency_keys tables, one BEGIN IMMEDIATE    *)
(* transaction per accept) or the in-memory one (three dictionaries under  *)
(* a lock).  Requests run concurrently; a reply can be lost and the upload *)
(* be sent again, which is just another request; the API process can       *)
(* restart, with another pipeline configuration.                           *)
(*                                                                         *)
(* A document stands for a tenant and the bytes of a file, a version for a *)
(* document and the fingerprint of the pipeline it was uploaded to: the    *)
(* code's identifiers are hashes of exactly these.  Tags, file name and    *)
(* sizes are not part of an identity and are left out.                     *)
(***************************************************************************)
EXTENDS JobRegistry

CONSTANTS
  Requests,       \* POST /documents requests in progress
  Fingerprints,   \* pipeline configurations
  FingerprintOf,  \* [Versions -> Fingerprints]
  RawKeys,        \* Idempotency-Key headers as sent, and their absence
  Keys,           \* normalized keys
  KeyOf,          \* [RawKeys -> Keys \cup {NoKey, BadKey}]: stripped; blank; too long
  NoKey, BadKey,
  NoVersion, NoDoc,
  MaxRestarts     \* bound on restarts of the API process

ASSUME AcceptAssumption ==
  /\ FingerprintOf \in [Versions -> Fingerprints]
  /\ KeyOf \in [RawKeys -> Keys \cup {NoKey, BadKey}]
  /\ NoKey \notin Keys /\ BadKey \notin Keys /\ NoKey # BadKey
  /\ NoVersion \notin Versions
  /\ NoDoc \notin Docs
  /\ MaxRestarts \in Nat
  \* the identifiers are collision free
  /\ \A u, v \in Versions :
       DocOf[u] = DocOf[v] /\ FingerprintOf[u] = FingerprintOf[v] => u = v

VARIABLES
  backend,      \* settings.registry_backend
  fingerprint,  \* of the running process
  jobId,        \* job_id of a row, 0 without a row
  minted,       \* job ids drawn so far: uuid4 never repeats one
  owner,        \* idempotency_keys table, or _idempotency_identity
  stored,       \* _by_idempotency: the record a key leads to (memory only)
  receipts,     \* history: every receipt the registry has returned
  requests,
  restarts

registry == <<jobs, docs, jobId, minted, owner, stored, receipts>>
vars == <<registry, backend, fingerprint, requests, restarts>>

Request == [phase   : {"idle", "prepare", "accept"},
            doc     : Docs \cup {NoDoc},
            key     : RawKeys \cup {NoKey},
            version : Versions \cup {NoVersion}]

IdleRequest == [phase |-> "idle", doc |-> NoDoc, key |-> NoKey,
                version |-> NoVersion]

\* What an upload, sent under a key, was answered with.
Receipt == [upload : Versions, key : Keys \cup {NoKey}, job : Nat \ {0}]

TypeOK ==
  /\ RegistryTypeOK
  /\ backend \in {"sqlite", "memory"}
  /\ fingerprint \in Fingerprints
  /\ jobId \in [Versions -> Nat]
  /\ minted \in Nat
  /\ owner \in [Keys -> Versions \cup {NoVersion}]
  /\ stored \in [Keys -> Versions \cup {NoVersion}]
  /\ receipts \subseteq Receipt
  /\ requests \in [Requests -> Request]
  /\ restarts \in 0 .. MaxRestarts

EmptyRegistry ==
  /\ RegistryInit
  /\ jobId = [v \in Versions |-> 0]
  /\ owner = [k \in Keys |-> NoVersion]
  /\ stored = [k \in Keys |-> NoVersion]
  /\ receipts = {}

Init ==
  /\ EmptyRegistry
  /\ minted = 0
  /\ backend \in {"sqlite", "memory"}
  /\ fingerprint \in Fingerprints
  /\ requests = [r \in Requests |-> IdleRequest]
  /\ restarts = 0

-----------------------------------------------------------------------------
(* The request up to the registry *)

Submit(r) ==
  /\ requests[r].phase = "idle"
  /\ \E d \in Docs, k \in RawKeys :
       requests' = [requests EXCEPT ![r] =
         [phase |-> "prepare", doc |-> d, key |-> k, version |-> NoVersion]]
  /\ UNCHANGED <<registry, backend, fingerprint, restarts>>

End(r) == requests' = [requests EXCEPT ![r] = IdleRequest]

\* prepare checks size, type, signature, name, tenant, tags and pages: what
\* fails a check never reaches the registry.
Refused(r) ==
  /\ requests[r].phase = "prepare"
  /\ End(r)
  /\ UNCHANGED <<registry, backend, fingerprint, restarts>>

\* What passes gets its identity, with the fingerprint of this process.
Prepare(r) ==
  /\ requests[r].phase = "prepare"
  /\ \E v \in Versions :
       /\ DocOf[v] = requests[r].doc
       /\ FingerprintOf[v] = fingerprint
       /\ requests' = [requests EXCEPT ![r] = [@ EXCEPT !.phase = "accept", !.version = v]]
  /\ UNCHANGED <<registry, backend, fingerprint, restarts>>

-----------------------------------------------------------------------------
(* accept, a case at a time *)

KeyAt(r) == KeyOf[requests[r].key]
Bound(k) == k \in Keys /\ owner[k] # NoVersion

\* Mutant: a key is compared with the document, not with the whole identity.
ConflictOfDocument(k, v) == Bound(k) /\ DocOf[owner[k]] # DocOf[v]

Conflict(k, v) == Bound(k) /\ owner[k] # v

\* The record a key leads to.
Remembered(k) == IF backend = "memory" THEN stored[k] ELSE owner[k]

\* INVALID_REQUEST for a key that is too long, 409 INGESTION_CONFLICT for one
\* that was used for another upload.
RefuseKey(r) ==
  /\ requests[r].phase = "accept"
  /\ KeyAt(r) = BadKey \/ Conflict(KeyAt(r), requests[r].version)
  /\ End(r)
  /\ UNCHANGED <<registry, backend, fingerprint, restarts>>

\* The receipt of record u for an upload of v.
HandOut(v, k, u) ==
  receipts' = receipts \cup {[upload |-> v, key |-> k, job |-> jobId'[u]]}

\* A key used before for this upload: the receipt of its record, whose status
\* column or field is the current one.  A key without a row is an error.
AnswerByKey(r) ==
  LET k == KeyAt(r)
      v == requests[r].version
  IN
  /\ requests[r].phase = "accept"
  /\ k \in Keys
  /\ ~Conflict(k, v)
  /\ Remembered(k) # NoVersion
  /\ UNCHANGED jobId
  /\ IF Exists(Remembered(k)) THEN HandOut(v, k, Remembered(k)) ELSE UNCHANGED receipts
  /\ End(r)
  /\ UNCHANGED <<jobs, docs, minted, owner, stored, backend, fingerprint, restarts>>

\* Mutants: the key of a repeated upload is not kept; the in-memory registry
\* keeps it in one of its two dictionaries only.
BindNew(k, v) ==
  /\ owner' = IF k = NoKey \/ Exists(v) THEN owner ELSE [owner EXCEPT ![k] = v]
  /\ stored' = IF k = NoKey \/ Exists(v) \/ backend = "sqlite" THEN stored
               ELSE [stored EXCEPT ![k] = v]
BindHalf(k, v) ==
  /\ owner' = IF k = NoKey \/ backend = "memory" THEN owner ELSE [owner EXCEPT ![k] = v]
  /\ stored' = IF k = NoKey \/ backend = "sqlite" THEN stored ELSE [stored EXCEPT ![k] = v]

Bind(k, v) ==
  /\ owner' = IF k = NoKey THEN owner ELSE [owner EXCEPT ![k] = v]
  /\ stored' = IF k = NoKey \/ backend = "sqlite" THEN stored ELSE [stored EXCEPT ![k] = v]

\* Neither refused nor answered by its key.
Unanswered(r) ==
  /\ requests[r].phase = "accept"
  /\ KeyAt(r) # BadKey
  /\ ~Conflict(KeyAt(r), requests[r].version)
  /\ KeyAt(r) \in Keys => Remembered(KeyAt(r)) = NoVersion

\* The identity is known: its receipt, and the key is kept for it.
Join(r) ==
  /\ Unanswered(r)
  /\ Exists(requests[r].version)
  /\ Bind(KeyAt(r), requests[r].version)
  /\ UNCHANGED jobId
  /\ HandOut(requests[r].version, KeyAt(r), requests[r].version)
  /\ End(r)
  /\ UNCHANGED <<jobs, docs, minted, backend, fingerprint, restarts>>

Create(r) ==
  LET v == requests[r].version IN
  /\ Unanswered(r)
  /\ AcceptNew(v)
  /\ minted' = minted + 1
  /\ jobId' = [jobId EXCEPT ![v] = minted + 1]
  /\ Bind(KeyAt(r), v)
  /\ HandOut(v, KeyAt(r), v)
  /\ End(r)
  /\ UNCHANGED <<backend, fingerprint, restarts>>

-----------------------------------------------------------------------------
(* The environment of accept *)

\* The worker finishes or fails a job, once or again; nothing works on the
\* jobs of the in-memory registry.
Settle(v) ==
  /\ backend = "sqlite"
  /\ jobs[v].status \in {"queued", "failed"}
  /\ \/ /\ jobs' = [jobs EXCEPT ![v].status = "succeeded"]
        /\ docs' = [docs EXCEPT ![v] = "active"]
     \/ /\ jobs' = [jobs EXCEPT ![v].status = "failed"]
        /\ docs' = [docs EXCEPT ![v] = "failed"]
  /\ UNCHANGED <<jobId, minted, owner, stored, receipts, backend, fingerprint, requests, restarts>>

Delete(d) ==
  /\ VersionsOf(d) # {}
  /\ DocumentStatusOf(d) # "indexing"
  /\ DeleteRows(d)
  /\ UNCHANGED <<jobs, jobId, minted, owner, stored, receipts, backend, fingerprint, requests, restarts>>

\* Requests in progress end without an answer; one that reached the registry
\* may have been recorded.  The in-memory registry starts empty.
Restart(f) ==
  /\ restarts < MaxRestarts
  /\ restarts' = restarts + 1
  /\ fingerprint' = f
  /\ requests' = [r \in Requests |-> IdleRequest]
  /\ IF backend = "sqlite"
     THEN UNCHANGED <<jobs, docs, jobId, owner, stored, receipts>>
     ELSE /\ jobs' = [v \in Versions |-> NoJob]
          /\ docs' = [v \in Versions |-> "none"]
          /\ jobId' = [v \in Versions |-> 0]
          /\ owner' = [k \in Keys |-> NoVersion]
          /\ stored' = [k \in Keys |-> NoVersion]
          /\ receipts' = {}
  /\ UNCHANGED <<minted, backend>>

RequestStep(r) ==
  Submit(r) \/ Refused(r) \/ Prepare(r) \/ RefuseKey(r) \/ AnswerByKey(r) \/ Join(r) \/ Create(r)

Next ==
  \/ \E r \in Requests : RequestStep(r)
  \/ \E v \in Versions : Settle(v)
  \/ \E d \in Docs : Delete(d)
  \/ \E f \in Fingerprints : Restart(f)

Spec == Init /\ [][Next]_vars

-----------------------------------------------------------------------------
(* Properties *)

\* However often and however concurrently a file is uploaded, all receipts of
\* one identity name one job, and those of different ones different jobs.
OneJobPerUpload ==
  \A a, b \in receipts : a.upload = b.upload <=> a.job = b.job

\* "Idempotency-Key": all receipts given under one key are for one upload.
KeyNamesOneUpload ==
  \A a, b \in receipts : a.key = b.key /\ a.key # NoKey => a.upload = b.upload

\* A receipt can be followed: the job it names is found, belongs to the
\* version that was uploaded, and the document lists it; a key that is kept
\* never leads to a missing row ("idempotency key points to a missing
\* ingestion").
ReceiptsResolve ==
  /\ \A a \in receipts : /\ jobId[a.upload] = a.job
                         /\ a.upload \in VersionsOf(DocOf[a.upload])
  /\ \A k \in Keys : Remembered(k) # NoVersion => Exists(Remembered(k))

\* Either registry implements what acceptance promises; only the in-memory
\* one forgets.
Promise == INSTANCE IdempotentAcceptance WITH
             NoJobId <- 0,
             jobOf <- jobId,
             ownerOf <- [k \in Keys |-> Remembered(k)],
             answered <- receipts
AcceptancePromise == Promise!Spec
=============================================================================
