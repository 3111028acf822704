------------------------ MODULE IdempotentAcceptance -------------------------
(***************************************************************************)
(* What accepting uploads promises, whichever registry keeps the records:  *)
(* one job per upload identity, one identity per Idempotency-Key, and the  *)
(* answer to a repeated upload names the job of the first one.             *)
(***************************************************************************)
CONSTANTS Versions, Keys, NoKey, NoVersion, NoJobId

VARIABLES
  jobOf,    \* the job of an accepted identity
  ownerOf,  \* the identity a key was first used for
  answered  \* every receipt handed out

Init ==
  /\ jobOf = [v \in Versions |-> NoJobId]
  /\ ownerOf = [k \in Keys |-> NoVersion]
  /\ answered = {}

\* The first upload of an identity creates its job, every upload names it.
Answer(v, k) ==
  /\ k # NoKey => ownerOf[k] \in {NoVersion, v}
  /\ \A u \in Versions \ {v} : jobOf'[u] = jobOf[u] /\ jobOf'[v] # jobOf[u]
  /\ jobOf'[v] # NoJobId
  /\ jobOf[v] # NoJobId => jobOf'[v] = jobOf[v]
  /\ ownerOf' = IF k = NoKey THEN ownerOf ELSE [ownerOf EXCEPT ![k] = v]
  /\ answered' = answered \cup {[upload |-> v, key |-> k, job |-> jobOf'[v]]}

\* A process-local registry ends with its process, receipts and all.
Forget ==
  /\ jobOf' = [v \in Versions |-> NoJobId]
  /\ ownerOf' = [k \in Keys |-> NoVersion]
  /\ answered' = {}

Next ==
  \/ \E v \in Versions, k \in Keys \cup {NoKey} : Answer(v, k)
  \/ Forget

Spec == Init /\ [][Next]_<<jobOf, ownerOf, answered>>
=============================================================================
