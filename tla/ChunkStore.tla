----------------------------- MODULE ChunkStore ------------------------------
(***************************************************************************)
(* The Qdrant collection behind QdrantChunkStore.  All chunks of a version *)
(* are written, flagged and deleted by one filtered request each, so the   *)
(* points of a version share one state.  A request may take effect and     *)
(* still be reported as failed: each operator gives the new collection and *)
(* the caller decides whether the call reports success.                    *)
(***************************************************************************)
CONSTANTS Versions, DocOf

VARIABLE points

PointState == {"absent", "inactive", "active"}

StoreTypeOK == points \in [Versions -> PointState]

StoreInit == points = [v \in Versions |-> "absent"]

\* stage_version: deterministic point ids, so a re-run overwrites its own
\* points, active ones included, with inactive ones.
Staged(v) == [points EXCEPT ![v] = "inactive"]

\* verify_version and is_valid: every expected point is there and inactive.
Verified(v) == points[v] = "inactive"

\* The first call of activate_version flags the points that exist.
Flagged(v) == [points EXCEPT ![v] = IF @ = "absent" THEN @ ELSE "active"]

\* Mutant: the filter of the second call does not exempt the new version.
AllHidden(v) == [u \in Versions |-> IF DocOf[u] = DocOf[v] /\ points[u] = "active"
                                    THEN "inactive" ELSE points[u]]

\* The second one unflags those of the document's other versions.
OthersHidden(v) ==
  [u \in Versions |-> IF u # v /\ DocOf[u] = DocOf[v] /\ points[u] = "active"
                      THEN "inactive" ELSE points[u]]

\* Mutant: discard filters by document instead of version.
DocumentDiscarded(v) == [u \in Versions |-> IF DocOf[u] = DocOf[v] THEN "absent" ELSE points[u]]

Discarded(v) == [points EXCEPT ![v] = "absent"]

DocumentDeleted(d) == [u \in Versions |-> IF DocOf[u] = d THEN "absent" ELSE points[u]]

\* What the retriever's active filter can return for document d.
Visible(d) == {v \in Versions : DocOf[v] = d /\ points[v] = "active"}
=============================================================================
