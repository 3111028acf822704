----------------------------- MODULE MCIngestion -----------------------------
(***************************************************************************)
(* Instances of the ingestion model for TLC.                               *)
(***************************************************************************)
EXTENDS IngestionProperties, TLC

CONSTANTS v1, v2, d1

\* Two pipeline fingerprints of one uploaded file, or a file that is uploaded
\* again and again.
OneDocument == (v1 :> d1) @@ (v2 :> d1)
OneFile == v1 :> d1

\* The tasks of one process differ in nothing but their name.
TaskSymmetry == Permutations(Workers)
=============================================================================
