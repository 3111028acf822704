------------------------------ MODULE MCSparse -------------------------------
(***************************************************************************)
(* Instances of the BM25 vocabulary model for TLC.                         *)
(***************************************************************************)
EXTENDS SparseVocabulary, TLC

CONSTANTS b1, b2, t1, t2, t3

\* Two batches with a term in common and one of its own each.
Overlapping == (b1 :> {t1, t2}) @@ (b2 :> {t2, t3})
=============================================================================
