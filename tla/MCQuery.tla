------------------------------- MODULE MCQuery -------------------------------
(***************************************************************************)
(* An instance of the query model for TLC.                                 *)
(***************************************************************************)
EXTENDS QueryService, TLC

CONSTANTS v1, v2, v3, d1, d2, c1, c2, c3

\* A file indexed by two pipelines and another one; the chunk of the second
\* pipeline is one that the evidence policy filters out.
Files == (v1 :> d1) @@ (v2 :> d1) @@ (v3 :> d2)
Contents == (c1 :> v1) @@ (c2 :> v2) @@ (c3 :> v3)
\* The default of answerability_min_dense_score.
Threshold == [num |-> 331, den |-> 1000]

Ids == (c1 :> 1) @@ (c2 :> 2) @@ (c3 :> 3)
=============================================================================
