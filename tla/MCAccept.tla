------------------------------ MODULE MCAccept -------------------------------
(***************************************************************************)
(* An instance of the acceptance model for TLC.                            *)
(***************************************************************************)
EXTENDS IngestionAccept, TLC

CONSTANTS v1, v2, v3, d1, d2, f1, f2, sent, blank, long, k1

\* One file uploaded to two pipelines, another one to the first.
Files == (v1 :> d1) @@ (v2 :> d1) @@ (v3 :> d2)
Pipelines == (v1 :> f1) @@ (v2 :> f2) @@ (v3 :> f1)

\* A key, no key, and one of more than 128 characters.
Headers == (sent :> k1) @@ (blank :> NoKey) @@ (long :> BadKey)
=============================================================================
