----------------------------- MODULE MCListings ------------------------------
(***************************************************************************)
(* An instance of the listing model for TLC.                               *)
(***************************************************************************)
EXTENDS RegistryListings, TLC

CONSTANTS v1, v2, v3, d1, d2, t1

\* Two documents of one tenant, the first with two versions.
Files == (v1 :> d1) @@ (v2 :> d2) @@ (v3 :> d1)
Owners == (d1 :> t1) @@ (d2 :> t1)
=============================================================================
