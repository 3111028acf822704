----------------------------- MODULE MCChunking ------------------------------
(***************************************************************************)
(* Documents of up to three pages of two words each, for TLC.              *)
(***************************************************************************)
EXTENDS Chunking

\* A page "w w" has letters at 0 and 2 and a blank at 1; 4 is the next page.
PageLengths == [1 .. 3 -> {0, 3}]
Written(l) == {p \in 1 .. 3 : l[p] > 0}
Letters(l) == {4 * n + m : n \in 0 .. Cardinality(Written(l)) - 1, m \in {0, 2}}
Blanks(l) == {4 * n + m : n \in 0 .. Cardinality(Written(l)) - 1, m \in {1, 3}}
Markers(l) == UNION {[1 .. k -> Letters(l) \cup {NotFound}] : k \in 0 .. 2}

AllDocuments ==
  UNION {{[length |-> l, at |-> m, stops |-> s] : m \in Markers(l), s \in SUBSET Blanks(l)} : l \in PageLengths}
=============================================================================
