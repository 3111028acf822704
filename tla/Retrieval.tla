------------------------------ MODULE Retrieval ------------------------------
(***************************************************************************)
(* What RetrievalService and the answerability policy compute from ranked  *)
(* candidates: reciprocal rank fusion, the bounded windows, reranking and  *)
(* the decision to answer.                                                 *)
(*                                                                         *)
(* A score is kept as what the policy asks of it: whether it reaches the   *)
(* minimum of its kind.  Fused scores are computed exactly, as fractions,  *)
(* and kept as whether they reach the dense minimum: a chunk of a fused    *)
(* list without a score of its own for the policy lacks the dense one.     *)
(***************************************************************************)
EXTENDS Naturals, Sequences, FiniteSetsExt

CONSTANTS
  Chunks,         \* chunk ids
  Before,         \* [Chunks -> Nat], the order of the ids
  CandidateLimit, \* retrieval_candidate_k
  FusionLimit,    \* retrieval_fusion_k
  RerankLimit,    \* retrieval_rerank_k
  RerankCap,      \* candidates the cross-encoder looks at, 20 in the code
  HardLimit,      \* 50 in the code
  RrfK,           \* rrf_k
  MinDense        \* answerability_min_dense_score, a fraction

ASSUME RetrievalAssumption ==
  /\ IsFiniteSet(Chunks)
  /\ Before \in [Chunks -> Nat]
  /\ \A a, b \in Chunks : Before[a] = Before[b] => a = b
  /\ {CandidateLimit, FusionLimit, RerankLimit, RerankCap, HardLimit, RrfK} \subseteq Nat \ {0}
  /\ MinDense.num \in Nat /\ MinDense.den \in Nat \ {0}

Modes == {"dense", "bm25", "hybrid"}

\* A score there is none of, one below its minimum and one that reaches it.
None == 0
Low == 1
Good == 2
Scores == {Low, Good}

Hit == [chunk : Chunks, score : Scores]
Candidate == [chunk : Chunks, score : Scores, dense : {None} \cup Scores,
              sparse : {None} \cup Scores, rerank : {None} \cup Scores]

\* sorted(..., key): the sequence of a finite set in a strict total order.
Ordered(S, Precedes(_, _)) ==
  [i \in 1 .. Cardinality(S) |->
     CHOOSE c \in S : Cardinality({b \in S : Precedes(b, c)}) = i - 1]

Cut(s, n) == SubSeq(s, 1, IF n < Len(s) THEN n ELSE Len(s))
ChunksOf(s) == {s[i].chunk : i \in DOMAIN s}

\* What a search may return of the chunks that match: any ranking of them by
\* any scores, best first, cut at the limit.
Rankings(matching, limit) ==
  LET n == IF Cardinality(matching) < limit THEN Cardinality(matching) ELSE limit
  IN  {h \in [1 .. n -> [chunk : matching, score : Scores]] :
         \A i, j \in 1 .. n : i < j => h[i].chunk # h[j].chunk /\ h[i].score >= h[j].score}

-----------------------------------------------------------------------------
(* RetrievalService *)

SearchLimit(topK) == Min({Max({CandidateLimit, topK}), HardLimit})
Window(topK) == Min({Max({topK, FusionLimit}), HardLimit})

\* The rank of chunk c in a list of hits, 0 when it is not in it.
RankIn(hits, c) ==
  IF c \in ChunksOf(hits) THEN CHOOSE i \in DOMAIN hits : hits[i].chunk = c ELSE 0
ScoreIn(hits, c) == IF RankIn(hits, c) = 0 THEN None ELSE hits[RankIn(hits, c)].score

\* Mutant: the score of the last list the chunk is in.
FusedScoreLast(d, s) == [num |-> 1, den |-> RrfK + (IF s = 0 THEN d ELSE s)]

\* 1 / (rrf_k + rank), summed over the lists the chunk is in.
FusedScore(d, s) ==
  IF d = 0 THEN [num |-> 1, den |-> RrfK + s]
  ELSE IF s = 0 THEN [num |-> 1, den |-> RrfK + d]
  ELSE [num |-> 2 * RrfK + d + s, den |-> (RrfK + d) * (RrfK + s)]

Greater(x, y) == x.num * y.den > y.num * x.den

Fuse(denseHits, sparseHits, limit) ==
  LET fused(c) == FusedScore(RankIn(denseHits, c), RankIn(sparseHits, c))
      precedes(b, c) == \/ Greater(fused(b), fused(c))
                        \/ /\ ~Greater(fused(c), fused(b))
                           /\ Before[b] < Before[c]
      order == Ordered(ChunksOf(denseHits) \cup ChunksOf(sparseHits), precedes)
      candidate(c) == [chunk |-> c, score |-> IF Greater(MinDense, fused(c)) THEN Low ELSE Good,
                       dense |-> ScoreIn(denseHits, c), sparse |-> ScoreIn(sparseHits, c),
                       rerank |-> None]
  IN  Cut([i \in DOMAIN order |-> candidate(order[i])], limit)

\* The window of candidates of a search in the given mode.
CandidateWindow(mode, denseHits, sparseHits, topK) ==
  CASE mode = "hybrid" -> Fuse(denseHits, sparseHits, Window(topK))
    [] mode = "dense" -> Cut([i \in DOMAIN denseHits |->
         [chunk |-> denseHits[i].chunk, score |-> denseHits[i].score,
          dense |-> denseHits[i].score, sparse |-> None, rerank |-> None]], Window(topK))
    [] mode = "bm25" -> Cut([i \in DOMAIN sparseHits |->
         [chunk |-> sparseHits[i].chunk, score |-> sparseHits[i].score,
          dense |-> None, sparse |-> sparseHits[i].score, rerank |-> None]], Window(topK))

\* The reranker's score takes the place of the candidate's.
Rescored(c, score) == [c EXCEPT !.score = score, !.rerank = score]

\* What the cross-encoder may make of a window: it scores the first RerankCap
\* candidates and returns the best of them.
Reranked(window, topK) ==
  LET n == Min({RerankCap, Len(window)})
      m == Min({topK, RerankLimit, n})
  IN  {[i \in 1 .. m |-> Rescored(window[h[i][1]], h[i][2])] :
         h \in {g \in [1 .. m -> (1 .. n) \X Scores] :
                  \A i, j \in 1 .. m : i < j => g[i][1] # g[j][1] /\ g[i][2] >= g[j][2]}}

-----------------------------------------------------------------------------
(* build_answerability_signals and AnswerabilityPolicy.decide *)

ScoreKind(mode, candidates) ==
  IF \E i \in DOMAIN candidates : candidates[i].rerank # None THEN "rerank"
  ELSE IF mode = "bm25" THEN "sparse"
  ELSE IF mode = "dense" \/ \E i \in DOMAIN candidates : candidates[i].dense # None THEN "dense"
  ELSE "sparse"

\* _score_for: a candidate without a score of this kind counts with the score
\* it has, which after fusion is the fused one.
ScoreFor(c, kind) == IF c[kind] = None THEN c.score ELSE c[kind]

\* Mutant: the first candidate is taken for the best one.
TopScoreFirst(candidates, kind) == ScoreFor(candidates[1], kind)

\* Hybrid candidates are not in the order of the score the policy looks at.
TopScore(candidates, kind) == Max({ScoreFor(candidates[i], kind) : i \in DOMAIN candidates})

\* min_margin is 0 and the margin of sorted scores is not negative, so the
\* last test of decide rejects nothing.
Decide(mode, candidates, covers) ==
  IF candidates = <<>> THEN "NO_EVIDENCE"
  ELSE IF TopScore(candidates, ScoreKind(mode, candidates)) = Low THEN "LOW_RELEVANCE"
  ELSE IF ~covers THEN "INSUFFICIENT_COVERAGE"
  ELSE "answer"
=============================================================================
