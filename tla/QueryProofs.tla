----------------------------- MODULE QueryProofs -----------------------------
(***************************************************************************)
(* Theorems about QueryService, for any collection, any number of chunks   *)
(* and any limits of the retrieval.                                        *)
(*                                                                         *)
(* Fusion and the evidence policy both list a finite set by rank, so what  *)
(* they do follows from one fact: in a strict total order of a finite set  *)
(* the ranks are the first numbers, each taken once (RanksInOrder).        *)
(* The fused score is a sum of quotients compared by cross-multiplication; *)
(* that a better rank in both lists is a greater score is FusedMonotone.   *)
(***************************************************************************)
EXTENDS QueryService, FiniteSetTheorems, TLAPS

-----------------------------------------------------------------------------
(* Sorting *)

\* R is a strict total order of S.
Orders(R, S) ==
  /\ \A b \in S : ~(<<b, b>> \in R)
  /\ \A b, c, d \in S : <<b, c>> \in R /\ <<c, d>> \in R => <<b, d>> \in R
  /\ \A b, c \in S : b # c => <<b, c>> \in R \/ <<c, b>> \in R

\* How many stand before c.
RankOf(R, S, c) == Cardinality({b \in S : <<b, c>> \in R})

\* Ranks grow with the order, and every rank has its element.
LEMMA RanksInOrder ==
  ASSUME NEW S, IsFiniteSet(S), NEW R, Orders(R, S)
  PROVE  /\ Cardinality(S) \in Nat
         /\ \A c \in S : RankOf(R, S, c) \in Nat /\ RankOf(R, S, c) < Cardinality(S)
         /\ \A b, c \in S : <<b, c>> \in R => RankOf(R, S, b) < RankOf(R, S, c)
         /\ \A b, c \in S : RankOf(R, S, b) = RankOf(R, S, c) => b = c
         /\ \A i \in 1 .. Cardinality(S) : \E c \in S : RankOf(R, S, c) = i - 1
<1>. DEFINE Below(c) == {b \in S : <<b, c>> \in R}
<1>1. Cardinality(S) \in Nat
  BY FS_CardinalityType
<1>2. ASSUME NEW c \in S
      PROVE  /\ RankOf(R, S, c) \in Nat /\ RankOf(R, S, c) < Cardinality(S)
             /\ IsFiniteSet(Below(c)) /\ Cardinality(Below(c) \cup {c}) = RankOf(R, S, c) + 1
  <2>1. Below(c) \in SUBSET S /\ Below(c) \cup {c} \in SUBSET S /\ c \notin Below(c)
    BY DEF Orders
  <2>2. IsFiniteSet(Below(c)) /\ Cardinality(Below(c)) \in Nat
    BY <2>1, FS_Subset, FS_CardinalityType
  <2>3. Cardinality(Below(c) \cup {c}) = Cardinality(Below(c)) + 1
    BY <2>1, <2>2, FS_AddElement
  <2>4. Cardinality(Below(c) \cup {c}) <= Cardinality(S)
    BY <2>1, FS_Subset
  <2>. QED BY <1>1, <2>2, <2>3, <2>4 DEF RankOf
<1>6. \A c \in S : RankOf(R, S, c) \in Nat /\ RankOf(R, S, c) < Cardinality(S)
  BY <1>2
<1>3. ASSUME NEW b \in S, NEW c \in S, <<b, c>> \in R
      PROVE  RankOf(R, S, b) < RankOf(R, S, c)
  <2>1. Below(b) \cup {b} \in SUBSET Below(c)
    BY <1>3 DEF Orders
  <2>2. Cardinality(Below(b) \cup {b}) <= Cardinality(Below(c))
    BY <1>2, <2>1, FS_Subset
  <2>3. Cardinality(Below(b) \cup {b}) = RankOf(R, S, b) + 1
    BY <1>2
  <2>4. Cardinality(Below(c)) = RankOf(R, S, c)
    BY DEF RankOf
  <2>. QED BY <1>6, <2>2, <2>3, <2>4
<1>4. ASSUME NEW b \in S, NEW c \in S, RankOf(R, S, b) = RankOf(R, S, c) PROVE b = c
  <2>1. ~(RankOf(R, S, b) < RankOf(R, S, c)) /\ ~(RankOf(R, S, c) < RankOf(R, S, b))
    BY <1>6, <1>4
  <2>. QED BY <1>3, <2>1 DEF Orders
<1>5. \A i \in 1 .. Cardinality(S) : \E c \in S : RankOf(R, S, c) = i - 1
  <2>. DEFINE f == [c \in S |-> RankOf(R, S, c) + 1]
  <2>1. \A c \in S : RankOf(R, S, c) + 1 \in 1 .. Cardinality(S)
    BY <1>1, <1>6
  <2>2. \A b, c \in S : RankOf(R, S, b) + 1 = RankOf(R, S, c) + 1 => b = c
    BY <1>6, <1>4
  <2>3. f \in Injection(S, 1 .. Cardinality(S))
    BY <2>1, <2>2 DEF Injection, IsInjective
  <2>4. IsFiniteSet(1 .. Cardinality(S)) /\ Cardinality(1 .. Cardinality(S)) = Cardinality(S)
    BY <1>1, FS_Interval
  <2>5. f \in Surjection(S, 1 .. Cardinality(S))
    BY <2>3, <2>4, FS_Injection
  <2>6. \A i \in 1 .. Cardinality(S) : \E c \in S : RankOf(R, S, c) + 1 = i
    BY <2>5 DEF Surjection
  <2>. QED BY <1>6, <2>6
<1>. QED BY <1>1, <1>6, <1>3, <1>4, <1>5

\* q lists the elements of S by their rank.
Sorted(R, S, q) ==
  /\ q \in [1 .. Cardinality(S) -> S]
  /\ \A i \in 1 .. Cardinality(S) : RankOf(R, S, q[i]) = i - 1

\* A sorted sequence holds every element once, those before it at lower positions.
LEMMA Sorting ==
  ASSUME NEW S, IsFiniteSet(S), NEW R, Orders(R, S), NEW q, Sorted(R, S, q)
  PROVE  /\ Cardinality(S) \in Nat
         /\ DOMAIN q = 1 .. Cardinality(S)
         /\ \A c \in S : \E i \in DOMAIN q : q[i] = c
         /\ \A i \in DOMAIN q : q[i] \in S
         /\ \A i, j \in DOMAIN q : q[i] = q[j] => i = j
         /\ \A i, j \in DOMAIN q : <<q[i], q[j]>> \in R => i < j
<1>. DEFINE n == Cardinality(S)
<1>1. n \in Nat /\ \A i \in 1 .. n : q[i] \in S /\ RankOf(R, S, q[i]) = i - 1
  BY RanksInOrder DEF Sorted
<1>2. DOMAIN q = 1 .. n
  BY DEF Sorted
<1>3. ASSUME NEW c \in S PROVE \E i \in 1 .. n : q[i] = c
  <2>1. RankOf(R, S, c) \in Nat /\ RankOf(R, S, c) < n /\ n \in Nat
    BY RanksInOrder
  <2>2. PICK i \in 1 .. n : RankOf(R, S, c) = i - 1
    BY <2>1
  <2>. QED BY <1>1, <2>2, RanksInOrder
<1>4. ASSUME NEW i \in 1 .. n, NEW j \in 1 .. n
      PROVE  (q[i] = q[j] => i = j) /\ (<<q[i], q[j]>> \in R => i < j)
  <2>1. RankOf(R, S, q[i]) = i - 1 /\ RankOf(R, S, q[j]) = j - 1 /\ q[i] \in S /\ q[j] \in S
    BY <1>1
  <2>2. <<q[i], q[j]>> \in R => i - 1 < j - 1
    BY <2>1, RanksInOrder
  <2>3. q[i] = q[j] => i - 1 = j - 1
    BY <2>1
  <2>. QED BY <2>2, <2>3
<1>. QED BY <1>1, <1>2, <1>3, <1>4

-----------------------------------------------------------------------------
(* Fused scores *)

\* A score that is positive, as a fraction.
Positive(x) == x.num \in Nat \ {0} /\ x.den \in Nat \ {0}

\* Products keep an order.
LEMMA Times ==
  ASSUME NEW a \in Nat, NEW b \in Nat, NEW c \in Nat \ {0}
  PROVE  /\ a < b <=> a * c < b * c
         /\ a * c \in Nat /\ a * c = c * a
OBVIOUS

\* A greater fraction stays greater when the other one falls.
LEMMA Cross ==
  ASSUME NEW a \in Nat \ {0}, NEW b \in Nat \ {0}, NEW c \in Nat \ {0},
         NEW d \in Nat \ {0}, NEW e \in Nat \ {0}, NEW f \in Nat \ {0}
  PROVE  /\ a * d > c * b /\ c * f >= e * d => a * f > e * b
         /\ a * d >= c * b /\ c * f > e * d => a * f > e * b
         /\ a * d >= c * b /\ c * f >= e * d => a * f >= e * b
OBVIOUS

\* A list of hits without a chunk twice.
Distinct(hits) == \A i, j \in DOMAIN hits : hits[i].chunk = hits[j].chunk => i = j

\* The rank of a chunk is its position, 0 when it is not there.
LEMMA RankInList ==
  ASSUME NEW hits \in Seq(Hit), NEW c
  PROVE  /\ RankIn(hits, c) \in Nat
         /\ c \in ChunksOf(hits) <=> RankIn(hits, c) # 0
         /\ c \in ChunksOf(hits) => RankIn(hits, c) \in DOMAIN hits /\ hits[RankIn(hits, c)].chunk = c
<1>1. CASE c \in ChunksOf(hits)
  <2>1. \E i \in DOMAIN hits : hits[i].chunk = c
    BY <1>1 DEF ChunksOf
  <2>2. RankIn(hits, c) \in DOMAIN hits /\ hits[RankIn(hits, c)].chunk = c
    BY <1>1, <2>1 DEF RankIn
  <2>3. RankIn(hits, c) \in Nat \ {0}
    BY <2>2
  <2>. QED BY <1>1, <2>2, <2>3
<1>2. CASE c \notin ChunksOf(hits)
  BY <1>2 DEF RankIn
<1>. QED BY <1>1, <1>2

\* The score of a chunk at rank d of one list and s of the other.
LEMMA FusedPositive ==
  ASSUME NEW d \in Nat, NEW s \in Nat, d # 0 \/ s # 0
  PROVE  Positive(FusedScore(d, s))
<1>1. RrfK \in Nat \ {0}
  BY RetrievalAssumption
<1>2. RrfK + s \in Nat \ {0} /\ RrfK + d \in Nat \ {0} /\ 2 * RrfK + d + s \in Nat \ {0}
  BY <1>1
<1>3. (RrfK + d) * (RrfK + s) \in Nat \ {0}
  BY <1>2
<1>. QED BY <1>2, <1>3 DEF Positive, FusedScore

\* Better in one list and not worse in the other, or missing there, is better.
LEMMA FusedMonotone ==
  ASSUME NEW d \in Nat, NEW s \in Nat, NEW e \in Nat, NEW t \in Nat,
         d # 0 \/ s # 0, e # 0 \/ t # 0,
         (d # 0 /\ (e = 0 \/ d < e)) \/ (s # 0 /\ (t = 0 \/ s < t)),
         ~(e # 0 /\ (d = 0 \/ e < d)), ~(t # 0 /\ (s = 0 \/ t < s))
  PROVE  Greater(FusedScore(d, s), FusedScore(e, t))
<1>. DEFINE x == RrfK + d
            y == RrfK + s
            u == RrfK + e
            v == RrfK + t
<1>1. /\ x \in Nat \ {0} /\ y \in Nat \ {0} /\ u \in Nat \ {0} /\ v \in Nat \ {0}
      /\ 2 * RrfK + d + s = x + y /\ 2 * RrfK + e + t = u + v
  BY RetrievalAssumption
<1>2. CASE e # 0 /\ t # 0
  <2>1. d # 0 /\ s # 0 /\ x <= u /\ y <= v /\ (x < u \/ y < v)
    BY <1>2, RetrievalAssumption
  <2>2. (x + y) * (u * v) > (u + v) * (x * y)
    <3>. HIDE DEF x, y, u, v
    <3>1. x * u * v <= x * u * v
      BY <1>1
    <3>2. /\ (x * u) * y <= (x * u) * v /\ (y * v) * x <= (y * v) * u
          /\ (x * u) * y < (x * u) * v \/ (y * v) * x < (y * v) * u
      <4>1. x * u \in Nat \ {0} /\ y * v \in Nat \ {0}
        BY <1>1
      <4>. QED BY <1>1, <2>1, <4>1
    <3>3. /\ (x + y) * (u * v) = (x * u) * v + (y * v) * u
          /\ (u + v) * (x * y) = (x * u) * y + (y * v) * x
      BY <1>1
    <3>4. (x * u) * v \in Nat /\ (y * v) * u \in Nat /\ (x * u) * y \in Nat /\ (y * v) * x \in Nat
      BY <1>1
    <3>. QED BY <3>2, <3>3, <3>4
  <2>. QED BY <1>1, <1>2, <2>1, <2>2 DEF FusedScore, Greater
<1>3. CASE t = 0
  <2>1. e # 0 /\ d # 0 /\ x <= u /\ (s = 0 => x < u)
    BY <1>3, RetrievalAssumption
  <2>2. CASE s = 0
    BY <1>1, <1>3, <2>1, <2>2 DEF FusedScore, Greater
  <2>3. CASE s # 0
    <3>1. (x + y) * u > 1 * (x * y)
      <4>. HIDE DEF x, y, u
      <4>1. y * u >= y * x /\ x * u > 0 /\ y * u \in Nat /\ x * u \in Nat /\ x * y \in Nat
        BY <1>1, <2>1
      <4>2. (x + y) * u = x * u + y * u /\ y * x = x * y
        BY <1>1
      <4>. QED BY <4>1, <4>2
    <3>. QED BY <1>1, <1>3, <2>1, <2>3, <3>1 DEF FusedScore, Greater
  <2>. QED BY <2>2, <2>3
<1>4. CASE e = 0
  <2>1. t # 0 /\ s # 0 /\ y <= v /\ (d = 0 => y < v)
    BY <1>4, RetrievalAssumption
  <2>2. CASE d = 0
    BY <1>1, <1>4, <2>1, <2>2 DEF FusedScore, Greater
  <2>3. CASE d # 0
    <3>1. (x + y) * v > 1 * (x * y)
      <4>. HIDE DEF x, y, v
      <4>1. x * v >= x * y /\ y * v > 0 /\ x * v \in Nat /\ y * v \in Nat /\ x * y \in Nat
        BY <1>1, <2>1
      <4>2. (x + y) * v = x * v + y * v
        BY <1>1
      <4>. QED BY <4>1, <4>2
    <3>. QED BY <1>1, <1>4, <2>1, <2>3, <3>1 DEF FusedScore, Greater
  <2>. QED BY <2>2, <2>3
<1>. QED BY <1>2, <1>3, <1>4

-----------------------------------------------------------------------------
(* Fusion *)

FusedOf(dense, sparse, c) == FusedScore(RankIn(dense, c), RankIn(sparse, c))
FusedChunks(dense, sparse) == ChunksOf(dense) \cup ChunksOf(sparse)
FusedOrder(dense, sparse) ==
  {p \in FusedChunks(dense, sparse) \X FusedChunks(dense, sparse) :
     \/ Greater(FusedOf(dense, sparse, p[1]), FusedOf(dense, sparse, p[2]))
     \/ /\ ~Greater(FusedOf(dense, sparse, p[2]), FusedOf(dense, sparse, p[1]))
        /\ Before[p[1]] < Before[p[2]]}

\* The chunks of a list.
LEMMA ChunksFinite == \A hits \in Seq(Hit) : ChunksOf(hits) \subseteq Chunks /\ IsFiniteSet(ChunksOf(hits))
<1>. SUFFICES ASSUME NEW hits \in Seq(Hit)
     PROVE  ChunksOf(hits) \subseteq Chunks /\ IsFiniteSet(ChunksOf(hits))
  OBVIOUS
<1>1. \A i \in DOMAIN hits : hits[i].chunk \in Chunks
  <2>1. \A i \in DOMAIN hits : hits[i] \in Hit
    OBVIOUS
  <2>. QED BY <2>1 DEF Hit
<1>2. ChunksOf(hits) \in SUBSET Chunks
  BY <1>1 DEF ChunksOf
<1>. QED BY <1>2, RetrievalAssumption, FS_Subset

\* Fused scores, with the ids to tell equal ones apart, order the chunks.
LEMMA FusionOrders ==
  ASSUME NEW dense \in Seq(Hit), NEW sparse \in Seq(Hit)
  PROVE  Orders(FusedOrder(dense, sparse), FusedChunks(dense, sparse))
<1>. DEFINE S == FusedChunks(dense, sparse)
            R == FusedOrder(dense, sparse)
            num(c) == FusedOf(dense, sparse, c).num
            den(c) == FusedOf(dense, sparse, c).den
            over(b, c) == num(b) * den(c) > num(c) * den(b)
<1>1. \A c \in S : num(c) \in Nat \ {0} /\ den(c) \in Nat \ {0} /\ Before[c] \in Nat
  <2>. SUFFICES ASSUME NEW c \in S
       PROVE num(c) \in Nat \ {0} /\ den(c) \in Nat \ {0} /\ Before[c] \in Nat
    OBVIOUS
  <2>1. /\ RankIn(dense, c) \in Nat /\ RankIn(sparse, c) \in Nat
        /\ RankIn(dense, c) # 0 \/ RankIn(sparse, c) # 0
    BY RankInList DEF FusedChunks
  <2>2. c \in Chunks
    BY ChunksFinite DEF FusedChunks
  <2>. QED BY <2>1, <2>2, FusedPositive, RetrievalAssumption DEF Positive, FusedOf
<1>2. \A b, c \in S : <<b, c>> \in R <=> over(b, c) \/ (~over(c, b) /\ Before[b] < Before[c])
  BY DEF FusedOrder, Greater
<1>3. \A b, c \in S : b # c => Before[b] # Before[c]
  BY ChunksFinite, RetrievalAssumption DEF FusedChunks
<1>. HIDE DEF num, den, S, R
<1>4. \A b, c \in S : num(b) * den(c) \in Nat
  BY <1>1
<1>5. ASSUME NEW b \in S PROVE ~(<<b, b>> \in R)
  BY <1>1, <1>2, <1>4
<1>6. ASSUME NEW b \in S, NEW c \in S, NEW d \in S, <<b, c>> \in R, <<c, d>> \in R
      PROVE  <<b, d>> \in R
  <2>1. \/ over(b, c) /\ ~over(d, c)
        \/ ~over(c, b) /\ over(c, d)
        \/ ~over(c, b) /\ ~over(d, c) /\ Before[b] < Before[c] /\ Before[c] < Before[d]
    BY <1>2, <1>4, <1>6
  <2>2. CASE over(b, c) /\ ~over(d, c)
    <3>1. num(c) * den(d) >= num(d) * den(c)
      BY <1>4, <2>2
    <3>2. over(b, d)
      BY <1>1, <2>2, <3>1, Cross
    <3>. QED BY <1>2, <3>2
  <2>3. CASE ~over(c, b) /\ over(c, d)
    <3>1. num(b) * den(c) >= num(c) * den(b)
      BY <1>4, <2>3
    <3>2. over(b, d)
      BY <1>1, <2>3, <3>1, Cross
    <3>. QED BY <1>2, <3>2
  <2>4. CASE ~over(c, b) /\ ~over(d, c) /\ Before[b] < Before[c] /\ Before[c] < Before[d]
    <3>1. num(b) * den(c) >= num(c) * den(b) /\ num(c) * den(d) >= num(d) * den(c)
      BY <1>4, <2>4
    <3>2. num(b) * den(d) >= num(d) * den(b)
      BY <1>1, <3>1, Cross
    <3>3. ~over(d, b)
      BY <1>4, <3>2
    <3>4. Before[b] < Before[d]
      BY <1>1, <2>4
    <3>. QED BY <1>2, <3>3, <3>4
  <2>. QED BY <2>1, <2>2, <2>3, <2>4
<1>7. ASSUME NEW b \in S, NEW c \in S, b # c PROVE <<b, c>> \in R \/ <<c, b>> \in R
  BY <1>1, <1>2, <1>3, <1>7
<1>8. Orders(R, S)
  BY <1>5, <1>6, <1>7 DEF Orders
<1>. QED BY <1>8 DEF S, R

\* The first of at most n elements.
LEMMA Cutting ==
  ASSUME NEW X, NEW s \in Seq(X), NEW n \in Nat
  PROVE  /\ Cut(s, n) \in Seq(X)
         /\ DOMAIN Cut(s, n) \subseteq DOMAIN s
         /\ \A i \in DOMAIN Cut(s, n) : Cut(s, n)[i] = s[i]
         /\ \A j \in DOMAIN Cut(s, n) : 1 .. j \subseteq DOMAIN Cut(s, n)
         /\ s # <<>> /\ n > 0 => Cut(s, n) # <<>>
<1>1. PICK m : m = IF n < Len(s) THEN n ELSE Len(s)
  OBVIOUS
<1>2. m \in Nat /\ m <= Len(s) /\ Len(s) \in Nat /\ (s # <<>> /\ n > 0 => m > 0)
  BY <1>1
<1>3. Cut(s, n) = SubSeq(s, 1, m)
  BY <1>1 DEF Cut
<1>4. SubSeq(s, 1, m) \in Seq(X) /\ Len(SubSeq(s, 1, m)) = m
  BY <1>2
<1>5. \A i \in 1 .. m : SubSeq(s, 1, m)[i] = s[i]
  BY <1>2
<1>6. DOMAIN Cut(s, n) = 1 .. m /\ DOMAIN s = 1 .. Len(s)
  BY <1>3, <1>4
<1>7. s # <<>> /\ n > 0 => Cut(s, n) # <<>>
  BY <1>2, <1>3, <1>4
<1>. QED BY <1>2, <1>3, <1>4, <1>5, <1>6, <1>7

\* The window w lists chunks of S, none twice, and before each of them every
\* chunk of S that the order R puts before it.
Lists(w, S, R) ==
  /\ w \in Seq(Candidate)
  /\ ChunksOf(w) \subseteq S
  /\ \A i, j \in DOMAIN w : w[i].chunk = w[j].chunk => i = j
  /\ \A j \in DOMAIN w : \A b \in S :
       <<b, w[j].chunk>> \in R => \E i \in DOMAIN w : i < j /\ w[i].chunk = b

\* What fusion makes of a chunk.
FusedCandidate(dense, sparse, c) ==
  [chunk |-> c, score |-> IF Greater(MinDense, FusedOf(dense, sparse, c)) THEN Low ELSE Good,
   dense |-> ScoreIn(dense, c), sparse |-> ScoreIn(sparse, c), rerank |-> None]

\* The score of a chunk in a list, if it is there.
LEMMA ScoreOrNone ==
  ASSUME NEW hits \in Seq(Hit), NEW c
  PROVE  /\ ScoreIn(hits, c) \in {None} \cup Scores
         /\ RankIn(hits, c) # 0 => ScoreIn(hits, c) # None
<1>1. CASE RankIn(hits, c) = 0
  BY <1>1 DEF ScoreIn
<1>2. CASE RankIn(hits, c) # 0
  <2>1. RankIn(hits, c) \in DOMAIN hits
    BY <1>2, RankInList
  <2>2. hits[RankIn(hits, c)] \in Hit
    BY <2>1
  <2>. QED BY <1>2, <2>2 DEF ScoreIn, Hit, Scores, None, Low, Good
<1>. QED BY <1>1, <1>2

\* Fusion lists the chunks of both lists in the fused order, cut at the limit,
\* with the scores they have in each.
LEMMA Fusing ==
  ASSUME NEW dense \in Seq(Hit), NEW sparse \in Seq(Hit), NEW limit \in Nat
  PROVE  LET w == Fuse(dense, sparse, limit) IN
         /\ Lists(w, FusedChunks(dense, sparse), FusedOrder(dense, sparse))
         /\ \A i \in DOMAIN w : \E c \in FusedChunks(dense, sparse) :
              w[i] = FusedCandidate(dense, sparse, c)
<1>. DEFINE S == FusedChunks(dense, sparse)
            R == FusedOrder(dense, sparse)
            fused(c) == FusedScore(RankIn(dense, c), RankIn(sparse, c))
            precedes(b, c) == \/ Greater(fused(b), fused(c))
                              \/ /\ ~Greater(fused(c), fused(b))
                                 /\ Before[b] < Before[c]
            candidate(c) == FusedCandidate(dense, sparse, c)
<1>1. Orders(R, S)
  BY FusionOrders
<1>2. IsFiniteSet(S) /\ S \subseteq Chunks
  BY ChunksFinite, FS_Union DEF FusedChunks
<1>3. PICK q : q = [i \in 1 .. Cardinality(S) |->
                      CHOOSE c \in S : Cardinality({b \in S : precedes(b, c)}) = i - 1]
  OBVIOUS
<1>4. Sorted(R, S, q)
  <2>1. \A b, c \in S : <<b, c>> \in R <=> precedes(b, c)
    BY DEF FusedOrder, FusedOf
  <2>2. ASSUME NEW c \in S
        PROVE  Cardinality({b \in S : precedes(b, c)}) = RankOf(R, S, c)
    <3>1. {b \in S : precedes(b, c)} = {b \in S : <<b, c>> \in R}
      BY <2>1
    <3>. QED BY <3>1 DEF RankOf
  <2>3. ASSUME NEW i \in 1 .. Cardinality(S)
        PROVE  q[i] \in S /\ RankOf(R, S, q[i]) = i - 1
    <3>1. q[i] = CHOOSE c \in S : Cardinality({b \in S : precedes(b, c)}) = i - 1
      BY <1>3
    <3>2. \E c \in S : Cardinality({b \in S : precedes(b, c)}) = i - 1
      BY <1>1, <1>2, <2>2, RanksInOrder
    <3>3. q[i] \in S /\ Cardinality({b \in S : precedes(b, q[i])}) = i - 1
      BY <3>1, <3>2
    <3>. QED BY <2>2, <3>3
  <2>4. q \in [1 .. Cardinality(S) -> S]
    <3>1. \A i \in 1 .. Cardinality(S) : q[i] \in S
      BY <2>3
    <3>. QED BY <1>3, <3>1
  <2>. QED BY <2>3, <2>4 DEF Sorted
<1>5. /\ Cardinality(S) \in Nat
      /\ DOMAIN q = 1 .. Cardinality(S)
      /\ \A c \in S : \E i \in DOMAIN q : q[i] = c
      /\ \A i \in DOMAIN q : q[i] \in S
      /\ \A i, j \in DOMAIN q : q[i] = q[j] => i = j
      /\ \A i, j \in DOMAIN q : <<q[i], q[j]>> \in R => i < j
  BY <1>1, <1>2, <1>4, Sorting
<1>6. PICK full : full = [i \in DOMAIN q |-> candidate(q[i])]
  OBVIOUS
<1>7. Fuse(dense, sparse, limit) = Cut(full, limit)
  BY <1>3, <1>6 DEF Fuse, Ordered, FusedChunks, FusedCandidate, FusedOf
<1>8. \A c \in Chunks : candidate(c) \in Candidate /\ candidate(c).chunk = c
  BY ScoreOrNone DEF Candidate, FusedCandidate, Scores
<1>. HIDE DEF candidate
<1>9. full \in Seq(Candidate) /\ DOMAIN full = DOMAIN q /\ \A i \in DOMAIN q : full[i].chunk = q[i]
  <2>1. \A i \in DOMAIN q : candidate(q[i]) \in Candidate /\ candidate(q[i]).chunk = q[i]
    BY <1>2, <1>5, <1>8
  <2>2. full \in [1 .. Cardinality(S) -> Candidate] /\ DOMAIN full = DOMAIN q
    BY <1>5, <1>6, <2>1
  <2>3. full \in Seq(Candidate)
    BY <1>5, <2>2
  <2>4. \A i \in DOMAIN q : full[i] = candidate(q[i])
    BY <1>6
  <2>5. \A i \in DOMAIN q : full[i].chunk = q[i]
    BY <2>1, <2>4
  <2>. QED BY <2>2, <2>3, <2>5
<1>10. PICK w : w = Cut(full, limit)
  OBVIOUS
<1>11. /\ w \in Seq(Candidate) /\ DOMAIN w \subseteq DOMAIN q
       /\ \A i \in DOMAIN w : w[i].chunk = q[i] /\ w[i] = full[i] /\ 1 .. i \subseteq DOMAIN w
  BY <1>9, <1>10, Cutting
<1>12. ChunksOf(w) \subseteq S
  BY <1>5, <1>11 DEF ChunksOf
<1>13. \A i, j \in DOMAIN w : w[i].chunk = w[j].chunk => i = j
  BY <1>5, <1>11
<1>14. ASSUME NEW j \in DOMAIN w, NEW b \in S, <<b, w[j].chunk>> \in R
       PROVE  \E i \in DOMAIN w : i < j /\ w[i].chunk = b
  <2>1. PICK i \in DOMAIN q : q[i] = b
    BY <1>5
  <2>2. i < j
    BY <1>5, <1>11, <1>14, <2>1
  <2>3. i \in 1 .. j
    BY <1>5, <1>11, <2>2
  <2>. QED BY <1>11, <2>1, <2>2, <2>3
<1>15. Lists(w, S, R)
  <2>. HIDE DEF S, R
  <2>. QED BY <1>11, <1>12, <1>13, <1>14 DEF Lists
<1>16. ASSUME NEW i \in DOMAIN w PROVE \E c \in S : w[i] = FusedCandidate(dense, sparse, c)
  <2>1. w[i] = candidate(q[i]) /\ q[i] \in S
    BY <1>5, <1>6, <1>11
  <2>. QED BY <2>1 DEF candidate
<1>. QED BY <1>7, <1>10, <1>15, <1>16

-----------------------------------------------------------------------------
(* Scores the gate can compare *)

\* A candidate has the score the gate looks at in this mode, or was fused from
\* the sparse list alone and passes only where fused scores are not low.
Scored(mode, c) ==
  \/ c.rerank # None
  \/ mode \in {"dense", "hybrid"} /\ c.dense # None
  \/ mode = "bm25" /\ c.sparse # None
  \/ mode = "hybrid" /\ c.sparse # None /\ (c.score = Good => ~FusedScoresAreLow)

\* All or none of the candidates have been reranked, and each is scored.
Comparable(mode, s) ==
  /\ \A i \in DOMAIN s : Scored(mode, s[i])
  /\ \/ \A i \in DOMAIN s : s[i].rerank = None
     \/ \A i \in DOMAIN s : s[i].rerank # None

\* A sum of one quotient falls with the rank.
LEMMA FusedLow ==
  ASSUME FusedScoresAreLow, NEW s \in Nat \ {0}
  PROVE  Greater(MinDense, FusedScore(0, s))
<1>. DEFINE m == MinDense.num
            n == MinDense.den
<1>1. RrfK \in Nat \ {0} /\ m \in Nat /\ n \in Nat \ {0}
  BY RetrievalAssumption
<1>2. m * (RrfK + 1) > 1 * n
  BY DEF FusedScoresAreLow, Greater, FusedScore
<1>3. m * (RrfK + s) > 1 * n
  <2>. HIDE DEF m, n
  <2>1. m * (RrfK + s) = m * (RrfK + 1) + m * (s - 1) /\ s - 1 \in Nat
    BY <1>1
  <2>2. m * (s - 1) \in Nat /\ m * (RrfK + 1) \in Nat
    BY <1>1, <2>1
  <2>. QED BY <1>1, <1>2, <2>1, <2>2
<1>. QED BY <1>3 DEF Greater, FusedScore

\* A fused candidate is scored.
LEMMA FusedScored ==
  ASSUME NEW dense \in Seq(Hit), NEW sparse \in Seq(Hit), NEW c \in FusedChunks(dense, sparse)
  PROVE  Scored("hybrid", FusedCandidate(dense, sparse, c))
<1>1. PICK x : x = FusedCandidate(dense, sparse, c)
  OBVIOUS
<1>2. /\ x.dense = ScoreIn(dense, c) /\ x.sparse = ScoreIn(sparse, c)
      /\ x.score = IF Greater(MinDense, FusedOf(dense, sparse, c)) THEN Low ELSE Good
  BY <1>1 DEF FusedCandidate
<1>3. CASE RankIn(dense, c) # 0
  BY <1>1, <1>2, <1>3, ScoreOrNone DEF Scored
<1>4. CASE RankIn(dense, c) = 0
  <2>1. RankIn(sparse, c) \in Nat \ {0}
    BY <1>4, RankInList DEF FusedChunks
  <2>2. x.sparse # None
    BY <1>2, <2>1, ScoreOrNone
  <2>3. FusedScoresAreLow => x.score = Low
    BY <1>2, <1>4, <2>1, FusedLow DEF FusedOf
  <2>. QED BY <1>1, <2>2, <2>3 DEF Scored, Low, Good
<1>. QED BY <1>3, <1>4

-----------------------------------------------------------------------------
(* The evidence policy *)

\* kept holds the safe candidates of s, in their order.
Keeps(kept, s) ==
  \E at : /\ \A k \in DOMAIN kept : at[k] \in DOMAIN s /\ kept[k] = s[at[k]]
          /\ \A k, l \in DOMAIN kept : (at[k] = at[l] => k = l) /\ (at[k] < at[l] => k < l)
          /\ \A i \in DOMAIN s : s[i].chunk \notin Unsafe => \E k \in DOMAIN kept : at[k] = i

\* The policy keeps the candidates that are safe, in their order.
LEMMA Sieving ==
  ASSUME NEW s \in Seq(Candidate)
  PROVE  /\ Safe(s) \in Seq(Candidate)
         /\ ChunksOf(Safe(s)) \subseteq ChunksOf(s) \ Unsafe
         /\ Keeps(Safe(s), s)
<1>. DEFINE S == {i \in DOMAIN s : s[i].chunk \notin Unsafe}
            R == {p \in S \X S : p[1] < p[2]}
<1>1. Len(s) \in Nat /\ DOMAIN s = 1 .. Len(s) /\ IsFiniteSet(1 .. Len(s))
  <2>1. Len(s) \in Nat /\ DOMAIN s = 1 .. Len(s)
    OBVIOUS
  <2>. QED BY <2>1, FS_Interval
<1>2. IsFiniteSet(S)
  <2>1. S \in SUBSET (1 .. Len(s))
    BY <1>1
  <2>. QED BY <1>1, <2>1, FS_Subset
<1>3. \A i, j \in S : (<<i, j>> \in R <=> i < j) /\ i \in Int
  BY <1>1
<1>4. Orders(R, S)
  <2>. HIDE DEF R
  <2>. QED BY <1>3 DEF Orders
<1>5. PICK q : q = [k \in 1 .. Cardinality(S) |->
                      CHOOSE i \in S : Cardinality({h \in S : h < i}) = k - 1]
  OBVIOUS
<1>6. Sorted(R, S, q)
  <2>1. ASSUME NEW i \in S PROVE Cardinality({h \in S : h < i}) = RankOf(R, S, i)
    <3>1. {h \in S : h < i} = {h \in S : <<h, i>> \in R}
      BY <1>3
    <3>. QED BY <3>1 DEF RankOf
  <2>2. ASSUME NEW k \in 1 .. Cardinality(S)
        PROVE  q[k] \in S /\ RankOf(R, S, q[k]) = k - 1
    <3>1. q[k] = CHOOSE i \in S : Cardinality({h \in S : h < i}) = k - 1
      BY <1>5
    <3>2. \E i \in S : Cardinality({h \in S : h < i}) = k - 1
      BY <1>2, <1>4, <2>1, RanksInOrder
    <3>3. q[k] \in S /\ Cardinality({h \in S : h < q[k]}) = k - 1
      BY <3>1, <3>2
    <3>. QED BY <2>1, <3>3
  <2>3. q \in [1 .. Cardinality(S) -> S]
    <3>1. \A k \in 1 .. Cardinality(S) : q[k] \in S
      BY <2>2
    <3>. QED BY <1>5, <3>1
  <2>. QED BY <2>2, <2>3 DEF Sorted
<1>7. /\ Cardinality(S) \in Nat
      /\ DOMAIN q = 1 .. Cardinality(S)
      /\ \A i \in S : \E k \in DOMAIN q : q[k] = i
      /\ \A k \in DOMAIN q : q[k] \in S
      /\ \A k, l \in DOMAIN q : q[k] = q[l] => k = l
      /\ \A k, l \in DOMAIN q : <<q[k], q[l]>> \in R => k < l
  <2>. HIDE DEF S, R
  <2>. QED BY <1>2, <1>4, <1>6, Sorting
<1>8. Safe(s) = [k \in DOMAIN q |-> s[q[k]]]
  BY <1>5 DEF Safe, Ordered
<1>9. PICK kept : kept = Safe(s)
  OBVIOUS
<1>10. DOMAIN kept = DOMAIN q /\ \A k \in DOMAIN q : kept[k] = s[q[k]]
  BY <1>8, <1>9
<1>11. \A k \in DOMAIN q : q[k] \in DOMAIN s /\ s[q[k]] \in Candidate /\ s[q[k]].chunk \notin Unsafe
  BY <1>7
<1>12. kept \in Seq(Candidate)
  <2>1. \A k \in 1 .. Cardinality(S) : s[q[k]] \in Candidate
    BY <1>7, <1>11
  <2>2. kept = [k \in 1 .. Cardinality(S) |-> s[q[k]]]
    BY <1>7, <1>8, <1>9
  <2>. HIDE DEF S
  <2>3. kept \in [1 .. Cardinality(S) -> Candidate]
    BY <2>1, <2>2
  <2>. QED BY <1>7, <2>3
<1>13. ChunksOf(kept) \subseteq ChunksOf(s) \ Unsafe
  BY <1>10, <1>11 DEF ChunksOf
<1>14. \A k, l \in DOMAIN q : (q[k] = q[l] => k = l) /\ (q[k] < q[l] => k < l)
  BY <1>3, <1>7
<1>15. \A i \in DOMAIN s : s[i].chunk \notin Unsafe => \E k \in DOMAIN q : q[k] = i
  BY <1>7
<1>16. Keeps(kept, s)
  <2>1. \A k \in DOMAIN kept : q[k] \in DOMAIN s /\ kept[k] = s[q[k]]
    BY <1>10, <1>11
  <2>2. \A k, l \in DOMAIN kept : (q[k] = q[l] => k = l) /\ (q[k] < q[l] => k < l)
    BY <1>10, <1>14
  <2>3. \A i \in DOMAIN s : s[i].chunk \notin Unsafe => \E k \in DOMAIN kept : q[k] = i
    BY <1>10, <1>15
  <2>. QED BY <2>1, <2>2, <2>3 DEF Keeps
<1>. QED BY <1>9, <1>12, <1>13, <1>16

-----------------------------------------------------------------------------
(* Windows *)

\* The limits of a search are positive.
LEMMA Limits == SearchLimit(TopK) \in Nat \ {0} /\ Window(TopK) \in Nat \ {0}
<1>1. \A a, b \in Nat \ {0} : Max({a, b}) \in Nat \ {0} /\ Min({a, b}) \in Nat \ {0}
  <2>. SUFFICES ASSUME NEW a \in Nat \ {0}, NEW b \in Nat \ {0}
       PROVE  Max({a, b}) \in Nat \ {0} /\ Min({a, b}) \in Nat \ {0}
    OBVIOUS
  <2>1. \E x \in {a, b} : \A y \in {a, b} : x >= y
    OBVIOUS
  <2>2. \E x \in {a, b} : \A y \in {a, b} : x <= y
    OBVIOUS
  <2>3. Max({a, b}) \in {a, b} /\ Min({a, b}) \in {a, b}
    BY <2>1, <2>2 DEF Max, Min
  <2>. QED BY <2>3
<1>2. /\ TopK \in Nat \ {0} /\ CandidateLimit \in Nat \ {0} /\ FusionLimit \in Nat \ {0}
      /\ HardLimit \in Nat \ {0}
  BY QueryAssumption, RetrievalAssumption
<1>3. Max({CandidateLimit, TopK}) \in Nat \ {0} /\ Max({TopK, FusionLimit}) \in Nat \ {0}
  BY <1>1, <1>2
<1>. QED BY <1>1, <1>2, <1>3 DEF SearchLimit, Window

\* Any ranking of matching chunks is a list of hits on them.
LEMMA RankingHits ==
  ASSUME NEW matching \in SUBSET Chunks, NEW hits \in Rankings(matching, SearchLimit(TopK))
  PROVE  hits \in Seq(Hit) /\ ChunksOf(hits) \subseteq matching
<1>1. IsFiniteSet(matching) /\ Cardinality(matching) \in Nat
  BY RetrievalAssumption, FS_Subset, FS_CardinalityType
<1>2. PICK n \in Nat : hits \in [1 .. n -> [chunk : matching, score : Scores]]
  <2>1. PICK n : n = IF Cardinality(matching) < SearchLimit(TopK) THEN Cardinality(matching) ELSE SearchLimit(TopK)
    OBVIOUS
  <2>2. n \in Nat
    BY <1>1, <2>1, Limits
  <2>. QED BY <2>1, <2>2 DEF Rankings
<1>3. \A i \in 1 .. n : hits[i] \in [chunk : matching, score : Scores]
  BY <1>2
<1>4. ChunksOf(hits) \subseteq matching
  BY <1>2, <1>3 DEF ChunksOf
<1>5. hits \in [1 .. n -> Hit]
  <2>1. [chunk : matching, score : Scores] \subseteq Hit
    BY DEF Hit
  <2>. QED BY <1>2, <1>3, <2>1
<1>. QED BY <1>4, <1>5

\* The candidates of one list.
LEMMA OneList ==
  ASSUME NEW hits \in Seq(Hit), NEW w, DOMAIN w = DOMAIN hits,
         \A i \in DOMAIN hits : w[i] \in Candidate /\ w[i].chunk = hits[i].chunk,
         w = [i \in DOMAIN hits |-> w[i]]
  PROVE  /\ Cut(w, Window(TopK)) \in Seq(Candidate)
         /\ ChunksOf(Cut(w, Window(TopK))) \subseteq ChunksOf(hits)
         /\ \A i \in DOMAIN Cut(w, Window(TopK)) :
              i \in DOMAIN hits /\ Cut(w, Window(TopK))[i] = w[i]
<1>1. Len(hits) \in Nat /\ DOMAIN hits = 1 .. Len(hits)
  OBVIOUS
<1>2. w \in [1 .. Len(hits) -> Candidate]
  BY <1>1
<1>3. w \in Seq(Candidate) /\ Window(TopK) \in Nat
  BY <1>1, <1>2, Limits
<1>4. PICK v : v = Cut(w, Window(TopK))
  OBVIOUS
<1>5. v \in Seq(Candidate) /\ DOMAIN v \subseteq DOMAIN hits /\ \A i \in DOMAIN v : v[i] = w[i]
  BY <1>3, <1>4, Cutting
<1>6. \A i \in DOMAIN v : v[i].chunk = hits[i].chunk
  BY <1>5
<1>. QED BY <1>4, <1>5, <1>6 DEF ChunksOf

\* The window of a search holds hits of its lists.
LEMMA Windows ==
  ASSUME NEW mode \in Modes, NEW dense \in Seq(Hit), NEW sparse \in Seq(Hit)
  PROVE  LET w == CandidateWindow(mode, dense, sparse, TopK) IN
         /\ w \in Seq(Candidate)
         /\ ChunksOf(w) \subseteq ChunksOf(dense) \cup ChunksOf(sparse)
         /\ \A i \in DOMAIN w : Scored(mode, w[i]) /\ w[i].rerank = None
<1>1. ASSUME NEW hits \in Seq(Hit), NEW i \in DOMAIN hits
      PROVE  hits[i].chunk \in Chunks /\ hits[i].score \in Scores
  <2>1. hits[i] \in Hit
    OBVIOUS
  <2>. QED BY <2>1 DEF Hit
<1>2. CASE mode = "hybrid"
  <2>1. CandidateWindow(mode, dense, sparse, TopK) = Fuse(dense, sparse, Window(TopK))
    BY <1>2 DEF CandidateWindow
  <2>2. Window(TopK) \in Nat
    BY Limits
  <2>3. PICK w : w = Fuse(dense, sparse, Window(TopK))
    OBVIOUS
  <2>4. /\ Lists(w, FusedChunks(dense, sparse), FusedOrder(dense, sparse))
        /\ \A i \in DOMAIN w : \E c \in FusedChunks(dense, sparse) :
             w[i] = FusedCandidate(dense, sparse, c)
    BY <2>2, <2>3, Fusing
  <2>5. ASSUME NEW i \in DOMAIN w PROVE Scored(mode, w[i]) /\ w[i].rerank = None
    <3>1. PICK c \in FusedChunks(dense, sparse) : w[i] = FusedCandidate(dense, sparse, c)
      BY <2>4
    <3>2. Scored("hybrid", w[i])
      BY <3>1, FusedScored
    <3>. QED BY <1>2, <3>1, <3>2 DEF FusedCandidate
  <2>. QED BY <2>1, <2>3, <2>4, <2>5 DEF Lists, FusedChunks
<1>3. CASE mode = "dense"
  <2>1. PICK w : w = [i \in DOMAIN dense |-> [chunk |-> dense[i].chunk, score |-> dense[i].score,
                                              dense |-> dense[i].score, sparse |-> None, rerank |-> None]]
    OBVIOUS
  <2>2. \A i \in DOMAIN dense : /\ w[i] \in Candidate /\ w[i].chunk = dense[i].chunk
                              /\ Scored(mode, w[i]) /\ w[i].rerank = None
    BY <1>1, <1>3, <2>1 DEF Candidate, Scored, Scores, None, Low, Good
  <2>3. CandidateWindow(mode, dense, sparse, TopK) = Cut(w, Window(TopK))
    BY <1>3, <2>1 DEF CandidateWindow
  <2>4. DOMAIN w = DOMAIN dense /\ w = [i \in DOMAIN dense |-> w[i]]
    BY <2>1
  <2>5. /\ Cut(w, Window(TopK)) \in Seq(Candidate)
        /\ ChunksOf(Cut(w, Window(TopK))) \subseteq ChunksOf(dense)
        /\ \A i \in DOMAIN Cut(w, Window(TopK)) :
             i \in DOMAIN dense /\ Cut(w, Window(TopK))[i] = w[i]
    BY <2>2, <2>4, OneList
  <2>6. PICK v : v = Cut(w, Window(TopK))
    OBVIOUS
  <2>7. \A i \in DOMAIN v : Scored(mode, v[i]) /\ v[i].rerank = None
    BY <2>2, <2>5, <2>6
  <2>. QED BY <2>3, <2>5, <2>6, <2>7
<1>4. CASE mode = "bm25"
  <2>1. PICK w : w = [i \in DOMAIN sparse |-> [chunk |-> sparse[i].chunk, score |-> sparse[i].score,
                                               dense |-> None, sparse |-> sparse[i].score, rerank |-> None]]
    OBVIOUS
  <2>2. \A i \in DOMAIN sparse : /\ w[i] \in Candidate /\ w[i].chunk = sparse[i].chunk
                              /\ Scored(mode, w[i]) /\ w[i].rerank = None
    BY <1>1, <1>4, <2>1 DEF Candidate, Scored, Scores, None, Low, Good
  <2>3. CandidateWindow(mode, dense, sparse, TopK) = Cut(w, Window(TopK))
    BY <1>4, <2>1 DEF CandidateWindow
  <2>4. DOMAIN w = DOMAIN sparse /\ w = [i \in DOMAIN sparse |-> w[i]]
    BY <2>1
  <2>5. /\ Cut(w, Window(TopK)) \in Seq(Candidate)
        /\ ChunksOf(Cut(w, Window(TopK))) \subseteq ChunksOf(sparse)
        /\ \A i \in DOMAIN Cut(w, Window(TopK)) :
             i \in DOMAIN sparse /\ Cut(w, Window(TopK))[i] = w[i]
    BY <2>2, <2>4, OneList
  <2>6. PICK v : v = Cut(w, Window(TopK))
    OBVIOUS
  <2>7. \A i \in DOMAIN v : Scored(mode, v[i]) /\ v[i].rerank = None
    BY <2>2, <2>5, <2>6
  <2>. QED BY <2>3, <2>5, <2>6, <2>7
<1>. QED BY <1>2, <1>3, <1>4 DEF Modes

\* Reranking selects candidates of the window.
LEMMA Reranking ==
  ASSUME NEW window \in Seq(Candidate), NEW final \in Reranked(window, TopK)
  PROVE  /\ final \in Seq(Candidate) /\ ChunksOf(final) \subseteq ChunksOf(window)
         /\ \A i \in DOMAIN final : final[i].rerank # None
<1>1. Len(window) \in Nat /\ RerankCap \in Nat /\ TopK \in Nat /\ RerankLimit \in Nat
  BY QueryAssumption, RetrievalAssumption
<1>2. PICK n : n = Min({RerankCap, Len(window)})
  OBVIOUS
<1>3. n \in Nat /\ n <= Len(window)
  <2>1. \E x \in {RerankCap, Len(window)} : \A y \in {RerankCap, Len(window)} : x <= y
    BY <1>1
  <2>2. n \in {RerankCap, Len(window)} /\ \A y \in {RerankCap, Len(window)} : n <= y
    BY <1>2, <2>1 DEF Min
  <2>. QED BY <1>1, <2>2
<1>4. PICK m : m = Min({TopK, RerankLimit, n})
  OBVIOUS
<1>5. m \in Nat
  <2>1. \E x \in {TopK, RerankLimit, n} : \A y \in {TopK, RerankLimit, n} : x <= y
    BY <1>1, <1>3
  <2>2. m \in {TopK, RerankLimit, n}
    BY <1>4, <2>1 DEF Min
  <2>. QED BY <1>1, <1>3, <2>2
<1>6. PICK h \in [1 .. m -> (1 .. n) \X Scores] :
        final = [i \in 1 .. m |-> Rescored(window[h[i][1]], h[i][2])]
  BY <1>2, <1>4 DEF Reranked
<1>7. ASSUME NEW i \in 1 .. m
      PROVE  /\ final[i] \in Candidate /\ final[i].rerank # None
             /\ \E j \in DOMAIN window : final[i].chunk = window[j].chunk
  <2>1. PICK j \in 1 .. n, r \in Scores : h[i] = <<j, r>>
    BY <1>6
  <2>2. j \in DOMAIN window /\ window[j] \in Candidate
    BY <1>3, <2>1
  <2>3. final[i] = Rescored(window[j], r)
    BY <1>6, <2>1
  <2>4. r # None
    BY DEF Scores, None, Low, Good
  <2>5. Rescored(window[j], r) \in Candidate /\ Rescored(window[j], r).chunk = window[j].chunk
        /\ Rescored(window[j], r).rerank = r
    BY <2>2 DEF Candidate, Rescored
  <2>. QED BY <2>2, <2>3, <2>4, <2>5
<1>8. final \in [1 .. m -> Candidate] /\ DOMAIN final = 1 .. m
  BY <1>6, <1>7
<1>9. final \in Seq(Candidate)
  BY <1>5, <1>8
<1>. QED BY <1>7, <1>8, <1>9 DEF ChunksOf

-----------------------------------------------------------------------------
(* The gate *)

\* One of the selected chunks has a score of its own that reaches the minimum.
Relevant(mode, candidates) ==
  \E i \in DOMAIN candidates : candidates[i][ScoreKind(mode, candidates)] = Good

\* The top score of a selection reaches the minimum when one of its chunks
\* does, and where fused scores are low only then.
LEMMA TopScoreIsRelevance ==
  ASSUME NEW mode \in Modes, NEW final \in Seq(Candidate), final # <<>>, Comparable(mode, final)
  PROVE  /\ TopScore(final, ScoreKind(mode, final)) = Low => ~Relevant(mode, final)
         /\ FusedScoresAreLow /\ TopScore(final, ScoreKind(mode, final)) # Low => Relevant(mode, final)
<1>1. PICK kind : kind = ScoreKind(mode, final)
  OBVIOUS
<1>2. kind \in {"rerank", "sparse", "dense"}
  BY <1>1 DEF ScoreKind
<1>3. ASSUME NEW i \in DOMAIN final
      PROVE  /\ ScoreFor(final[i], kind) \in {Low, Good}
             /\ final[i][kind] = Good => ScoreFor(final[i], kind) = Good
             /\ FusedScoresAreLow /\ ScoreFor(final[i], kind) = Good => final[i][kind] = Good
  <2>1. final[i] \in Candidate /\ Scored(mode, final[i])
    BY DEF Comparable
  <2>2. final[i][kind] \in {None, Low, Good} /\ final[i].score \in {Low, Good}
    BY <1>2, <2>1 DEF Candidate, Scores
  <2>3. final[i][kind] = None => mode = "hybrid" /\ (final[i].score = Good => ~FusedScoresAreLow)
    <3>. SUFFICES ASSUME final[i][kind] = None
         PROVE  mode = "hybrid" /\ (final[i].score = Good => ~FusedScoresAreLow)
      OBVIOUS
    <3>1. CASE kind = "rerank"
      <4>1. final[i].rerank = None
        BY <3>1
      <4>2. \A l \in DOMAIN final : final[l].rerank = None
        BY <4>1 DEF Comparable
      <4>. QED BY <1>1, <3>1, <4>2 DEF ScoreKind
    <3>2. CASE kind # "rerank"
      <4>1. final[i].rerank = None
        BY <1>1, <3>2 DEF ScoreKind
      <4>2. CASE kind = "dense"
        <5>1. final[i].dense = None /\ mode # "bm25"
          BY <1>1, <4>2 DEF ScoreKind
        <5>. QED BY <2>1, <4>1, <5>1 DEF Scored
      <4>3. CASE kind = "sparse"
        <5>1. final[i].sparse = None
          BY <4>3
        <5>2. mode = "bm25" \/ (mode # "dense" /\ final[i].dense = None)
          BY <1>1, <4>3 DEF ScoreKind
        <5>. QED BY <2>1, <4>1, <5>1, <5>2 DEF Scored
      <4>. QED BY <1>2, <3>2, <4>2, <4>3
    <3>. QED BY <3>1, <3>2
  <2>. QED BY <2>2, <2>3 DEF ScoreFor, None, Low, Good
<1>4. PICK T : T = {ScoreFor(final[i], kind) : i \in DOMAIN final}
  OBVIOUS
<1>6. /\ T \subseteq {Low, Good} /\ T # {}
      /\ (\E i \in DOMAIN final : final[i][kind] = Good) => Good \in T
      /\ FusedScoresAreLow /\ Good \in T => \E i \in DOMAIN final : final[i][kind] = Good
  <2>1. DOMAIN final # {}
    <3>1. Len(final) > 0 /\ Len(final) \in Nat /\ DOMAIN final = 1 .. Len(final)
      OBVIOUS
    <3>. QED BY <3>1
  <2>. QED BY <1>3, <1>4, <2>1
<1>7. Max(T) \in T /\ \A y \in T : Max(T) >= y
  <2>1. T \subseteq {1, 2} /\ T # {}
    BY <1>6 DEF Low, Good
  <2>2. CASE 2 \in T
    <3>1. \A y \in T : 2 >= y
      BY <2>1
    <3>. QED BY <2>2, <3>1 DEF Max
  <2>3. CASE 2 \notin T
    <3>1. T = {1}
      BY <2>1, <2>3
    <3>2. 1 \in T /\ \A y \in T : 1 >= y
      BY <3>1
    <3>. QED BY <3>2 DEF Max
  <2>. QED BY <2>2, <2>3
<1>8. Max(T) = Low <=> Good \notin T
  <2>1. T \subseteq {1, 2}
    BY <1>6 DEF Low, Good
  <2>2. CASE 2 \in T
    <3>1. Max(T) \in {1, 2} /\ Max(T) >= 2
      BY <1>7, <2>1, <2>2
    <3>. QED BY <2>2, <3>1 DEF Low, Good
  <2>3. CASE 2 \notin T
    BY <1>7, <2>1, <2>3 DEF Low, Good
  <2>. QED BY <2>2, <2>3
<1>. QED BY <1>1, <1>4, <1>6, <1>8 DEF TopScore, Relevant

-----------------------------------------------------------------------------
(* The invariant *)

\* A query looks at a chunk only while it could be shown it; what it selects
\* has passed the evidence policy.
SourcesOK ==
  /\ query.phase \in {"dense", "sparse"} => Active(points, query.scope) \subseteq seen
  /\ ChunksOf(query.dense) \cup ChunksOf(query.sparse) \subseteq seen
  /\ ChunksOf(query.final) \subseteq seen \ Unsafe

\* Records of a query that ended so.
TracesOf(outcome) == IF outcome \in {"error", "INVALID_REQUEST"} THEN 0 ELSE 1
ErrorsOf(outcome) == IF outcome = "error" THEN 1 ELSE 0

\* It has an outcome, a trace and an error count only when it ends.
OutcomeOK ==
  /\ query.phase # "ended" => query.outcome = "none" /\ query.traces = 0 /\ query.errors = 0
  /\ query.phase = "ended" =>
       /\ query.outcome # "none"
       /\ query.traces = TracesOf(query.outcome)
       /\ query.errors = ErrorsOf(query.outcome)

\* What comes to the gate can be compared; what has passed it is relevant,
\* where fused scores are low.
GateOK ==
  /\ query.phase = "gate" => Comparable(query.mode, query.final)
  /\ query.phase = "generate" \/ query.outcome = "answered" =>
       query.final # <<>> /\ (FusedScoresAreLow => Relevant(query.mode, query.final))
  /\ query.outcome = "LOW_RELEVANCE" => ~Relevant(query.mode, query.final)

QueryInv == TypeOK /\ SourcesOK /\ OutcomeOK /\ GateOK

\* An empty list names no chunk.
LEMMA NoChunks == ChunksOf(<<>>) = {} /\ ~ \E m : Relevant(m, <<>>)
BY DEF ChunksOf, Relevant

\* A query at rest.
LEMMA IdleIsQuery == IdleQuery \in Query
<1>1. <<>> \in Seq(Hit) /\ <<>> \in Seq(Candidate)
  OBVIOUS
<1>. QED BY <1>1 DEF IdleQuery, Query, Modes, Outcome

\* Nothing is stored or asked at first.
LEMMA QueryInvInit == Init => QueryInv
<1>. SUFFICES ASSUME Init PROVE QueryInv
  OBVIOUS
<1>1. TypeOK
  BY IdleIsQuery DEF Init, TypeOK, StoreInit, StoreTypeOK, PointState, IdleWriter, Writer
<1>2. SourcesOK /\ OutcomeOK /\ GateOK
  BY NoChunks DEF Init, IdleQuery, SourcesOK, OutcomeOK, GateOK
<1>. QED BY <1>1, <1>2 DEF QueryInv

\* The requests of an ingestion only widen what the query could have seen.
LEMMA StoreStep ==
  ASSUME QueryInv, UNCHANGED query, Observe, StoreTypeOK', writer' \in Writer
  PROVE  QueryInv'
<1>1. seen \subseteq seen' /\ seen' \subseteq Chunks
  BY DEF Observe, Active, QueryInv, TypeOK
<1>2. query.phase \in {"dense", "sparse"} => Active(points', query.scope) \subseteq seen'
  BY DEF Observe
<1>3. TypeOK'
  BY <1>1 DEF QueryInv, TypeOK
<1>4. SourcesOK'
  BY <1>1, <1>2 DEF QueryInv, SourcesOK, Active, InScope
<1>. QED BY <1>3, <1>4 DEF QueryInv, OutcomeOK, GateOK

\* A step of the query.
LEMMA QueryStep ==
  ASSUME TypeOK, UNCHANGED <<points, writer>>, seen' \subseteq Chunks,
         NEW q \in Query, query' = q,
         q.phase \in {"dense", "sparse"} => Active(points, q.scope) \subseteq seen',
         ChunksOf(q.dense) \cup ChunksOf(q.sparse) \subseteq seen',
         ChunksOf(q.final) \subseteq seen' \ Unsafe,
         q.phase # "ended" => q.outcome = "none" /\ q.traces = 0 /\ q.errors = 0,
         q.phase = "ended" =>
           /\ q.outcome # "none"
           /\ q.traces = TracesOf(q.outcome)
           /\ q.errors = ErrorsOf(q.outcome),
         q.phase = "gate" => Comparable(q.mode, q.final),
         q.phase = "generate" \/ q.outcome = "answered" =>
           q.final # <<>> /\ (FusedScoresAreLow => Relevant(q.mode, q.final)),
         q.outcome = "LOW_RELEVANCE" => ~Relevant(q.mode, q.final)
  PROVE  QueryInv'
<1>1. TypeOK'
  BY DEF TypeOK, StoreTypeOK
<1>2. SourcesOK'
  BY DEF SourcesOK, Active, InScope
<1>. QED BY <1>1, <1>2 DEF QueryInv, OutcomeOK, GateOK

\* A query fails: an error, and no trace.
LEMMA FailStep ==
  ASSUME QueryInv, UNCHANGED <<points, writer, seen>>, query.phase # "ended",
         query' = [query EXCEPT !.phase = "ended", !.outcome = "error", !.errors = @ + 1]
  PROVE  QueryInv'
<1>1. query \in Query /\ query.errors = 0 /\ query.traces = 0
  BY DEF QueryInv, TypeOK, OutcomeOK
<1>2. PICK q : q = [query EXCEPT !.phase = "ended", !.outcome = "error", !.errors = @ + 1]
  OBVIOUS
<1>3. q \in Query
  <2>1. query.errors + 1 \in 0 .. 1
    BY <1>1
  <2>. QED BY <1>1, <1>2, <2>1 DEF Query, Outcome
<1>4. /\ q.phase = "ended" /\ q.outcome = "error" /\ q.errors = 1 /\ q.traces = 0
      /\ q.dense = query.dense /\ q.sparse = query.sparse /\ q.final = query.final
  BY <1>1, <1>2 DEF Query
<1>. QED BY <1>2, <1>3, <1>4, QueryStep DEF QueryInv, SourcesOK, TypeOK, TracesOf, ErrorsOf

\* Recording a result: a trace, and no error.
LEMMA Recording ==
  ASSUME NEW q \in Query, q.traces = 0, NEW outcome \in Outcome
  PROVE  /\ Record(q, outcome) \in Query
         /\ Record(q, outcome).phase = "ended" /\ Record(q, outcome).outcome = outcome
         /\ Record(q, outcome).traces = 1 /\ Record(q, outcome).errors = q.errors
         /\ Record(q, outcome).dense = q.dense /\ Record(q, outcome).sparse = q.sparse
         /\ Record(q, outcome).final = q.final /\ Record(q, outcome).mode = q.mode
<1>1. PICK r : r = [q EXCEPT !.phase = "ended", !.outcome = outcome, !.traces = 1]
  OBVIOUS
<1>2. Record(q, outcome) = r
  <2>1. q.traces + 1 = 1
    OBVIOUS
  <2>. QED BY <1>1, <2>1 DEF Record
<1>3. r \in Query
  <2>1. \A o \in Outcome, t \in 0 .. 1 : [q EXCEPT !.phase = "ended", !.outcome = o, !.traces = t] \in Query
    BY DEF Query
  <2>2. 1 \in 0 .. 1
    OBVIOUS
  <2>. QED BY <1>1, <2>1, <2>2
<1>4. /\ r.phase = "ended" /\ r.outcome = outcome /\ r.traces = 1 /\ r.errors = q.errors
      /\ r.dense = q.dense /\ r.sparse = q.sparse /\ r.final = q.final /\ r.mode = q.mode
  BY <1>1 DEF Query
<1>. QED BY <1>2, <1>3, <1>4

\* Every action keeps the invariant.
LEMMA QueryInvNext == QueryInv /\ [Next]_vars => QueryInv'
<1>. SUFFICES ASSUME QueryInv, [Next]_vars PROVE QueryInv'
  OBVIOUS
<1>1. TypeOK /\ SourcesOK /\ OutcomeOK /\ GateOK /\ query \in Query
  BY DEF QueryInv, TypeOK
<1>2. CASE UNCHANGED vars
  BY <1>2 DEF QueryInv, vars, TypeOK, StoreTypeOK, SourcesOK, OutcomeOK, GateOK, Active, InScope
<1>3. CASE (\E v \in Versions : Stage(v)) \/ Discard \/ Publish \/ HideOthers \/ \E d \in Docs : Delete(d)
  <2>1. UNCHANGED query /\ Observe
    BY <1>3 DEF Stage, Discard, Publish, HideOthers, Delete
  <2>2. StoreTypeOK'
    BY <1>1, <1>3 DEF Stage, Discard, Publish, HideOthers, Delete, Staged, Discarded, Flagged,
                     OthersHidden, DocumentDeleted, TypeOK, StoreTypeOK, PointState
  <2>3. writer' \in Writer
    BY <1>1, <1>3 DEF Stage, Discard, Publish, HideOthers, Delete, TypeOK, Writer, IdleWriter
  <2>. QED BY <2>1, <2>2, <2>3, StoreStep
<1>4. ASSUME NEW mode \in Modes, AskBlocked(mode) PROVE QueryInv'
  <2>1. PICK idle : idle = [IdleQuery EXCEPT !.mode = mode]
    OBVIOUS
  <2>2. /\ idle \in Query /\ idle.traces = 0 /\ idle.errors = 0 /\ idle.dense = <<>>
        /\ idle.sparse = <<>> /\ idle.final = <<>>
    BY <2>1, IdleIsQuery DEF IdleQuery, Query
  <2>3. PICK q : q = Record(idle, "SECURITY_POLICY")
    OBVIOUS
  <2>4. /\ q \in Query /\ q.phase = "ended" /\ q.outcome = "SECURITY_POLICY" /\ q.traces = 1 /\ q.errors = 0
        /\ q.dense = <<>> /\ q.sparse = <<>> /\ q.final = <<>>
    BY <2>2, <2>3, Recording DEF Outcome
  <2>5. query' = q /\ seen' = {} /\ UNCHANGED <<points, writer>>
    BY <1>4, <2>1, <2>3 DEF AskBlocked
  <2>6. q.traces = TracesOf(q.outcome) /\ q.errors = ErrorsOf(q.outcome)
    BY <2>4 DEF TracesOf, ErrorsOf
  <2>. QED BY <1>1, <2>4, <2>5, <2>6, NoChunks, QueryStep
<1>5. ASSUME NEW mode \in Modes, NEW scope \in Scopes, Ask(mode, scope) PROVE QueryInv'
  <2>1. PICK q : q = [IdleQuery EXCEPT !.phase = FirstPhase(mode), !.mode = mode, !.scope = scope]
    OBVIOUS
  <2>2. q \in Query
    BY <2>1, IdleIsQuery, QueryAssumption DEF Query, FirstPhase
  <2>3. /\ q.phase \in {"dense", "sparse"} /\ q.scope = scope /\ q.outcome = "none"
        /\ q.traces = 0 /\ q.errors = 0 /\ q.dense = <<>> /\ q.sparse = <<>> /\ q.final = <<>>
    BY <2>1 DEF IdleQuery, FirstPhase
  <2>4. query' = q /\ seen' = Active(points, scope) /\ UNCHANGED <<points, writer>>
    BY <1>5, <2>1 DEF Ask
  <2>5. seen' \subseteq Chunks
    BY <2>4 DEF Active
  <2>. QED BY <1>1, <2>2, <2>3, <2>4, <2>5, NoChunks, QueryStep
<1>6. CASE RetrievalFails
  BY <1>6, FailStep DEF RetrievalFails
<1>14. CASE RetrievalRejected
  <2>1. query.phase \in {"dense", "sparse"} /\ query.traces = 0 /\ query.errors = 0
    BY <1>1, <1>14 DEF RetrievalRejected, FirstPhase, OutcomeOK
  <2>2. PICK q : q = [query EXCEPT !.phase = "ended", !.outcome = "INVALID_REQUEST"]
    OBVIOUS
  <2>3. /\ q \in Query /\ q.phase = "ended" /\ q.outcome = "INVALID_REQUEST" /\ q.traces = 0 /\ q.errors = 0
        /\ q.dense = query.dense /\ q.sparse = query.sparse /\ q.final = query.final
    BY <1>1, <2>1, <2>2 DEF Query, Outcome
  <2>4. query' = q /\ UNCHANGED <<points, writer, seen>>
    BY <1>14, <2>2 DEF RetrievalRejected
  <2>. QED BY <1>1, <2>3, <2>4, QueryStep DEF SourcesOK, TypeOK, TracesOf, ErrorsOf
<1>7. CASE GenerationFails
  BY <1>7, FailStep DEF GenerationFails
<1>8. CASE SearchDense
  <2>1. PICK hits \in Rankings(Searchable(points, query.scope), SearchLimit(TopK)) :
          query' = [query EXCEPT !.dense = hits,
                      !.phase = IF query.mode = "hybrid" THEN "sparse" ELSE "combine"]
    BY <1>8 DEF SearchDense
  <2>2. Searchable(points, query.scope) \in SUBSET Chunks /\ Searchable(points, query.scope) \subseteq seen
    BY <1>1, <1>8 DEF SearchDense, SourcesOK, Searchable, Active
  <2>3. hits \in Seq(Hit) /\ ChunksOf(hits) \subseteq seen
    BY <2>2, RankingHits
  <2>4. PICK q : q = [query EXCEPT !.dense = hits,
                        !.phase = IF query.mode = "hybrid" THEN "sparse" ELSE "combine"]
    OBVIOUS
  <2>5. q \in Query
    BY <1>1, <2>3, <2>4 DEF Query
  <2>6. /\ q.phase \in {"sparse", "combine"} /\ q.dense = hits /\ q.sparse = query.sparse
        /\ q.final = query.final /\ q.scope = query.scope /\ q.outcome = query.outcome
        /\ q.traces = query.traces /\ q.errors = query.errors
    BY <1>1, <2>4 DEF Query
  <2>7. query.phase = "dense" /\ query' = q /\ UNCHANGED <<points, writer, seen>>
    BY <1>8, <2>1, <2>4 DEF SearchDense
  <2>. QED BY <1>1, <2>3, <2>5, <2>6, <2>7, QueryStep DEF SourcesOK, OutcomeOK, TypeOK
<1>9. CASE SearchSparse
  <2>0. PICK matching \in SUBSET Searchable(points, query.scope) :
          \E hits \in Rankings(matching, SearchLimit(TopK)) :
            query' = [query EXCEPT !.sparse = hits, !.phase = "combine"]
    BY <1>9 DEF SearchSparse
  <2>1. PICK hits \in Rankings(matching, SearchLimit(TopK)) :
          query' = [query EXCEPT !.sparse = hits, !.phase = "combine"]
    BY <2>0
  <2>2. matching \in SUBSET Chunks /\ matching \subseteq seen
    BY <1>1, <1>9 DEF SearchSparse, SourcesOK, Searchable, Active
  <2>3. hits \in Seq(Hit) /\ ChunksOf(hits) \subseteq seen
    BY <2>2, RankingHits
  <2>4. PICK q : q = [query EXCEPT !.sparse = hits, !.phase = "combine"]
    OBVIOUS
  <2>5. q \in Query
    BY <1>1, <2>3, <2>4 DEF Query
  <2>6. /\ q.phase = "combine" /\ q.sparse = hits /\ q.dense = query.dense
        /\ q.final = query.final /\ q.outcome = query.outcome
        /\ q.traces = query.traces /\ q.errors = query.errors
    BY <1>1, <2>4 DEF Query
  <2>7. query.phase = "sparse" /\ query' = q /\ UNCHANGED <<points, writer, seen>>
    BY <1>9, <2>1, <2>4 DEF SearchSparse
  <2>. QED BY <1>1, <2>3, <2>5, <2>6, <2>7, QueryStep DEF SourcesOK, OutcomeOK, TypeOK
<1>10. CASE Combine
  <2>1. PICK window : window = CandidateWindow(query.mode, query.dense, query.sparse, TopK)
    OBVIOUS
  <2>2. query.mode \in Modes /\ query.dense \in Seq(Hit) /\ query.sparse \in Seq(Hit)
    BY <1>1 DEF Query
  <2>3. /\ window \in Seq(Candidate) /\ ChunksOf(window) \subseteq seen
        /\ \A i \in DOMAIN window : Scored(query.mode, window[i]) /\ window[i].rerank = None
    BY <1>1, <2>1, <2>2, Windows DEF SourcesOK
  <2>4. PICK final : /\ final \in {Cut(window, TopK)} \cup (IF window # <<>> THEN Reranked(window, TopK) ELSE {})
                     /\ query' = Filtered([query EXCEPT !.window = window, !.final = final,
                                             !.dense = <<>>, !.sparse = <<>>, !.scope = {}, !.phase = "gate"])
    BY <1>10, <2>1 DEF Combine
  <2>5. final \in Seq(Candidate) /\ ChunksOf(final) \subseteq seen /\ Comparable(query.mode, final)
    <3>1. CASE final = Cut(window, TopK)
      <4>1. TopK \in Nat
        BY QueryAssumption
      <4>2. /\ final \in Seq(Candidate) /\ DOMAIN final \subseteq DOMAIN window
            /\ \A i \in DOMAIN final : final[i] = window[i]
        BY <2>3, <3>1, <4>1, Cutting
      <4>. QED BY <2>3, <4>2 DEF ChunksOf, Comparable
    <3>2. CASE final \in Reranked(window, TopK)
      BY <2>3, <3>2, Reranking DEF Comparable, Scored
    <3>. QED BY <2>4, <3>1, <3>2
  <2>6. PICK p : p = [query EXCEPT !.window = window, !.final = final,
                        !.dense = <<>>, !.sparse = <<>>, !.scope = {}, !.phase = "gate"]
    OBVIOUS
  <2>7. /\ p \in Query /\ p.window = window /\ p.final = final /\ p.dense = <<>> /\ p.sparse = <<>>
        /\ p.phase = "gate" /\ p.mode = query.mode /\ p.outcome = query.outcome /\ p.traces = query.traces /\ p.errors = query.errors
    <3>1. <<>> \in Seq(Hit)
      OBVIOUS
    <3>. QED BY <1>1, <2>3, <2>5, <2>6, <3>1 DEF Query
  <2>8. PICK q : q = Filtered(p)
    OBVIOUS
  <2>9. /\ Safe(window) \in Seq(Candidate) /\ Safe(final) \in Seq(Candidate)
        /\ ChunksOf(Safe(final)) \subseteq seen \ Unsafe
        /\ Keeps(Safe(final), final)
    BY <2>3, <2>5, Sieving
  <2>12. Comparable(query.mode, Safe(final))
    <3>1. PICK at : \A k \in DOMAIN Safe(final) : at[k] \in DOMAIN final /\ Safe(final)[k] = final[at[k]]
      BY <2>9 DEF Keeps
    <3>. QED BY <2>5, <3>1 DEF Comparable
  <2>10. /\ q \in Query /\ q.final = Safe(final) /\ q.dense = <<>> /\ q.sparse = <<>>
         /\ q.phase = "gate" /\ q.mode = query.mode /\ q.outcome = query.outcome /\ q.traces = query.traces
         /\ q.errors = query.errors
    BY <2>7, <2>8, <2>9 DEF Filtered, Query
  <2>11. query.phase = "combine" /\ query' = q /\ UNCHANGED <<points, writer, seen>>
    BY <1>10, <2>4, <2>6, <2>8 DEF Combine
  <2>. QED BY <1>1, <2>9, <2>10, <2>11, <2>12, NoChunks, QueryStep DEF OutcomeOK, TypeOK
<1>11. ASSUME NEW covers \in BOOLEAN, Gate(covers) PROVE QueryInv'
  <2>1. PICK decision : decision = IF query.blocked /\ query.final = <<>> THEN "SECURITY_POLICY"
                                   ELSE Decide(query.mode, query.final, covers)
    OBVIOUS
  <2>2. decision \in {"SECURITY_POLICY", "NO_EVIDENCE", "LOW_RELEVANCE", "INSUFFICIENT_COVERAGE", "answer"}
    BY <2>1 DEF Decide
  <2>3. query.final \in Seq(Candidate) /\ query.traces = 0 /\ query.errors = 0 /\ query.outcome = "none"
        /\ query.phase = "gate" /\ query.mode \in Modes /\ Comparable(query.mode, query.final)
    BY <1>1, <1>11 DEF Query, OutcomeOK, GateOK, Gate
  <2>4. /\ decision = "answer" => query.final # <<>> /\ (FusedScoresAreLow => Relevant(query.mode, query.final))
        /\ decision = "LOW_RELEVANCE" => ~Relevant(query.mode, query.final)
    BY <2>1, <2>3, TopScoreIsRelevance DEF Decide
  <2>5. PICK p : p = [query EXCEPT !.window = <<>>]
    OBVIOUS
  <2>6. /\ p \in Query /\ p.final = query.final /\ p.mode = query.mode /\ p.traces = 0 /\ p.errors = 0
        /\ p.dense = query.dense /\ p.sparse = query.sparse
    <3>1. <<>> \in Seq(Candidate)
      OBVIOUS
    <3>. QED BY <1>1, <2>3, <2>5, <3>1 DEF Query
  <2>7. UNCHANGED <<points, writer, seen>>
    BY <1>11 DEF Gate
  <2>8. CASE decision = "answer"
    <3>1. PICK q : q = [query EXCEPT !.phase = "generate", !.window = <<>>]
      OBVIOUS
    <3>2. /\ q \in Query /\ q.final = query.final /\ q.mode = query.mode /\ q.traces = 0 /\ q.errors = 0
          /\ q.dense = query.dense /\ q.sparse = query.sparse /\ q.phase = "generate" /\ q.outcome = "none"
      <4>1. <<>> \in Seq(Candidate)
        OBVIOUS
      <4>. QED BY <1>1, <2>3, <3>1, <4>1 DEF Query
    <3>3. query' = q
      BY <1>11, <2>1, <2>8, <3>1 DEF Gate
    <3>. QED BY <1>1, <2>4, <2>7, <2>8, <3>2, <3>3, QueryStep DEF SourcesOK, TypeOK
  <2>9. CASE decision # "answer"
    <3>1. PICK q : q = Record(p, decision)
      OBVIOUS
    <3>2. decision \in Outcome /\ decision \notin {"error", "none", "answered", "INVALID_REQUEST"}
      BY <2>2, <2>9 DEF Outcome
    <3>3. /\ q \in Query /\ q.phase = "ended" /\ q.outcome = decision /\ q.traces = 1 /\ q.errors = 0
          /\ q.final = query.final /\ q.mode = query.mode /\ q.dense = query.dense /\ q.sparse = query.sparse
      BY <2>6, <3>1, <3>2, Recording
    <3>4. query' = q
      BY <1>11, <2>1, <2>5, <2>9, <3>1 DEF Gate
    <3>. QED BY <1>1, <2>4, <2>7, <3>2, <3>3, <3>4, QueryStep DEF SourcesOK, TypeOK, TracesOf, ErrorsOf
  <2>. QED BY <2>8, <2>9
<1>12. CASE Generate
  <2>1. query.phase = "generate" /\ query.traces = 0 /\ query.errors = 0 /\ "answered" \in Outcome
    BY <1>1, <1>12 DEF Generate, OutcomeOK, Outcome
  <2>2. PICK q : q = Record(query, "answered")
    OBVIOUS
  <2>3. /\ q \in Query /\ q.phase = "ended" /\ q.outcome = "answered" /\ q.traces = 1 /\ q.errors = 0
        /\ q.final = query.final /\ q.mode = query.mode /\ q.dense = query.dense /\ q.sparse = query.sparse
    BY <1>1, <2>1, <2>2, Recording
  <2>4. query' = q /\ UNCHANGED <<points, writer, seen>>
    BY <1>12, <2>2 DEF Generate
  <2>. QED BY <1>1, <2>1, <2>3, <2>4, QueryStep DEF SourcesOK, GateOK, TypeOK, TracesOf, ErrorsOf
<1>13. CASE Reply
  <2>1. PICK q : q = IdleQuery
    OBVIOUS
  <2>2. /\ q \in Query /\ q.phase = "idle" /\ q.outcome = "none" /\ q.traces = 0 /\ q.errors = 0
        /\ q.dense = <<>> /\ q.sparse = <<>> /\ q.final = <<>>
    BY <2>1, IdleIsQuery DEF IdleQuery
  <2>3. query' = q /\ seen' = {} /\ UNCHANGED <<points, writer>>
    BY <1>13, <2>1 DEF Reply
  <2>. QED BY <1>1, <2>2, <2>3, NoChunks, QueryStep
<1>. QED BY <1>2, <1>3, <1>4, <1>5, <1>6, <1>7, <1>8, <1>9, <1>10, <1>11, <1>12, <1>13, <1>14 DEF Next

-----------------------------------------------------------------------------
(* The theorems *)

\* The invariant holds, and with it the variables have the values they should.
THEOREM QueryInvariant == Spec => [](QueryInv /\ TypeOK)
<1>1. QueryInv => TypeOK
  BY DEF QueryInv
<1>. QED BY <1>1, QueryInvInit, QueryInvNext, PTL DEF Spec

\* Whatever an ingestion stages, activates, hides, discards or deletes between
\* the two searches of a query, the answer rests only on chunks that could be
\* searched in the scope of the query at some moment of it, and on no unsafe one.
THEOREM AnswersFromSearchable == Spec => []SourcesWereSearchable
<1>1. QueryInv => SourcesWereSearchable
  BY DEF QueryInv, SourcesOK, GateOK, SourcesWereSearchable
<1>. QED BY <1>1, QueryInvInit, QueryInvNext, PTL DEF Spec

\* Under any limits where no chunk of one list only is fused to a score that
\* reaches the dense minimum (FusedScoresAreLow), the gate lets a selection
\* through only with a chunk whose own score reaches its minimum; and under
\* all limits it calls a selection irrelevant only without such a chunk.
THEOREM GateJudgesRelevance == Spec => []AnswersAreRelevant
<1>1. QueryInv => AnswersAreRelevant
  BY DEF QueryInv, GateOK, Relevant, AnswersAreRelevant
<1>. QED BY <1>1, QueryInvInit, QueryInvNext, PTL DEF Spec

\* A query whose tenant or ACL tags are refused leaves no record; every other
\* one leaves one trace event or one dependency error, never both.
THEOREM QueriesLeaveARecord == Spec => []UnrecordedOnlyIfInvalid
<1>1. QueryInv => UnrecordedOnlyIfInvalid
  BY DEF QueryInv, OutcomeOK, UnrecordedOnlyIfInvalid, TracesOf, ErrorsOf
<1>. QED BY <1>1, QueryInvInit, QueryInvNext, PTL DEF Spec

\* Fusion and the evidence policy never turn the two rankings around: a chunk
\* that both of them put before another one stays before it, and the window
\* cuts off the other one first.  No chunk is in the window twice.
THEOREM FusionIsMonotone == Spec => FusionKeepsOrder
<1>1. QueryInv /\ [Next]_vars =>
        [query.phase = "combine" /\ query'.phase = "gate" /\ query.mode = "hybrid" =>
           LET window == query'.window IN
           /\ \A i, j \in DOMAIN window : window[i].chunk = window[j].chunk => i = j
           /\ \A j \in DOMAIN window, b \in ChunksOf(query.dense) \cup ChunksOf(query.sparse) :
                RankedBefore(b, window[j].chunk, query.dense, query.sparse) /\ b \notin Unsafe
                  => \E i \in 1 .. j - 1 : window[i].chunk = b]_vars
  <2>. SUFFICES ASSUME QueryInv, [Next]_vars, query.phase = "combine", query'.phase = "gate",
                       query.mode = "hybrid", NEW w, w = query'.window
       PROVE  /\ \A i, j \in DOMAIN w : w[i].chunk = w[j].chunk => i = j
              /\ \A j \in DOMAIN w, b \in ChunksOf(query.dense) \cup ChunksOf(query.sparse) :
                   RankedBefore(b, w[j].chunk, query.dense, query.sparse) /\ b \notin Unsafe
                     => \E i \in 1 .. j - 1 : w[i].chunk = b
    OBVIOUS
  <2>1. query \in Query
    BY DEF QueryInv, TypeOK
  <2>2. PICK dense \in Seq(Hit), sparse \in Seq(Hit) : dense = query.dense /\ sparse = query.sparse
    BY <2>1 DEF Query
  <2>3. PICK full : full = Fuse(dense, sparse, Window(TopK))
    OBVIOUS
  <2>4. w = Safe(full)
    <3>1. Combine
      <4>1. query' # query
        OBVIOUS
      <4>2. \A outcome, q : q \in Query => Record(q, outcome).phase = "ended"
        BY DEF Record, Query
      <4>3. ~(RetrievalRejected \/ RetrievalFails \/ GenerationFails \/ Generate \/ Reply \/ \E covers \in BOOLEAN : Gate(covers))
        BY <2>1 DEF RetrievalRejected, RetrievalFails, GenerationFails, Generate, Reply, Gate, Query
      <4>4. ~(SearchDense \/ SearchSparse)
        BY DEF SearchDense, SearchSparse
      <4>5. ~ \E mode \in Modes : AskBlocked(mode) \/ \E scope \in Scopes : Ask(mode, scope)
        BY DEF AskBlocked, Ask
      <4>6. ~((\E v \in Versions : Stage(v)) \/ Discard \/ Publish \/ HideOthers \/ \E d \in Docs : Delete(d))
        BY <4>1 DEF Stage, Discard, Publish, HideOthers, Delete
      <4>. QED BY <4>1, <4>3, <4>4, <4>5, <4>6 DEF Next, vars
    <3>2. full = CandidateWindow(query.mode, query.dense, query.sparse, TopK)
      BY <2>2, <2>3 DEF CandidateWindow
    <3>3. PICK final : query' = Filtered([query EXCEPT !.window = full, !.final = final,
                         !.dense = <<>>, !.sparse = <<>>, !.scope = {}, !.phase = "gate"])
      BY <3>1, <3>2 DEF Combine
    <3>4. PICK p : p = [query EXCEPT !.window = full, !.final = final,
                          !.dense = <<>>, !.sparse = <<>>, !.scope = {}, !.phase = "gate"]
      OBVIOUS
    <3>5. p.window = full /\ p = [p EXCEPT !.window = full]
      BY <2>1, <3>4 DEF Query
    <3>6. DOMAIN p = DOMAIN query /\ "window" \in DOMAIN p
      BY <2>1, <3>4 DEF Query
    <3>7. Filtered(p).window = Safe(full)
      BY <3>5, <3>6 DEF Filtered
    <3>. QED BY <3>3, <3>4, <3>7
  <2>5. /\ full \in Seq(Candidate)
        /\ ChunksOf(full) \subseteq FusedChunks(dense, sparse)
        /\ \A i, j \in DOMAIN full : full[i].chunk = full[j].chunk => i = j
        /\ \A j \in DOMAIN full : \A b \in FusedChunks(dense, sparse) :
             <<b, full[j].chunk>> \in FusedOrder(dense, sparse) =>
               \E i \in DOMAIN full : i < j /\ full[i].chunk = b
    <3>1. Window(TopK) \in Nat
      BY Limits
    <3>2. Lists(full, FusedChunks(dense, sparse), FusedOrder(dense, sparse))
      BY <2>3, <3>1, Fusing
    <3>. QED BY <3>2 DEF Lists
  <2>6. w \in Seq(Candidate)
    BY <2>4, <2>5, Sieving
  <2>7. PICK at : /\ \A k \in DOMAIN w : at[k] \in DOMAIN full /\ w[k] = full[at[k]]
                  /\ \A k, l \in DOMAIN w : (at[k] = at[l] => k = l) /\ (at[k] < at[l] => k < l)
                  /\ \A i \in DOMAIN full : full[i].chunk \notin Unsafe => \E k \in DOMAIN w : at[k] = i
    <3>1. Keeps(w, full)
      BY <2>4, <2>5, Sieving
    <3>. QED BY <3>1 DEF Keeps
  <2>8. \A i, j \in DOMAIN w : w[i].chunk = w[j].chunk => i = j
    BY <2>5, <2>7
  <2>9. ASSUME NEW j \in DOMAIN w, NEW b \in FusedChunks(dense, sparse),
               RankedBefore(b, w[j].chunk, dense, sparse), b \notin Unsafe
        PROVE  \E i \in 1 .. j - 1 : w[i].chunk = b
    <3>1. PICK c : c = w[j].chunk
      OBVIOUS
    <3>2. c = full[at[j]].chunk /\ at[j] \in DOMAIN full /\ c \in FusedChunks(dense, sparse)
      BY <2>5, <2>7, <3>1 DEF ChunksOf
    <3>3. Greater(FusedOf(dense, sparse, b), FusedOf(dense, sparse, c))
      <4>1. /\ RankIn(dense, b) \in Nat /\ RankIn(sparse, b) \in Nat
            /\ RankIn(dense, c) \in Nat /\ RankIn(sparse, c) \in Nat
            /\ RankIn(dense, b) # 0 \/ RankIn(sparse, b) # 0
            /\ RankIn(dense, c) # 0 \/ RankIn(sparse, c) # 0
        BY <3>2, RankInList DEF FusedChunks
      <4>2. RankedBefore(b, c, dense, sparse)
        BY <2>9, <3>1
      <4>. QED BY <4>1, <4>2, FusedMonotone DEF RankedBefore, FusedOf
    <3>4. <<b, full[at[j]].chunk>> \in FusedOrder(dense, sparse)
      BY <3>2, <3>3 DEF FusedOrder
    <3>5. PICK i \in DOMAIN full : i < at[j] /\ full[i].chunk = b
      BY <2>5, <3>2, <3>4
    <3>6. PICK k \in DOMAIN w : at[k] = i
      BY <2>7, <2>9, <3>5
    <3>7. k < j /\ w[k].chunk = b
      BY <2>7, <3>5, <3>6
    <3>8. k \in Nat \ {0} /\ j \in Nat
      BY <2>6
    <3>. QED BY <3>7, <3>8
  <2>. QED BY <2>2, <2>8, <2>9 DEF FusedChunks
<1>. QED BY <1>1, QueryInvInit, QueryInvNext, PTL DEF Spec, FusionKeepsOrder
=============================================================================
