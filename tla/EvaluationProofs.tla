--------------------------- MODULE EvaluationProofs ---------------------------
(***************************************************************************)
(* Theorems about EvaluationRuns, for any dataset, any number of runs and  *)
(* cases, any resolution of the scores and any cost of a wrong answer.     *)
(*                                                                         *)
(* A report is honest because a run computes its metrics twice from the    *)
(* same observations and never opens its artifact again.  A calibrated     *)
(* threshold is best because every threshold decides the measured cases    *)
(* like one of the candidates, and because the candidates have a best one. *)
(***************************************************************************)
EXTENDS EvaluationRuns, FiniteSetTheorems, WellFoundedInduction, TLAPS

-----------------------------------------------------------------------------
(* Counting *)

\* Sets of cases can be counted.
LEMMA CasesFinite == \A S \in SUBSET Cases : IsFiniteSet(S) /\ Cardinality(S) \in Nat
BY EvaluationAssumption, FS_Subset, FS_CardinalityType

\* The counts of a gate run add up.
LEMMA ConfusionAddsUp ==
  ASSUME NEW S \in SUBSET Cases, NEW A \in SUBSET S
  PROVE  LET m == Confusion(S, A) IN
         m.predicted_answerable = m.expected_answerable - m.false_positive + m.false_negative
<1>. DEFINE E == Answerable(S)
<1>1. E \in SUBSET Cases /\ A \in SUBSET Cases /\ E \cap A \in SUBSET Cases
      /\ E \ A \in SUBSET Cases /\ A \ E \in SUBSET Cases
  BY DEF Answerable
<1>2. IsFiniteSet(E) /\ IsFiniteSet(A)
      /\ Cardinality(E) \in Nat /\ Cardinality(A) \in Nat /\ Cardinality(E \cap A) \in Nat
  BY <1>1, CasesFinite
<1>3. Cardinality(E \ A) = Cardinality(E) - Cardinality(E \cap A)
  BY <1>2, FS_Difference
<1>4. Cardinality(A \ E) = Cardinality(A) - Cardinality(A \cap E)
  BY <1>2, FS_Difference
<1>5. A \cap E = E \cap A
  OBVIOUS
<1>6. Cardinality(A) = Cardinality(E) - Cardinality(E \ A) + Cardinality(A \ E)
  BY <1>2, <1>3, <1>4, <1>5
<1>. QED BY <1>6 DEF Confusion

-----------------------------------------------------------------------------
(* The values of the variables *)

Statuses == {"none", "QUEUED", "RUNNING", "SUCCEEDED", "FAILED"}
Steps == {"none", "start", "execute", "open", "write", "complete", "done"}

AnyMetrics ==
  {NoMetrics}
  \cup [expected_answerable : Nat, predicted_answerable : Nat, false_positive : Nat, false_negative : Nat]
  \cup [query_count : Nat, recall_at_1 : Nat, recall_at_3 : Nat]

\* What a run of this kind may have observed.
Observed(r) == [Selected(Request[r].split) -> Outcomes(Request[r].type)]
AnySeen == {<<>>} \cup UNION {[S -> Int] : S \in SUBSET Cases}

ShapeOK ==
  /\ golden \in Goldens
  /\ registry \in [Runs -> [status : Statuses, metrics : AnyMetrics]]
  /\ task \in [Runs -> [step : Steps, seen : AnySeen]]
  /\ files \in [Runs -> [written : {"no", "part", "all"}, seen : AnySeen, metrics : AnyMetrics]]
  /\ calibrated \in [Runs -> [made : BOOLEAN, threshold : 0 .. 2 * MaxScore]]

\* Outcomes are numbers.
LEMMA ObservedIsSeen == \A r \in Runs : Observed(r) \subseteq AnySeen
<1>. SUFFICES ASSUME NEW r \in Runs, NEW seen \in Observed(r) PROVE seen \in AnySeen
  OBVIOUS
<1>1. Outcomes(Request[r].type) \subseteq Int
  BY EvaluationAssumption DEF Outcomes, None, Outage, BelowZero, Ranks
<1>2. Selected(Request[r].split) \in SUBSET Cases
  BY DEF Selected
<1>3. seen \in [Selected(Request[r].split) -> Int]
  BY <1>1 DEF Observed
<1>. QED BY <1>2, <1>3 DEF AnySeen

\* Metrics are counts.
LEMMA MetricsCount ==
  ASSUME NEW S \in SUBSET Cases, NEW seen, NEW type
  PROVE  Metrics(type, S, seen) \in AnyMetrics
<1>1. Answered(S, seen) \in SUBSET Cases /\ Answerable(S) \in SUBSET Cases
  BY DEF Answered, Answerable
<1>2. Confusion(S, Answered(S, seen)) \in AnyMetrics
  <2>1. /\ Cardinality(Answerable(S)) \in Nat /\ Cardinality(Answered(S, seen)) \in Nat
        /\ Cardinality(Answerable(S) \ Answered(S, seen)) \in Nat
        /\ Cardinality(Answered(S, seen) \ Answerable(S)) \in Nat
    <3>1. Answerable(S) \ Answered(S, seen) \in SUBSET Cases /\ Answered(S, seen) \ Answerable(S) \in SUBSET Cases
      BY <1>1
    <3>. QED BY <1>1, <3>1, CasesFinite
  <2>. QED BY <2>1 DEF Confusion, AnyMetrics
<1>3. ASSUME NEW k \in Nat PROVE Recalled(S, seen, k) \in Nat
  <2>1. {c \in Answerable(S) : seen[c] \in 1 .. k} \in SUBSET Cases
    BY <1>1
  <2>. QED BY <2>1, CasesFinite DEF Recalled
<1>4. Cardinality(Answerable(S)) \in Nat
  BY <1>1, CasesFinite
<1>. QED BY <1>2, <1>3, <1>4 DEF Metrics, AnyMetrics

-----------------------------------------------------------------------------
(* The invariant *)

StepOK ==
  \A r \in Runs :
    /\ task[r].step \in {"none", "done"} <=> registry[r].status \in {"none", "SUCCEEDED", "FAILED"}
    /\ task[r].step \in {"open", "write", "complete"} => task[r].seen \in Observed(r)

\* A whole artifact holds the observations of its run and what they amount to,
\* and its run is past writing.
ArtifactOK ==
  \A r \in Runs :
    /\ files[r].written = "all" =>
         /\ task[r].step \in {"complete", "done"}
         /\ files[r].seen \in Observed(r)
         /\ files[r].metrics = Metrics(Request[r].type, Selected(Request[r].split), files[r].seen)
    /\ task[r].step = "complete" => files[r].written = "all" /\ files[r].seen = task[r].seen
    /\ registry[r].status = "SUCCEEDED" =>
         files[r].written = "all" /\ registry[r].metrics = files[r].metrics

\* A threshold stands for the artifact it was computed from.
CalibratedOK ==
  \A r \in Runs : calibrated[r].made =>
    /\ files[r].written = "all"
    /\ CalibrationCases \subseteq Calibrable(files[r].seen)
    /\ CalibrationCases # {}
    /\ calibrated[r].threshold = Threshold(Calibrable(files[r].seen), files[r].seen)

EvalInv == ShapeOK /\ StepOK /\ ArtifactOK /\ CalibratedOK

-----------------------------------------------------------------------------
(* The best threshold *)

\* Every nonempty set of natural numbers has a least one.
LEMMA LeastNumber ==
  ASSUME NEW S \in SUBSET Nat, S # {}
  PROVE  \E n \in S : \A m \in S : n <= m
<1>1. PICK k \in S : TRUE
  OBVIOUS
<1>. DEFINE F == {1 .. n : n \in {m \in S : m <= k}}
<1>2. IsFiniteSet(1 .. k)
  BY FS_Interval
<1>3. PICK R : R = StrictSubsetOrdering(1 .. k)
  OBVIOUS
<1>4. PICK D : D = FiniteSubsetsOf(1 .. k)
  OBVIOUS
<1>5. IsWellFoundedOn(R, D)
  BY <1>2, <1>3, <1>4, FS_StrictSubsetOrderingWellFounded
<1>6. F \subseteq D /\ F # {}
  <2>1. \A n \in S : n <= k => (1 .. n) \subseteq (1 .. k)
    OBVIOUS
  <2>2. D = SUBSET (1 .. k)
    BY <1>2, <1>4, FS_FiniteSubsetsOfFinite
  <2>. QED BY <2>1, <2>2
<1>7. PICK X \in F : \A Y \in F : ~(<<Y, X>> \in R)
  BY <1>5, <1>6, WFMin
<1>8. PICK n \in S : n <= k /\ X = 1 .. n
  BY <1>7
<1>9. ASSUME NEW m \in S, m < n PROVE FALSE
  <2>1. (1 .. m) \in F /\ (1 .. m) \subseteq X /\ (1 .. m) # X
    <3>1. n \in X /\ n \notin 1 .. m
      BY <1>8, <1>9
    <3>. QED BY <1>8, <1>9, <3>1
  <2>2. <<1 .. m, X>> \in R
    BY <1>3, <1>8, <2>1 DEF StrictSubsetOrdering
  <2>. QED BY <1>7, <2>1, <2>2
<1>. QED BY <1>8, <1>9

\* And every nonempty bounded one a greatest.
LEMMA GreatestNumber ==
  ASSUME NEW b \in Nat, NEW S \in SUBSET (0 .. b), S # {}
  PROVE  \E n \in S : \A m \in S : m <= n
<1>. DEFINE T == {b - n : n \in S}
<1>1. ASSUME NEW n \in S PROVE n \in Nat /\ n <= b /\ b - n \in Nat
  <2>1. n \in 0 .. b
    OBVIOUS
  <2>. QED BY <2>1
<1>2. T \in SUBSET Nat /\ T # {}
  BY <1>1
<1>3. PICK k \in T : \A m \in T : k <= m
  BY <1>2, LeastNumber
<1>4. PICK n \in S : k = b - n
  BY <1>3
<1>5. ASSUME NEW m \in S PROVE m <= n
  <2>1. b - n <= b - m
    BY <1>3, <1>4
  <2>. QED BY <1>1, <2>1
<1>. QED BY <1>5

\* The mistakes of a threshold are counts.
LEMMA MistakesCount ==
  ASSUME NEW S \in SUBSET Cases, NEW seen, NEW t
  PROVE  /\ Mistakes(S, seen, t).false_positive \in Nat
         /\ Mistakes(S, seen, t).false_negative \in Nat
         /\ Objective(Mistakes(S, seen, t)) \in Nat
<1>. DEFINE A == {c \in S : 2 * seen[c] >= t}
<1>1. Answerable(S) \ A \in SUBSET Cases /\ A \ Answerable(S) \in SUBSET Cases
  BY DEF Answerable
<1>2. Cardinality(Answerable(S) \ A) \in Nat /\ Cardinality(A \ Answerable(S)) \in Nat
  BY <1>1, CasesFinite
<1>3. /\ Mistakes(S, seen, t).false_positive = Cardinality(Answerable(S) \ A)
      /\ Mistakes(S, seen, t).false_negative = Cardinality(A \ Answerable(S))
  BY DEF Mistakes, Confusion
<1>4. \A n \in Nat : Cost * n \in Nat
  BY EvaluationAssumption
<1>5. \A m, n \in Nat : m + Cost * n \in Nat
  BY <1>4
<1>. QED BY <1>2, <1>3, <1>5 DEF Objective

\* Candidates are thresholds.
LEMMA CandidatesRange ==
  ASSUME NEW S \in SUBSET Cases, NEW seen, \A c \in S : seen[c] \in 0 .. MaxScore
  PROVE  Candidates(S, seen) \in SUBSET (0 .. 2 * MaxScore)
<1>1. ASSUME NEW c \in S, NEW d \in S PROVE seen[c] + seen[d] \in 0 .. 2 * MaxScore
  BY EvaluationAssumption
<1>2. {0, 2 * MaxScore} \subseteq 0 .. 2 * MaxScore
  BY EvaluationAssumption
<1>. QED BY <1>1, <1>2 DEF Candidates

\* One of the candidates is better than all others.
LEMMA ThresholdExists ==
  ASSUME NEW S \in SUBSET Cases, NEW seen, \A c \in S : seen[c] \in 0 .. MaxScore
  PROVE  /\ Threshold(S, seen) \in Candidates(S, seen)
         /\ \A u \in Candidates(S, seen) \ {Threshold(S, seen)} : Better(S, seen, Threshold(S, seen), u)
<1>. DEFINE C == Candidates(S, seen)
            obj(t) == Objective(Mistakes(S, seen, t))
            bad(t) == Mistakes(S, seen, t).false_negative
<1>1. C \in SUBSET (0 .. 2 * MaxScore) /\ C # {} /\ 2 * MaxScore \in Nat
  BY CandidatesRange, EvaluationAssumption DEF Candidates
<1>2. \A t \in C : obj(t) \in Nat /\ bad(t) \in Nat
  BY MistakesCount
<1>3. PICK o \in Nat : (\E t \in C : obj(t) = o) /\ \A t \in C : o <= obj(t)
  <2>1. {obj(t) : t \in C} \in SUBSET Nat /\ {obj(t) : t \in C} # {}
    BY <1>1, <1>2
  <2>2. PICK n \in {obj(t) : t \in C} : \A m \in {obj(t) : t \in C} : n <= m
    BY <2>1, LeastNumber
  <2>. QED BY <1>2, <2>2
<1>. DEFINE C1 == {t \in C : obj(t) = o}
<1>4. PICK b \in Nat : (\E t \in C1 : bad(t) = b) /\ \A t \in C1 : b <= bad(t)
  <2>1. {bad(t) : t \in C1} \in SUBSET Nat /\ {bad(t) : t \in C1} # {}
    BY <1>2, <1>3
  <2>2. PICK n \in {bad(t) : t \in C1} : \A m \in {bad(t) : t \in C1} : n <= m
    BY <2>1, LeastNumber
  <2>. QED BY <1>2, <2>2
<1>. DEFINE C2 == {t \in C1 : bad(t) = b}
<1>5. PICK best \in C2 : \A t \in C2 : t <= best
  <2>1. C2 \in SUBSET (0 .. 2 * MaxScore) /\ C2 # {}
    BY <1>1, <1>4
  <2>. QED BY <1>1, <2>1, GreatestNumber
<1>6. ASSUME NEW u \in C, u # best PROVE Better(S, seen, best, u)
  <2>1. best \in C /\ obj(best) = o /\ bad(best) = b /\ best \in Nat /\ u \in Nat
    BY <1>1, <1>5
  <2>2. obj(u) \in Nat /\ bad(u) \in Nat /\ o <= obj(u)
    BY <1>2, <1>3
  <2>3. obj(u) = o => b <= bad(u)
    BY <1>4
  <2>4. obj(u) = o /\ bad(u) = b => u <= best
    BY <1>5
  <2>5. \/ obj(best) < obj(u)
        \/ obj(best) = obj(u) /\ bad(best) < bad(u)
        \/ obj(best) = obj(u) /\ bad(best) = bad(u) /\ best > u
    BY <1>6, <2>1, <2>2, <2>3, <2>4
  <2>. QED BY <2>5 DEF Better
<1>7. \E t \in C : \A u \in C \ {t} : Better(S, seen, t, u)
  BY <1>5, <1>6
<1>. QED BY <1>7 DEF Threshold

\* Every threshold decides the cases like one of the candidates: like the
\* lowest or the highest, or like the middle of the two scores around it.
LEMMA CandidatesSuffice ==
  ASSUME NEW S \in SUBSET Cases, NEW seen, \A c \in S : seen[c] \in 0 .. MaxScore,
         NEW t \in 0 .. 2 * MaxScore
  PROVE  \E u \in Candidates(S, seen) :
           {c \in S : 2 * seen[c] >= t} = {c \in S : 2 * seen[c] >= u}
<1>. DEFINE Up == {seen[c] : c \in {d \in S : 2 * seen[d] >= t}}
            Down == {seen[c] : c \in {d \in S : ~(2 * seen[d] >= t)}}
<1>1. MaxScore \in Nat /\ \A c \in S : seen[c] \in Nat /\ seen[c] <= MaxScore
  BY EvaluationAssumption
<1>2. Up \in SUBSET (0 .. MaxScore) /\ Down \in SUBSET (0 .. MaxScore) /\ Up \in SUBSET Nat
  OBVIOUS
<1>3. CASE Up = {}
  <2>1. \A c \in S : ~(2 * seen[c] >= t) /\ ~(2 * seen[c] >= 2 * MaxScore)
    BY <1>1, <1>3
  <2>. QED BY <2>1 DEF Candidates
<1>4. CASE Down = {}
  <2>1. \A c \in S : 2 * seen[c] >= t
    BY <1>4
  <2>2. \A c \in S : 2 * seen[c] >= 0
    BY <1>1
  <2>. QED BY <2>1, <2>2 DEF Candidates
<1>5. CASE Up # {} /\ Down # {}
  <2>1. PICK high \in Up : \A n \in Up : high <= n
    BY <1>2, <1>5, LeastNumber
  <2>2. PICK low \in Down : \A n \in Down : n <= low
    BY <1>1, <1>2, <1>5, GreatestNumber
  <2>3. PICK c \in S : high = seen[c] /\ 2 * seen[c] >= t
    BY <2>1
  <2>4. PICK d \in S : low = seen[d] /\ ~(2 * seen[d] >= t)
    BY <2>2
  <2>5. low \in Nat /\ high \in Nat /\ low < high
    BY <1>1, <2>3, <2>4
  <2>6. \A e \in S : /\ 2 * seen[e] >= t => high <= seen[e]
                     /\ ~(2 * seen[e] >= t) => seen[e] <= low
    BY <2>1, <2>2
  <2>7. ~ \E e \in S : seen[d] < seen[e] /\ seen[e] < seen[c]
    BY <1>1, <2>3, <2>4, <2>5, <2>6
  <2>8. seen[d] + seen[c] \in Candidates(S, seen)
    <3>1. <<d, c>> \in {q \in S \X S : /\ seen[q[1]] < seen[q[2]]
                                      /\ ~ \E e \in S : seen[q[1]] < seen[e] /\ seen[e] < seen[q[2]]}
      BY <2>3, <2>4, <2>5, <2>7
    <3>2. PICK p : p = <<d, c>>
      OBVIOUS
    <3>3. seen[d] + seen[c] = seen[p[1]] + seen[p[2]]
      BY <3>2
    <3>. QED BY <3>1, <3>2, <3>3 DEF Candidates
  <2>9. \A e \in S : 2 * seen[e] >= t <=> 2 * seen[e] >= low + high
    BY <1>1, <2>5, <2>6
  <2>. QED BY <2>3, <2>4, <2>8, <2>9
<1>. QED BY <1>3, <1>4, <1>5

\* No threshold costs less on the cases than the chosen one.
LEMMA ThresholdOptimal ==
  ASSUME NEW S \in SUBSET Cases, NEW seen, \A c \in S : seen[c] \in 0 .. MaxScore,
         NEW t \in 0 .. 2 * MaxScore
  PROVE  LET a == Mistakes(S, seen, Threshold(S, seen))
             b == Mistakes(S, seen, t)
         IN \/ Objective(a) < Objective(b)
            \/ Objective(a) = Objective(b) /\ a.false_negative <= b.false_negative
<1>1. PICK best : best = Threshold(S, seen)
  OBVIOUS
<1>2. PICK u \in Candidates(S, seen) : {c \in S : 2 * seen[c] >= t} = {c \in S : 2 * seen[c] >= u}
  BY CandidatesSuffice
<1>3. Mistakes(S, seen, u) = Mistakes(S, seen, t)
  BY <1>2 DEF Mistakes
<1>4. u = best \/ Better(S, seen, best, u)
  BY <1>1, <1>2, ThresholdExists
<1>5. /\ Objective(Mistakes(S, seen, best)) \in Nat /\ Mistakes(S, seen, best).false_negative \in Nat
      /\ Objective(Mistakes(S, seen, t)) \in Nat /\ Mistakes(S, seen, t).false_negative \in Nat
  BY MistakesCount
<1>. QED BY <1>1, <1>3, <1>4, <1>5 DEF Better

-----------------------------------------------------------------------------
(* Every step preserves the invariant *)

\* Nothing has been asked at first.
LEMMA EvalInvInit == Init => EvalInv
<1>. SUFFICES ASSUME Init PROVE EvalInv
  OBVIOUS
<1>1. NoMetrics \in AnyMetrics /\ <<>> \in AnySeen /\ 0 \in 0 .. 2 * MaxScore
  BY EvaluationAssumption DEF AnyMetrics, AnySeen
<1>2. ShapeOK
  BY <1>1 DEF Init, ShapeOK, NoRun, NoTask, NoFile, NoResult, Statuses, Steps
<1>3. StepOK /\ ArtifactOK /\ CalibratedOK
  BY DEF Init, StepOK, ArtifactOK, CalibratedOK, NoRun, NoTask, NoFile, NoResult
<1>. QED BY <1>2, <1>3 DEF EvalInv

\* The dataset stays, and so does what is computed from it.
LEMMA SameDataset ==
  ASSUME UNCHANGED golden
  PROVE  /\ \A q \in Runs : Observed(q)' = Observed(q)
         /\ \A s : Selected(s)' = Selected(s)
         /\ \A t, S, seen : Metrics(t, S, seen)' = Metrics(t, S, seen)
         /\ CalibrationCases' = CalibrationCases
         /\ \A seen : Calibrable(seen)' = Calibrable(seen)
         /\ \A S, seen : Threshold(S, seen)' = Threshold(S, seen)
<1>1. \A q \in Runs : Observed(q)' = Observed(q)
  BY DEF Observed, Selected
<1>2. \A s : Selected(s)' = Selected(s)
  BY DEF Selected
<1>3. \A t, S, seen : Metrics(t, S, seen)' = Metrics(t, S, seen)
  BY DEF Metrics, Confusion, Answered, Answerable, Recalled
<1>4. CalibrationCases' = CalibrationCases
  BY DEF CalibrationCases
<1>5. \A seen : Calibrable(seen)' = Calibrable(seen)
  BY <1>4 DEF Calibrable
<1>6. \A S, seen : Threshold(S, seen)' = Threshold(S, seen)
  BY DEF Threshold, Candidates, Better, Mistakes, Objective, Confusion, Answerable
<1>. QED BY <1>1, <1>2, <1>3, <1>4, <1>5, <1>6

\* The steps of a run with the registry and its task only.
LEMMA RunStep ==
  ASSUME EvalInv, NEW r \in Runs, UNCHANGED <<golden, files, calibrated>>,
         NEW run \in [status : Statuses, metrics : AnyMetrics],
         NEW tsk \in [step : Steps, seen : AnySeen],
         registry' = [registry EXCEPT ![r] = run], task' = [task EXCEPT ![r] = tsk],
         tsk.step \in {"none", "done"} <=> run.status \in {"none", "SUCCEEDED", "FAILED"},
         tsk.step \in {"open", "write", "complete"} => tsk.seen \in Observed(r),
         files[r].written = "all" => tsk.step = "done",
         tsk.step # "complete",
         run.status = "SUCCEEDED" => files[r].written = "all" /\ run.metrics = files[r].metrics
  PROVE  EvalInv'
<1>1. ShapeOK /\ StepOK /\ ArtifactOK /\ CalibratedOK
  BY DEF EvalInv
<1>2. \A q \in Runs : /\ registry'[q] = IF q = r THEN run ELSE registry[q]
                      /\ task'[q] = IF q = r THEN tsk ELSE task[q]
  BY <1>1 DEF ShapeOK
<1>3. ShapeOK'
  BY <1>1 DEF ShapeOK
<1>4. \A q \in Runs : Observed(q)' = Observed(q)
  BY SameDataset
<1>5. StepOK'
  BY <1>1, <1>2, <1>4 DEF StepOK
<1>6. \A q \in Runs : Metrics(Request[q].type, Selected(Request[q].split), files[q].seen)' =
                      Metrics(Request[q].type, Selected(Request[q].split), files[q].seen)
  BY SameDataset
<1>7. ArtifactOK'
  <2>. SUFFICES ASSUME NEW q \in Runs
       PROVE  /\ files[q].written = "all" =>
                  /\ task'[q].step \in {"complete", "done"}
                  /\ files[q].seen \in Observed(q)
                  /\ files[q].metrics = Metrics(Request[q].type, Selected(Request[q].split), files[q].seen)
              /\ task'[q].step = "complete" => files[q].written = "all" /\ files[q].seen = task'[q].seen
              /\ registry'[q].status = "SUCCEEDED" =>
                   files[q].written = "all" /\ registry'[q].metrics = files[q].metrics
    BY <1>4, <1>6 DEF ArtifactOK
  <2>1. CASE q = r
    BY <1>1, <1>2, <2>1 DEF ArtifactOK
  <2>2. CASE q # r
    BY <1>1, <1>2, <2>2 DEF ArtifactOK
  <2>. QED BY <2>1, <2>2
<1>8. CalibratedOK'
  BY <1>1, SameDataset DEF CalibratedOK
<1>. QED BY <1>3, <1>5, <1>7, <1>8 DEF EvalInv

\* The steps of a run with its artifact.
LEMMA FileStep ==
  ASSUME EvalInv, NEW r \in Runs, UNCHANGED <<golden, registry, calibrated>>,
         NEW file \in [written : {"no", "part", "all"}, seen : AnySeen, metrics : AnyMetrics],
         NEW step \in {"write", "complete"},
         files' = [files EXCEPT ![r] = file], task' = [task EXCEPT ![r].step = step],
         task[r].step \in {"open", "write"},
         file.written = "all" <=> step = "complete",
         file.written = "all" =>
           /\ file.seen = task[r].seen
           /\ file.metrics = Metrics(Request[r].type, Selected(Request[r].split), file.seen)
  PROVE  EvalInv'
<1>1. ShapeOK /\ StepOK /\ ArtifactOK /\ CalibratedOK
  BY DEF EvalInv
<1>2. /\ task'[r].step = step /\ task'[r].seen = task[r].seen /\ files'[r] = file
      /\ \A q \in Runs : q # r => task'[q] = task[q] /\ files'[q] = files[q]
  BY <1>1 DEF ShapeOK
<1>3. ShapeOK'
  BY <1>1 DEF ShapeOK, Steps
<1>4. StepOK'
  <2>1. \A q \in Runs : Observed(q)' = Observed(q)
    BY SameDataset
  <2>. QED BY <1>1, <1>2, <2>1 DEF StepOK
<1>5. files[r].written # "all" /\ registry[r].status # "SUCCEEDED"
  BY <1>1 DEF ArtifactOK, StepOK
<1>6. ArtifactOK'
  <2>. SUFFICES ASSUME NEW q \in Runs
       PROVE  /\ files'[q].written = "all" =>
                  /\ task'[q].step \in {"complete", "done"}
                  /\ files'[q].seen \in Observed(q)
                  /\ files'[q].metrics = Metrics(Request[q].type, Selected(Request[q].split), files'[q].seen)
              /\ task'[q].step = "complete" => files'[q].written = "all" /\ files'[q].seen = task'[q].seen
              /\ registry[q].status = "SUCCEEDED" =>
                   files'[q].written = "all" /\ registry[q].metrics = files'[q].metrics
    <3>1. \A q \in Runs : Observed(q)' = Observed(q)
      BY SameDataset
    <3>2. \A q \in Runs : Metrics(Request[q].type, Selected(Request[q].split), files[q].seen)' =
                          Metrics(Request[q].type, Selected(Request[q].split), files'[q].seen)
      BY DEF Metrics, Selected, Confusion, Answered, Answerable, Recalled
    <3>. QED BY <3>1, <3>2 DEF ArtifactOK
  <2>1. CASE q = r
    BY <1>1, <1>2, <1>5, <2>1 DEF StepOK
  <2>2. CASE q # r
    BY <1>1, <1>2, <2>2 DEF ArtifactOK
  <2>. QED BY <2>1, <2>2
<1>7. CalibratedOK'
  <2>1. CalibratedOK' <=>
          \A q \in Runs : calibrated[q].made =>
            /\ files'[q].written = "all"
            /\ CalibrationCases \subseteq Calibrable(files'[q].seen)
            /\ CalibrationCases # {}
            /\ calibrated[q].threshold = Threshold(Calibrable(files'[q].seen), files'[q].seen)
    BY DEF CalibratedOK, CalibrationCases, Calibrable, Threshold, Candidates, Better, Mistakes,
           Objective, Confusion, Answerable
  <2>2. ASSUME NEW q \in Runs, calibrated[q].made PROVE files'[q] = files[q]
    BY <1>1, <1>2, <1>5, <2>2 DEF CalibratedOK
  <2>. QED BY <1>1, <2>1, <2>2 DEF CalibratedOK
<1>. QED BY <1>3, <1>4, <1>6, <1>7 DEF EvalInv

\* Every action keeps the invariant.
LEMMA EvalInvNext == EvalInv /\ [Next]_vars => EvalInv'
<1>. SUFFICES ASSUME EvalInv, [Next]_vars PROVE EvalInv'
  OBVIOUS
<1>1. ShapeOK /\ StepOK /\ ArtifactOK /\ CalibratedOK
  BY DEF EvalInv
<1>2. \A r \in Runs : /\ registry[r] \in [status : Statuses, metrics : AnyMetrics]
                      /\ task[r] \in [step : Steps, seen : AnySeen]
  BY <1>1 DEF ShapeOK
<1>3. <<>> \in AnySeen /\ NoMetrics \in AnyMetrics
  BY DEF AnySeen, AnyMetrics
<1>4. CASE UNCHANGED vars
  <2>1. UNCHANGED golden
    BY <1>4 DEF vars
  <2>. QED BY <1>1, <1>4, <2>1, SameDataset
           DEF EvalInv, vars, ShapeOK, StepOK, ArtifactOK, CalibratedOK
<1>5. ASSUME NEW r \in Runs, Create(r) PROVE EvalInv'
  <2>1. PICK run : run = [registry[r] EXCEPT !.status = "QUEUED"]
    OBVIOUS
  <2>2. PICK tsk : tsk = [task[r] EXCEPT !.step = "start"]
    OBVIOUS
  <2>3. run \in [status : Statuses, metrics : AnyMetrics] /\ run.status = "QUEUED"
    BY <1>2, <2>1 DEF Statuses
  <2>4. tsk \in [step : Steps, seen : AnySeen] /\ tsk.step = "start"
    BY <1>2, <2>2 DEF Steps
  <2>5. registry' = [registry EXCEPT ![r] = run] /\ task' = [task EXCEPT ![r] = tsk]
    BY <1>5, <2>1, <2>2 DEF Create
  <2>6. files[r].written # "all"
    BY <1>1, <1>5 DEF Create, NoTask, ArtifactOK
  <2>. QED BY <1>5, <2>3, <2>4, <2>5, <2>6, RunStep DEF Create
<1>6. ASSUME NEW r \in Runs, Start(r) PROVE EvalInv'
  <2>1. PICK run : run = [registry[r] EXCEPT !.status = "RUNNING"]
    OBVIOUS
  <2>2. PICK tsk : tsk = [task[r] EXCEPT !.step = "execute"]
    OBVIOUS
  <2>3. run \in [status : Statuses, metrics : AnyMetrics] /\ run.status = "RUNNING"
    BY <1>2, <2>1 DEF Statuses
  <2>4. tsk \in [step : Steps, seen : AnySeen] /\ tsk.step = "execute"
    BY <1>2, <2>2 DEF Steps
  <2>5. registry' = [registry EXCEPT ![r] = run] /\ task' = [task EXCEPT ![r] = tsk]
    BY <1>6, <2>1, <2>2 DEF Start
  <2>6. files[r].written # "all"
    BY <1>1, <1>6 DEF Start, ArtifactOK
  <2>. QED BY <1>6, <2>3, <2>4, <2>5, <2>6, RunStep DEF Start
<1>7. ASSUME NEW r \in Runs, Execute(r) PROVE EvalInv'
  <2>1. PICK seen \in Observed(r) : task' = [task EXCEPT ![r] = [step |-> "open", seen |-> seen]]
    BY <1>7 DEF Execute, Observed
  <2>2. PICK tsk : tsk = [step |-> "open", seen |-> seen]
    OBVIOUS
  <2>3. tsk \in [step : Steps, seen : AnySeen] /\ tsk.step = "open" /\ tsk.seen = seen
    BY <2>2, ObservedIsSeen DEF Steps
  <2>4. registry' = [registry EXCEPT ![r] = registry[r]] /\ task' = [task EXCEPT ![r] = tsk]
    BY <1>1, <1>7, <2>1, <2>2 DEF Execute, ShapeOK
  <2>5. files[r].written # "all" /\ registry[r].status \notin {"none", "SUCCEEDED", "FAILED"}
    BY <1>1, <1>7 DEF Execute, ArtifactOK, StepOK
  <2>6. UNCHANGED <<golden, files, calibrated>>
    BY <1>7 DEF Execute
  <2>. QED BY <1>2, <2>1, <2>3, <2>4, <2>5, <2>6, RunStep
<1>8. ASSUME NEW r \in Runs, GiveUp(r) PROVE EvalInv'
  <2>1. PICK run : run = [registry[r] EXCEPT !.status = "FAILED"]
    OBVIOUS
  <2>2. PICK tsk : tsk = [step |-> "done", seen |-> <<>>]
    OBVIOUS
  <2>3. run \in [status : Statuses, metrics : AnyMetrics] /\ run.status = "FAILED"
    BY <1>2, <2>1 DEF Statuses
  <2>4. tsk \in [step : Steps, seen : AnySeen] /\ tsk.step = "done"
    BY <1>3, <2>2 DEF Steps
  <2>5. registry' = [registry EXCEPT ![r] = run] /\ task' = [task EXCEPT ![r] = tsk]
    BY <1>8, <2>1, <2>2 DEF GiveUp, Fail
  <2>. QED BY <1>8, <2>3, <2>4, <2>5, RunStep DEF GiveUp, Fail
<1>9. ASSUME NEW r \in Runs, OpenArtifact(r) PROVE EvalInv'
  <2>1. Torn \in [written : {"no", "part", "all"}, seen : AnySeen, metrics : AnyMetrics]
        /\ Torn.written = "part"
    BY <1>3 DEF Torn, NoFile
  <2>. QED BY <1>9, <2>1, FileStep DEF OpenArtifact
<1>10. ASSUME NEW r \in Runs, WriteArtifact(r) PROVE EvalInv'
  <2>1. PICK seen : seen = task[r].seen
    OBVIOUS
  <2>2. task[r].step = "write" /\ seen \in Observed(r) /\ seen \in AnySeen /\ DOMAIN seen = Selected(Request[r].split)
    BY <1>1, <1>10, <2>1, ObservedIsSeen DEF WriteArtifact, StepOK, Observed
  <2>3. PICK m : m = Metrics(Request[r].type, Selected(Request[r].split), seen)
    OBVIOUS
  <2>4. m \in AnyMetrics
    BY <2>3, MetricsCount DEF Selected
  <2>5. PICK file : file = [written |-> "all", seen |-> seen, metrics |-> m]
    OBVIOUS
  <2>6. file \in [written : {"no", "part", "all"}, seen : AnySeen, metrics : AnyMetrics]
        /\ file.written = "all" /\ file.seen = seen /\ file.metrics = m
    BY <2>2, <2>4, <2>5
  <2>7. files' = [files EXCEPT ![r] = file] /\ task' = [task EXCEPT ![r].step = "complete"]
        /\ UNCHANGED <<golden, registry, calibrated>>
    BY <1>10, <2>1, <2>2, <2>3, <2>5 DEF WriteArtifact
  <2>. QED BY <2>1, <2>2, <2>3, <2>6, <2>7, FileStep
<1>11. ASSUME NEW r \in Runs, Complete(r) PROVE EvalInv'
  <2>1. PICK seen : seen = task[r].seen
    OBVIOUS
  <2>2. /\ task[r].step = "complete" /\ seen \in Observed(r) /\ DOMAIN seen = Selected(Request[r].split)
        /\ files[r].written = "all" /\ files[r].seen = seen
        /\ files[r].metrics = Metrics(Request[r].type, Selected(Request[r].split), seen)
    BY <1>1, <1>11, <2>1 DEF Complete, StepOK, ArtifactOK, Observed
  <2>3. PICK run : run = [status |-> "SUCCEEDED", metrics |-> files[r].metrics]
    OBVIOUS
  <2>4. PICK tsk : tsk = [step |-> "done", seen |-> <<>>]
    OBVIOUS
  <2>5. run \in [status : Statuses, metrics : AnyMetrics] /\ run.status = "SUCCEEDED"
        /\ run.metrics = files[r].metrics
    BY <1>1, <2>3 DEF Statuses, ShapeOK
  <2>6. tsk \in [step : Steps, seen : AnySeen] /\ tsk.step = "done"
    BY <1>3, <2>4 DEF Steps
  <2>7. registry' = [registry EXCEPT ![r] = run] /\ task' = [task EXCEPT ![r] = tsk]
        /\ UNCHANGED <<golden, files, calibrated>>
    BY <1>11, <2>1, <2>2, <2>3, <2>4 DEF Complete
  <2>. QED BY <2>2, <2>5, <2>6, <2>7, RunStep
<1>12. ASSUME NEW r \in Runs, Calibrate(r) PROVE EvalInv'
  <2>1. PICK seen : seen = files[r].seen
    OBVIOUS
  <2>2. PICK t : t = Threshold(Calibrable(seen), seen)
    OBVIOUS
  <2>3. /\ files[r].written = "all" /\ CalibrationCases # {} /\ CalibrationCases \subseteq Calibrable(seen)
        /\ calibrated' = [calibrated EXCEPT ![r] = [made |-> TRUE, threshold |-> t]]
        /\ UNCHANGED <<golden, registry, task, files>>
    BY <1>12, <2>1, <2>2 DEF Calibrate
  <2>4. t \in 0 .. 2 * MaxScore
    <3>1. Calibrable(seen) \in SUBSET Cases /\ \A c \in Calibrable(seen) : seen[c] \in 0 .. MaxScore
      BY DEF Calibrable, CalibrationCases
    <3>. QED BY <2>2, <3>1, ThresholdExists, CandidatesRange
  <2>5. ShapeOK'
    BY <1>1, <2>3, <2>4 DEF ShapeOK
  <2>6. StepOK' /\ ArtifactOK'
    BY <1>1, <2>3, SameDataset DEF StepOK, ArtifactOK
  <2>7. CalibratedOK'
    <3>1. calibrated'[r] = [made |-> TRUE, threshold |-> t]
          /\ \A q \in Runs : q # r => calibrated'[q] = calibrated[q]
      BY <1>1, <2>3 DEF ShapeOK
    <3>2. ASSUME NEW q \in Runs, calibrated'[q].made
          PROVE  /\ files[q].written = "all"
                 /\ CalibrationCases \subseteq Calibrable(files[q].seen)
                 /\ CalibrationCases # {}
                 /\ calibrated'[q].threshold = Threshold(Calibrable(files[q].seen), files[q].seen)
      <4>1. CASE q = r
        BY <2>1, <2>2, <2>3, <3>1, <4>1
      <4>2. CASE q # r
        BY <1>1, <3>1, <3>2, <4>2 DEF CalibratedOK
      <4>. QED BY <4>1, <4>2
    <3>. QED BY <2>3, <3>2, SameDataset DEF CalibratedOK
  <2>. QED BY <2>5, <2>6, <2>7 DEF EvalInv
<1>13. ASSUME Restart PROVE EvalInv'
  <2>1. /\ registry' = [r \in Runs |-> NoRun] /\ UNCHANGED <<golden, files, calibrated>>
        /\ task' = [r \in Runs |-> IF task[r] = NoTask THEN NoTask ELSE [step |-> "done", seen |-> <<>>]]
    BY <1>13 DEF Restart
  <2>2. \A r \in Runs : /\ registry'[r].status = "none"
                        /\ task'[r].step \in {"none", "done"}
                        /\ task[r].step # "none" => task'[r].step = "done"
    BY <2>1 DEF NoRun, NoTask
  <2>3. NoRun \in [status : Statuses, metrics : AnyMetrics] /\ NoTask \in [step : Steps, seen : AnySeen]
        /\ [step |-> "done", seen |-> <<>>] \in [step : Steps, seen : AnySeen]
    BY <1>3 DEF NoRun, NoTask, Statuses, Steps
  <2>4. ShapeOK'
    BY <1>1, <2>1, <2>3 DEF ShapeOK
  <2>5. StepOK'
    BY <2>2 DEF StepOK
  <2>6. ArtifactOK'
    BY <1>1, <2>1, <2>2, SameDataset DEF ArtifactOK
  <2>7. CalibratedOK'
    BY <1>1, <2>1, SameDataset DEF CalibratedOK
  <2>. QED BY <2>4, <2>5, <2>6, <2>7 DEF EvalInv
<1>. QED BY <1>4, <1>5, <1>6, <1>7, <1>8, <1>9, <1>10, <1>11, <1>12, <1>13 DEF Next, TaskStep

-----------------------------------------------------------------------------
(* The theorems *)

\* The invariant holds, and with it the variables have the values they should.
THEOREM EvaluationInvariant == Spec => [](EvalInv /\ TypeOK)
<1>1. EvalInv => TypeOK
  BY DEF EvalInv, ShapeOK, StepOK, TypeOK, Statuses, Steps
<1>. QED BY <1>1, EvalInvInit, EvalInvNext, PTL DEF Spec

\* A run that reports success has an artifact with one observation for each
\* case it selected and the reported metrics, whose counts add up, and no case
\* whose search failed counts as answered, whatever was interrupted and by
\* whatever restarts.
THEOREM SuccessIsReported == Spec => []ReportsAreHonest
<1>1. EvalInv => ReportsAreHonest
  <2>. SUFFICES ASSUME EvalInv, NEW r \in Runs, registry[r].status = "SUCCEEDED"
       PROVE  /\ files[r].written = "all"
              /\ files[r].metrics = registry[r].metrics
              /\ DOMAIN files[r].seen = Selected(Request[r].split)
              /\ Request[r].type = "answerability" =>
                   LET m == registry[r].metrics
                       failed == {c \in DOMAIN files[r].seen : files[r].seen[c] = Outage}
                   IN /\ m.predicted_answerable = m.expected_answerable - m.false_positive + m.false_negative
                      /\ m.predicted_answerable <= Cardinality(DOMAIN files[r].seen \ failed)
    BY DEF ReportsAreHonest
  <2>1. PICK seen : seen = files[r].seen
    OBVIOUS
  <2>2. PICK S : S = Selected(Request[r].split)
    OBVIOUS
  <2>3. /\ files[r].written = "all" /\ registry[r].metrics = files[r].metrics
        /\ seen \in [S -> Outcomes(Request[r].type)] /\ S \in SUBSET Cases
        /\ files[r].metrics = Metrics(Request[r].type, S, seen)
    BY <2>1, <2>2 DEF EvalInv, ArtifactOK, Observed, Selected
  <2>4. ASSUME Request[r].type = "answerability"
        PROVE  LET m == registry[r].metrics
                   failed == {c \in S : seen[c] = Outage}
               IN /\ m.predicted_answerable = m.expected_answerable - m.false_positive + m.false_negative
                  /\ m.predicted_answerable <= Cardinality(S \ failed)
    <3>1. PICK A : A = Answered(S, seen)
      OBVIOUS
    <3>2. A \in SUBSET S /\ registry[r].metrics = Confusion(S, A)
      BY <2>3, <2>4, <3>1 DEF Metrics, Answered
    <3>3. A \in SUBSET (S \ {c \in S : seen[c] = Outage})
      <4>1. \A c \in A : ~(seen[c] = Outage)
        BY <3>1, EvaluationAssumption DEF Answered, Outage
      <4>. QED BY <3>2, <4>1
    <3>4. IsFiniteSet(S \ {c \in S : seen[c] = Outage})
      BY <2>3, CasesFinite
    <3>5. Cardinality(A) <= Cardinality(S \ {c \in S : seen[c] = Outage})
      BY <3>3, <3>4, FS_Subset
    <3>6. Confusion(S, A).predicted_answerable = Cardinality(A)
      BY DEF Confusion
    <3>. QED BY <2>3, <3>2, <3>5, <3>6, ConfusionAddsUp
  <2>. QED BY <2>1, <2>2, <2>3, <2>4
<1>. QED BY <1>1, EvalInvInit, EvalInvNext, PTL DEF Spec

\* No threshold between 0 and 1 costs less on the validation cases than the
\* calibrated one, and of those that cost as little none answers fewer
\* questions that should be refused.
THEOREM CalibrationIsBest == Spec => []ThresholdIsBest
<1>1. EvalInv => ThresholdIsBest
  <2>. SUFFICES ASSUME EvalInv, NEW r \in Runs, calibrated[r].made,
                       NEW seen, seen = files[r].seen, NEW S, S = CalibrationCases,
                       NEW best, best = calibrated[r].threshold
       PROVE  LET unsafe(t) == Cardinality({c \in S : ~ golden[c].answerable /\ 2 * seen[c] >= t})
                  cost(t) == Cardinality({c \in S : golden[c].answerable /\ 2 * seen[c] < t})
                             + Cost * unsafe(t)
              IN /\ S \subseteq {c \in DOMAIN seen : seen[c] >= 0}
                 /\ \A t \in 0 .. 2 * MaxScore :
                      \/ cost(best) < cost(t)
                      \/ cost(best) = cost(t) /\ unsafe(best) <= unsafe(t)
    BY DEF ThresholdIsBest
  <2>1. /\ S \subseteq Calibrable(seen) /\ best = Threshold(Calibrable(seen), seen)
        /\ S \in SUBSET Cases
    BY DEF EvalInv, CalibratedOK, CalibrationCases
  <2>2. Calibrable(seen) = S /\ \A c \in S : c \in DOMAIN seen /\ seen[c] \in 0 .. MaxScore
    BY <2>1 DEF Calibrable, Scored
  <2>3. best \in 0 .. 2 * MaxScore
    BY <2>1, <2>2, ThresholdExists, CandidatesRange
  <2>4. ASSUME NEW t \in 0 .. 2 * MaxScore
        PROVE  /\ Mistakes(S, seen, t).false_negative
                    = Cardinality({c \in S : ~ golden[c].answerable /\ 2 * seen[c] >= t})
               /\ Mistakes(S, seen, t).false_positive
                    = Cardinality({c \in S : golden[c].answerable /\ 2 * seen[c] < t})
    <3>1. {c \in S : 2 * seen[c] >= t} \ Answerable(S) = {c \in S : ~ golden[c].answerable /\ 2 * seen[c] >= t}
      BY DEF Answerable
    <3>2. \A c \in S : ~(2 * seen[c] >= t) <=> 2 * seen[c] < t
      BY <2>2, EvaluationAssumption
    <3>3. Answerable(S) \ {c \in S : 2 * seen[c] >= t} = {c \in S : golden[c].answerable /\ 2 * seen[c] < t}
      BY <3>2 DEF Answerable
    <3>. QED BY <3>1, <3>3 DEF Mistakes, Confusion
  <2>5. ASSUME NEW t \in 0 .. 2 * MaxScore
        PROVE  \/ Objective(Mistakes(S, seen, best)) < Objective(Mistakes(S, seen, t))
               \/ /\ Objective(Mistakes(S, seen, best)) = Objective(Mistakes(S, seen, t))
                  /\ Mistakes(S, seen, best).false_negative <= Mistakes(S, seen, t).false_negative
    BY <2>1, <2>2, ThresholdOptimal
  <2>6. S \subseteq {c \in DOMAIN seen : seen[c] >= 0}
    BY <2>2
  <2>. QED BY <2>3, <2>4, <2>5, <2>6 DEF Objective
<1>. QED BY <1>1, EvalInvInit, EvalInvNext, PTL DEF Spec
=============================================================================
