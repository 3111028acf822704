--------------------------- MODULE EvaluationRuns ---------------------------
(***************************************************************************)
(* Golden-set evaluation: runs created over HTTP and executed in the       *)
(* background by EvaluationService, their artifacts on disk, and the       *)
(* calibration of the answerability threshold from an artifact.            *)
(*                                                                         *)
(* The registry and the background tasks live in the process; artifacts    *)
(* outlive it.  Scores are integers 0 .. MaxScore standing for score /     *)
(* MaxScore, thresholds are integers 0 .. 2 * MaxScore, so that the        *)
(* midpoint of two scores is a threshold.                                  *)
(***************************************************************************)
EXTENDS Integers, FiniteSets

CONSTANTS
  Runs,
  Request,      \* [Runs -> Specs], what the client of each run asks for
  Cases,
  Goldens,      \* datasets the repository may hold, each [Cases -> Labels]
  MaxScore,
  MinScore,     \* min_dense_score of the deployed policy
  Cost          \* false_negative_cost

Splits == {"validation", "test"}
Specs  == [type : {"retrieval", "answerability"}, split : Splits \cup {"all"}]
Labels == [answerable : BOOLEAN, split : Splits, security : BOOLEAN]

ASSUME EvaluationAssumption ==
  /\ IsFiniteSet(Cases)
  /\ Request \in [Runs -> Specs]
  /\ Goldens \subseteq [Cases -> Labels]
  /\ MaxScore \in Nat \ {0}
  /\ MinScore \in 0 .. MaxScore
  /\ Cost \in Nat \ {0}

\* What one search gave a case: for an answerability run the best score, a
\* cosine that may lie below zero, for a retrieval run the rank of the
\* evidence; None when nothing was found.
None      == -1
Outage    == -2
BelowZero == -3
Ranks  == 1 .. 2
Outcomes(type) ==
  {None, Outage} \cup (IF type = "answerability" THEN {BelowZero} \cup 0 .. MaxScore ELSE Ranks)

VARIABLES
  golden,       \* the dataset
  registry,     \* InMemoryEvaluationRegistry._runs
  task,         \* the background task of each run
  files,        \* artifact_dir/<run_id>.json
  calibrated    \* manifest calibrated from the artifact of each run

vars == <<golden, registry, task, files, calibrated>>

NoMetrics == [none |-> 0]
NoRun    == [status |-> "none", metrics |-> NoMetrics]
NoTask   == [step |-> "none", seen |-> <<>>]
NoFile   == [written |-> "no", seen |-> <<>>, metrics |-> NoMetrics]
Torn     == [NoFile EXCEPT !.written = "part"]
NoResult == [made |-> FALSE, threshold |-> 0]

Init ==
  /\ golden \in Goldens
  /\ registry = [r \in Runs |-> NoRun]
  /\ task = [r \in Runs |-> NoTask]
  /\ files = [r \in Runs |-> NoFile]
  /\ calibrated = [r \in Runs |-> NoResult]

----------------------------------------------------------------------------
\* The metrics.

Selected(split) == {c \in Cases : split = "all" \/ golden[c].split = split}
Answerable(S) == {c \in S : golden[c].answerable}

\* Mutant: a failed search counts as an answer where one was expected.
AnsweredOrExpected(S, seen) ==
  {c \in S : seen[c] >= MinScore \/ (seen[c] = Outage /\ golden[c].answerable)}

\* predictions[case_id] in the gate benchmark: an outage is not an answer.
Answered(S, seen) == {c \in S : seen[c] >= MinScore}

\* evaluate_no_answer.  A false positive is an answerable case refused, a
\* false negative an unanswerable case answered.
Confusion(S, answered) ==
  [expected_answerable  |-> Cardinality(Answerable(S)),
   predicted_answerable |-> Cardinality(answered),
   false_positive       |-> Cardinality(Answerable(S) \ answered),
   false_negative       |-> Cardinality(answered \ Answerable(S))]

\* recall_at_k of cases with one target, as a count over the answerable ones.
Recalled(S, seen, k) == Cardinality({c \in Answerable(S) : seen[c] \in 1 .. k})

Metrics(type, S, seen) ==
  IF type = "answerability"
  THEN Confusion(S, Answered(S, seen))
  ELSE [query_count |-> Cardinality(Answerable(S)),
        recall_at_1 |-> Recalled(S, seen, 1),
        recall_at_3 |-> Recalled(S, seen, 3)]

----------------------------------------------------------------------------
\* Choosing a threshold.

CalibrationCases == {c \in Cases : golden[c].split = "validation" /\ ~ golden[c].security}

Mistakes(S, seen, t) == Confusion(S, {c \in S : 2 * seen[c] >= t})
Objective(m) == m.false_positive + Cost * m.false_negative

\* Mutant: the scores themselves are the candidates.
CandidatesAtScores(S, seen) == {2 * seen[c] : c \in S}

\* 0, 1 and the midpoints of consecutive scores.
Candidates(S, seen) ==
  {0, 2 * MaxScore} \cup
  {seen[p[1]] + seen[p[2]] : p \in
     {q \in S \X S : /\ seen[q[1]] < seen[q[2]]
                     /\ ~ \E e \in S : seen[q[1]] < seen[e] /\ seen[e] < seen[q[2]]}}

\* Lower objective, then fewer unsafe answers, then the higher threshold: the
\* first two decide the number of false rejections.
Better(S, seen, t, u) ==
  LET a == Mistakes(S, seen, t)
      b == Mistakes(S, seen, u)
  IN \/ Objective(a) < Objective(b)
     \/ Objective(a) = Objective(b) /\ a.false_negative < b.false_negative
     \/ Objective(a) = Objective(b) /\ a.false_negative = b.false_negative /\ t > u

Threshold(S, seen) ==
  CHOOSE t \in Candidates(S, seen) :
    \A u \in Candidates(S, seen) \ {t} : Better(S, seen, t, u)

----------------------------------------------------------------------------
\* The service.

\* create_run, and the background task that the route adds to the response.
Create(r) ==
  /\ registry[r].status = "none" /\ task[r] = NoTask
  /\ registry' = [registry EXCEPT ![r].status = "QUEUED"]
  /\ task' = [task EXCEPT ![r].step = "start"]
  /\ UNCHANGED <<golden, files, calibrated>>

Start(r) ==
  /\ task[r].step = "start"
  /\ registry' = [registry EXCEPT ![r].status = "RUNNING"]
  /\ task' = [task EXCEPT ![r].step = "execute"]
  /\ UNCHANGED <<golden, files, calibrated>>

\* The executor in its thread: one search per case, none of which stops the
\* run.  What the searches return is not up to the service.
Execute(r) ==
  /\ task[r].step = "execute"
  /\ LET spec == Request[r]
         S    == Selected(spec.split)
     IN /\ S # {}
        /\ spec.type = "retrieval" => Answerable(S) # {}
        /\ \E seen \in [S -> Outcomes(spec.type)] :
             task' = [task EXCEPT ![r] = [step |-> "open", seen |-> seen]]
  /\ UNCHANGED <<golden, registry, files, calibrated>>

\* Mutant: the run keeps its status when its executor raises.
FailQuietly(r) ==
  /\ task' = [task EXCEPT ![r] = [step |-> "done", seen |-> <<>>]]
  /\ UNCHANGED <<golden, registry, files, calibrated>>

\* _fail.
Fail(r) ==
  /\ registry' = [registry EXCEPT ![r].status = "FAILED"]
  /\ task' = [task EXCEPT ![r] = [step |-> "done", seen |-> <<>>]]
  /\ UNCHANGED <<golden, files, calibrated>>

\* No retrieval service, no dataset file, no case of the split, no answerable
\* case, or an artifact that cannot be written.
GiveUp(r) == task[r].step \in {"execute", "write"} /\ Fail(r)

OpenArtifact(r) ==
  /\ task[r].step = "open"
  /\ files' = [files EXCEPT ![r] = Torn]
  /\ task' = [task EXCEPT ![r].step = "write"]
  /\ UNCHANGED <<golden, registry, calibrated>>

WriteArtifact(r) ==
  /\ task[r].step = "write"
  /\ LET seen == task[r].seen
     IN files' = [files EXCEPT ![r] =
                    [written |-> "all", seen |-> seen,
                     metrics |-> Metrics(Request[r].type, DOMAIN seen, seen)]]
  /\ task' = [task EXCEPT ![r].step = "complete"]
  /\ UNCHANGED <<golden, registry, calibrated>>

Complete(r) ==
  /\ task[r].step = "complete"
  /\ LET seen == task[r].seen
     IN registry' = [registry EXCEPT ![r] =
                       [status  |-> "SUCCEEDED",
                        metrics |-> Metrics(Request[r].type, DOMAIN seen, seen)]]
  /\ task' = [task EXCEPT ![r] = [step |-> "done", seen |-> <<>>]]
  /\ UNCHANGED <<golden, files, calibrated>>

\* The process stops; identifiers are never used again.
Restart ==
  /\ registry' = [r \in Runs |-> NoRun]
  /\ task' = [r \in Runs |-> IF task[r] = NoTask THEN NoTask
                             ELSE [step |-> "done", seen |-> <<>>]]
  /\ task' # task \/ registry' # registry
  /\ UNCHANGED <<golden, files, calibrated>>

\* The cases whose observation carries a score.
Scored(seen) == {c \in DOMAIN seen : seen[c] \notin {None, Outage}}

Calibrable(seen) ==
  CalibrationCases \cap {c \in Scored(seen) : seen[c] \in 0 .. MaxScore}

\* calibrate_threshold refuses to run without cases, with a case that has no
\* score, and with any score, also of a case it does not look at, outside the
\* unit interval.
Calibrate(r) ==
  /\ files[r].written = "all" /\ Request[r].type = "answerability"
  /\ ~ calibrated[r].made
  /\ LET seen == files[r].seen
         S    == Calibrable(seen)
     IN /\ CalibrationCases # {} /\ CalibrationCases \subseteq S
        /\ \A c \in Scored(seen) : seen[c] \in 0 .. MaxScore
        /\ calibrated' = [calibrated EXCEPT ![r] =
                            [made |-> TRUE, threshold |-> Threshold(S, seen)]]
  /\ UNCHANGED <<golden, registry, task, files>>

TaskStep(r) ==
  \/ Start(r) \/ Execute(r) \/ GiveUp(r)
  \/ OpenArtifact(r) \/ WriteArtifact(r) \/ Complete(r)

Next ==
  \/ \E r \in Runs : Create(r) \/ TaskStep(r) \/ Calibrate(r)
  \/ Restart

\* The event loop resumes every task and every search ends by its timeout.
Spec == Init /\ [][Next]_vars /\ \A r \in Runs : WF_vars(TaskStep(r))

----------------------------------------------------------------------------
\* The values of the variables.
TypeOK ==
  /\ golden \in Goldens
  /\ \A r \in Runs :
       /\ registry[r].status \in {"none", "QUEUED", "RUNNING", "SUCCEEDED", "FAILED"}
       /\ task[r].step \in {"none", "start", "execute", "open", "write", "complete", "done"}
       /\ task[r].step \in {"none", "done"} <=> registry[r].status \in {"none", "SUCCEEDED", "FAILED"}
       /\ files[r].written \in {"no", "part", "all"}
       /\ calibrated[r].threshold \in 0 .. 2 * MaxScore

\* A run that reports success has an artifact of its own with one observation
\* for each case it selected and the metrics that the API reports; the counts
\* of a gate run add up to each other, and no case whose search failed is
\* among the answered ones.
ReportsAreHonest ==
  \A r \in Runs : registry[r].status = "SUCCEEDED" =>
    /\ files[r].written = "all"
    /\ files[r].metrics = registry[r].metrics
    /\ DOMAIN files[r].seen = Selected(Request[r].split)
    /\ Request[r].type = "answerability" =>
         LET m == registry[r].metrics
             failed == {c \in DOMAIN files[r].seen : files[r].seen[c] = Outage}
         IN /\ m.predicted_answerable = m.expected_answerable - m.false_positive + m.false_negative
            /\ m.predicted_answerable <= Cardinality(DOMAIN files[r].seen \ failed)

\* A calibrated threshold was measured on every validation case and makes no
\* costlier mistakes there than any other threshold from 0 to 1; of those that
\* cost as little, none answers fewer questions it should refuse.  What the
\* test and the security cases scored plays no part.
ThresholdIsBest ==
  \A r \in Runs : calibrated[r].made =>
    LET seen == files[r].seen
        unsafe(t) == Cardinality({c \in CalibrationCases :
                                    ~ golden[c].answerable /\ 2 * seen[c] >= t})
        cost(t) == Cardinality({c \in CalibrationCases :
                                    golden[c].answerable /\ 2 * seen[c] < t}) + Cost * unsafe(t)
        best == calibrated[r].threshold
    IN /\ CalibrationCases \subseteq {c \in DOMAIN seen : seen[c] >= 0}
       /\ \A t \in 0 .. 2 * MaxScore :
            \/ cost(best) < cost(t)
            \/ cost(best) = cost(t) /\ unsafe(best) <= unsafe(t)

\* Every run that a client was given an identifier for ends, with a report or
\* with an error, unless the process that held it stops first.
RunsEnd ==
  \A r \in Runs :
    registry[r].status = "QUEUED" ~> registry[r].status \in {"SUCCEEDED", "FAILED", "none"}
=============================================================================
