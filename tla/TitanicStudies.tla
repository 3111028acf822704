--------------------------- MODULE TitanicStudies ----------------------------
(***************************************************************************)
(* The Titanic experiment scripts (competitions/titanic/src): each loads   *)
(* the passengers, builds features, validates models on held-out parts of  *)
(* the training passengers, ranks them, and leaves a results table, a      *)
(* report and a submission behind.                                         *)
(*                                                                         *)
(* A value is represented by what it was computed from: the set of cells   *)
(* <<passenger, "attributes">> and <<passenger, "label">>.  Scores are     *)
(* free.  A script may die at any step and be run again.                   *)
(***************************************************************************)
EXTENDS Naturals, Integers, Sequences, FiniteSets

CONSTANTS
  Train, Test,          \* the passengers of train.csv and test.csv
  Survivors,            \* the training passengers with label 1
  AgeKnown,             \* the passengers whose age is recorded
  GroupOf, TitleOf,     \* age group (title, class, sex) and title of a passenger
  Folds,                \* n_splits of the cross-validation (5 in the code)
  TopN,                 \* members of a voting ensemble (3 and 5 in the code)
  Means, Deviations,    \* the scores a model can get
  MaxRuns,              \* bound on the number of script runs
  NoStudy, NoFile

Passengers == Train \cup Test

ASSUME DataAssumption ==
  /\ Train \cap Test = {} /\ Survivors \subseteq Train /\ AgeKnown \subseteq Passengers
  /\ Folds \in Nat \ {0, 1} /\ TopN \in Nat \ {0} /\ MaxRuns \in Nat
  /\ Means \subseteq Int /\ Deviations \subseteq Int

VARIABLES
  study,      \* the running script, or NoStudy
  todo,       \* the steps it still has to take
  matrix,     \* the features it has built: passenger |-> cells
  predicted,  \* the validation predictions it has made
  table,      \* its ranked results
  runs,       \* number of runs started
  processed,  \* the processed data files that exist: the features, labels and test features
  disk        \* script |-> the results, report and submission it has left

vars == <<study, todo, matrix, predicted, table, runs, processed, disk>>
------------------------------------------------------------------------------
(* Cells.                                                                  *)

Attributes(P) == P \X {"attributes"}
Labels(P) == (P \cap Train) \X {"label"}
------------------------------------------------------------------------------
(* Features built before any validation.                                   *)

\* Imputers and encoders are fitted on all training passengers.
PreprocessFeatures == [p \in Passengers |-> Attributes(Train \cup {p})]

AddFeatureV1Columns == [p \in Passengers |-> Attributes({p})]

AddRareTitleInteractionFeatures == [p \in Passengers |-> Attributes({p})]

\* Ticket groups are counted over both files.
AddDeckTicketFareFeatures == [p \in Passengers |-> Attributes(Passengers)]

\* Medians, quantiles and ticket counts are taken over both files.
AddCompetitionFeatures == [p \in Passengers |-> Attributes(Passengers)]

\* Surname groups are counted over both files, in the suite and in the name analysis.
AddSafeFamilyFeatures == [p \in Passengers |-> Attributes(Passengers)]

BuildSafeFamilyFeatures == [p \in Passengers |-> Attributes(Passengers)]
------------------------------------------------------------------------------
(* Ages filled in from groups of a fitting part.                           *)

\* Mutant: the statistics are fitted once, on everybody.
FitGroupAgeStatsOnce(part) == Train \cap AgeKnown

FitGroupAgeStats(part) == part \cap AgeKnown

LookupGroupAge(p, known) ==
  LET group == {q \in known : GroupOf[q] = GroupOf[p]}
      title == {q \in known : TitleOf[q] = TitleOf[p]}
  IN  IF group # {} THEN group ELSE IF title # {} THEN title ELSE known

ApplyGroupAgeImputation(F, known) ==
  [p \in Passengers |->
     IF p \in AgeKnown THEN F[p] ELSE F[p] \cup Attributes(LookupGroupAge(p, known))]
------------------------------------------------------------------------------
(* Fitting a pipeline on one part and predicting another.                  *)

Fitted(F, part) == Labels(part) \cup UNION {F[p] : p \in part}

\* One fold: for the age study the statistics are fitted inside the fold.
Validated(F, inFold, valid) ==
  LET part == Train \ valid
      G == IF inFold THEN ApplyGroupAgeImputation(F, FitGroupAgeStats(part)) ELSE F
  IN  {[of |-> v, among |-> valid, from |-> Fitted(G, part) \cup G[v], chosen |-> {}] : v \in valid}

Balanced(part) == part \cap Survivors # {} /\ part \ Survivors # {}

\* train_test_split with stratify.
HoldOuts == {v \in SUBSET Train : Balanced(v) /\ Balanced(Train \ v)}

\* StratifiedKFold: every part has its share of both labels.
StratifiedFolds ==
  {K \in SUBSET HoldOuts :
     /\ Cardinality(K) = Folds /\ UNION K = Train
     /\ \A v, w \in K : v # w => v \cap w = {}}

CrossValidated(F, inFold, K) == UNION {Validated(F, inFold, v) : v \in K}

\* The vote of the best single models is fitted and validated on the folds of the single models.
\* Its members were chosen by their scores: by what they predicted and the labels it met.
ValidatedVotes(predictions) ==
  LET scores == UNION {p.from \cup Labels(p.among) : p \in predictions}
  IN  {[p EXCEPT !.chosen = scores] : p \in predictions}

\* What a script predicts with one held-out part and one set of folds for every seed.
Predictions(script, F, v, KK) ==
  LET singles == (IF script.holdOut THEN Validated(F, script.inFold, v) ELSE {})
                 \cup UNION {CrossValidated(F, script.inFold, K) : K \in KK}
  IN  singles \cup (IF script.votes THEN ValidatedVotes(singles) ELSE {})
------------------------------------------------------------------------------
(* Ranking.  sorted(..., reverse=True) is stable: of equals the first wins. *)

Beats(rank, a, b) ==
  CASE rank = "mean" -> a.mean > b.mean
    [] rank = "risk" -> a.mean - a.std > b.mean - b.std
    [] rank = "lexicographic" -> a.mean > b.mean \/ (a.mean = b.mean /\ a.std < b.std)

Best(rank, rows) ==
  rows[CHOOSE i \in DOMAIN rows :
         /\ \A j \in DOMAIN rows : ~Beats(rank, rows[j], rows[i])
         /\ \A j \in 1 .. i - 1 : Beats(rank, rows[i], rows[j])]

\* The members of a voting ensemble: the TopN single models with the best means.
TopModels(singles) ==
  {i \in DOMAIN singles :
     Cardinality({j \in DOMAIN singles :
       \/ singles[j].mean > singles[i].mean
       \/ singles[j].mean = singles[i].mean /\ j < i}) < TopN}

Row(kind, members, deviations) ==
  [kind : {kind}, members : {members}, mean : Means, std : deviations]

\* The rows of n single models.
SingleRows(n, deviations) ==
  {r \in [1 .. n -> UNION {Row("single", {i}, deviations) : i \in 1 .. n}] : \A i \in 1 .. n : r[i].members = {i}}

\* The zoo adds a vote of the best single models and a vote of a preferred trio.
Preferred == {2, 3}

WithVotes(singles) ==
  {singles \o votes : votes \in Row("top", TopModels(singles), Deviations)
                               \X Row("preferred", Preferred, Deviations)}

\* Mutant: the ensemble is made of the best rows, votes included.
FinalMembersOfAll(best, rows) ==
  CASE best.kind = "single" -> best.members
    [] best.kind = "preferred" -> Preferred
    [] best.kind = "top" -> TopModels(rows)

\* The rows of the single models.
Singles(rows) == [i \in {j \in DOMAIN rows : rows[j].kind = "single"} |-> rows[i]]

\* The members that are trained for the submission, found again from the rows.
FinalMembers(best, rows) ==
  CASE best.kind = "single" -> best.members
    [] best.kind = "preferred" -> Preferred
    [] best.kind = "top" -> TopModels(Singles(rows))
------------------------------------------------------------------------------
(* The scripts: what each reads and builds, how it validates and ranks, and *)
(* what it writes in which order.                                          *)

Script ==
  [features |-> AddFeatureV1Columns, reads |-> {}, inFold |-> FALSE,
   holdOut |-> FALSE, seeds |-> 1, models |-> 1, votes |-> FALSE, rank |-> "mean",
   steps |-> <<"validate", "results", "report", "submission">>]

Preprocess == [Script EXCEPT !.features = PreprocessFeatures, !.steps = <<"features", "labels", "test_features">>]

TrainBaseline ==
  [Script EXCEPT !.features = PreprocessFeatures, !.reads = {"features", "labels", "test_features"},
                 !.holdOut = TRUE, !.seeds = 0, !.steps = <<"validate", "submission", "report">>]

CrossValidate ==
  [Script EXCEPT !.features = PreprocessFeatures, !.reads = {"features", "labels"},
                 !.steps = <<"validate", "report">>]

FeatureV1 == [Script EXCEPT !.holdOut = TRUE, !.steps = <<"validate", "submission", "report">>]

AblationStudy == [Script EXCEPT !.models = 2, !.steps = <<"validate", "results", "report">>]

ModelComparison == [Script EXCEPT !.models = 2]

HgbTuning == [Script EXCEPT !.models = 2]

RepeatedCvSelection == [Script EXCEPT !.models = 2, !.seeds = 2, !.rank = "risk"]

AgeImputation == [Script EXCEPT !.inFold = TRUE]

DeckTicketFare == [Script EXCEPT !.features = AddDeckTicketFareFeatures]

RareTitleInteractions == [Script EXCEPT !.features = AddRareTitleInteractionFeatures]

ModelZoo ==
  [Script EXCEPT !.features = AddCompetitionFeatures, !.models = 3, !.votes = TRUE, !.rank = "lexicographic"]

VisualErrorAnalysis == [Script EXCEPT !.steps = <<"validate", "results", "report">>]

\* The validation of the suite; what it does with its submissions is another module.
AutoExperimentSuite ==
  [Script EXCEPT !.features = AddSafeFamilyFeatures, !.models = 2, !.seeds = 2, !.steps = <<"validate">>]

\* Its tables and report are read by nobody.
NameFamilyAnalysis == [Script EXCEPT !.features = BuildSafeFamilyFeatures, !.steps = <<>>]

\* By name of the script's file.
Scripts ==
  [preprocess |-> Preprocess, train_baseline |-> TrainBaseline, cross_validate |-> CrossValidate,
   feature_v1 |-> FeatureV1, ablation_study |-> AblationStudy, model_comparison |-> ModelComparison,
   hgb_tuning |-> HgbTuning, repeated_cv_selection |-> RepeatedCvSelection,
   age_imputation_v2 |-> AgeImputation, deck_ticket_fare |-> DeckTicketFare,
   rare_title_interactions |-> RareTitleInteractions, model_zoo_ensemble |-> ModelZoo,
   visual_error_analysis |-> VisualErrorAnalysis, auto_experiment_suite |-> AutoExperimentSuite,
   name_family_id_pattern_analysis |-> NameFamilyAnalysis]

Studies == DOMAIN Scripts

\* Deviations are left at one value where the ranking does not look at them; those of single
\* models matter to the zoo as those of its votes do, and are left at it too.
Rows(script) ==
  IF script.votes
  THEN UNION {WithVotes(s) : s \in SingleRows(script.models, {0})}
  ELSE SingleRows(script.models, IF script.rank = "risk" THEN Deviations ELSE {0})

\* No script has the name that stands for none, and no file is the missing file.
ASSUME NoneAssumption ==
  LET tables == UNION {Rows(Scripts[s]) : s \in Studies} IN
  /\ NoStudy \notin Studies
  /\ NoFile \notin [run : Nat, rows : tables]
  /\ NoFile \notin [run : Nat, best : UNION {{t[i] : i \in DOMAIN t} : t \in tables}]
------------------------------------------------------------------------------
(* A run of a script.                                                      *)

FreshDisk == [s \in Studies |-> [results |-> NoFile, report |-> NoFile, submission |-> NoFile]]

Init ==
  /\ study = NoStudy /\ todo = <<>> /\ matrix = <<>> /\ predicted = {} /\ table = <<>> /\ runs = 0
  /\ processed = {}
  /\ disk = FreshDisk

\* A script that ends, finished or not, takes its memory with it.
End == study' = NoStudy /\ todo' = <<>> /\ matrix' = <<>> /\ predicted' = {} /\ table' = <<>>

Start(s) ==
  /\ study = NoStudy /\ runs < MaxRuns
  /\ study' = s /\ runs' = runs + 1
  /\ todo' = <<"load">> \o Scripts[s].steps
  /\ UNCHANGED <<matrix, predicted, table, processed, disk>>

Step(what) == study # NoStudy /\ todo # <<>> /\ Head(todo) = what

\* A data file that is missing ends the script.
Load ==
  /\ Step("load")
  /\ IF Scripts[study].reads \subseteq processed
     THEN matrix' = Scripts[study].features /\ todo' = Tail(todo) /\ UNCHANGED <<study, predicted, table>>
     ELSE End
  /\ UNCHANGED <<runs, processed, disk>>

\* Every seed of a cross-validation shuffles anew.  The predictions of a vote of preferred models
\* rest on what those of single models do.
Validate ==
  LET script == Scripts[study] IN
  /\ Step("validate")
  /\ \E v \in HoldOuts, KK \in {X \in SUBSET StratifiedFolds : Cardinality(X) = script.seeds} :
       predicted' = Predictions(script, matrix, v, KK)
  /\ table' \in Rows(script)
  /\ todo' = Tail(todo)
  /\ UNCHANGED <<study, matrix, runs, processed, disk>>

\* The predictions have been turned into scores by now.
Saved == todo' = Tail(todo) /\ predicted' = {} /\ UNCHANGED <<study, matrix, table, runs>>

SaveProcessed ==
  \E f \in {"features", "labels", "test_features"} :
    Step(f) /\ processed' = processed \cup {f} /\ Saved /\ UNCHANGED disk

SaveResults ==
  /\ Step("results") /\ Saved /\ UNCHANGED processed
  /\ disk' = [disk EXCEPT ![study].results = [run |-> runs, rows |-> table]]

SaveReport ==
  /\ Step("report") /\ Saved /\ UNCHANGED processed
  /\ disk' = [disk EXCEPT ![study].report = [run |-> runs, best |-> Best(Scripts[study].rank, table)]]

TrainBestAndSaveSubmission ==
  LET best == Best(Scripts[study].rank, table) IN
  /\ Step("submission") /\ Saved /\ UNCHANGED processed
  /\ disk' = [disk EXCEPT ![study].submission = [run |-> runs, members |-> FinalMembers(best, table)]]

Finish == study # NoStudy /\ todo = <<>> /\ End /\ UNCHANGED <<runs, processed, disk>>

\* The script is stopped, or an exception ends it.
Die == study # NoStudy /\ todo # <<>> /\ End /\ UNCHANGED <<runs, processed, disk>>

StudyNext ==
  \/ \E s \in Studies : Start(s)
  \/ Load \/ Validate \/ SaveProcessed \/ SaveResults \/ SaveReport \/ TrainBestAndSaveSubmission
  \/ Finish \/ Die

StudySpec == Init /\ [][StudyNext]_vars
------------------------------------------------------------------------------
(* What the studies must not do.                                           *)

\* The scripts whose features mix rows of both files on purpose.
Transductive ==
  {"train_baseline", "cross_validate", "deck_ticket_fare", "model_zoo_ensemble", "auto_experiment_suite"}

\* No validation prediction, of a single model or of a vote, is fitted on a label of its own
\* validation part, whatever the script counts or fills in over both files; and where nothing is
\* counted over both files it rests on no other passenger of that part at all - also where ages
\* are filled in from groups.  The labels of a validation part do choose the members of a vote
\* that is then scored on it, in the zoo and nowhere else.
FoldHygiene ==
  \A p \in predicted :
    /\ p.from \cap Labels(p.among) = {}
    /\ study \notin Transductive => p.from \cap Attributes(p.among \ {p.of}) = {}
    /\ p.chosen \cap Labels(p.among) # {} => study = "model_zoo_ensemble"

\* A submission is never newer than the results and the report that rank its model, and one
\* of the same run was trained with the members that were ranked first - for an ensemble the
\* members that were evaluated - wherever a run was stopped and however often it was run again.
SubmissionIsBacked ==
  \A s \in Studies :
    LET d == disk[s] IN
    d.submission # NoFile /\ Scripts[s].steps = Script.steps =>
      /\ d.results # NoFile /\ d.report # NoFile
      /\ d.submission.run <= d.report.run /\ d.report.run <= d.results.run
      /\ d.submission.run = d.report.run => d.submission.members = d.report.best.members
      /\ d.report.run = d.results.run => d.report.best = Best(Scripts[s].rank, d.results.rows)
==============================================================================
