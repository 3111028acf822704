--------------------------- MODULE ExperimentProofs ---------------------------
(***************************************************************************)
(* Theorems about the experiment scripts, the automatic suite and the      *)
(* retrieval exercises, for any passengers, any folds, any scores and any  *)
(* number of runs:                                                         *)
(*   PredictionsAreOutOfFold   a score judges what was fitted elsewhere,   *)
(*                             though not what was chosen elsewhere;       *)
(*   SubmissionsAreBacked      a submission has the results behind it;     *)
(*   SentFilesQualified        Kaggle receives what the guard let pass and *)
(*                             the table lists;                            *)
(*   LabAnswersHold            the exercises answer from what they store   *)
(*                             and what their gate let pass.               *)
(* Each rests on an inductive invariant (FoldInv, BackedInv, CampaignInv,  *)
(* LabInv).  First elements - the best row of a table, the last window of  *)
(* a section - come from the well-foundedness of finite subsets.           *)
(***************************************************************************)
EXTENDS TitanicCampaign, RagLab, FiniteSetTheorems, WellFoundedInduction, TLAPS

-----------------------------------------------------------------------------
(* Finite sets *)

\* Among finite sets there is one with no other below it.
LEMMA MinimalSet ==
  ASSUME NEW S, IsFiniteSet(S), NEW F \in SUBSET (SUBSET S), F # {}
  PROVE  \E X \in F : \A Y \in F : Y \subseteq X => Y = X
<1>1. PICK R : R = StrictSubsetOrdering(S)
  OBVIOUS
<1>2. PICK D : D = FiniteSubsetsOf(S)
  OBVIOUS
<1>3. IsWellFoundedOn(R, D)
  BY <1>1, <1>2, FS_StrictSubsetOrderingWellFounded
<1>4. F \subseteq D
  BY <1>2, FS_FiniteSubsetsOfFinite
<1>5. \E X \in F : \A Y \in F : ~(<<Y, X>> \in R)
  BY <1>3, <1>4, WFMin
<1>6. \A X, Y \in F : Y \subseteq X /\ Y # X => <<Y, X>> \in R
  BY <1>1 DEF StrictSubsetOrdering
<1>. QED BY <1>5, <1>6

\* A strict order of a finite set has a first element.
LEMMA FirstElement ==
  ASSUME NEW S, IsFiniteSet(S), S # {}, NEW R,
         \A b \in S : ~(<<b, b>> \in R),
         \A b, c, d \in S : <<b, c>> \in R /\ <<c, d>> \in R => <<b, d>> \in R
  PROVE  \E c \in S : \A b \in S : ~(<<b, c>> \in R)
<1>. DEFINE Below(c) == {b \in S : <<b, c>> \in R}
<1>1. PICK F : F = {Below(c) : c \in S}
  OBVIOUS
<1>2. F \in SUBSET (SUBSET S) /\ F # {}
  <2>1. \A c \in S : Below(c) \subseteq S
    OBVIOUS
  <2>. HIDE DEF Below
  <2>. QED BY <1>1, <2>1
<1>3. PICK X \in F : \A Y \in F : Y \subseteq X => Y = X
  BY <1>2, MinimalSet
<1>4. PICK c \in S : X = Below(c)
  BY <1>1
<1>5. ASSUME NEW b \in S, <<b, c>> \in R PROVE FALSE
  <2>1. Below(b) \in F /\ Below(b) \subseteq X
    BY <1>1, <1>4, <1>5
  <2>2. b \in X /\ b \notin Below(b)
    BY <1>4, <1>5
  <2>. QED BY <1>3, <2>1, <2>2
<1>. QED BY <1>5

-----------------------------------------------------------------------------
(* The scripts *)

\* The scripts that validate.
Validating == Studies \ {"preprocess", "name_family_id_pattern_analysis"}

\* The scripts one by one.
LEMMA EveryScript ==
  ASSUME NEW s \in Studies
  PROVE  \/ s = "preprocess" /\ Scripts[s] = Preprocess
         \/ s = "train_baseline" /\ Scripts[s] = TrainBaseline
         \/ s = "cross_validate" /\ Scripts[s] = CrossValidate
         \/ s = "feature_v1" /\ Scripts[s] = FeatureV1
         \/ s = "ablation_study" /\ Scripts[s] = AblationStudy
         \/ s = "model_comparison" /\ Scripts[s] = ModelComparison
         \/ s = "hgb_tuning" /\ Scripts[s] = HgbTuning
         \/ s = "repeated_cv_selection" /\ Scripts[s] = RepeatedCvSelection
         \/ s = "age_imputation_v2" /\ Scripts[s] = AgeImputation
         \/ s = "deck_ticket_fare" /\ Scripts[s] = DeckTicketFare
         \/ s = "rare_title_interactions" /\ Scripts[s] = RareTitleInteractions
         \/ s = "model_zoo_ensemble" /\ Scripts[s] = ModelZoo
         \/ s = "visual_error_analysis" /\ Scripts[s] = VisualErrorAnalysis
         \/ s = "auto_experiment_suite" /\ Scripts[s] = AutoExperimentSuite
         \/ s = "name_family_id_pattern_analysis" /\ Scripts[s] = NameFamilyAnalysis
BY DEF Studies, Scripts

\* What the features of a script rest on.
LEMMA FeatureFacts ==
  ASSUME NEW s \in Studies
  PROVE  /\ Scripts[s].features \in [Passengers -> SUBSET Attributes(Passengers)]
         /\ s \in Validating \ Transductive =>
              \A p \in Passengers : Scripts[s].features[p] = Attributes({p})
<1>1. /\ PreprocessFeatures \in [Passengers -> SUBSET Attributes(Passengers)]
      /\ AddFeatureV1Columns \in [Passengers -> SUBSET Attributes(Passengers)]
      /\ AddRareTitleInteractionFeatures \in [Passengers -> SUBSET Attributes(Passengers)]
      /\ AddDeckTicketFareFeatures \in [Passengers -> SUBSET Attributes(Passengers)]
      /\ AddCompetitionFeatures \in [Passengers -> SUBSET Attributes(Passengers)]
      /\ AddSafeFamilyFeatures \in [Passengers -> SUBSET Attributes(Passengers)]
      /\ BuildSafeFamilyFeatures \in [Passengers -> SUBSET Attributes(Passengers)]
  BY DEF PreprocessFeatures, AddFeatureV1Columns, AddRareTitleInteractionFeatures,
         AddDeckTicketFareFeatures, AddCompetitionFeatures, AddSafeFamilyFeatures,
         BuildSafeFamilyFeatures, Attributes, Passengers
<1>5. /\ Preprocess.features = PreprocessFeatures
      /\ TrainBaseline.features = PreprocessFeatures
      /\ CrossValidate.features = PreprocessFeatures
      /\ FeatureV1.features = AddFeatureV1Columns
      /\ AblationStudy.features = AddFeatureV1Columns
      /\ ModelComparison.features = AddFeatureV1Columns
      /\ HgbTuning.features = AddFeatureV1Columns
      /\ RepeatedCvSelection.features = AddFeatureV1Columns
      /\ AgeImputation.features = AddFeatureV1Columns
      /\ DeckTicketFare.features = AddDeckTicketFareFeatures
      /\ RareTitleInteractions.features = AddRareTitleInteractionFeatures
      /\ ModelZoo.features = AddCompetitionFeatures
      /\ VisualErrorAnalysis.features = AddFeatureV1Columns
      /\ AutoExperimentSuite.features = AddSafeFamilyFeatures
      /\ NameFamilyAnalysis.features = BuildSafeFamilyFeatures
  BY DEF Script, Preprocess, TrainBaseline, CrossValidate, FeatureV1, AblationStudy,
     ModelComparison, HgbTuning, RepeatedCvSelection, AgeImputation, DeckTicketFare,
     RareTitleInteractions, ModelZoo, VisualErrorAnalysis, AutoExperimentSuite,
     NameFamilyAnalysis
<1>2. Scripts[s].features \in
        {PreprocessFeatures, AddFeatureV1Columns, AddRareTitleInteractionFeatures,
         AddDeckTicketFareFeatures, AddCompetitionFeatures, AddSafeFamilyFeatures,
         BuildSafeFamilyFeatures}
  BY <1>5, EveryScript
<1>3. s \in Validating \ Transductive =>
        Scripts[s].features \in {AddFeatureV1Columns, AddRareTitleInteractionFeatures}
  BY <1>5, EveryScript DEF Validating, Transductive
<1>4. \A p \in Passengers :
        AddFeatureV1Columns[p] = Attributes({p}) /\ AddRareTitleInteractionFeatures[p] = Attributes({p})
  BY DEF AddFeatureV1Columns, AddRareTitleInteractionFeatures
<1>. QED BY <1>1, <1>2, <1>3, <1>4

\* What the scripts do.
LEMMA ScriptFacts ==
  ASSUME NEW s \in Studies
  PROVE  /\ Scripts[s].models \in Nat \ {0}
         /\ Scripts[s].rank \in {"mean", "risk", "lexicographic"}
         /\ Scripts[s].votes => s = "model_zoo_ensemble"
<1>1. /\ Preprocess.models = 1
      /\ TrainBaseline.models = 1
      /\ CrossValidate.models = 1
      /\ FeatureV1.models = 1
      /\ AblationStudy.models = 2
      /\ ModelComparison.models = 2
      /\ HgbTuning.models = 2
      /\ RepeatedCvSelection.models = 2
      /\ AgeImputation.models = 1
      /\ DeckTicketFare.models = 1
      /\ RareTitleInteractions.models = 1
      /\ ModelZoo.models = 3
      /\ VisualErrorAnalysis.models = 1
      /\ AutoExperimentSuite.models = 2
      /\ NameFamilyAnalysis.models = 1
  BY DEF Script, Preprocess, TrainBaseline, CrossValidate, FeatureV1, AblationStudy,
     ModelComparison, HgbTuning, RepeatedCvSelection, AgeImputation, DeckTicketFare,
     RareTitleInteractions, ModelZoo, VisualErrorAnalysis, AutoExperimentSuite,
     NameFamilyAnalysis
<1>2. /\ Preprocess.rank = "mean"
      /\ TrainBaseline.rank = "mean"
      /\ CrossValidate.rank = "mean"
      /\ FeatureV1.rank = "mean"
      /\ AblationStudy.rank = "mean"
      /\ ModelComparison.rank = "mean"
      /\ HgbTuning.rank = "mean"
      /\ RepeatedCvSelection.rank = "risk"
      /\ AgeImputation.rank = "mean"
      /\ DeckTicketFare.rank = "mean"
      /\ RareTitleInteractions.rank = "mean"
      /\ ModelZoo.rank = "lexicographic"
      /\ VisualErrorAnalysis.rank = "mean"
      /\ AutoExperimentSuite.rank = "mean"
      /\ NameFamilyAnalysis.rank = "mean"
  BY DEF Script, Preprocess, TrainBaseline, CrossValidate, FeatureV1, AblationStudy,
     ModelComparison, HgbTuning, RepeatedCvSelection, AgeImputation, DeckTicketFare,
     RareTitleInteractions, ModelZoo, VisualErrorAnalysis, AutoExperimentSuite,
     NameFamilyAnalysis
<1>3. Scripts[s].models \in Nat \ {0}
  BY <1>1, EveryScript
<1>4. Scripts[s].rank \in {"mean", "risk", "lexicographic"}
  BY <1>2, EveryScript
<1>5. /\ ~Preprocess.votes
      /\ ~TrainBaseline.votes
      /\ ~CrossValidate.votes
      /\ ~FeatureV1.votes
      /\ ~AblationStudy.votes
      /\ ~ModelComparison.votes
      /\ ~HgbTuning.votes
      /\ ~RepeatedCvSelection.votes
      /\ ~AgeImputation.votes
      /\ ~DeckTicketFare.votes
      /\ ~RareTitleInteractions.votes
      /\ ~VisualErrorAnalysis.votes
      /\ ~AutoExperimentSuite.votes
      /\ ~NameFamilyAnalysis.votes
  BY DEF Script, Preprocess, TrainBaseline, CrossValidate, FeatureV1, AblationStudy,
     ModelComparison, HgbTuning, RepeatedCvSelection, AgeImputation, DeckTicketFare,
     RareTitleInteractions, VisualErrorAnalysis, AutoExperimentSuite, NameFamilyAnalysis
<1>6. Scripts[s].votes => s = "model_zoo_ensemble"
  BY <1>5, EveryScript
<1>. QED BY <1>3, <1>4, <1>6

Steps == {"load", "validate", "results", "report", "submission",
          "features", "labels", "test_features"}

\* The steps of a script: each writes at most once, validates at most once and first.
LEMMA StepFacts ==
  ASSUME NEW s \in Studies
  PROVE  /\ Scripts[s].steps \in Seq(Steps \ {"load"})
         /\ s \notin Validating => \A i \in DOMAIN Scripts[s].steps : Scripts[s].steps[i] # "validate"
<1>1. /\ Preprocess.steps = <<"features", "labels", "test_features">>
      /\ TrainBaseline.steps = <<"validate", "submission", "report">>
      /\ CrossValidate.steps = <<"validate", "report">>
      /\ FeatureV1.steps = <<"validate", "submission", "report">>
      /\ AblationStudy.steps = <<"validate", "results", "report">>
      /\ ModelComparison.steps = <<"validate", "results", "report", "submission">>
      /\ HgbTuning.steps = <<"validate", "results", "report", "submission">>
      /\ RepeatedCvSelection.steps = <<"validate", "results", "report", "submission">>
      /\ AgeImputation.steps = <<"validate", "results", "report", "submission">>
      /\ DeckTicketFare.steps = <<"validate", "results", "report", "submission">>
      /\ RareTitleInteractions.steps = <<"validate", "results", "report", "submission">>
      /\ ModelZoo.steps = <<"validate", "results", "report", "submission">>
      /\ VisualErrorAnalysis.steps = <<"validate", "results", "report">>
      /\ AutoExperimentSuite.steps = <<"validate">>
      /\ NameFamilyAnalysis.steps = <<>>
  BY DEF Script, Preprocess, TrainBaseline, CrossValidate, FeatureV1, AblationStudy,
     ModelComparison, HgbTuning, RepeatedCvSelection, AgeImputation, DeckTicketFare,
     RareTitleInteractions, ModelZoo, VisualErrorAnalysis, AutoExperimentSuite,
     NameFamilyAnalysis
<1>. DEFINE Orders == {<<"validate", "results", "report", "submission">>,
                      <<"features", "labels", "test_features">>,
                      <<"validate", "submission", "report">>, <<"validate", "report">>,
                      <<"validate", "results", "report">>, <<"validate">>, <<>>}
            Idle == {<<"features", "labels", "test_features">>, <<>>}
<1>2. Scripts[s].steps \in Orders
  BY <1>1, EveryScript
<1>3. s \notin Validating => Scripts[s].steps \in Idle
  BY <1>1, EveryScript DEF Validating
<1>4. \A steps \in Orders : steps \in Seq(Steps \ {"load"})
  <2>1. /\ <<"validate", "results", "report", "submission">> \in Seq(Steps \ {"load"})
        /\ <<"features", "labels", "test_features">> \in Seq(Steps \ {"load"})
        /\ <<"validate", "submission", "report">> \in Seq(Steps \ {"load"})
        /\ <<"validate", "report">> \in Seq(Steps \ {"load"})
        /\ <<"validate", "results", "report">> \in Seq(Steps \ {"load"})
        /\ <<"validate">> \in Seq(Steps \ {"load"}) /\ <<>> \in Seq(Steps \ {"load"})
    BY DEF Steps
  <2>. QED BY <2>1
<1>5. \A steps \in Idle : \A i \in DOMAIN steps : steps[i] # "validate"
  <2>1. ASSUME NEW steps, steps = <<"features", "labels", "test_features">>
        PROVE  \A i \in DOMAIN steps : steps[i] # "validate"
    <3>0. <<"features", "labels", "test_features">> \in Seq(Steps)
          /\ Len(<<"features", "labels", "test_features">>) = 3
      BY DEF Steps
    <3>4. steps \in Seq(Steps) /\ Len(steps) = 3
      BY <2>1, <3>0
    <3>1. DOMAIN steps = 1 .. 3
      BY <3>4
    <3>3. \A i \in 1 .. 3 : i = 1 \/ i = 2 \/ i = 3
      OBVIOUS
    <3>2. steps[1] = "features" /\ steps[2] = "labels" /\ steps[3] = "test_features"
      BY <2>1
    <3>. QED BY <3>1, <3>2, <3>3
  <2>2. DOMAIN <<>> = {}
    OBVIOUS
  <2>. QED BY <2>1, <2>2
<1>. QED BY <1>2, <1>3, <1>4, <1>5

-----------------------------------------------------------------------------
(* Folds *)

\* What a validation prediction rests on: never the labels of its part, and
\* nobody else of it when the features rest on one passenger each.
LEMMA Hygiene ==
  ASSUME NEW F \in [Passengers -> SUBSET Attributes(Passengers)], NEW inFold,
         NEW valid \in SUBSET Train, NEW p \in Validated(F, inFold, valid)
  PROVE  /\ p.from \cap Labels(p.among) = {}
         /\ (\A q \in Passengers : F[q] = Attributes({q})) =>
              p.from \cap Attributes(p.among \ {p.of}) = {}
         /\ p.chosen = {}
<1>1. PICK part : part = Train \ valid
  OBVIOUS
<1>2. PICK G : G = IF inFold THEN ApplyGroupAgeImputation(F, FitGroupAgeStats(part)) ELSE F
  OBVIOUS
<1>3. PICK v \in valid : p = [of |-> v, among |-> valid, from |-> Fitted(G, part) \cup G[v], chosen |-> {}]
  BY <1>1, <1>2 DEF Validated
<1>9. ASSUME NEW B, \A q \in part \cup {v} : G[q] \subseteq B
      PROVE  p.from \subseteq B \cup Labels(part)
  <2>1. PICK fitted : fitted = Fitted(G, part)
    OBVIOUS
  <2>2. fitted \subseteq B \cup Labels(part)
    <3>. SUFFICES ASSUME NEW x \in fitted, x \notin Labels(part) PROVE x \in B
      OBVIOUS
    <3>1. \E q \in part : x \in G[q]
      BY <2>1 DEF Fitted
    <3>. QED BY <1>9, <3>1
  <2>3. G[v] \subseteq B
    BY <1>9
  <2>4. p.from = fitted \cup G[v]
    BY <1>3, <2>1
  <2>. QED BY <2>2, <2>3, <2>4
<1>4. \A q \in Passengers : LookupGroupAge(q, FitGroupAgeStats(part)) \subseteq part
  BY DEF LookupGroupAge, FitGroupAgeStats
<1>5. ASSUME NEW q \in Passengers
      PROVE  G[q] = F[q] \/ \E D \in SUBSET part : G[q] = F[q] \cup Attributes(D)
  BY <1>2, <1>4 DEF ApplyGroupAgeImputation
<1>6. part \subseteq Passengers /\ v \in Passengers /\ part \cap valid = {} /\ part \subseteq Train
  BY <1>1 DEF Passengers
<1>7. p.from \cap Labels(p.among) = {}
  <2>1. \A q \in Passengers : G[q] \subseteq Attributes(Passengers)
    BY <1>5, <1>6 DEF Attributes
  <2>2. p.from \subseteq Attributes(Passengers) \cup Labels(part)
    <3>1. \A q \in part \cup {v} : G[q] \subseteq Attributes(Passengers)
      BY <1>6, <2>1
    <3>. QED BY <1>9, <3>1
  <2>3. p.among = valid
    BY <1>3
  <2>. QED BY <1>6, <2>2, <2>3 DEF Attributes, Labels
<1>8. ASSUME \A q \in Passengers : F[q] = Attributes({q})
      PROVE  p.from \cap Attributes(p.among \ {p.of}) = {}
  <2>1. \A q \in Passengers : G[q] \subseteq Attributes({q} \cup part)
    BY <1>5, <1>8 DEF Attributes
  <2>2. p.from \subseteq Attributes(part \cup {v}) \cup Labels(part)
    <3>1. \A q \in part \cup {v} : G[q] \subseteq Attributes(part \cup {v})
      BY <1>6, <2>1 DEF Attributes
    <3>. QED BY <1>9, <3>1
  <2>3. p.among = valid /\ p.of = v
    BY <1>3
  <2>. QED BY <1>6, <2>2, <2>3 DEF Attributes, Labels
<1>10. p.chosen = {}
  BY <1>3
<1>. QED BY <1>7, <1>8, <1>10

\* The predictions of a vote are those of its members, who were chosen.
LEMMA VotesPredictAlike ==
  ASSUME NEW P, \A p \in P : p \in [of : {p.of}, among : {p.among}, from : {p.from}, chosen : {p.chosen}],
         NEW w \in ValidatedVotes(P)
  PROVE  \E p \in P : w.of = p.of /\ w.among = p.among /\ w.from = p.from
<1>1. PICK scores : scores = UNION {p.from \cup Labels(p.among) : p \in P}
  OBVIOUS
<1>2. PICK p \in P : w = [p EXCEPT !.chosen = scores]
  BY <1>1 DEF ValidatedVotes
<1>. QED BY <1>2

\* A script loads before anything else and builds its features from what it
\* loads; its predictions come from them.
FoldInv ==
  /\ study = NoStudy => matrix = <<>> /\ predicted = {}
  /\ study # NoStudy =>
       /\ study \in Studies /\ todo \in Seq(Steps)
       /\ \A i \in DOMAIN todo : todo[i] = "load" => i = 1
       /\ \A i \in DOMAIN todo : todo[i] = "validate" => study \in Validating
       /\ \/ todo # <<>> /\ Head(todo) = "load" /\ matrix = <<>> /\ predicted = {}
          \/ matrix = Scripts[study].features
       /\ predicted # {} => study \in Validating
       /\ \A p \in predicted :
            /\ p.chosen # {} => study = "model_zoo_ensemble"
            /\ \E valid \in SUBSET Train :
                 \E q \in Validated(Scripts[study].features, Scripts[study].inFold, valid) :
                   p.of = q.of /\ p.among = q.among /\ p.from = q.from

\* What FoldInv says of the predictions is what the folds owe.
LEMMA FoldInvHygiene == FoldInv => FoldHygiene
<1>. SUFFICES ASSUME FoldInv PROVE FoldHygiene
  OBVIOUS
<1>1. CASE study = NoStudy
  BY <1>1 DEF FoldInv, FoldHygiene
<1>2. CASE study # NoStudy
  <2>1. study \in Studies
    BY <1>2 DEF FoldInv
  <2>2. PICK F \in [Passengers -> SUBSET Attributes(Passengers)] : F = Scripts[study].features
    BY <2>1, FeatureFacts
  <2>4. ASSUME NEW p \in predicted
        PROVE  /\ p.from \cap Labels(p.among) = {}
               /\ study \notin Transductive => p.from \cap Attributes(p.among \ {p.of}) = {}
               /\ p.chosen \cap Labels(p.among) # {} => study = "model_zoo_ensemble"
    <3>5. PICK valid \in SUBSET Train : \E q \in Validated(F, Scripts[study].inFold, valid) :
            p.of = q.of /\ p.among = q.among /\ p.from = q.from
      BY <1>2, <2>2 DEF FoldInv
    <3>1. PICK q \in Validated(F, Scripts[study].inFold, valid) :
            p.of = q.of /\ p.among = q.among /\ p.from = q.from
      BY <3>5
    <3>2. study \in Validating /\ (p.chosen # {} => study = "model_zoo_ensemble")
      BY <1>2 DEF FoldInv
    <3>3. study \notin Transductive => \A r \in Passengers : F[r] = Attributes({r})
      BY <2>1, <2>2, <3>2, FeatureFacts
    <3>4. /\ q.from \cap Labels(q.among) = {}
          /\ (\A r \in Passengers : F[r] = Attributes({r})) => q.from \cap Attributes(q.among \ {q.of}) = {}
      BY Hygiene
    <3>. QED BY <3>1, <3>2, <3>3, <3>4
  <2>. QED BY <2>4 DEF FoldHygiene
<1>. QED BY <1>1, <1>2

\* No script runs at first.
LEMMA FoldInvInit == Init => FoldInv
BY DEF Init, FoldInv

\* A script begins with this.
LEMMA Loading == <<"load">> \in Seq(Steps)
BY DEF Steps

\* What is left of the steps after that.
LEMMA Loaded ==
  ASSUME NEW steps \in Seq(Steps), NEW t, t = <<"load">> \o steps
  PROVE  /\ t \in Seq(Steps) /\ t # <<>> /\ Head(t) = "load" /\ t[1] = "load" /\ Tail(t) = steps
         /\ \A i \in DOMAIN t : i # 1 => i - 1 \in DOMAIN steps /\ t[i] = steps[i - 1]
<1>1. PICK first \in Seq(Steps) : first = <<"load">>
  BY Loading
<1>2. Len(first) = 1
  BY <1>1
<1>3. first[1] = "load"
  BY <1>1
<1>4. t = first \o steps /\ Len(steps) \in Nat
  BY <1>1
<1>5. t \in Seq(Steps)
  BY <1>4
<1>6. Len(t) = 1 + Len(steps)
  BY <1>2, <1>4
<1>7. \A i \in 1 .. Len(t) : t[i] = IF i <= 1 THEN first[i] ELSE steps[i - 1]
  BY <1>2, <1>4, <1>6
<1>8. DOMAIN t = 1 .. Len(t) /\ DOMAIN steps = 1 .. Len(steps)
  BY <1>5
<1>9. t # <<>> /\ t[1] = "load" /\ Head(t) = "load"
  BY <1>3, <1>4, <1>5, <1>6, <1>7
<1>10. \A i \in DOMAIN t : i # 1 => i - 1 \in DOMAIN steps /\ t[i] = steps[i - 1]
  BY <1>4, <1>6, <1>7, <1>8
<1>11. Tail(t) = steps
  <2>1. PICK rest \in Seq(Steps) : rest = Tail(t)
    BY <1>5, <1>9
  <2>2. Len(rest) = Len(steps)
    BY <1>4, <1>5, <1>6, <1>9, <2>1
  <2>3. \A i \in 1 .. Len(steps) : rest[i] = t[i + 1]
    BY <1>5, <1>6, <1>9, <2>1, <2>2
  <2>4. \A i \in 1 .. Len(steps) : t[i + 1] = steps[i]
    BY <1>4, <1>6, <1>7
  <2>5. rest = steps
    <3>1. rest \in [1 .. Len(steps) -> Steps] /\ steps \in [1 .. Len(steps) -> Steps]
      BY <2>2
    <3>2. \A i \in 1 .. Len(steps) : rest[i] = steps[i]
      BY <2>3, <2>4
    <3>. QED BY <3>1, <3>2
  <2>. QED BY <2>1, <2>5
<1>. QED BY <1>5, <1>9, <1>10, <1>11

\* A step that is done is not met again.
LEMMA Rest ==
  ASSUME NEW s \in Seq(Steps), s # <<>>
  PROVE  /\ Tail(s) \in Seq(Steps) /\ Head(s) = s[1] /\ 1 \in DOMAIN s
         /\ \A i \in DOMAIN Tail(s) : i + 1 \in DOMAIN s /\ Tail(s)[i] = s[i + 1] /\ i \in Nat \ {0}
  OBVIOUS

\* Every step keeps that.
LEMMA FoldInvNext == FoldInv /\ [StudyNext]_vars => FoldInv'
<1>. SUFFICES ASSUME FoldInv, [StudyNext]_vars PROVE FoldInv'
  OBVIOUS
<1>1. CASE UNCHANGED vars
  BY <1>1 DEF FoldInv, vars
<1>2. ASSUME End PROVE FoldInv'
  BY <1>2 DEF End, FoldInv
<1>3. ASSUME NEW s \in Studies, Start(s) PROVE FoldInv'
  <2>1. study = NoStudy /\ study' = s /\ todo' = <<"load">> \o Scripts[s].steps
        /\ UNCHANGED <<matrix, predicted>>
    BY <1>3 DEF Start
  <2>2. PICK steps \in Seq(Steps \ {"load"}) : steps = Scripts[s].steps
    BY StepFacts
  <2>3. /\ todo' \in Seq(Steps) /\ todo' # <<>> /\ Head(todo') = "load" /\ todo'[1] = "load"
        /\ \A i \in DOMAIN todo' : i # 1 => i - 1 \in DOMAIN steps /\ todo'[i] = steps[i - 1]
    <3>1. steps \in Seq(Steps)
      BY <2>2
    <3>. QED BY <2>1, <2>2, <3>1, Loaded
  <2>4. \A i \in DOMAIN steps : steps[i] # "load" /\ (steps[i] = "validate" => s \in Validating)
    BY <2>2, StepFacts
  <2>5. matrix' = <<>> /\ predicted' = {}
    BY <2>1 DEF FoldInv
  <2>6. \A i \in DOMAIN todo' : (todo'[i] = "load" => i = 1) /\ (todo'[i] = "validate" => s \in Validating)
    BY <2>3, <2>4
  <2>. QED BY <2>1, <2>3, <2>5, <2>6, NoneAssumption DEF FoldInv
<1>4. ASSUME study # NoStudy, todo # <<>>, todo' = Tail(todo), UNCHANGED study
      PROVE  /\ todo' \in Seq(Steps)
             /\ \A i \in DOMAIN todo' : todo'[i] # "load"
             /\ \A i \in DOMAIN todo' : todo'[i] = "validate" => study \in Validating
  <2>1. todo \in Seq(Steps)
    BY <1>4 DEF FoldInv
  <2>2. /\ todo' \in Seq(Steps)
        /\ \A i \in DOMAIN todo' : i + 1 \in DOMAIN todo /\ todo'[i] = todo[i + 1] /\ i \in Nat \ {0}
    BY <1>4, <2>1, Rest
  <2>3. \A i \in DOMAIN todo' : i + 1 # 1
    BY <2>2
  <2>. QED BY <1>4, <2>2, <2>3 DEF FoldInv
<1>5. CASE Load
  <2>1. CASE Scripts[study].reads \subseteq processed
    <3>1. /\ study # NoStudy /\ todo # <<>> /\ todo' = Tail(todo) /\ UNCHANGED <<study, predicted>>
          /\ matrix' = Scripts[study].features /\ Head(todo) = "load"
      BY <1>5, <2>1 DEF Load, Step
    <3>. QED BY <1>4, <3>1 DEF FoldInv
  <2>2. CASE ~(Scripts[study].reads \subseteq processed)
    BY <1>2, <1>5, <2>2 DEF Load
  <2>. QED BY <2>1, <2>2
<1>6. CASE Validate
  <2>1. /\ study # NoStudy /\ todo # <<>> /\ Head(todo) = "validate" /\ todo' = Tail(todo)
        /\ UNCHANGED <<study, matrix>>
    BY <1>6 DEF Validate, Step
  <2>2. matrix = Scripts[study].features /\ study \in Validating
    BY <2>1, Rest DEF FoldInv
  <2>3. ASSUME NEW p \in predicted'
        PROVE  /\ p.chosen # {} => study = "model_zoo_ensemble"
               /\ \E valid \in SUBSET Train :
                    \E q \in Validated(Scripts[study].features, Scripts[study].inFold, valid) :
                      p.of = q.of /\ p.among = q.among /\ p.from = q.from
    <3>1. PICK script : script = Scripts[study]
      OBVIOUS
    <3>2. PICK v \in HoldOuts, KK \in {X \in SUBSET StratifiedFolds : Cardinality(X) = script.seeds} :
            predicted' = Predictions(script, matrix, v, KK)
      BY <1>6, <3>1 DEF Validate
    <3>12. PICK F, inFold, holdOut, votes :
            /\ F = script.features /\ inFold = script.inFold
            /\ holdOut = script.holdOut /\ votes = script.votes
      OBVIOUS
    <3>3. v \in SUBSET Train /\ \A K \in KK : \A w \in K : w \in SUBSET Train
      BY <3>2 DEF HoldOuts, StratifiedFolds
    <3>4. PICK singles : singles = (IF holdOut THEN Validated(matrix, inFold, v) ELSE {})
                                   \cup UNION {CrossValidated(matrix, inFold, K) : K \in KK}
      OBVIOUS
    <3>5. predicted' = singles \cup (IF votes THEN ValidatedVotes(singles) ELSE {})
      BY <3>2, <3>4, <3>12 DEF Predictions
    <3>6. \A q \in singles : \E valid \in SUBSET Train : q \in Validated(F, inFold, valid)
      BY <2>2, <3>1, <3>3, <3>4, <3>12 DEF CrossValidated
    <3>7. F \in [Passengers -> SUBSET Attributes(Passengers)]
      BY <2>2, <3>1, <3>12, FeatureFacts DEF Validating
    <3>8. \A q \in singles : q.chosen = {}
      BY <3>6, <3>7, Hygiene
    <3>9. \A q \in singles : q \in [of : {q.of}, among : {q.among}, from : {q.from}, chosen : {q.chosen}]
      <4>. SUFFICES ASSUME NEW q \in singles
                    PROVE  q \in [of : {q.of}, among : {q.among}, from : {q.from}, chosen : {q.chosen}]
        OBVIOUS
      <4>1. PICK valid \in SUBSET Train : q \in Validated(F, inFold, valid)
        BY <3>6
      <4>2. \E o, a, f, c : q = [of |-> o, among |-> a, from |-> f, chosen |-> c]
        BY <4>1 DEF Validated
      <4>. QED BY <4>2
    <3>10. CASE p \in singles
      BY <3>1, <3>6, <3>8, <3>10, <3>12
    <3>11. CASE votes /\ p \in ValidatedVotes(singles)
      <4>1. study = "model_zoo_ensemble"
        BY <2>2, <3>1, <3>11, <3>12, ScriptFacts DEF Validating
      <4>2. \E q \in singles : p.of = q.of /\ p.among = q.among /\ p.from = q.from
        BY <3>9, <3>11, VotesPredictAlike
      <4>. QED BY <3>1, <3>6, <3>12, <4>1, <4>2
    <3>. QED BY <3>5, <3>10, <3>11
  <2>. QED BY <1>4, <2>1, <2>2, <2>3 DEF FoldInv
<1>7. ASSUME NEW what, Step(what), what # "load", Saved PROVE FoldInv'
  <2>1. /\ study # NoStudy /\ todo # <<>> /\ Head(todo) # "load" /\ todo' = Tail(todo)
        /\ UNCHANGED <<study, matrix>> /\ predicted' = {}
    BY <1>7 DEF Step, Saved
  <2>. QED BY <1>4, <2>1 DEF FoldInv
<1>8. CASE SaveProcessed
  BY <1>7, <1>8 DEF SaveProcessed
<1>9. CASE SaveResults
  BY <1>7, <1>9 DEF SaveResults
<1>10. CASE SaveReport
  BY <1>7, <1>10 DEF SaveReport
<1>11. CASE TrainBestAndSaveSubmission
  BY <1>7, <1>11 DEF TrainBestAndSaveSubmission
<1>12. CASE Finish
  BY <1>2, <1>12 DEF Finish
<1>13. CASE Die
  BY <1>2, <1>13 DEF Die
<1>. QED BY <1>1, <1>3, <1>5, <1>6, <1>8, <1>9, <1>10, <1>11, <1>12, <1>13 DEF StudyNext

\* A validation prediction, of a model or of a vote, is never fitted on a label
\* of its own part; and where nothing is counted over both files, on no other
\* passenger of that part.  Only the members of the zoo's votes are chosen with
\* such labels.
THEOREM PredictionsAreOutOfFold == StudySpec => []FoldHygiene
BY FoldInvInit, FoldInvNext, FoldInvHygiene, PTL DEF StudySpec

-----------------------------------------------------------------------------
(* Ranking *)

\* What a table of ranked rows is: numbered rows with scores, and votes of
\* what their kind says.
IsTable(t) ==
  /\ \E n \in Nat \ {0} : DOMAIN t = 1 .. n
  /\ \A i \in DOMAIN t :
       /\ t[i].mean \in Int /\ t[i].std \in Int
       /\ t[i].kind \in {"single", "top", "preferred"}
       /\ t[i].kind = "preferred" => t[i].members = Preferred
       /\ t[i].kind = "top" => t[i].members = TopModels(Singles(t))

\* The single models of a script are a table.
LEMMA SinglesAreTable ==
  ASSUME NEW n \in Nat \ {0}, NEW deviations \in SUBSET Int, NEW t \in SingleRows(n, deviations)
  PROVE  /\ DOMAIN t = 1 .. n
         /\ \A i \in 1 .. n : /\ t[i].kind = "single" /\ t[i].mean \in Int /\ t[i].std \in Int
         /\ IsTable(t)
<1>1. PICK X : X = UNION {Row("single", {i}, deviations) : i \in 1 .. n}
  OBVIOUS
<1>2. t \in [1 .. n -> X]
  BY <1>1 DEF SingleRows
<1>3. ASSUME NEW x \in X PROVE x.kind = "single" /\ x.mean \in Int /\ x.std \in Int
  <2>1. PICK i \in 1 .. n : x \in Row("single", {i}, deviations)
    BY <1>1
  <2>2. x.kind = "single" /\ x.mean \in Means /\ x.std \in deviations
    BY <2>1 DEF Row
  <2>. QED BY <2>2, DataAssumption
<1>4. DOMAIN t = 1 .. n /\ \A i \in 1 .. n : t[i] \in X
  BY <1>2
<1>. QED BY <1>3, <1>4 DEF IsTable

\* A sequence with two more elements.
LEMMA WithTwo ==
  ASSUME NEW X, NEW s \in Seq(X), NEW n \in Nat, Len(s) = n, NEW a \in X, NEW b \in X,
         NEW t, t = s \o <<a, b>>
  PROVE  /\ DOMAIN t = 1 .. n + 2 /\ \A i \in 1 .. n : t[i] = s[i]
         /\ t[n + 1] = a /\ t[n + 2] = b
<1>1. <<a, b>> \in Seq(X)
  OBVIOUS
<1>2. PICK u \in Seq(X) : u = <<a, b>>
  BY <1>1
<1>3. Len(u) = 2
  BY <1>2
<1>4. u[1] = a /\ u[2] = b
  BY <1>2
<1>5. t = s \o u
  BY <1>2
<1>6. t \in Seq(X)
  BY <1>5
<1>7. Len(t) = n + 2
  BY <1>3, <1>5
<1>8. \A i \in 1 .. n : t[i] = s[i]
  BY <1>5
<1>9. t[n + 1] = u[1] /\ t[n + 2] = u[2]
  BY <1>3, <1>5
<1>. QED BY <1>4, <1>6, <1>7, <1>8, <1>9

\* With the two votes of the zoo they still are.
LEMMA VotesAreTable ==
  ASSUME NEW n \in Nat \ {0}, NEW singles \in SingleRows(n, {0}), NEW t \in WithVotes(singles)
  PROVE  IsTable(t)
<1>1. PICK a \in Row("top", TopModels(singles), Deviations), b \in Row("preferred", Preferred, Deviations) :
        t = singles \o <<a, b>>
  <2>1. PICK votes \in Row("top", TopModels(singles), Deviations) \X Row("preferred", Preferred, Deviations) :
          t = singles \o votes
    BY DEF WithVotes
  <2>2. votes = <<votes[1], votes[2]>>
    BY <2>1
  <2>. QED BY <2>1, <2>2
<1>2. /\ a.kind = "top" /\ a.members = TopModels(singles) /\ a.mean \in Int /\ a.std \in Int
      /\ b.kind = "preferred" /\ b.members = Preferred /\ b.mean \in Int /\ b.std \in Int
  BY DataAssumption DEF Row
<1>3. /\ DOMAIN singles = 1 .. n
      /\ \A i \in 1 .. n : singles[i].kind = "single" /\ singles[i].mean \in Int /\ singles[i].std \in Int
  BY SinglesAreTable
<1>4. PICK X : singles \in [1 .. n -> X]
  BY DEF SingleRows
<1>5. /\ DOMAIN t = 1 .. n + 2 /\ \A i \in 1 .. n : t[i] = singles[i]
      /\ t[n + 1] = a /\ t[n + 2] = b
  <2>1. PICK Y : Y = X \cup {a, b}
    OBVIOUS
  <2>2. singles \in Seq(Y) /\ Len(singles) = n
    BY <1>4, <2>1
  <2>3. a \in Y /\ b \in Y
    BY <2>1
  <2>. QED BY <1>1, <2>2, <2>3, WithTwo
<1>6. \A i \in DOMAIN t : i \in 1 .. n \/ i = n + 1 \/ i = n + 2
  BY <1>5
<1>7. Singles(t) = singles
  <2>1. {j \in DOMAIN t : t[j].kind = "single"} = 1 .. n
    BY <1>2, <1>3, <1>5, <1>6
  <2>2. Singles(t) = [i \in 1 .. n |-> t[i]]
    BY <2>1 DEF Singles
  <2>3. singles = [i \in 1 .. n |-> singles[i]]
    BY <1>4
  <2>. QED BY <1>5, <2>2, <2>3
<1>8. n + 2 \in Nat \ {0}
  OBVIOUS
<1>9. ASSUME NEW i \in DOMAIN t
      PROVE  /\ t[i].mean \in Int /\ t[i].std \in Int
             /\ t[i].kind \in {"single", "top", "preferred"}
             /\ t[i].kind = "preferred" => t[i].members = Preferred
             /\ t[i].kind = "top" => t[i].members = TopModels(singles)
  BY <1>2, <1>3, <1>5, <1>6
<1>. QED BY <1>5, <1>7, <1>8, <1>9 DEF IsTable

\* So what a script ranks is a table.
LEMMA RowsAreTables ==
  ASSUME NEW s \in Studies, NEW t \in Rows(Scripts[s])
  PROVE  IsTable(t)
<1>1. PICK n \in Nat \ {0} : n = Scripts[s].models
  BY ScriptFacts
<1>2. CASE Scripts[s].votes
  <2>1. PICK singles \in SingleRows(n, {0}) : t \in WithVotes(singles)
    BY <1>1, <1>2 DEF Rows
  <2>. QED BY <2>1, VotesAreTable
<1>3. CASE ~Scripts[s].votes
  <2>1. PICK deviations \in SUBSET Int : t \in SingleRows(n, deviations)
    BY <1>1, <1>3, DataAssumption DEF Rows
  <2>. QED BY <2>1, SinglesAreTable
<1>. QED BY <1>2, <1>3

\* Each of the three ways to rank is a strict order that ranks all rows.
LEMMA BeatsOrders ==
  ASSUME NEW a, NEW b, NEW c,
         a.mean \in Int, a.std \in Int, b.mean \in Int, b.std \in Int, c.mean \in Int, c.std \in Int,
         NEW rank \in {"mean", "risk", "lexicographic"}
  PROVE  /\ ~Beats(rank, a, a)
         /\ Beats(rank, a, b) /\ Beats(rank, b, c) => Beats(rank, a, c)
         /\ ~Beats(rank, a, b) /\ ~Beats(rank, b, c) => ~Beats(rank, a, c)
         /\ Beats(rank, a, b) => ~Beats(rank, b, a)
<1>1. PICK ma, sa, mb, sb, mc, sc \in Int :
        ma = a.mean /\ sa = a.std /\ mb = b.mean /\ sb = b.std /\ mc = c.mean /\ sc = c.std
  OBVIOUS
<1>2. CASE rank = "mean"
  BY <1>1, <1>2 DEF Beats
<1>3. CASE rank = "risk"
  BY <1>1, <1>3 DEF Beats
<1>4. CASE rank = "lexicographic"
  BY <1>1, <1>4 DEF Beats
<1>. QED BY <1>2, <1>3, <1>4

\* The ranking has a best row.
LEMMA BestIsRow ==
  ASSUME NEW t, IsTable(t), NEW rank \in {"mean", "risk", "lexicographic"}
  PROVE  \E i \in DOMAIN t : Best(rank, t) = t[i]
<1>. DEFINE beats(i, j) == Beats(rank, t[i], t[j])
<1>1. PICK n \in Nat \ {0} : DOMAIN t = 1 .. n
  BY DEF IsTable
<1>2. IsFiniteSet(DOMAIN t) /\ DOMAIN t # {}
  <2>1. IsFiniteSet(1 .. n)
    BY FS_Interval
  <2>2. 1 \in 1 .. n
    OBVIOUS
  <2>. QED BY <1>1, <2>1, <2>2
<1>3. \A i \in DOMAIN t : i \in Int
  BY <1>1
<1>10. \A i \in DOMAIN t : t[i].mean \in Int /\ t[i].std \in Int
  BY DEF IsTable
<1>4. \A i, j, k \in DOMAIN t :
        /\ ~beats(i, i)
        /\ beats(i, j) /\ beats(j, k) => beats(i, k)
        /\ ~beats(i, j) /\ ~beats(j, k) => ~beats(i, k)
        /\ beats(i, j) => ~beats(j, i)
  BY <1>10, BeatsOrders
<1>5. PICK R : \A i, j \in DOMAIN t : <<i, j>> \in R <=> (beats(i, j) \/ (~beats(j, i) /\ i < j))
  <2>1. PICK S : S = DOMAIN t
    OBVIOUS
  <2>2. PICK R : R = {x \in S \X S : beats(x[1], x[2]) \/ (~beats(x[2], x[1]) /\ x[1] < x[2])}
    OBVIOUS
  <2>3. \A i, j \in S : <<i, j>> \in R <=> (beats(i, j) \/ (~beats(j, i) /\ i < j))
    BY <2>2
  <2>. QED BY <2>1, <2>3
<1>. HIDE DEF beats
<1>6. /\ \A i \in DOMAIN t : ~(<<i, i>> \in R)
      /\ \A i, j, k \in DOMAIN t : <<i, j>> \in R /\ <<j, k>> \in R => <<i, k>> \in R
  BY <1>3, <1>4, <1>5
<1>7. PICK i \in DOMAIN t : \A j \in DOMAIN t : ~(<<j, i>> \in R)
  BY <1>2, <1>6, FirstElement
<1>8. /\ \A j \in DOMAIN t : ~beats(j, i)
      /\ \A j \in 1 .. i - 1 : beats(i, j)
  <2>1. \A j \in DOMAIN t : ~beats(j, i) /\ (j < i => beats(i, j))
    BY <1>5, <1>7
  <2>2. \A j \in 1 .. i - 1 : j \in DOMAIN t /\ j < i
    BY <1>1
  <2>. QED BY <2>1, <2>2
<1>9. \E k \in DOMAIN t : /\ \A j \in DOMAIN t : ~Beats(rank, t[j], t[k])
                          /\ \A j \in 1 .. k - 1 : Beats(rank, t[k], t[j])
  BY <1>8 DEF beats
<1>. QED BY <1>9 DEF Best

\* The members that are trained for the submission are those that were ranked.
LEMMA MembersFound ==
  ASSUME NEW t, IsTable(t), NEW i \in DOMAIN t
  PROVE  FinalMembers(t[i], t) = t[i].members
BY DEF FinalMembers, IsTable

-----------------------------------------------------------------------------
(* What the scripts leave behind *)

\* The scripts that rank, report and submit.
Full == {s \in Studies : Scripts[s].steps = Script.steps}

\* A file is from this run at the latest, or from an earlier one.
Past(f) == f # NoFile => f.run \in Nat /\ f.run <= runs
Older(f) == f # NoFile => f.run \in Nat /\ f.run < runs

\* The rows a script may have ranked, and what it may leave.
Ranking(s) == UNION {{t[i] : i \in DOMAIN t} : t \in Rows(Scripts[s])}

Files(s, submission) ==
  [results : {NoFile} \cup [run : Nat, rows : Rows(Scripts[s])],
   report : {NoFile} \cup [run : Nat, best : Ranking(s)],
   submission : {submission}]

\* A file that was written is there.
LEMMA FilesAreThere ==
  ASSUME NEW s \in Studies, NEW run \in Nat
  PROVE  /\ \A t \in Rows(Scripts[s]) : [run |-> run, rows |-> t] # NoFile
         /\ \A row \in Ranking(s) : [run |-> run, best |-> row] # NoFile
<1>1. PICK tables : tables = UNION {Rows(Scripts[x]) : x \in Studies}
  OBVIOUS
<1>2. PICK best : best = UNION {{t[i] : i \in DOMAIN t} : t \in tables}
  OBVIOUS
<1>3. NoFile \notin [run : Nat, rows : tables] /\ NoFile \notin [run : Nat, best : best]
  BY <1>1, <1>2, NoneAssumption
<1>4. Rows(Scripts[s]) \subseteq tables
  BY <1>1
<1>5. Ranking(s) \subseteq best
  BY <1>2, <1>4 DEF Ranking
<1>. QED BY <1>3, <1>4, <1>5

\* The files of a script are of their kind, and each rests on those before it.
FilesOK(s) ==
  LET d == disk[s] IN
  /\ d \in Files(s, d.submission)
  /\ Past(d.results) /\ Past(d.report) /\ Past(d.submission)
  /\ d.report # NoFile =>
       /\ d.results # NoFile /\ d.report.run <= d.results.run
       /\ d.report.run = d.results.run => d.report.best = Best(Scripts[s].rank, d.results.rows)
  /\ d.submission # NoFile =>
       /\ d.report # NoFile /\ d.submission.run <= d.report.run
       /\ d.submission.run = d.report.run => d.submission.members = d.report.best.members

\* Of the running script: what it has still to do says what it has already
\* written in this run, and what is left from earlier runs.
RunOK(s) ==
  LET d == disk[s] IN
  \/ todo = <<>>
  \/ /\ todo = <<"load">> \o Script.steps \/ todo = Script.steps
     /\ Older(d.results) /\ Older(d.report) /\ Older(d.submission)
  \/ /\ todo = <<"results", "report", "submission">>
     /\ table \in Rows(Scripts[s])
     /\ Older(d.results) /\ Older(d.report) /\ Older(d.submission)
  \/ /\ todo = <<"report", "submission">>
     /\ table \in Rows(Scripts[s])
     /\ d.results = [run |-> runs, rows |-> table]
     /\ Older(d.report) /\ Older(d.submission)
  \/ /\ todo = <<"submission">>
     /\ table \in Rows(Scripts[s])
     /\ d.results = [run |-> runs, rows |-> table]
     /\ d.report = [run |-> runs, best |-> Best(Scripts[s].rank, table)]
     /\ Older(d.submission)

BackedInv ==
  /\ runs \in Nat /\ DOMAIN disk = Studies
  /\ study = NoStudy \/ study \in Studies
  /\ \A s \in Full : FilesOK(s)
  /\ study \in Full => RunOK(study)

\* The backing is part of it.
LEMMA BackedInvBacks == BackedInv => SubmissionIsBacked
<1>. SUFFICES ASSUME BackedInv, NEW s \in Studies, NEW d, d = disk[s],
                     d.submission # NoFile, Scripts[s].steps = Script.steps
     PROVE  /\ d.results # NoFile /\ d.report # NoFile
            /\ d.submission.run <= d.report.run /\ d.report.run <= d.results.run
            /\ d.submission.run = d.report.run => d.submission.members = d.report.best.members
            /\ d.report.run = d.results.run => d.report.best = Best(Scripts[s].rank, d.results.rows)
  BY DEF SubmissionIsBacked
<1>1. FilesOK(s)
  BY DEF BackedInv, Full
<1>. QED BY <1>1 DEF FilesOK

\* Nothing is on the disk at first.
LEMMA BackedInvInit == Init => BackedInv
<1>. SUFFICES ASSUME Init PROVE BackedInv
  OBVIOUS
<1>1. runs = 0 /\ study = NoStudy /\ disk = FreshDisk
  BY DEF Init
<1>2. DOMAIN disk = Studies
  BY <1>1 DEF FreshDisk
<1>3. ASSUME NEW s \in Full PROVE FilesOK(s)
  <2>1. disk[s] = [results |-> NoFile, report |-> NoFile, submission |-> NoFile]
    BY <1>1 DEF FreshDisk, Full
  <2>. QED BY <2>1 DEF FilesOK, Past, Files
<1>4. study \notin Full
  BY <1>1, NoneAssumption DEF Full
<1>. QED BY <1>1, <1>2, <1>3, <1>4 DEF BackedInv

\* The steps of a full script, and what is left of them.
LEMMA StepTails ==
  /\ Tail(<<"load">> \o Script.steps) = Script.steps
  /\ Script.steps = <<"validate", "results", "report", "submission">>
  /\ Tail(<<"validate", "results", "report", "submission">>) = <<"results", "report", "submission">>
  /\ Tail(<<"results", "report", "submission">>) = <<"report", "submission">>
  /\ Tail(<<"report", "submission">>) = <<"submission">>
  /\ Tail(<<"submission">>) = <<>>
  /\ Head(<<"load">> \o Script.steps) = "load"
  /\ Head(<<"validate", "results", "report", "submission">>) = "validate"
  /\ Head(<<"results", "report", "submission">>) = "results"
  /\ Head(<<"report", "submission">>) = "report"
  /\ Head(<<"submission">>) = "submission"
<1>1. Script.steps = <<"validate", "results", "report", "submission">>
  BY DEF Script
<1>2. <<"validate", "results", "report", "submission">> \in Seq(Steps)
  BY DEF Steps
<1>3. Tail(<<"load">> \o Script.steps) = Script.steps /\ Head(<<"load">> \o Script.steps) = "load"
  BY <1>1, <1>2, Loaded
<1>4. /\ Tail(<<"validate", "results", "report", "submission">>) = <<"results", "report", "submission">>
      /\ Tail(<<"results", "report", "submission">>) = <<"report", "submission">>
      /\ Tail(<<"report", "submission">>) = <<"submission">>
      /\ Tail(<<"submission">>) = <<>>
  OBVIOUS
<1>5. /\ Head(<<"validate", "results", "report", "submission">>) = "validate"
      /\ Head(<<"results", "report", "submission">>) = "results"
      /\ Head(<<"report", "submission">>) = "report"
      /\ Head(<<"submission">>) = "submission"
  OBVIOUS
<1>. QED BY <1>1, <1>3, <1>4, <1>5

\* The end of a script leaves its files to be older than those of the next run.
LEMMA BackedInvNext == BackedInv /\ [StudyNext]_vars => BackedInv'
<1>. SUFFICES ASSUME BackedInv, [StudyNext]_vars PROVE BackedInv'
  OBVIOUS
<1>0. runs \in Nat
  BY DEF BackedInv
<1>1. ASSUME UNCHANGED <<runs, disk>> PROVE \A s \in Full : FilesOK(s)'
  BY <1>1 DEF BackedInv, FilesOK, Past
<1>2. CASE UNCHANGED vars
  <2>1. study \in Full => RunOK(study)'
    BY <1>2 DEF BackedInv, RunOK, Older, vars
  <2>. QED BY <1>1, <1>2, <2>1 DEF BackedInv, vars
<1>3. ASSUME End, UNCHANGED <<runs, disk>> PROVE BackedInv'
  <2>1. study' = NoStudy /\ study' \notin Full
    BY <1>3, NoneAssumption DEF End, Full
  <2>. QED BY <1>1, <1>3, <2>1 DEF BackedInv
<1>4. ASSUME NEW s \in Studies, Start(s) PROVE BackedInv'
  <2>1. /\ study' = s /\ runs' = runs + 1 /\ todo' = <<"load">> \o Scripts[s].steps /\ disk' = disk
    BY <1>4 DEF Start
  <2>2. ASSUME NEW u \in Full PROVE FilesOK(u)'
    <3>1. FilesOK(u) /\ disk'[u] = disk[u]
      BY <2>1 DEF BackedInv
    <3>2. \A f : Past(f) => Past(f)'
      BY <2>1 DEF Past, BackedInv
    <3>. QED BY <3>1, <3>2 DEF FilesOK
  <2>3. ASSUME s \in Full PROVE RunOK(s)'
    <3>1. todo' = <<"load">> \o Script.steps
      BY <2>1, <2>3 DEF Full
    <3>2. FilesOK(s) /\ disk'[s] = disk[s]
      BY <2>1, <2>3 DEF BackedInv
    <3>3. \A f : Past(f) => Older(f)'
      BY <2>1 DEF Past, Older, BackedInv
    <3>. QED BY <3>1, <3>2, <3>3 DEF RunOK, FilesOK
  <2>. QED BY <2>1, <2>2, <2>3 DEF BackedInv
<1>5. ASSUME study # NoStudy, todo # <<>>, todo' = Tail(todo), UNCHANGED <<study, runs, disk>>,
             Head(todo) = "load" \/ Head(todo) = "validate",
             study \in Studies /\ Head(todo) = "validate" => table' \in Rows(Scripts[study])
      PROVE  BackedInv'
  <2>1. ASSUME study \in Full PROVE RunOK(study)'
    <3>1. RunOK(study) /\ study \in Studies
      BY <2>1 DEF BackedInv, Full
    <3>2. /\ todo = <<"load">> \o Script.steps \/ todo = Script.steps
          /\ Older(disk[study].results) /\ Older(disk[study].report) /\ Older(disk[study].submission)
      BY <1>5, <3>1, StepTails DEF RunOK
    <3>3. \A f : Older(f) => Older(f)'
      BY <1>5 DEF Older
    <3>4. CASE todo = <<"load">> \o Script.steps
      BY <1>5, <3>2, <3>3, <3>4, StepTails DEF RunOK
    <3>5. CASE todo = Script.steps
      <4>1. todo' = <<"results", "report", "submission">> /\ table' \in Rows(Scripts[study])
        BY <1>5, <3>1, <3>5, StepTails
      <4>. QED BY <1>5, <3>2, <3>3, <4>1 DEF RunOK
    <3>. QED BY <3>2, <3>4, <3>5
  <2>. QED BY <1>1, <1>5, <2>1 DEF BackedInv
<1>6. CASE Load
  <2>1. CASE Scripts[study].reads \subseteq processed
    <3>1. /\ study # NoStudy /\ todo # <<>> /\ todo' = Tail(todo) /\ UNCHANGED <<study, runs, disk>>
          /\ Head(todo) = "load"
      BY <1>6, <2>1 DEF Load, Step
    <3>. QED BY <1>5, <3>1
  <2>2. CASE ~(Scripts[study].reads \subseteq processed)
    BY <1>3, <1>6, <2>2 DEF Load
  <2>. QED BY <2>1, <2>2
<1>7. CASE Validate
  <2>1. /\ study # NoStudy /\ todo # <<>> /\ todo' = Tail(todo) /\ UNCHANGED <<study, runs, disk>>
        /\ Head(todo) = "validate" /\ table' \in Rows(Scripts[study])
    BY <1>7 DEF Validate, Step
  <2>. QED BY <1>5, <2>1
<1>8. CASE Finish
  BY <1>3, <1>8 DEF Finish
<1>9. CASE Die
  BY <1>3, <1>9 DEF Die
\* A save touches the files of the running script only.
<1>10. ASSUME NEW what, Step(what), Saved, DOMAIN disk' = DOMAIN disk,
              \A s \in Studies \ {study} : disk'[s] = disk[s],
              study \in Full => FilesOK(study)' /\ RunOK(study)'
       PROVE  BackedInv'
  <2>1. UNCHANGED <<study, runs>>
    BY <1>10 DEF Saved
  <2>2. ASSUME NEW s \in Full, s # study PROVE FilesOK(s)'
    <3>1. FilesOK(s) /\ disk'[s] = disk[s]
      BY <1>10, <2>2 DEF BackedInv, Full
    <3>. QED BY <2>1, <3>1 DEF FilesOK, Past
  <2>. QED BY <1>10, <2>1, <2>2 DEF BackedInv
<1>11. CASE SaveProcessed
  <2>1. PICK f \in {"features", "labels", "test_features"} : Step(f) /\ Saved /\ UNCHANGED disk
    BY <1>11 DEF SaveProcessed
  <2>2. study \notin Full \/ ~RunOK(study)
    BY <2>1, StepTails DEF Step, RunOK
  <2>. QED BY <1>10, <2>1, <2>2 DEF BackedInv
<1>12. CASE SaveResults
  <2>1. Step("results") /\ Saved /\ disk' = [disk EXCEPT ![study].results = [run |-> runs, rows |-> table]]
    BY <1>12 DEF SaveResults
  <2>2. DOMAIN disk' = DOMAIN disk /\ \A s \in Studies \ {study} : disk'[s] = disk[s]
    BY <2>1 DEF BackedInv
  <2>3. ASSUME study \in Full PROVE FilesOK(study)' /\ RunOK(study)'
    <3>1. FilesOK(study) /\ RunOK(study) /\ study \in DOMAIN disk
      BY <2>3 DEF BackedInv, Full
    <3>2. PICK d, e : d = disk[study] /\ e = disk'[study]
      OBVIOUS
    <3>3. e = [d EXCEPT !.results = [run |-> runs, rows |-> table]]
      BY <2>1, <3>1, <3>2
    <3>4. /\ todo = <<"results", "report", "submission">> /\ table \in Rows(Scripts[study])
          /\ Older(d.results) /\ Older(d.report) /\ Older(d.submission)
      BY <2>1, <3>1, <3>2, StepTails DEF RunOK, Step
    <3>5. /\ e.results = [run |-> runs, rows |-> table] /\ e.report = d.report /\ e.submission = d.submission
      BY <3>1, <3>2, <3>3 DEF FilesOK
    <3>6. todo' = <<"report", "submission">> /\ UNCHANGED <<study, runs, table>>
      BY <2>1, <3>4, StepTails DEF Saved
    <3>7. RunOK(study)'
      BY <3>2, <3>4, <3>5, <3>6 DEF RunOK, Older
    <3>8. FilesOK(study)'
      <4>1. e \in Files(study, e.submission)
        BY <3>1, <3>2, <3>3, <3>4, <3>5 DEF FilesOK, BackedInv, Files
      <4>2. Past(e.results) /\ Past(e.report) /\ Past(e.submission)
        BY <3>1, <3>2, <3>5 DEF FilesOK, BackedInv, Past
      <4>3. e.report # NoFile => e.results # NoFile /\ e.report.run < e.results.run
        <5>1. e.results # NoFile
          BY <1>0, <2>3, <3>4, <3>5, FilesAreThere DEF Full
        <5>. QED BY <3>4, <3>5, <5>1 DEF Older
      <4>4. e.submission # NoFile =>
              /\ e.report # NoFile /\ e.submission.run <= e.report.run
              /\ e.submission.run = e.report.run => e.submission.members = e.report.best.members
        BY <3>1, <3>2, <3>5 DEF FilesOK
      <4>. QED BY <3>2, <3>6, <4>1, <4>2, <4>3, <4>4 DEF FilesOK, Past
    <3>. QED BY <3>7, <3>8
  <2>. QED BY <1>10, <2>1, <2>2, <2>3
<1>13. CASE SaveReport
  <2>1. /\ Step("report") /\ Saved
        /\ disk' = [disk EXCEPT ![study].report = [run |-> runs, best |-> Best(Scripts[study].rank, table)]]
    BY <1>13 DEF SaveReport
  <2>2. DOMAIN disk' = DOMAIN disk /\ \A s \in Studies \ {study} : disk'[s] = disk[s]
    BY <2>1 DEF BackedInv
  <2>3. ASSUME study \in Full PROVE FilesOK(study)' /\ RunOK(study)'
    <3>1. FilesOK(study) /\ RunOK(study) /\ study \in DOMAIN disk
      BY <2>3 DEF BackedInv, Full
    <3>2. PICK d, e, best : d = disk[study] /\ e = disk'[study] /\ best = Best(Scripts[study].rank, table)
      OBVIOUS
    <3>3. e = [d EXCEPT !.report = [run |-> runs, best |-> best]]
      BY <2>1, <3>1, <3>2
    <3>4. /\ todo = <<"report", "submission">> /\ table \in Rows(Scripts[study])
          /\ d.results = [run |-> runs, rows |-> table] /\ Older(d.report) /\ Older(d.submission)
      BY <2>1, <3>1, <3>2, StepTails DEF RunOK, Step
    <3>5. /\ e.results = d.results /\ e.report = [run |-> runs, best |-> best] /\ e.submission = d.submission
      BY <3>1, <3>2, <3>3 DEF FilesOK, Files
    <3>6. todo' = <<"submission">> /\ UNCHANGED <<study, runs, table>>
      BY <2>1, <3>4, StepTails DEF Saved
    <3>7. RunOK(study)'
      BY <3>2, <3>4, <3>5, <3>6 DEF RunOK, Older
    <3>9. best \in Ranking(study)
      <4>1. IsTable(table)
        BY <2>3, <3>4, RowsAreTables DEF Full
      <4>2. Scripts[study].rank \in {"mean", "risk", "lexicographic"}
        BY <2>3, ScriptFacts DEF Full
      <4>3. \E i \in DOMAIN table : best = table[i]
        BY <3>2, <4>1, <4>2, BestIsRow
      <4>. QED BY <3>4, <4>3 DEF Ranking
    <3>10. e.results # NoFile /\ e.report # NoFile
      BY <1>0, <2>3, <3>4, <3>5, <3>9, FilesAreThere DEF Full
    <3>8. FilesOK(study)'
      <4>1. e \in Files(study, e.submission)
        BY <3>1, <3>2, <3>3, <3>4, <3>5, <3>9 DEF FilesOK, BackedInv, Files
      <4>2. Past(e.results) /\ Past(e.report) /\ Past(e.submission)
        BY <3>1, <3>2, <3>5 DEF FilesOK, BackedInv, Past
      <4>3. /\ e.results # NoFile /\ e.report.run <= e.results.run
            /\ e.report.run = e.results.run => e.report.best = Best(Scripts[study].rank, e.results.rows)
        BY <1>0, <3>2, <3>4, <3>5, <3>10
      <4>4. e.submission # NoFile => e.report # NoFile /\ e.submission.run < e.report.run
        BY <3>4, <3>5, <3>10 DEF Older
      <4>5. e.submission # NoFile => e.submission.run \in Nat /\ e.report.run \in Nat
        BY <1>0, <3>4, <3>5 DEF Older
      <4>. QED BY <3>2, <3>6, <4>1, <4>2, <4>3, <4>4, <4>5 DEF FilesOK, Past
    <3>. QED BY <3>7, <3>8
  <2>. QED BY <1>10, <2>1, <2>2, <2>3
<1>14. CASE TrainBestAndSaveSubmission
  <2>1. /\ Step("submission") /\ Saved
        /\ disk' = [disk EXCEPT ![study].submission =
                      [run |-> runs, members |-> FinalMembers(Best(Scripts[study].rank, table), table)]]
    BY <1>14 DEF TrainBestAndSaveSubmission
  <2>2. DOMAIN disk' = DOMAIN disk /\ \A s \in Studies \ {study} : disk'[s] = disk[s]
    BY <2>1 DEF BackedInv
  <2>3. ASSUME study \in Full PROVE FilesOK(study)' /\ RunOK(study)'
    <3>1. FilesOK(study) /\ RunOK(study) /\ study \in DOMAIN disk
      BY <2>3 DEF BackedInv, Full
    <3>2. PICK d, e, best : d = disk[study] /\ e = disk'[study] /\ best = Best(Scripts[study].rank, table)
      OBVIOUS
    <3>3. e = [d EXCEPT !.submission = [run |-> runs, members |-> FinalMembers(best, table)]]
      BY <2>1, <3>1, <3>2
    <3>4. /\ todo = <<"submission">> /\ table \in Rows(Scripts[study])
          /\ d.results = [run |-> runs, rows |-> table] /\ d.report = [run |-> runs, best |-> best]
      BY <2>1, <3>1, <3>2, StepTails DEF RunOK, Step
    <3>5. /\ e.results = d.results /\ e.report = d.report
          /\ e.submission = [run |-> runs, members |-> FinalMembers(best, table)]
      BY <3>1, <3>2, <3>3 DEF FilesOK, Files
    <3>6. todo' = <<>> /\ UNCHANGED <<study, runs, table>>
      BY <2>1, <3>4, StepTails DEF Saved
    <3>7. RunOK(study)'
      BY <3>6 DEF RunOK
    <3>9. FinalMembers(best, table) = best.members /\ best \in Ranking(study)
      <4>1. IsTable(table)
        BY <2>3, <3>4, RowsAreTables DEF Full
      <4>2. Scripts[study].rank \in {"mean", "risk", "lexicographic"}
        BY <2>3, ScriptFacts DEF Full
      <4>3. \E i \in DOMAIN table : best = table[i]
        BY <3>2, <4>1, <4>2, BestIsRow
      <4>. QED BY <3>4, <4>1, <4>3, MembersFound DEF Ranking
    <3>10. e.results # NoFile /\ e.report # NoFile
      BY <1>0, <2>3, <3>4, <3>5, <3>9, FilesAreThere DEF Full
    <3>8. FilesOK(study)'
      <4>1. e \in Files(study, e.submission)
        BY <3>1, <3>2, <3>3, <3>5 DEF FilesOK, Files
      <4>2. Past(e.results) /\ Past(e.report) /\ Past(e.submission)
        BY <3>1, <3>2, <3>5 DEF FilesOK, BackedInv, Past
      <4>3. /\ e.results # NoFile /\ e.report.run <= e.results.run
            /\ e.report.run = e.results.run => e.report.best = Best(Scripts[study].rank, e.results.rows)
        BY <1>0, <3>2, <3>4, <3>5, <3>10
      <4>4. e.report # NoFile /\ e.submission.run <= e.report.run /\ e.submission.members = e.report.best.members
        BY <1>0, <3>4, <3>5, <3>9, <3>10
      <4>. QED BY <3>2, <3>6, <4>1, <4>2, <4>3, <4>4 DEF FilesOK, Past
    <3>. QED BY <3>7, <3>8
  <2>. QED BY <1>10, <2>1, <2>2, <2>3
<1>. QED BY <1>2, <1>4, <1>6, <1>7, <1>8, <1>9, <1>11, <1>12, <1>13, <1>14 DEF StudyNext

\* A submission is never newer than the results and the report that rank its
\* model, wherever a run was stopped, and holds the members they rank first.
THEOREM SubmissionsAreBacked == StudySpec => []SubmissionIsBacked
BY BackedInvInit, BackedInvNext, BackedInvBacks, PTL DEF StudySpec

-----------------------------------------------------------------------------
(* What the suite sends *)

\* What qualifies was found harmless by the guard and brings something new.
LEMMA QualifyingIsHarmless ==
  ASSUME NEW score, NEW limits, NEW best, NEW file, NEW guard, guard = Guarded(best, file),
         QualifyResult(score, guard, limits)
  PROVE  guard.decision = "REVIEW_OK"
<1>1. PICK counts : counts = SummarizeGuard(BuildFlipRows(best, file))
  OBVIOUS
<1>2. DecideGuardResult(counts) \in {"NO_NEW_INFORMATION", "DO_NOT_SUBMIT_WITHOUT_REVIEW", "REVIEW_OK"}
  BY DEF DecideGuardResult
<1>3. guard.decision = DecideGuardResult(counts)
  BY <1>1 DEF Guarded
<1>. QED BY <1>2, <1>3 DEF QualifyResult

\* The rows of a run are numbered by experiment and bear the run's number.
Numbered(rows, run) ==
  /\ \E n \in Nat : DOMAIN rows = 1 .. n
  /\ \A i \in DOMAIN rows : rows[i].experiment = i /\ rows[i].run = run

Filing == {"results", "results opened", "qualified", "qualified opened", "guarded", "guarded opened", "submit"}
SuiteSteps == {"train", "guard", "report"} \cup Filing

\* A table that was written is whole.
LEMMA Tables == ~Torn.whole /\ \A rows : Whole(rows).whole /\ Whole(rows).rows = rows
BY DEF Torn, Whole

\* The running suite: the experiment at hand has a row once it was guarded,
\* what its row says is true of the file that would be sent, and once the
\* qualified table was rewritten it holds the rows that qualify.
SuiteOK ==
  suite # NoSuite =>
    /\ suite \in [step : SuiteSteps, experiment : Nat \ {0}, max : 0 .. Experiments, limits : {suite.limits},
                  submit : {suite.submit}, dry : {suite.dry}, reference : {suite.reference},
                  rows : {suite.rows}, submitted : {suite.submitted}]
    /\ Numbered(suite.rows, suites) /\ suite.rows \in Seq({suite.rows[i] : i \in DOMAIN suite.rows})
    /\ suite.step \in {"train", "guard"} => Len(suite.rows) = suite.experiment - 1
    /\ suite.step # "report" => suite.experiment <= suite.max
    /\ suite.step \in Filing =>
         /\ Len(suite.rows) = suite.experiment
         /\ suite.rows[suite.experiment].qualifies =>
              Guarded(suite.reference, candidates[suite.experiment]).decision = "REVIEW_OK"
    /\ suite.step \in {"guarded", "guarded opened", "submit"} => filed.qualified = Whole(Qualifying(suite.rows))

\* The table lists the file.
InTable(x, rows) == \E i \in DOMAIN rows : rows[i].experiment = x.experiment /\ rows[i].run = x.run

\* What the latest run has sent is in the table unless that is torn, will be in
\* the next one of that run, and is noted for its report.
SentOK ==
  \A x \in sent :
    /\ x.run \in Nat /\ x.run <= suites
    /\ x.run = suites =>
         /\ filed.qualified.whole => InTable(x, filed.qualified.rows)
         /\ suite # NoSuite => /\ x.experiment \in DOMAIN suite.rows /\ suite.rows[x.experiment].qualifies
                               /\ x.experiment \in suite.submitted

\* The report is not of the running suite, and names what its run has sent.
ReportOK ==
  suiteReport # NoFile =>
    /\ suiteReport.run \in Nat /\ suiteReport.run <= suites
    /\ suite # NoSuite => suiteReport.run < suites
    /\ \A x \in sent : x.run = suiteReport.run => x.experiment \in suiteReport.submitted

CampaignInv ==
  /\ suites \in Nat /\ DOMAIN candidates = 1 .. Experiments
  /\ DOMAIN filed = {"results", "qualified", "guard"}
  /\ SuiteOK /\ SentOK /\ ReportOK

\* Nothing is sent at first.
LEMMA CampaignInvInit == CampaignInit => CampaignInv
BY DEF CampaignInit, CampaignInv, SuiteOK, SentOK, ReportOK

\* The end of a suite and its crash change nothing it has sent.
LEMMA CampaignEnds ==
  CampaignInv /\ EndSuite /\ UNCHANGED <<suites, candidates, filed, suiteReport, sent>> => CampaignInv'
<1>. SUFFICES ASSUME CampaignInv, EndSuite, UNCHANGED <<suites, candidates, filed, suiteReport, sent>>
     PROVE  CampaignInv'
  OBVIOUS
<1>1. suite' = NoSuite
  BY DEF EndSuite
<1>2. SuiteOK'
  BY <1>1 DEF SuiteOK
<1>3. SentOK'
  BY <1>1 DEF CampaignInv, SentOK, InTable
<1>4. ReportOK'
  BY <1>1 DEF CampaignInv, ReportOK
<1>. QED BY <1>2, <1>3, <1>4 DEF CampaignInv

\* A running suite that sends nothing and starts no other leaves the report alone.
LEMMA ReportStays ==
  CampaignInv /\ suite # NoSuite /\ UNCHANGED <<suites, suiteReport, sent>> => ReportOK'
BY DEF CampaignInv, ReportOK

\* Every step of the suite keeps the invariant, whatever the scripts do.
LEMMA CampaignInvNext == CampaignInv /\ [CampaignNext]_suiteVars => CampaignInv'
<1>. SUFFICES ASSUME CampaignInv, [CampaignNext]_suiteVars PROVE CampaignInv'
  OBVIOUS
<1>1. CASE UNCHANGED suiteVars
  <2>1. SuiteOK'
    <3>1. SuiteOK /\ UNCHANGED <<suite, suites, candidates, filed>>
      BY <1>1 DEF suiteVars, CampaignInv
    <3>2. suite # NoSuite /\ Numbered(suite.rows, suites) => Numbered(suite.rows, suites)'
      BY <3>1 DEF Numbered
    <3>3. CASE suite = NoSuite
      BY <3>1, <3>3 DEF SuiteOK
    <3>4. CASE suite # NoSuite
      <4>1. PICK s, n, c, f : s = suite /\ n = suites /\ c = candidates /\ f = filed
        OBVIOUS
      <4>2. s = suite' /\ n = suites' /\ c = candidates' /\ f = filed'
        BY <3>1, <4>1
      <4>. QED BY <3>1, <3>2, <3>4, <4>1, <4>2 DEF SuiteOK
    <3>. QED BY <3>3, <3>4
  <2>2. SentOK' /\ ReportOK'
    BY <1>1 DEF suiteVars, CampaignInv, SentOK, ReportOK, InTable
  <2>. QED BY <1>1, <2>1, <2>2 DEF suiteVars, CampaignInv
<1>2. CASE RunSuite
  <2>1. PICK limits \in CliLimits, max \in 0 .. Experiments, submit, dry \in BOOLEAN :
          suite' = [step |-> IF max = 0 THEN "report" ELSE "train", experiment |-> 1, max |-> max,
                    limits |-> limits, submit |-> submit, dry |-> dry,
                    reference |-> {}, rows |-> <<>>, submitted |-> {}]
    BY <1>2 DEF RunSuite
  <2>2. suites' = suites + 1 /\ UNCHANGED <<candidates, filed, suiteReport, sent>>
    BY <1>2 DEF RunSuite
  <2>3. /\ suite'.step = (IF max = 0 THEN "report" ELSE "train") /\ suite'.rows = <<>>
        /\ suite'.experiment = 1 /\ suite'.max = max
    BY <2>1
  <2>4. SuiteOK'
    <3>1. suite' \in [step : SuiteSteps, experiment : Nat \ {0}, max : 0 .. Experiments, limits : {suite'.limits},
                  submit : {suite'.submit}, dry : {suite'.dry}, reference : {suite'.reference},
                  rows : {suite'.rows}, submitted : {suite'.submitted}]
      BY <2>1 DEF SuiteSteps
    <3>2. Numbered(<<>>, suites')
      BY DEF Numbered
    <3>3. suite'.step # "report" => 1 <= max
      BY <2>3, CampaignAssumption
    <3>. QED BY <2>3, <3>1, <3>2, <3>3 DEF SuiteOK, Filing
  <2>5. SentOK'
    <3>1. \A x \in sent : x.run \in Nat /\ x.run <= suites /\ suites \in Nat
      BY DEF CampaignInv, SentOK
    <3>2. \A x \in sent' : x.run # suites' /\ x.run <= suites'
      BY <2>2, <3>1
    <3>. QED BY <2>2, <3>2 DEF CampaignInv, SentOK
  <2>6. ReportOK'
    BY <2>2 DEF CampaignInv, ReportOK
  <2>. QED BY <2>2, <2>4, <2>5, <2>6 DEF CampaignInv
\* A step that goes on with the same rows.
<1>11. ASSUME suite # NoSuite, NEW next \in SuiteSteps \ {"train", "report"}, Goto(next),
              UNCHANGED <<suites, sent>>,
              next = "guard" => suite.step = "train",
              next # "guard" => suite.step \in Filing
       PROVE  /\ suite' = [suite EXCEPT !.step = next] /\ suite'.step = next
              /\ suite'.rows = suite.rows /\ suite'.experiment = suite.experiment
              /\ suite'.reference = suite.reference /\ suite'.max = suite.max
              /\ suite'.submitted = suite.submitted
              /\ suite' \in [step : SuiteSteps, experiment : Nat \ {0}, max : 0 .. Experiments,
                    limits : {suite'.limits}, submit : {suite'.submit}, dry : {suite'.dry},
                    reference : {suite'.reference}, rows : {suite'.rows}, submitted : {suite'.submitted}]
              /\ suite'.experiment <= suite'.max /\ Numbered(suite'.rows, suites')
              /\ suite'.rows \in Seq({suite'.rows[i] : i \in DOMAIN suite'.rows})
  <2>1. suite' = [suite EXCEPT !.step = next]
    BY <1>11 DEF Goto
  <2>2. suite \in [step : SuiteSteps, experiment : Nat \ {0}, max : 0 .. Experiments, limits : {suite.limits},
                  submit : {suite.submit}, dry : {suite.dry}, reference : {suite.reference},
                  rows : {suite.rows}, submitted : {suite.submitted}]
    BY <1>11 DEF CampaignInv, SuiteOK
  <2>3. /\ suite'.step = next /\ suite'.rows = suite.rows /\ suite'.experiment = suite.experiment
        /\ suite'.reference = suite.reference /\ suite'.max = suite.max
        /\ suite'.submitted = suite.submitted
    BY <2>1, <2>2
  <2>4. suite' \in [step : SuiteSteps, experiment : Nat \ {0}, max : 0 .. Experiments,
                    limits : {suite'.limits}, submit : {suite'.submit}, dry : {suite'.dry},
                    reference : {suite'.reference}, rows : {suite'.rows}, submitted : {suite'.submitted}]
    BY <2>1, <2>2, <2>3
  <2>5. suite.experiment <= suite.max /\ Numbered(suite.rows, suites)
        /\ suite.rows \in Seq({suite.rows[i] : i \in DOMAIN suite.rows})
    BY <1>11 DEF CampaignInv, SuiteOK, Filing
  <2>6. Numbered(suite.rows, suites) => Numbered(suite'.rows, suites')
    BY <1>11, <2>3 DEF Numbered
  <2>. QED BY <2>1, <2>3, <2>4, <2>5, <2>6
<1>3. CASE CreateSubmissionForExperiment
  <2>1. /\ suite # NoSuite /\ suite.step = "train" /\ Goto("guard")
        /\ UNCHANGED <<suites, filed, suiteReport, sent>>
        /\ DOMAIN candidates' = DOMAIN candidates
    BY <1>3 DEF CreateSubmissionForExperiment, At
  <2>2. /\ suite'.step = "guard" /\ suite'.rows = suite.rows /\ suite'.experiment = suite.experiment
        /\ suite'.submitted = suite.submitted
        /\ suite' \in [step : SuiteSteps, experiment : Nat \ {0}, max : 0 .. Experiments,
              limits : {suite'.limits}, submit : {suite'.submit}, dry : {suite'.dry},
              reference : {suite'.reference}, rows : {suite'.rows}, submitted : {suite'.submitted}]
        /\ suite'.experiment <= suite'.max /\ Numbered(suite'.rows, suites')
        /\ suite'.rows \in Seq({suite'.rows[i] : i \in DOMAIN suite'.rows})
    BY <1>11, <2>1 DEF SuiteSteps, Filing
  <2>3. Len(suite.rows) = suite.experiment - 1
    BY <2>1 DEF CampaignInv, SuiteOK
  <2>4. SuiteOK'
    BY <2>2, <2>3 DEF SuiteOK, Filing
  <2>5. SentOK'
    BY <2>1, <2>2 DEF CampaignInv, SentOK, InTable
  <2>. QED BY <2>1, <2>4, <2>5, ReportStays DEF CampaignInv
<1>4. CASE RunGuardForSubmission
  <2>1. suite # NoSuite /\ suite.step = "guard" /\ UNCHANGED <<suites, candidates, filed, suiteReport, sent>>
    BY <1>4 DEF RunGuardForSubmission, At
  <2>2. CASE EndSuite
    BY <2>1, <2>2, CampaignEnds
  <2>3. CASE ~EndSuite
    <3>1. PICK mean \in Means, std \in Deviations :
            LET best == Says(disk["model_comparison"].submission.members)
                guard == Guarded(best, candidates[suite.experiment])
                row == [experiment |-> suite.experiment, run |-> suites,
                        qualifies |-> QualifyResult([mean |-> mean, std |-> std], guard, suite.limits)]
            IN  suite' = [suite EXCEPT !.step = "results", !.reference = best, !.rows = Append(suite.rows, row)]
      BY <1>4, <2>3 DEF RunGuardForSubmission
    <3>2. PICK best, guard, score, row, rows :
            /\ best = Says(disk["model_comparison"].submission.members)
            /\ guard = Guarded(best, candidates[suite.experiment]) /\ score = [mean |-> mean, std |-> std]
            /\ row = [experiment |-> suite.experiment, run |-> suites,
                      qualifies |-> QualifyResult(score, guard, suite.limits)]
            /\ rows = Append(suite.rows, row)
      OBVIOUS
    <3>3. suite' = [suite EXCEPT !.step = "results", !.reference = best, !.rows = rows]
      BY <3>1, <3>2
    <3>4. suite \in [step : SuiteSteps, experiment : Nat \ {0}, max : 0 .. Experiments, limits : {suite.limits},
                  submit : {suite.submit}, dry : {suite.dry}, reference : {suite.reference},
                  rows : {suite.rows}, submitted : {suite.submitted}]
      BY <2>1 DEF CampaignInv, SuiteOK
    <3>5. /\ Numbered(suite.rows, suites) /\ suite.rows \in Seq({suite.rows[i] : i \in DOMAIN suite.rows})
          /\ Len(suite.rows) = suite.experiment - 1 /\ suite.experiment <= suite.max
      BY <2>1 DEF CampaignInv, SuiteOK
    <3>6. /\ suite'.step = "results" /\ suite'.rows = rows /\ suite'.experiment = suite.experiment
          /\ suite'.reference = best /\ suite'.max = suite.max /\ suite'.submitted = suite.submitted
      BY <3>3, <3>4
    <3>7. suite' \in [step : SuiteSteps, experiment : Nat \ {0}, max : 0 .. Experiments, limits : {suite'.limits},
                  submit : {suite'.submit}, dry : {suite'.dry}, reference : {suite'.reference},
                  rows : {suite'.rows}, submitted : {suite'.submitted}]
      BY <3>3, <3>4, <3>6 DEF SuiteSteps, Filing
    <3>8. /\ DOMAIN rows = 1 .. suite.experiment /\ Len(rows) = suite.experiment
          /\ rows[suite.experiment] = row
          /\ \A i \in 1 .. suite.experiment - 1 : rows[i] = suite.rows[i]
          /\ DOMAIN suite.rows = 1 .. suite.experiment - 1
      BY <3>2, <3>4, <3>5
    <3>9. /\ row.experiment = suite.experiment /\ row.run = suites
          /\ row.qualifies = QualifyResult(score, guard, suite.limits)
      BY <3>2
    <3>10. Numbered(rows, suites)
      BY <3>4, <3>5, <3>8, <3>9 DEF Numbered
    <3>11. rows \in Seq({rows[i] : i \in DOMAIN rows})
      <4>1. rows \in [1 .. suite.experiment -> {rows[i] : i \in DOMAIN rows}]
        <5>1. rows = [i \in 1 .. suite.experiment |-> rows[i]]
          <6>1. PICK X : X = {suite.rows[i] : i \in DOMAIN suite.rows} \cup {row}
            OBVIOUS
          <6>2. suite.rows \in Seq(X)
            BY <3>5, <6>1
          <6>3. rows \in Seq(X)
            BY <3>2, <6>1, <6>2
          <6>. QED BY <3>8, <6>3
        <5>2. \A i \in 1 .. suite.experiment : rows[i] \in {rows[k] : k \in DOMAIN rows}
          BY <3>8
        <5>. QED BY <5>1, <5>2
      <4>. QED BY <3>4, <4>1
    <3>12. rows[suite.experiment].qualifies =>
             Guarded(best, candidates[suite.experiment]).decision = "REVIEW_OK"
      BY <3>2, <3>8, <3>9, QualifyingIsHarmless
    <3>13. SuiteOK'
      <4>1. Numbered(suite'.rows, suites')
        BY <2>1, <3>6, <3>10
      <4>. QED BY <2>1, <3>5, <3>6, <3>7, <3>8, <3>11, <3>12, <4>1 DEF SuiteOK, Filing
    <3>14. SentOK'
      <4>1. \A x \in sent : x.run \in Nat /\ x.run <= suites
        BY DEF CampaignInv, SentOK
      <4>2. \A x \in sent : x.run = suites =>
              /\ filed.qualified.whole => InTable(x, filed.qualified.rows)
              /\ x.experiment \in DOMAIN suite.rows /\ suite.rows[x.experiment].qualifies
              /\ x.experiment \in suite.submitted
        BY <2>1 DEF CampaignInv, SentOK
      <4>3. \A i \in DOMAIN suite.rows : i \in DOMAIN rows /\ rows[i] = suite.rows[i]
        BY <3>4, <3>8
      <4>. QED BY <2>1, <3>6, <4>1, <4>2, <4>3 DEF SentOK, InTable
    <3>. QED BY <2>1, <3>13, <3>14, ReportStays DEF CampaignInv
  <2>. QED BY <2>2, <2>3
\* A table is emptied, or written from the rows.
<1>12. ASSUME suite # NoSuite, NEW step \in Filing, At(step), NEW next \in Filing, Goto(next),
              NEW name \in {"results", "qualified", "guard"}, NEW content, filed' = [filed EXCEPT ![name] = content],
              UNCHANGED <<suites, candidates, suiteReport, sent>>,
              name = "qualified" => content = Torn \/ content = Whole(Qualifying(suite.rows)),
              name = "qualified" /\ content = Torn => next = "qualified opened",
              name = "results" => step \in {"results", "results opened"} /\ next \in {"results opened", "qualified"},
              name = "guard" => step \in {"guarded", "guarded opened"}
       PROVE  CampaignInv'
  <2>1. suite.step = step
    BY <1>12 DEF At
  <2>2. /\ suite'.step = next /\ suite'.rows = suite.rows /\ suite'.experiment = suite.experiment
        /\ suite'.reference = suite.reference /\ suite'.submitted = suite.submitted
        /\ suite' \in [step : SuiteSteps, experiment : Nat \ {0}, max : 0 .. Experiments,
              limits : {suite'.limits}, submit : {suite'.submit}, dry : {suite'.dry},
              reference : {suite'.reference}, rows : {suite'.rows}, submitted : {suite'.submitted}]
        /\ suite'.experiment <= suite'.max /\ Numbered(suite'.rows, suites')
        /\ suite'.rows \in Seq({suite'.rows[i] : i \in DOMAIN suite'.rows})
    BY <1>11, <1>12, <2>1 DEF SuiteSteps, Filing
  <2>3. /\ Len(suite.rows) = suite.experiment
        /\ suite.rows[suite.experiment].qualifies =>
             Guarded(suite.reference, candidates[suite.experiment]).decision = "REVIEW_OK"
        /\ Numbered(suite.rows, suites)
        /\ suite.step \in {"guarded", "guarded opened"} => filed.qualified = Whole(Qualifying(suite.rows))
    BY <1>12, <2>1 DEF CampaignInv, SuiteOK
  <2>4. DOMAIN filed' = DOMAIN filed
        /\ filed'.qualified = IF name = "qualified" THEN content ELSE filed.qualified
    BY <1>12 DEF CampaignInv
  <2>5. next \in {"guarded", "guarded opened", "submit"} => filed'.qualified = Whole(Qualifying(suite'.rows))
    BY <1>12, <2>1, <2>2, <2>3, <2>4
  <2>6. SuiteOK'
    BY <1>12, <2>2, <2>3, <2>5 DEF SuiteOK, Filing
  <2>7. SentOK'
    <3>1. ASSUME NEW x \in sent, x.run = suites, filed'.qualified.whole
          PROVE  InTable(x, filed'.qualified.rows)
      <4>1. x.experiment \in DOMAIN suite.rows /\ suite.rows[x.experiment].qualifies
        BY <1>12, <3>1 DEF CampaignInv, SentOK
      <4>2. CASE name = "qualified"
        <5>1. /\ x.experiment \in DOMAIN Qualifying(suite.rows)
              /\ Qualifying(suite.rows)[x.experiment] = suite.rows[x.experiment]
          BY <4>1 DEF Qualifying
        <5>2. filed'.qualified.rows = Qualifying(suite.rows)
          BY <1>12, <2>4, <3>1, <4>2, Tables
        <5>3. /\ suite.rows[x.experiment].experiment = x.experiment
              /\ suite.rows[x.experiment].run = suites
          BY <2>3, <4>1 DEF Numbered
        <5>. QED BY <3>1, <5>1, <5>2, <5>3 DEF InTable
      <4>3. CASE name # "qualified"
        BY <2>4, <3>1, <4>3 DEF CampaignInv, SentOK
      <4>. QED BY <4>2, <4>3
    <3>2. \A x \in sent : x.run \in Nat /\ x.run <= suites
      BY DEF CampaignInv, SentOK
    <3>3. \A x \in sent : x.run = suites =>
            /\ x.experiment \in DOMAIN suite.rows /\ suite.rows[x.experiment].qualifies
            /\ x.experiment \in suite.submitted
      BY <1>12 DEF CampaignInv, SentOK
    <3>. QED BY <1>12, <2>2, <3>1, <3>2, <3>3 DEF SentOK, InTable
  <2>. QED BY <1>12, <2>4, <2>6, <2>7, ReportStays DEF CampaignInv
<1>13. ASSUME NEW step \in Filing, NEW next \in Filing, NEW name \in {"results", "qualified", "guard"},
              OpenTable(step, name, next),
              name = "qualified" => next = "qualified opened",
              name = "results" => step \in {"results", "results opened"} /\ next \in {"results opened", "qualified"},
              name = "guard" => step \in {"guarded", "guarded opened"}
       PROVE  CampaignInv'
  BY <1>12, <1>13 DEF OpenTable, At
<1>14. ASSUME suite # NoSuite, NEW step \in Filing, NEW next \in Filing, NEW rows,
              NEW name \in {"results", "qualified", "guard"}, FileTable(step, name, rows, next),
              name = "qualified" => rows = Qualifying(suite.rows),
              name = "results" => step \in {"results", "results opened"} /\ next \in {"results opened", "qualified"},
              name = "guard" => step \in {"guarded", "guarded opened"}
       PROVE  CampaignInv'
  <2>1. Whole(rows) # Torn
    BY Tables
  <2>. QED BY <1>12, <1>14, <2>1 DEF FileTable
<1>5. CASE FileResults
  BY <1>5, <1>13, <1>14 DEF FileResults, Filing
<1>6. CASE FileQualified
  BY <1>6, <1>13, <1>14 DEF FileQualified, Filing
<1>7. CASE FileGuard
  BY <1>7, <1>13, <1>14 DEF FileGuard, Filing
<1>8. CASE RunKaggleSubmit
  <2>1. /\ suite # NoSuite /\ suite.step = "submit" /\ UNCHANGED <<suites, candidates, filed, suiteReport>>
        /\ UNCHANGED sent \/ (suite.rows[suite.experiment].qualifies /\ Sending)
        /\ EndSuite \/ \E submitted : /\ Advance(submitted) /\ suite.submitted \subseteq submitted
                                      /\ UNCHANGED sent \/ suite.experiment \in submitted
    <3>1. suite # NoSuite /\ suite.step = "submit" /\ UNCHANGED <<suites, candidates, filed, suiteReport>>
      BY <1>8 DEF RunKaggleSubmit, At
    <3>2. UNCHANGED sent \/ (suite.rows[suite.experiment].qualifies /\ Sending)
      BY <1>8 DEF RunKaggleSubmit
    <3>3. \/ EndSuite
          \/ Advance(suite.submitted) /\ UNCHANGED sent
          \/ Advance(suite.submitted \cup {suite.experiment})
      BY <1>8 DEF RunKaggleSubmit
    <3>. QED BY <3>1, <3>2, <3>3
  <2>2. suite \in [step : SuiteSteps, experiment : Nat \ {0}, max : 0 .. Experiments, limits : {suite.limits},
                  submit : {suite.submit}, dry : {suite.dry}, reference : {suite.reference},
                  rows : {suite.rows}, submitted : {suite.submitted}]
    BY <2>1 DEF CampaignInv, SuiteOK
  <2>3. /\ Numbered(suite.rows, suites) /\ suite.rows \in Seq({suite.rows[i] : i \in DOMAIN suite.rows})
        /\ Len(suite.rows) = suite.experiment /\ suite.experiment <= suite.max
    BY <2>1 DEF CampaignInv, SuiteOK, Filing
  <2>4. suite.experiment \in DOMAIN suite.rows
    BY <2>2, <2>3
  <2>5. PICK y : y = [experiment |-> suite.experiment, run |-> suites,
                      file |-> candidates[suite.experiment], reference |-> suite.reference]
    OBVIOUS
  <2>10. y.experiment = suite.experiment /\ y.run = suites
    BY <2>5
  <2>9. ASSUME suite.rows[suite.experiment].qualifies PROVE InTable(y, filed.qualified.rows)
    <3>1. /\ suite.experiment \in DOMAIN Qualifying(suite.rows)
          /\ Qualifying(suite.rows)[suite.experiment] = suite.rows[suite.experiment]
      BY <2>4, <2>9 DEF Qualifying
    <3>2. filed.qualified.rows = Qualifying(suite.rows)
      BY <2>1, Tables DEF CampaignInv, SuiteOK
    <3>3. /\ suite.rows[suite.experiment].experiment = suite.experiment
          /\ suite.rows[suite.experiment].run = suites
      BY <2>3, <2>4 DEF Numbered
    <3>. QED BY <2>10, <3>1, <3>2, <3>3 DEF InTable
  <2>6. \A x \in sent' :
          /\ x.run \in Nat /\ x.run <= suites
          /\ x.run = suites =>
               /\ filed.qualified.whole => InTable(x, filed.qualified.rows)
               /\ x.experiment \in DOMAIN suite.rows /\ suite.rows[x.experiment].qualifies
               /\ x.experiment \in suite.submitted \/ (sent' # sent /\ x.experiment = suite.experiment)
    <3>1. ASSUME NEW x \in sent
          PROVE  /\ x.run \in Nat /\ x.run <= suites
                 /\ x.run = suites =>
                      /\ filed.qualified.whole => InTable(x, filed.qualified.rows)
                      /\ x.experiment \in DOMAIN suite.rows /\ suite.rows[x.experiment].qualifies
                      /\ x.experiment \in suite.submitted
      BY <2>1 DEF CampaignInv, SentOK
    <3>2. CASE suite.rows[suite.experiment].qualifies /\ Sending
      <4>1. sent' = sent \cup {y}
        BY <2>5, <3>2 DEF Sending
      <4>2. suites \in Nat /\ suites <= suites
        BY DEF CampaignInv
      <4>. QED BY <2>4, <2>9, <2>10, <3>1, <3>2, <4>1, <4>2
    <3>. QED BY <2>1, <3>1, <3>2
  <2>11. suiteReport # NoFile =>
           /\ suiteReport.run \in Nat /\ suiteReport.run < suites
           /\ \A x \in sent' : x.run = suiteReport.run => x.experiment \in suiteReport.submitted
    <3>1. suiteReport # NoFile =>
            /\ suiteReport.run \in Nat /\ suiteReport.run < suites /\ suites \in Nat
            /\ \A x \in sent : x.run = suiteReport.run => x.experiment \in suiteReport.submitted
      BY <2>1 DEF CampaignInv, ReportOK
    <3>2. \A x \in sent' : x \in sent \/ x.run = suites
      BY <2>1 DEF Sending
    <3>. QED BY <3>1, <3>2
  <2>12. ReportOK'
    BY <2>1, <2>11 DEF CampaignInv, ReportOK
  <2>7. CASE EndSuite
    <3>1. suite' = NoSuite
      BY <2>7 DEF EndSuite
    <3>. QED BY <2>1, <2>6, <2>12, <3>1 DEF CampaignInv, SuiteOK, SentOK, InTable
  <2>8. ASSUME NEW submitted, Advance(submitted), suite.submitted \subseteq submitted,
               UNCHANGED sent \/ suite.experiment \in submitted
        PROVE  CampaignInv'
    <3>1. suite' = [suite EXCEPT !.step = NextStep, !.experiment = suite.experiment + 1, !.submitted = submitted]
      BY <2>8 DEF Advance
    <3>2. /\ suite'.step = NextStep /\ suite'.rows = suite.rows /\ suite'.experiment = suite.experiment + 1
          /\ suite'.max = suite.max /\ suite'.submitted = submitted
      BY <2>2, <3>1
    <3>7. suite.experiment + 1 \in Nat \ {0}
      BY <2>2
    <3>3. NextStep \in {"train", "report"} /\ (NextStep = "train" => suite.experiment < suite.max)
      BY DEF NextStep
    <3>4. suite' \in [step : SuiteSteps, experiment : Nat \ {0}, max : 0 .. Experiments, limits : {suite'.limits},
                  submit : {suite'.submit}, dry : {suite'.dry}, reference : {suite'.reference},
                  rows : {suite'.rows}, submitted : {suite'.submitted}]
      <4>1. PICK next, experiment : next = NextStep /\ experiment = suite.experiment + 1
        OBVIOUS
      <4>2. suite' = [suite EXCEPT !.step = next, !.experiment = experiment, !.submitted = submitted]
        BY <3>1, <4>1
      <4>3. next \in SuiteSteps /\ experiment \in Nat \ {0}
        BY <3>3, <3>7, <4>1 DEF SuiteSteps, Filing
      <4>4. /\ suite'.limits = suite.limits /\ suite'.submit = suite.submit /\ suite'.dry = suite.dry
            /\ suite'.reference = suite.reference /\ suite'.rows = suite.rows /\ suite'.submitted = submitted
        BY <2>2, <4>2
      <4>. QED BY <2>2, <4>2, <4>3, <4>4
    <3>5. SuiteOK'
      <4>1. Numbered(suite'.rows, suites')
        BY <2>1, <2>3, <3>2
      <4>2. Len(suite'.rows) = suite'.experiment - 1
        BY <2>2, <2>3, <3>2
      <4>3. suite'.step # "report" => suite'.experiment <= suite'.max
        BY <2>2, <3>2, <3>3, CampaignAssumption
      <4>4. suite'.step \in {"train", "report"} /\ suite'.rows = suite.rows
        BY <3>2, <3>3
      <4>5. suite'.rows \in Seq({suite'.rows[i] : i \in DOMAIN suite'.rows})
        BY <2>3, <4>4
      <4>6. suite'.step \notin Filing
        BY <4>4 DEF Filing
      <4>. QED BY <3>4, <4>1, <4>2, <4>3, <4>4, <4>5, <4>6 DEF SuiteOK, Filing
    <3>6. SentOK'
      BY <2>1, <2>6, <2>8, <3>2 DEF SentOK, InTable
    <3>. QED BY <2>1, <2>12, <3>5, <3>6 DEF CampaignInv
  <2>. QED BY <2>1, <2>7, <2>8
<1>9. CASE WriteSuiteReport
  <2>1. suite # NoSuite /\ suite' = NoSuite /\ UNCHANGED <<suites, candidates, filed, sent>>
    BY <1>9 DEF WriteSuiteReport, At, EndSuite
  <2>2. SuiteOK' /\ SentOK'
    BY <2>1 DEF CampaignInv, SuiteOK, SentOK, InTable
  <2>3. ReportOK'
    <3>1. CASE UNCHANGED suiteReport
      BY <2>1, <3>1, ReportStays
    <3>2. CASE suiteReport' = [run |-> suites, submitted |-> suite.submitted]
      <4>1. suiteReport'.run = suites /\ suiteReport'.submitted = suite.submitted
        BY <3>2
      <4>2. \A x \in sent : x.run = suites => x.experiment \in suite.submitted
        BY <2>1 DEF CampaignInv, SentOK
      <4>3. suites \in Nat /\ suites <= suites
        BY DEF CampaignInv
      <4>. QED BY <2>1, <4>1, <4>2, <4>3 DEF ReportOK
    <3>. QED BY <1>9, <3>1, <3>2 DEF WriteSuiteReport
  <2>. QED BY <2>1, <2>2, <2>3 DEF CampaignInv
<1>10. CASE SuiteDies
  BY <1>10, CampaignEnds DEF SuiteDies
<1>. QED
  BY <1>1, <1>2, <1>3, <1>4, <1>5, <1>6, <1>7, <1>8, <1>9, <1>10 DEF CampaignNext

\* What is sent at a step: the file of the experiment at hand, which its row
\* qualifies, after the table was written.
LEMMA SendingStep ==
  ASSUME CampaignInv, CampaignNext, NEW x \in sent' \ sent
  PROVE  /\ Guarded(x.reference, x.file).decision = "REVIEW_OK"
         /\ filed'.qualified.whole
<1>1. RunKaggleSubmit
  BY DEF CampaignNext, RunSuite, CreateSubmissionForExperiment, RunGuardForSubmission, FileResults,
         FileQualified, FileGuard, OpenTable, FileTable, WriteSuiteReport, SuiteDies
<1>2. /\ suite # NoSuite /\ suite.step = "submit" /\ UNCHANGED filed
      /\ suite.rows[suite.experiment].qualifies /\ Sending
  BY <1>1 DEF RunKaggleSubmit, At
<1>3. x.file = candidates[suite.experiment] /\ x.reference = suite.reference
  BY <1>2 DEF Sending
<1>4. /\ Guarded(suite.reference, candidates[suite.experiment]).decision = "REVIEW_OK"
      /\ filed.qualified = Whole(Qualifying(suite.rows))
  BY <1>2 DEF CampaignInv, SuiteOK, Filing
<1>. QED BY <1>2, <1>3, <1>4, Tables

\* What the guard has nothing against differs from the best submission, and in
\* no more passengers than its limits allow.
LEMMA HarmlessIsSmall ==
  ASSUME NEW best, NEW file, Guarded(best, file).decision = "REVIEW_OK"
  PROVE  LET up == file \ best
             changed == up \cup (best \ file)
         IN  /\ changed # {} /\ ~(Cardinality(changed) > GuardLimits.changed)
             /\ ~(Cardinality(up) > GuardLimits.up)
<1>1. PICK up : up = file \ best
  OBVIOUS
<1>2. PICK changed : changed = up \cup (best \ file)
  OBVIOUS
<1>3. PICK counts : counts = SummarizeGuard(BuildFlipRows(best, file))
  OBVIOUS
<1>4. counts.changed = Cardinality(changed) /\ counts.up = Cardinality(up)
  BY <1>1, <1>2, <1>3 DEF SummarizeGuard, BuildFlipRows
<1>5. DecideGuardResult(counts) = "REVIEW_OK"
  BY <1>3 DEF Guarded
<1>6. counts.changed # 0 /\ \A k \in DOMAIN GuardLimits : ~(counts[k] > GuardLimits[k])
  BY <1>5 DEF DecideGuardResult
<1>7. changed # {}
  BY <1>4, <1>6, FS_EmptySet
<1>. QED BY <1>1, <1>2, <1>4, <1>6, <1>7, CampaignAssumption

\* A file is sent when the whole qualified table lists it; the table goes on to
\* list what its run has sent except while it is torn, the report of the run
\* names it, and what is sent is within the guard's limits of the submission
\* the guard had read, however loose the user's thresholds.
THEOREM SentFilesQualified == CampaignSpec => SentIsQualified
<1>1. CampaignInv /\ CampaignInv'
      /\ [(StudyNext /\ UNCHANGED suiteVars) \/ (CampaignNext /\ UNCHANGED vars)]_<<vars, suiteVars>>
        => [/\ \A x \in sent' : OnFile(x)
            /\ \A x \in sent' \ sent : SmallChange(x)]_<<vars, suiteVars>>
  <2>. SUFFICES ASSUME CampaignInv, CampaignInv',
                       \/ UNCHANGED suiteVars
                       \/ CampaignNext
       PROVE  /\ \A x \in sent' : OnFile(x)
              /\ \A x \in sent' \ sent : SmallChange(x)
    BY DEF suiteVars
  <2>1. ASSUME NEW x \in sent' \ sent
        PROVE  SmallChange(x) /\ filed'.qualified.whole
    <3>1. CampaignNext
      BY <2>1 DEF suiteVars
    <3>2. Guarded(x.reference, x.file).decision = "REVIEW_OK" /\ filed'.qualified.whole
      BY <2>1, <3>1, SendingStep
    <3>. QED BY <3>2, HarmlessIsSmall DEF SmallChange
  <2>2. ASSUME NEW x \in sent', x.run = suites', filed'.qualified.whole PROVE Listed(x)'
    BY <2>2 DEF CampaignInv, SentOK, InTable, Listed
  <2>3. ASSUME NEW x \in sent', suiteReport' # NoFile, suiteReport'.run = x.run
        PROVE  x.experiment \in suiteReport'.submitted
    BY <2>3 DEF CampaignInv, ReportOK
  <2>4. ASSUME NEW x \in sent' PROVE OnFile(x)
    BY <2>1, <2>2, <2>3 DEF OnFile
  <2>. QED BY <2>1, <2>4
<1>2. CampaignInv
      /\ [(StudyNext /\ UNCHANGED suiteVars) \/ (CampaignNext /\ UNCHANGED vars)]_<<vars, suiteVars>>
        => CampaignInv'
  BY CampaignInvNext
<1>. QED BY <1>1, <1>2, CampaignInvInit, PTL DEF CampaignSpec, SentIsQualified

-----------------------------------------------------------------------------
(* The stored windows *)

\* A bounded set of numbers has a least one.
LEMMA LeastBounded ==
  ASSUME NEW n \in Nat, NEW S \in SUBSET (1 .. n), S # {}
  PROVE  \E i \in S : \A j \in S : i <= j
<1>1. IsFiniteSet(S)
  <2>1. IsFiniteSet(1 .. n)
    BY FS_Interval
  <2>. QED BY <2>1, FS_Subset
<1>2. PICK R : R = {x \in S \X S : x[1] < x[2]}
  OBVIOUS
<1>3. \A i, j \in S : <<i, j>> \in R <=> i < j
  BY <1>2
<1>4. PICK i \in S : \A j \in S : ~(<<j, i>> \in R)
  <2>1. \A b \in S : ~(<<b, b>> \in R)
    BY <1>3
  <2>2. \A b, c, d \in S : <<b, c>> \in R /\ <<c, d>> \in R => <<b, d>> \in R
    BY <1>3
  <2>. QED BY <1>1, <2>1, <2>2, FirstElement
<1>5. \A j \in S : ~(j < i)
  BY <1>3, <1>4
<1>6. \A j \in S : i <= j
  BY <1>5
<1>. QED BY <1>6

\* The windows of a section leave no sentence out.
LEMMA WindowsCover ==
  ASSUME NEW n \in Nat \ {0}
  PROVE  \E last \in 1 .. n :
           /\ DOMAIN ChunkSentences(n) = 1 .. last
           /\ \A m \in 1 .. n : \E i \in 1 .. last : m \in ChunkSentences(n)[i]
<1>1. PICK step : step = Size - Overlap
  OBVIOUS
<1>2. step \in Nat \ {0} /\ Size \in Nat \ {0} /\ step <= Size
  BY <1>1, LabAssumption
<1>. DEFINE From(i) == (i - 1) * step + 1
            Reaches(i, m) == From(i) + Size - 1 >= m
            IsLast(i) == From(i) + Size - 1 >= n /\ \A j \in 1 .. i - 1 : From(j) + Size - 1 < n
            Last == CHOOSE i \in 1 .. n : IsLast(i)
<1>3. \A i \in Nat \ {0} : From(i) \in Nat /\ From(i) >= i
  BY <1>2
<1>4. \E i \in 1 .. n : IsLast(i)
  <2>1. PICK S : S = {i \in 1 .. n : Reaches(i, n)}
    OBVIOUS
  <2>2. n \in S
    BY <1>2, <1>3, <2>1
  <2>3. PICK i \in S : \A j \in S : i <= j
    BY <2>1, <2>2, LeastBounded
  <2>4. \A j \in 1 .. i - 1 : From(j) + Size - 1 < n
    BY <1>2, <1>3, <2>1, <2>3
  <2>. QED BY <2>1, <2>3, <2>4
<1>5. Last \in 1 .. n /\ IsLast(Last)
  BY <1>4
<1>6. ChunkSentences(n) =
        [i \in 1 .. Last |-> From(i) .. (IF i = Last THEN n ELSE From(i) + Size - 1)]
  BY <1>1 DEF ChunkSentences
<1>7. ASSUME NEW m \in 1 .. n PROVE \E i \in 1 .. Last : m \in ChunkSentences(n)[i]
  <2>1. PICK S : S = {i \in 1 .. Last : Reaches(i, m)}
    OBVIOUS
  <2>2. Last \in S
    BY <1>2, <1>3, <1>5, <2>1
  <2>3. PICK i \in S : \A j \in S : i <= j
    <3>1. PICK k : k = Last
      OBVIOUS
    <3>2. k \in Nat /\ S \in SUBSET (1 .. k) /\ S # {}
      <4>. HIDE DEF Last, Reaches
      <4>. QED BY <1>5, <2>1, <2>2, <3>1
    <3>. QED BY <3>2, LeastBounded
  <2>4. i \in 1 .. Last /\ Reaches(i, m)
    BY <2>1, <2>3
  <2>5. From(i) <= m
    <3>1. CASE i = 1
      BY <3>1, <1>2
    <3>2. CASE i # 1
      <4>1. i - 1 \in 1 .. Last /\ i - 1 \notin S
        BY <1>5, <2>3, <2>4, <3>2
      <4>2. ~Reaches(i - 1, m)
        BY <2>1, <4>1
      <4>3. From(i) = From(i - 1) + step
        BY <1>2, <1>5, <2>4
      <4>4. From(i - 1) \in Nat
        BY <1>3, <1>5, <2>4, <3>2
      <4>. QED BY <1>2, <4>2, <4>3, <4>4
    <3>. QED BY <3>1, <3>2
  <2>6. m \in From(i) .. (IF i = Last THEN n ELSE From(i) + Size - 1)
    <3>1. From(i) \in Nat
      BY <1>3, <1>5, <2>4
    <3>. QED BY <1>2, <2>4, <2>5, <3>1
  <2>7. ChunkSentences(n)[i] = From(i) .. (IF i = Last THEN n ELSE From(i) + Size - 1)
    BY <1>6, <2>4
  <2>. QED BY <2>4, <2>6, <2>7
<1>8. DOMAIN ChunkSentences(n) = 1 .. Last
  BY <1>6
<1>. HIDE DEF Last
<1>. QED BY <1>5, <1>7, <1>8

ChunkIds == {<<s, i>> : s \in Sections, i \in 1 .. MaxSentences}

Pdfs == [edition : Nat \ {0}, length : [Sections -> 1 .. MaxSentences]]

\* The chunks of a PDF hold every sentence of it.
LEMMA ChunksCover ==
  ASSUME NEW file \in Pdfs
  PROVE  /\ DOMAIN ChunkDocuments(file) \subseteq ChunkIds /\ DOMAIN ChunkDocuments(file) # {}
         /\ \A s \in Sections : \A n \in 1 .. file.length[s] :
              \E c \in DOMAIN ChunkDocuments(file) :
                /\ c[1] = s /\ ChunkDocuments(file)[c].edition = file.edition
                /\ n \in ChunkDocuments(file)[c].sentences
<1>. DEFINE Windows(s) == ChunkSentences(file.length[s])
<1>1. PICK D : D = {c \in ChunkIds : c[2] \in DOMAIN Windows(c[1])}
  OBVIOUS
<1>2. ChunkDocuments(file) = [c \in D |-> [edition |-> file.edition, sentences |-> Windows(c[1])[c[2]]]]
  BY <1>1 DEF ChunkDocuments, ChunkIds
<1>3. ASSUME NEW s \in Sections, NEW n \in 1 .. file.length[s]
      PROVE  \E c \in D : c[1] = s /\ n \in Windows(s)[c[2]]
  <2>1. file.length[s] \in 1 .. MaxSentences /\ MaxSentences \in Nat
    BY LabAssumption DEF Pdfs
  <2>2. file.length[s] \in Nat \ {0}
    BY <2>1
  <2>3. PICK last \in 1 .. file.length[s] :
          /\ DOMAIN Windows(s) = 1 .. last
          /\ \A m \in 1 .. file.length[s] : \E i \in 1 .. last : m \in Windows(s)[i]
    BY <2>2, WindowsCover
  <2>4. PICK i \in 1 .. last : n \in Windows(s)[i]
    BY <2>3
  <2>5. i \in 1 .. MaxSentences
    BY <2>1, <2>2
  <2>6. PICK c : c = <<s, i>>
    OBVIOUS
  <2>7. c \in ChunkIds /\ c[1] = s /\ c[2] = i
    BY <2>5, <2>6 DEF ChunkIds
  <2>8. c \in D
    BY <1>1, <2>3, <2>7
  <2>. QED BY <2>4, <2>7, <2>8
<1>4. D # {}
  <2>1. PICK s \in Sections : TRUE
    BY LabAssumption
  <2>2. 1 \in 1 .. file.length[s]
    BY LabAssumption DEF Pdfs
  <2>. QED BY <1>3, <2>1, <2>2
<1>5. \A c \in D : /\ ChunkDocuments(file)[c].edition = file.edition
                   /\ ChunkDocuments(file)[c].sentences = Windows(c[1])[c[2]]
  BY <1>2
<1>6. DOMAIN ChunkDocuments(file) = D /\ D \subseteq ChunkIds
  BY <1>1, <1>2
<1>. HIDE DEF Windows
<1>. QED BY <1>3, <1>4, <1>5, <1>6

\* Chunk ids are finitely many.
LEMMA ChunkIdsFinite == IsFiniteSet(ChunkIds)
<1>1. ChunkIds = Sections \X (1 .. MaxSentences)
  BY DEF ChunkIds
<1>2. IsFiniteSet(1 .. MaxSentences)
  BY LabAssumption, FS_Interval
<1>3. IsFiniteSet(Sections \X (1 .. MaxSentences))
  BY <1>2, LabAssumption, FS_Product
<1>. QED BY <1>1, <1>3

\* Qdrant holds at least the chunks of the edition that was stored last.
StoredInv ==
  /\ pdf \in Pdfs /\ indexed \in Nat /\ indexed <= pdf.edition
  /\ DOMAIN index \subseteq ChunkIds
  /\ indexed = pdf.edition =>
       \A c \in DOMAIN ChunkDocuments(pdf) : c \in DOMAIN index /\ index[c] = ChunkDocuments(pdf)[c]

\* A new edition makes what is stored stale, storing it covers it again.
LEMMA StoredInvHolds == LabSpec => []StoredInv
<1>1. LabInit => StoredInv
  BY DEF LabInit, StoredInv, Pdfs
<1>2. ASSUME StoredInv, [LabNext]_labVars PROVE StoredInv'
  <2>1. CASE ReplacePdf
    <3>1. PICK length \in [Sections -> 1 .. MaxSentences] : pdf' = [edition |-> pdf.edition + 1, length |-> length]
      BY <2>1 DEF ReplacePdf
    <3>2. pdf'.edition = pdf.edition + 1 /\ pdf'.length = length /\ UNCHANGED <<index, indexed>>
      BY <2>1, <3>1 DEF ReplacePdf
    <3>3. pdf.edition \in Nat \ {0}
      BY <1>2 DEF StoredInv, Pdfs
    <3>4. pdf' \in Pdfs
      BY <3>1, <3>3 DEF Pdfs
    <3>. QED BY <1>2, <3>2, <3>3, <3>4 DEF StoredInv
  <2>2. CASE IngestMentorProgramPdf
    <3>1. index' = UpsertChunks(index, ChunkDocuments(pdf)) /\ indexed' = pdf.edition /\ pdf' = pdf
      BY <2>2 DEF IngestMentorProgramPdf
    <3>2. pdf \in Pdfs /\ pdf.edition \in Nat
      BY <1>2 DEF StoredInv, Pdfs
    <3>3. DOMAIN ChunkDocuments(pdf) \subseteq ChunkIds
      BY <3>2, ChunksCover
    <3>4. PICK chunks : chunks = ChunkDocuments(pdf)
      OBVIOUS
    <3>5. /\ DOMAIN index' \subseteq ChunkIds
          /\ \A c \in DOMAIN chunks : c \in DOMAIN index' /\ index'[c] = chunks[c]
      BY <1>2, <3>1, <3>3, <3>4 DEF UpsertChunks, StoredInv
    <3>6. ChunkDocuments(pdf)' = ChunkDocuments(pdf)
      BY <3>1
    <3>. QED BY <3>1, <3>2, <3>4, <3>5, <3>6 DEF StoredInv
  <2>3. CASE UNCHANGED <<pdf, index, indexed>>
    BY <1>2, <2>3 DEF StoredInv
  <2>. QED
    BY <1>2, <2>1, <2>2, <2>3
    DEF LabNext, labVars, Ask, RetrieveCandidates, BuildExtractiveAnswer, RetrieveAndBuildContext,
        EndQuestion, RunExperiment, RunHybridWeightExperiment
<1>. QED BY <1>1, <1>2, PTL DEF LabSpec

\* Every sentence of the stored edition can be found.
LEMMA StoredCovers == StoredInv => IndexCovers
<1>. SUFFICES ASSUME StoredInv, indexed = pdf.edition
              PROVE  \A s \in Sections : \A n \in 1 .. pdf.length[s] :
                       \E c \in DOMAIN index :
                         c[1] = s /\ index[c].edition = pdf.edition /\ n \in index[c].sentences
  BY DEF IndexCovers
<1>1. pdf \in Pdfs
  BY DEF StoredInv
<1>2. PICK chunks : chunks = ChunkDocuments(pdf)
  OBVIOUS
<1>3. \A s \in Sections : \A n \in 1 .. pdf.length[s] :
        \E c \in DOMAIN chunks : c[1] = s /\ chunks[c].edition = pdf.edition /\ n \in chunks[c].sentences
  BY <1>1, <1>2, ChunksCover
<1>4. \A c \in DOMAIN chunks : c \in DOMAIN index /\ index[c] = chunks[c]
  BY <1>2 DEF StoredInv
<1>. QED BY <1>3, <1>4
-----------------------------------------------------------------------------
(* The context of an answer *)

\* A search of points there are finds at least one.
LEMMA SearchFinds ==
  ASSUME NEW points, DOMAIN points \subseteq ChunkIds, NEW list \in Search(points, TopK)
  PROVE  /\ \E n \in Nat : DOMAIN list = 1 .. n
         /\ DOMAIN points # {} => 1 \in DOMAIN list
         /\ 1 \in DOMAIN list => list[1].score \in Int
<1>1. PICK n : n = IF Cardinality(DOMAIN points) < TopK THEN Cardinality(DOMAIN points) ELSE TopK
  OBVIOUS
<1>2. \E ids, best :
        /\ best \in Ranked(n)
        /\ list = [i \in 1 .. n |-> [id |-> ids[i], text |-> points[ids[i]], score |-> best[i]]]
  BY <1>1 DEF Search
<1>3. IsFiniteSet(DOMAIN points)
  BY ChunkIdsFinite, FS_Subset
<1>4. Cardinality(DOMAIN points) \in Nat /\ (Cardinality(DOMAIN points) = 0 <=> DOMAIN points = {})
  BY <1>3, FS_CardinalityType, FS_EmptySet
<1>5. n \in Nat /\ (DOMAIN points # {} => n >= 1)
  BY <1>1, <1>4, LabAssumption
<1>6. DOMAIN list = 1 .. n
  BY <1>2
<1>7. ASSUME 1 \in 1 .. n PROVE list[1].score \in Int
  <2>1. PICK ids, best :
          /\ best \in Ranked(n)
          /\ list = [i \in 1 .. n |-> [id |-> ids[i], text |-> points[ids[i]], score |-> best[i]]]
    BY <1>2
  <2>2. best[1] \in Scores
    BY <1>7, <2>1 DEF Ranked
  <2>. QED BY <1>7, <2>1, <2>2, LabAssumption
<1>. QED BY <1>5, <1>6, <1>7

\* The gate answers from candidates whose best reaches the threshold.
LEMMA GateOpens ==
  ASSUME NEW list, NEW min \in Int, NEW margin, NEW n \in Nat, DOMAIN list = 1 .. n,
         1 \in DOMAIN list => list[1].score \in Int,
         DecideAnswerability(list, min, margin) = "answerable"
  PROVE  1 \in DOMAIN list /\ list[1].score >= min
<1>1. list # <<>> /\ ScoreAt(list, 1) >= min
  <2>1. ScoreAt(list, 1) \in Int
    BY DEF ScoreAt
  <2>. QED BY <2>1 DEF DecideAnswerability
<1>2. CASE 1 \in DOMAIN list
  BY <1>1, <1>2 DEF ScoreAt
<1>3. CASE 1 \notin DOMAIN list
  BY <1>1, <1>3
<1>. QED BY <1>2, <1>3

\* A question on its way: nothing is in its context before it ends, and it goes on
\* to one only with candidates that passed the gate, if there is one.
QuestionOK ==
  question # NoQuestion =>
    /\ question \in [step : {"search", "context", "ended", "failed"}, entry : {question.entry},
                     from : {question.from}, strategy : {question.strategy}, min : {question.min},
                     margin : {question.margin}, documents : {question.documents},
                     chunks : {question.chunks}, found : {question.found}, ranked : {question.ranked},
                     reason : {question.reason}, context : {question.context}]
    /\ question.from \in {"memory", "qdrant"} /\ question.min \in Int
    /\ question.strategy = "extractive" => Gated(question)
    /\ DOMAIN question.chunks \subseteq ChunkIds /\ DOMAIN question.chunks # {}
    /\ question.step \in {"search", "context"} => question.context = <<>>
    /\ question.step = "search" => question.reason = "none"
    /\ question.step \in {"context", "ended"} /\ question.reason = "answerable" =>
         /\ \E n \in Nat : DOMAIN question.found = 1 .. n
         /\ 1 \in DOMAIN question.found
         /\ Gated(question) => question.found[1].score >= question.min
    /\ question.step = "context" => question.reason = "answerable"

LabInv == StoredInv /\ QuestionOK /\ ContextIsEarned

\* No step of a question breaks what is known of it.
LEMMA LabInvHolds == LabSpec => []LabInv
<1>1. LabInit => QuestionOK /\ ContextIsEarned
  BY DEF LabInit, QuestionOK, ContextIsEarned, AskStep
<1>2. ASSUME StoredInv, QuestionOK, ContextIsEarned, [LabNext]_labVars PROVE QuestionOK' /\ ContextIsEarned'
  <2>1. CASE Ask
    <3>1. PICK how \in GuardEntry \cup PipelineEntry \cup EvaluationEntry :
       question' = [step |-> "search", entry |-> how.entry, from |-> how.from, strategy |-> how.strategy,
                    min |-> how.min, margin |-> how.margin, documents |-> Documents(pdf),
                    chunks |-> ChunkDocuments(pdf), found |-> <<>>, ranked |-> <<>>, reason |-> "none", context |-> <<>>]
      BY <2>1 DEF Ask
    <3>2. /\ question'.step = "search" /\ question'.entry = how.entry /\ question'.from = how.from
          /\ question'.strategy = how.strategy /\ question'.min = how.min /\ question'.chunks = ChunkDocuments(pdf)
          /\ question'.reason = "none" /\ question'.context = <<>>
      BY <3>1
    <3>3. question' \in
            [step : {"search", "context", "ended", "failed"}, entry : {question'.entry},
             from : {question'.from}, strategy : {question'.strategy}, min : {question'.min},
             margin : {question'.margin}, documents : {question'.documents},
             chunks : {question'.chunks}, found : {question'.found}, ranked : {question'.ranked},
             reason : {question'.reason}, context : {question'.context}]
      BY <3>1
    <3>14. /\ how.from \in {"memory", "qdrant"} /\ how.min \in MinScores \cup {0}
           /\ how.strategy = "extractive" => how.entry = "guard"
      <4>1. CASE how \in GuardEntry
        BY <4>1 DEF GuardEntry
      <4>2. CASE how \in PipelineEntry
        BY <4>2 DEF PipelineEntry
      <4>3. CASE how \in EvaluationEntry
        BY <4>3 DEF EvaluationEntry
      <4>. QED BY <4>1, <4>2, <4>3
    <3>4. /\ how.from \in {"memory", "qdrant"} /\ how.min \in Int
          /\ how.strategy = "extractive" => how.entry = "guard"
      <4>1. MinScores \cup {0} \subseteq Int
        BY LabAssumption
      <4>. QED BY <3>14, <4>1
    <3>5. DOMAIN ChunkDocuments(pdf) \subseteq ChunkIds /\ DOMAIN ChunkDocuments(pdf) # {}
      BY <1>2, ChunksCover DEF StoredInv
    <3>6. question'.strategy = "extractive" => Gated(question')
      BY <3>2, <3>4 DEF Gated
    <3>7. QuestionOK'
      BY <3>2, <3>3, <3>4, <3>5, <3>6 DEF QuestionOK
    <3>. QED BY <3>2, <3>7 DEF ContextIsEarned, AskStep
  \* What is known of the question at hand.
  <2>10. ASSUME question # NoQuestion
         PROVE  /\ question \in
                     [step : {"search", "context", "ended", "failed"}, entry : {question.entry},
                      from : {question.from}, strategy : {question.strategy}, min : {question.min},
                      margin : {question.margin}, documents : {question.documents},
                      chunks : {question.chunks}, found : {question.found}, ranked : {question.ranked},
                      reason : {question.reason}, context : {question.context}]
                /\ question.from \in {"memory", "qdrant"} /\ question.min \in Int
                /\ question.strategy = "extractive" => Gated(question)
                /\ DOMAIN question.chunks \subseteq ChunkIds /\ DOMAIN question.chunks # {}
                /\ question.step \in {"search", "context"} => question.context = <<>>
                /\ question.step = "context" =>
                     /\ question.reason = "answerable" /\ 1 \in DOMAIN question.found
                     /\ \E n \in Nat : DOMAIN question.found = 1 .. n
                     /\ Gated(question) => question.found[1].score >= question.min
    BY <1>2, <2>10 DEF QuestionOK
  <2>2. CASE RetrieveCandidates
    <3>1. question # NoQuestion /\ question.step = "search"
      BY <2>2 DEF RetrieveCandidates, AskStep
    <3>12. PICK list \in Search(IF question.from = "qdrant" THEN index ELSE question.chunks, TopK) :
       LET reason == IF Gated(question) THEN DecideAnswerability(list, question.min, question.margin) ELSE "answerable"
       IN  question' = [question EXCEPT !.found = list, !.reason = reason,
                                        !.step = IF reason = "answerable" THEN "context"
                                                 ELSE IF question.entry = "evaluation" THEN "failed" ELSE "ended"]
      BY <2>2 DEF RetrieveCandidates
    <3>13. PICK reason, next :
            /\ reason = IF Gated(question) THEN DecideAnswerability(list, question.min, question.margin)
                        ELSE "answerable"
            /\ next = IF reason = "answerable" THEN "context"
                      ELSE IF question.entry = "evaluation" THEN "failed" ELSE "ended"
      OBVIOUS
    <3>2. /\ list \in Search(IF question.from = "qdrant" THEN index ELSE question.chunks, TopK)
          /\ reason = IF Gated(question) THEN DecideAnswerability(list, question.min, question.margin)
                        ELSE "answerable"
          /\ next = IF reason = "answerable" THEN "context"
                      ELSE IF question.entry = "evaluation" THEN "failed" ELSE "ended"
          /\ question' = [question EXCEPT !.found = list, !.reason = reason, !.step = next]
      BY <3>12, <3>13
    <3>3. /\ question'.found = list /\ question'.reason = reason /\ question'.step = next
          /\ question'.entry = question.entry /\ question'.from = question.from
          /\ question'.strategy = question.strategy /\ question'.min = question.min
          /\ question'.margin = question.margin /\ question'.documents = question.documents
          /\ question'.chunks = question.chunks /\ question'.ranked = question.ranked
          /\ question'.context = <<>>
      BY <2>10, <3>1, <3>2
    <3>4. next \in {"context", "ended", "failed"} /\ (next = "context" <=> reason = "answerable")
      BY <3>2
    <3>5. question' \in
            [step : {"search", "context", "ended", "failed"}, entry : {question'.entry},
             from : {question'.from}, strategy : {question'.strategy}, min : {question'.min},
             margin : {question'.margin}, documents : {question'.documents},
             chunks : {question'.chunks}, found : {question'.found}, ranked : {question'.ranked},
             reason : {question'.reason}, context : {question'.context}]
      <4>1. question' = [question EXCEPT !.found = list, !.reason = reason, !.step = next]
        BY <3>2
      <4>. QED BY <2>10, <3>1, <3>3, <3>4, <4>1
    <3>6. Gated(question') <=> Gated(question)
      BY <3>3 DEF Gated
    <3>7. PICK points : points = IF question.from = "qdrant" THEN index ELSE question.chunks
      OBVIOUS
    <3>8. DOMAIN points \subseteq ChunkIds /\ list \in Search(points, TopK)
      BY <1>2, <2>10, <3>1, <3>2, <3>7 DEF StoredInv
    <3>9. /\ \E n \in Nat : DOMAIN list = 1 .. n
          /\ DOMAIN points # {} => 1 \in DOMAIN list
          /\ 1 \in DOMAIN list => list[1].score \in Int
      BY <3>8, SearchFinds
    <3>10. CASE reason = "answerable"
      <4>1. Gated(question) => 1 \in DOMAIN list /\ list[1].score >= question.min
        BY <2>10, <3>1, <3>2, <3>9, <3>10, GateOpens
      <4>2. ~Gated(question) => 1 \in DOMAIN list
        BY <2>10, <3>1, <3>7, <3>9 DEF Gated
      <4>3. QuestionOK'
        BY <2>10, <3>1, <3>3, <3>4, <3>5, <3>6, <3>9, <3>10, <4>1, <4>2 DEF QuestionOK
      <4>. QED BY <3>3, <3>4, <3>10, <4>3 DEF ContextIsEarned, AskStep
    <3>11. CASE reason # "answerable"
      <4>1. QuestionOK'
        BY <2>10, <3>1, <3>3, <3>4, <3>5, <3>6, <3>11 DEF QuestionOK
      <4>2. ContextIsEarned'
        BY <3>3, <3>11 DEF ContextIsEarned
      <4>. QED BY <4>1, <4>2
    <3>. QED BY <3>10, <3>11
  \* A question that ends with a context.
  <2>11. ASSUME question # NoQuestion, question.step = "context", NEW ranked, NEW context,
                question' = [question EXCEPT !.step = "ended", !.ranked = ranked, !.context = context],
                context # <<>>,
                question.strategy = "extractive" => context = FilterResultsByScore(question.found, question.min),
                question.strategy = "parent_section" => context[1].text = question.documents[ranked[1].id[1]]
         PROVE  QuestionOK' /\ ContextIsEarned'
    <3>3. /\ question'.found = question.found /\ question'.reason = question.reason /\ question'.step = "ended"
          /\ question'.entry = question.entry /\ question'.from = question.from
          /\ question'.strategy = question.strategy /\ question'.min = question.min
          /\ question'.margin = question.margin /\ question'.documents = question.documents
          /\ question'.chunks = question.chunks /\ question'.ranked = ranked
          /\ question'.context = context
      BY <2>10, <2>11
    <3>5. question' \in
            [step : {"search", "context", "ended", "failed"}, entry : {question'.entry},
             from : {question'.from}, strategy : {question'.strategy}, min : {question'.min},
             margin : {question'.margin}, documents : {question'.documents},
             chunks : {question'.chunks}, found : {question'.found}, ranked : {question'.ranked},
             reason : {question'.reason}, context : {question'.context}]
      BY <2>10, <2>11, <3>3
    <3>6. Gated(question') <=> Gated(question)
      BY <3>3 DEF Gated
    <3>7. QuestionOK'
      BY <2>10, <2>11, <3>3, <3>5, <3>6 DEF QuestionOK
    <3>8. ASSUME question.strategy = "extractive"
          PROVE  \A i \in DOMAIN question.found :
                   question.found[i].score >= question.min <=> \E j \in DOMAIN context : context[j] = question.found[i]
      BY <2>11, <3>8 DEF FilterResultsByScore
    <3>. QED BY <2>10, <2>11, <3>3, <3>6, <3>7, <3>8 DEF ContextIsEarned
  <2>3. CASE BuildExtractiveAnswer
    <3>1. question # NoQuestion /\ question.step = "context" /\ question.strategy = "extractive"
      BY <2>3 DEF BuildExtractiveAnswer, AskStep
    <3>2. PICK context : context = FilterResultsByScore(question.found, question.min)
      OBVIOUS
    <3>3. question' = [question EXCEPT !.step = "ended", !.ranked = question.found, !.context = context]
      BY <2>3, <3>2 DEF BuildExtractiveAnswer
    <3>4. 1 \in DOMAIN question.found /\ question.found[1].score >= question.min
      BY <2>10, <3>1
    <3>5. 1 \in DOMAIN context
      BY <3>2, <3>4 DEF FilterResultsByScore
    <3>6. context # <<>>
      BY <3>5
    <3>. QED BY <2>11, <3>1, <3>2, <3>3, <3>6
  <2>4. CASE RetrieveAndBuildContext
    <3>1. question # NoQuestion /\ question.step = "context" /\ question.strategy # "extractive"
      BY <2>4 DEF RetrieveAndBuildContext, AskStep
    <3>2. PICK p \in Rerank(question.found), k \in 1 .. TopK :
            LET order == [i \in DOMAIN p |-> question.found[p[i]]]
                ranked == SubSeq(order, 1, IF k < Len(order) THEN k ELSE Len(order))
            IN  question' = [question EXCEPT !.step = "ended", !.ranked = ranked,
                               !.context = IF question.strategy = "parent_section"
                                           THEN <<ParentSectionAsContext(ranked[1], question.documents)>>
                                           ELSE ranked]
      BY <2>4 DEF RetrieveAndBuildContext
    <3>3. PICK order, ranked, context :
            /\ order = [i \in DOMAIN p |-> question.found[p[i]]]
            /\ ranked = SubSeq(order, 1, IF k < Len(order) THEN k ELSE Len(order))
            /\ context = IF question.strategy = "parent_section"
                         THEN <<ParentSectionAsContext(ranked[1], question.documents)>> ELSE ranked
      OBVIOUS
    <3>4. question' = [question EXCEPT !.step = "ended", !.ranked = ranked, !.context = context]
      BY <3>2, <3>3
    <3>5. PICK n \in Nat : DOMAIN question.found = 1 .. n /\ n >= 1
      BY <2>10, <3>1
    <3>6. DOMAIN p = 1 .. n /\ \A i \in 1 .. n : p[i] \in 1 .. n
      BY <3>5 DEF Rerank
    <3>7. PICK X : X = {question.found[i] : i \in 1 .. n}
      OBVIOUS
    <3>8. order \in Seq(X) /\ Len(order) = n
      <4>1. order \in [1 .. n -> X]
        BY <3>3, <3>6, <3>7
      <4>. QED BY <4>1
    <3>9. ranked # <<>>
      BY <3>3, <3>5, <3>8, LabAssumption
    <3>10. context # <<>>
      BY <3>3, <3>9
    <3>11. question.strategy = "parent_section" => context[1].text = question.documents[ranked[1].id[1]]
      BY <3>3 DEF ParentSectionAsContext
    <3>. QED BY <2>11, <3>1, <3>4, <3>10, <3>11
  <2>5. CASE EndQuestion
    <3>1. question' = NoQuestion
      BY <2>5 DEF EndQuestion
    <3>. QED BY <3>1 DEF QuestionOK, ContextIsEarned, AskStep
  <2>6. CASE UNCHANGED question
    BY <1>2, <2>6 DEF QuestionOK, ContextIsEarned, AskStep, Gated
  <2>. QED
    BY <1>2, <2>1, <2>2, <2>3, <2>4, <2>5, <2>6
    DEF LabNext, labVars, ReplacePdf, IngestMentorProgramPdf, RunExperiment, RunHybridWeightExperiment
<1>. QED BY <1>1, <1>2, StoredInvHolds, PTL DEF LabSpec, LabInv
-----------------------------------------------------------------------------
(* What the experiments measure *)

\* The observations an experiment can make.
GateTrials == [kind : {"gate"}, cases : [1 .. 2 -> [list : Lists, expected : BOOLEAN]]]
HybridTrials ==
  [kind : {"hybrid"}, chunks : [1 .. 3 -> [document : Sections, vector : Scores, keyword : Overlaps]]]

TrialInv == trial # <<>> => trial \in GateTrials \cup HybridTrials

\* An experiment observes once.
LEMMA TrialInvHolds == LabSpec => []TrialInv
<1>1. LabInit => TrialInv
  BY DEF LabInit, TrialInv
<1>2. TrialInv /\ [LabNext]_labVars => TrialInv'
  BY DEF TrialInv, LabNext, labVars, ReplacePdf, IngestMentorProgramPdf, Ask, RetrieveCandidates,
         BuildExtractiveAnswer, RetrieveAndBuildContext, EndQuestion, RunExperiment,
         RunHybridWeightExperiment, GateTrials, HybridTrials
<1>. QED BY <1>1, <1>2, PTL DEF LabSpec

\* Cases are finitely many.
LEMMA IntervalsFinite == \A n \in Nat : IsFiniteSet(1 .. n)
BY FS_Interval

\* The candidates of a case: none, or a best one and maybe more.
LEMMA ListFacts ==
  ASSUME NEW list \in Lists
  PROVE  \/ list = <<>>
         \/ \E n \in Nat \ {0} : /\ DOMAIN list = 1 .. n /\ Len(list) = n /\ list # <<>>
                                 /\ \A i \in 1 .. n : ScoreAt(list, i) \in Int
<1>1. CASE list # <<>>
  <2>1. PICK n \in 1 .. TopK : list \in {[i \in 1 .. n |-> [score |-> f[i]]] : f \in Ranked(n)}
    BY <1>1 DEF Lists
  <2>2. PICK f \in Ranked(n) : list = [i \in 1 .. n |-> [score |-> f[i]]]
    BY <2>1
  <2>3. n \in Nat \ {0}
    BY LabAssumption
  <2>4. \A i \in 1 .. n : f[i] \in Int
    BY LabAssumption DEF Ranked
  <2>5. DOMAIN list = 1 .. n /\ \A i \in 1 .. n : list[i].score = f[i]
    BY <2>2
  <2>6. Len(list) = n
    <3>1. PICK X : X = {[score |-> f[i]] : i \in 1 .. n}
      OBVIOUS
    <3>2. list \in [1 .. n -> X]
      BY <2>2, <3>1
    <3>. QED BY <2>3, <3>2
  <2>7. \A i \in 1 .. n : ScoreAt(list, i) \in Int
    BY <2>4, <2>5 DEF ScoreAt
  <2>. QED BY <1>1, <2>3, <2>5, <2>6, <2>7
<1>. QED BY <1>1

\* A stricter gate answers nothing that a looser one refuses; without a margin
\* the gate asks for the best score alone.
LEMMA GateIsMonotone ==
  ASSUME NEW list \in Lists
  PROVE  /\ \A min, min2, margin, margin2 \in Nat :
              min <= min2 /\ margin <= margin2 /\ DecideAnswerability(list, min2, margin2) = "answerable" =>
                DecideAnswerability(list, min, margin) = "answerable"
         /\ \A min \in Nat : (min > 0 \/ list # <<>>) =>
              (ScoreAt(list, 1) >= min <=> DecideAnswerability(list, min, 0) = "answerable")
<1>1. CASE list = <<>>
  <2>1. \A min, margin : DecideAnswerability(list, min, margin) = "no_results"
    BY <1>1 DEF DecideAnswerability
  <2>2. ScoreAt(list, 1) = 0
    BY <1>1 DEF ScoreAt
  <2>. QED BY <1>1, <2>1, <2>2
<1>2. CASE list # <<>>
  <2>1. PICK n \in Nat \ {0} : Len(list) = n /\ \A i \in 1 .. n : ScoreAt(list, i) \in Int
    BY <1>2, ListFacts
  <2>2. PICK first, second : first = ScoreAt(list, 1) /\ second = ScoreAt(list, 2)
    OBVIOUS
  <2>3. first \in Int /\ (n > 1 => second \in Int)
    BY <2>1, <2>2
  <2>4. \A min, margin \in Nat :
          DecideAnswerability(list, min, margin) = "answerable" <=>
            first >= min /\ ~(margin > 0 /\ n > 1 /\ first - second < margin)
    BY <1>2, <2>1, <2>2, <2>3 DEF DecideAnswerability
  <2>. QED BY <2>2, <2>3, <2>4
<1>. QED BY <1>1, <1>2

\* Of two settings the stricter one gives no more answers, and so no more wrong ones.
LEMMA StricterAnswersLess ==
  ASSUME NEW cases \in [1 .. 2 -> [list : Lists, expected : BOOLEAN]],
         NEW min \in Nat, NEW min2 \in Nat, NEW margin \in Nat, NEW margin2 \in Nat,
         min <= min2, margin <= margin2
  PROVE  /\ EvaluateAnswerability(cases, min2, margin2).fp <= EvaluateAnswerability(cases, min, margin).fp
         /\ EvaluateAnswerability(cases, min2, margin2).tp <= EvaluateAnswerability(cases, min, margin).tp
<1>. DEFINE Wrong(a, b) == {i \in DOMAIN cases : ~cases[i].expected /\ DecideAnswerability(cases[i].list, a, b) = "answerable"}
            Right(a, b) == {i \in DOMAIN cases : cases[i].expected /\ DecideAnswerability(cases[i].list, a, b) = "answerable"}
<1>1. \A a, b : /\ EvaluateAnswerability(cases, a, b).fp = Cardinality(Wrong(a, b))
                /\ EvaluateAnswerability(cases, a, b).tp = Cardinality(Right(a, b))
  BY DEF EvaluateAnswerability, Confusion
<1>2. IsFiniteSet(DOMAIN cases)
  <2>1. DOMAIN cases = 1 .. 2
    OBVIOUS
  <2>2. IsFiniteSet(1 .. 2)
    BY IntervalsFinite
  <2>. QED BY <2>1, <2>2
<1>3. Wrong(min2, margin2) \subseteq Wrong(min, margin) /\ Right(min2, margin2) \subseteq Right(min, margin)
  BY GateIsMonotone
<1>4. IsFiniteSet(Wrong(min, margin)) /\ IsFiniteSet(Right(min, margin))
  <2>1. Wrong(min, margin) \subseteq DOMAIN cases /\ Right(min, margin) \subseteq DOMAIN cases
    OBVIOUS
  <2>. HIDE DEF Wrong, Right
  <2>. QED BY <1>2, <2>1, FS_Subset
<1>. HIDE DEF Wrong, Right
<1>5. /\ Cardinality(Wrong(min2, margin2)) <= Cardinality(Wrong(min, margin))
      /\ Cardinality(Right(min2, margin2)) <= Cardinality(Right(min, margin))
  BY <1>3, <1>4, FS_Subset
<1>. QED BY <1>1, <1>5

\* The measures are numbers.
LEMMA MeasuresAreNumbers ==
  ASSUME NEW cases \in [1 .. 2 -> [list : Lists, expected : BOOLEAN]], NEW min, NEW margin
  PROVE  EvaluateAnswerability(cases, min, margin).fp \in Nat
<1>1. PICK W : W = {i \in DOMAIN cases : ~cases[i].expected /\ DecideAnswerability(cases[i].list, min, margin) = "answerable"}
  OBVIOUS
<1>2. EvaluateAnswerability(cases, min, margin).fp = Cardinality(W)
  BY <1>1 DEF EvaluateAnswerability, Confusion
<1>3. IsFiniteSet(1 .. 2)
  BY IntervalsFinite
<1>4. IsFiniteSet(W)
  <2>1. W \in SUBSET (1 .. 2)
    BY <1>1
  <2>. QED BY <1>3, <2>1, FS_Subset
<1>. QED BY <1>2, <1>4, FS_CardinalityType

\* The calibration and the gate agree, and caution makes no more wrong answers.
LEMMA CautionPays == TrialInv => CautionIsMonotone
<1>. SUFFICES ASSUME TrialInv, trial # <<>>, trial.kind = "gate", NEW cases, cases = trial.cases
              PROVE  /\ \A min \in MinScores :
                          (min > 0 \/ \A i \in DOMAIN cases : cases[i].list # <<>>) =>
                             EvaluateThreshold(cases, min) = EvaluateAnswerability(cases, min, 0)
                     /\ \A x, y \in Settings : x[1] <= y[1] /\ x[2] <= y[2] =>
                          Measured(cases)[y].fp <= Measured(cases)[x].fp /\ Measured(cases)[y].tp <= Measured(cases)[x].tp
                     /\ \A x \in FindBestThreshold(cases), y \in LowestFalsePositive(cases) :
                          Measured(cases)[y].fp <= Measured(cases)[x].fp
  BY DEF CautionIsMonotone
<1>1. cases \in [1 .. 2 -> [list : Lists, expected : BOOLEAN]]
  BY DEF TrialInv, GateTrials, HybridTrials
<1>2. MinScores \subseteq Nat /\ Margins \subseteq Nat
  BY LabAssumption
<1>3. \A x \in Settings : x[1] \in Nat /\ x[2] \in Nat
  BY <1>2 DEF Settings
<1>4. \A x \in Settings : Measured(cases)[x] = EvaluateAnswerability(cases, x[1], x[2])
  BY DEF Measured
<1>5. ASSUME NEW min \in MinScores, min > 0 \/ \A i \in DOMAIN cases : cases[i].list # <<>>
      PROVE  EvaluateThreshold(cases, min) = EvaluateAnswerability(cases, min, 0)
  <2>1. \A i \in DOMAIN cases :
          ScoreAt(cases[i].list, 1) >= min <=> DecideAnswerability(cases[i].list, min, 0) = "answerable"
    BY <1>1, <1>2, <1>5, GateIsMonotone
  <2>2. /\ {i \in DOMAIN cases : cases[i].expected /\ ScoreAt(cases[i].list, 1) >= min}
           = {i \in DOMAIN cases : cases[i].expected /\ DecideAnswerability(cases[i].list, min, 0) = "answerable"}
        /\ {i \in DOMAIN cases : ~cases[i].expected /\ ~(ScoreAt(cases[i].list, 1) >= min)}
           = {i \in DOMAIN cases : ~cases[i].expected /\ ~(DecideAnswerability(cases[i].list, min, 0) = "answerable")}
        /\ {i \in DOMAIN cases : ~cases[i].expected /\ ScoreAt(cases[i].list, 1) >= min}
           = {i \in DOMAIN cases : ~cases[i].expected /\ DecideAnswerability(cases[i].list, min, 0) = "answerable"}
        /\ {i \in DOMAIN cases : cases[i].expected /\ ~(ScoreAt(cases[i].list, 1) >= min)}
           = {i \in DOMAIN cases : cases[i].expected /\ ~(DecideAnswerability(cases[i].list, min, 0) = "answerable")}
    BY <2>1
  <2>. QED BY <2>2, Zenon DEF EvaluateThreshold, EvaluateAnswerability, Confusion
<1>6. ASSUME NEW x \in Settings, NEW y \in Settings, x[1] <= y[1], x[2] <= y[2]
      PROVE  Measured(cases)[y].fp <= Measured(cases)[x].fp /\ Measured(cases)[y].tp <= Measured(cases)[x].tp
  BY <1>1, <1>3, <1>4, <1>6, StricterAnswersLess
<1>7. ASSUME NEW x \in FindBestThreshold(cases), NEW y \in LowestFalsePositive(cases)
      PROVE  Measured(cases)[y].fp <= Measured(cases)[x].fp
  <2>1. x \in Settings /\ y \in Settings
    BY DEF FindBestThreshold, LowestFalsePositive
  <2>2. ~(Measured(cases)[x].fp < Measured(cases)[y].fp)
    BY <1>7, <2>1 DEF LowestFalsePositive, Safer
  <2>3. Measured(cases)[x].fp \in Nat /\ Measured(cases)[y].fp \in Nat
    BY <1>1, <1>4, <2>1, MeasuresAreNumbers
  <2>. QED BY <2>2, <2>3
<1>. QED BY <1>5, <1>6, <1>7

-----------------------------------------------------------------------------
(* The hybrid ranking *)

\* A leading chunk is ranked ahead, and a chunk that leads all others comes first.
LEMMA LeadersComeFirst == TrialInv => HybridKeepsOrder
<1>. SUFFICES ASSUME TrialInv, trial # <<>>, trial.kind = "hybrid", NEW chunks, chunks = trial.chunks,
                     NEW weight \in Weights
              PROVE  LET Leads(i, j) == chunks[i].vector >= chunks[j].vector /\ chunks[i].keyword >= chunks[j].keyword
                                        /\ (i < j \/ (chunks[i].vector > chunks[j].vector /\ chunks[i].keyword > chunks[j].keyword))
                     IN /\ \A i, j \in DOMAIN chunks : i # j /\ Leads(i, j) =>
                             HybridRank(chunks, weight, i) < HybridRank(chunks, weight, j)
                        /\ \A i \in DOMAIN chunks : (\A j \in DOMAIN chunks \ {i} : Leads(i, j)) =>
                             FindExpectedRank(chunks, weight, chunks[i].document, TopK) = 1
  BY DEF HybridKeepsOrder
<1>. DEFINE D == DOMAIN chunks
            V(i) == chunks[i].vector
            K(i) == chunks[i].keyword
            C(i) == CombineScores(chunks[i], weight)
            Leads(i, j) == V(i) >= V(j) /\ K(i) >= K(j) /\ (i < j \/ (V(i) > V(j) /\ K(i) > K(j)))
            Ahead(j, i) == C(j) > C(i) \/ (C(j) = C(i) /\ j < i)
            Before(i) == {j \in D : Ahead(j, i)}
<1>1. chunks \in [1 .. 3 -> [document : Sections, vector : Scores, keyword : Overlaps]]
  BY DEF TrialInv, GateTrials, HybridTrials
<1>2. D = 1 .. 3 /\ IsFiniteSet(D)
  <2>1. D = 1 .. 3
    BY <1>1
  <2>2. IsFiniteSet(1 .. 3)
    BY IntervalsFinite
  <2>. QED BY <2>1, <2>2
<1>3. \A i \in D : i \in Nat /\ V(i) \in Int /\ K(i) \in Int
  <2>1. Scores \subseteq Int /\ Overlaps \subseteq Int
    BY LabAssumption
  <2>2. \A i \in 1 .. 3 : V(i) \in Scores /\ K(i) \in Overlaps
    BY <1>1
  <2>3. \A i \in 1 .. 3 : i \in Nat
    OBVIOUS
  <2>. HIDE DEF V, K, D
  <2>. QED BY <1>2, <2>1, <2>2, <2>3
<1>4. weight \in Nat /\ FullWeight \in Nat \ {0} /\ weight <= FullWeight
  BY LabAssumption
<1>5. \A i \in D : C(i) = weight * V(i) + (FullWeight - weight) * K(i)
  BY DEF CombineScores
<1>6. \A i \in D : C(i) \in Int
  BY <1>3, <1>4, <1>5
<1>7. ASSUME NEW i \in D, NEW j \in D, i # j, Leads(i, j) PROVE Ahead(i, j)
  <2>1. PICK v, w, k, l, a, b :
          v = V(i) /\ w = V(j) /\ k = K(i) /\ l = K(j) /\ a = weight /\ b = FullWeight - weight
    OBVIOUS
  <2>2. v \in Int /\ w \in Int /\ k \in Int /\ l \in Int /\ a \in Nat /\ b \in Nat /\ a + b > 0
    BY <1>3, <1>4, <2>1
  <2>3. v >= w /\ k >= l /\ (i < j \/ (v > w /\ k > l))
    BY <1>7, <2>1
  <2>4. C(i) = a * v + b * k /\ C(j) = a * w + b * l
    BY <1>5, <2>1
  <2>5. a * v >= a * w /\ b * k >= b * l
    BY <2>2, <2>3
  <2>6. v > w /\ k > l => a * v > a * w \/ b * k > b * l
    BY <2>2
  <2>. HIDE DEF C, V, K
  <2>7. a * v \in Int /\ a * w \in Int /\ b * k \in Int /\ b * l \in Int
    BY <2>2
  <2>8. C(i) >= C(j) /\ (v > w /\ k > l => C(i) > C(j))
    BY <2>4, <2>5, <2>6, <2>7
  <2>. QED BY <1>3, <1>6, <2>3, <2>8
<1>. HIDE DEF D, V, K, C
<1>8. \A i \in D : HybridRank(chunks, weight, i) = 1 + Cardinality(Before(i))
  BY DEF HybridRank, D, C
<1>. HIDE DEF Leads
<1>9. \A i \in D : IsFiniteSet(Before(i)) /\ Cardinality(Before(i)) \in Nat
  <2>1. ASSUME NEW i \in D PROVE IsFiniteSet(Before(i)) /\ Cardinality(Before(i)) \in Nat
    <3>1. Before(i) \in SUBSET D
      OBVIOUS
    <3>. HIDE DEF Before
    <3>. QED BY <1>2, <3>1, FS_Subset, FS_CardinalityType
  <2>. QED BY <2>1
<1>10. ASSUME NEW i \in D, NEW j \in D, i # j, Leads(i, j)
       PROVE  HybridRank(chunks, weight, i) < HybridRank(chunks, weight, j)
  <2>1. Ahead(i, j)
    BY <1>7, <1>10
  <2>2. i \in Before(j) /\ i \notin Before(i)
    BY <1>3, <1>6, <2>1
  <2>3. Before(i) \subseteq Before(j)
    BY <1>3, <1>6, <2>1
  <2>. HIDE DEF Before
  <2>4. Cardinality(Before(i)) <= Cardinality(Before(j)) /\ Cardinality(Before(i)) # Cardinality(Before(j))
    BY <1>9, <2>2, <2>3, FS_Subset
  <2>. QED BY <1>8, <1>9, <2>4
<1>11. ASSUME NEW i \in D, \A j \in D \ {i} : Leads(i, j)
       PROVE  FindExpectedRank(chunks, weight, chunks[i].document, TopK) = 1
  <2>1. \A j \in D : ~Ahead(j, i)
    <3>1. \A j \in D \ {i} : Ahead(i, j)
      BY <1>7, <1>11
    <3>. QED BY <1>3, <1>6, <3>1
  <2>2. Before(i) = {}
    BY <2>1
  <2>3. HybridRank(chunks, weight, i) = 1
    BY <1>8, <2>2, FS_EmptySet
  <2>4. PICK ranks :
          ranks = {HybridRank(chunks, weight, c) : c \in {c \in DOMAIN chunks : chunks[c].document = chunks[i].document}}
                    \cap 1 .. TopK
    OBVIOUS
  <2>5. 1 \in ranks /\ ranks \subseteq 1 .. TopK
    BY <2>3, <2>4, LabAssumption DEF D
  <2>6. (CHOOSE r \in ranks : \A other \in ranks : r <= other) = 1
    <3>1. \A other \in ranks : 1 <= other
      BY <2>5, LabAssumption
    <3>2. \A r \in ranks : (\A other \in ranks : r <= other) => r = 1
      BY <2>5, LabAssumption
    <3>. QED BY <2>5, <3>1, <3>2
  <2>. QED BY <2>4, <2>5, <2>6 DEF FindExpectedRank
<1>. QED BY <1>10, <1>11 DEF Leads, V, K, D

\* Stored sentences are found, context is earned, and the experiments agree
\* with the retrieval they are meant to tune, for any sections, windows, scores
\* and thresholds.
THEOREM LabAnswersHold == LabSpec => []LabAnswers
<1>1. StoredInv /\ LabInv /\ TrialInv => LabAnswers
  BY StoredCovers, CautionPays, LeadersComeFirst DEF LabInv, LabAnswers
<1>. QED BY <1>1, StoredInvHolds, LabInvHolds, TrialInvHolds, PTL
==============================================================================
