---------------------------- MODULE MCExperiments ----------------------------
(***************************************************************************)
(* The competition and the exercises, for TLC: four training and two test  *)
(* passengers, two sections of a PDF.  The scripts and the suite share one *)
(* file, the submission of the model comparison: the suite runs beside     *)
(* that script, the other scripts run without the suite.  The exercises    *)
(* share nothing with either and are run alone.                            *)
(***************************************************************************)
EXTENDS TitanicCampaign, RagLab, TLC

CONSTANTS p1, p2, p3, p4, t1, t2

\* Ages of p1 and p3 are known: p2 finds a namesake's age by title, p4 by group or by title.
Group == p1 :> "mr-1" @@ p2 :> "mr-3" @@ p3 :> "mrs-3" @@ p4 :> "mrs-3" @@ t1 :> "mrs-3" @@ t2 :> "mr-1"
Title == p1 :> "mr" @@ p2 :> "mr" @@ p3 :> "mrs" @@ p4 :> "mrs" @@ t1 :> "mrs" @@ t2 :> "mr"

Limits == [changed |-> 1, up |-> 1, pclass3Female |-> 0, missMrs |-> 1, embarkedSC |-> 0]
\* Looser than the guard where that can be told apart, and binding for third-class women and the scores.
Thresholds ==
  [minMean |-> 2, maxStd |-> 1, minRisk |-> 1, changed |-> 3, up |-> 3, pclass3Female |-> 0, missMrs |-> 3]
Choices == {Thresholds}
Declared(members) == IF members = {1} THEN {t1} ELSE {}

MCInit == Init /\ CampaignInit /\ LabInit

Untouched == processed = {} /\ \A s \in Studies \ {"model_comparison"} : disk[s] = FreshDisk[s]

MCNext ==
  \/ StudyNext /\ UNCHANGED suiteVars /\ (suites > 0 => study' \in {NoStudy, "model_comparison"})
  \/ CampaignNext /\ UNCHANGED vars /\ Untouched /\ study \in {NoStudy, "model_comparison"}

\* A cosine may be negative.
Similarities == {-1, 0, 1}

NoCompetition == runs = 0 /\ suites = 0
NoExercise == indexed = 0 /\ question = NoQuestion /\ trial = <<>> /\ pdf.edition = 1 /\ \A s \in Sections : pdf.length[s] = 1

Spec ==
  /\ MCInit
  /\ [][\/ NoExercise /\ MCNext /\ UNCHANGED labVars
        \/ NoCompetition /\ LabNext /\ UNCHANGED <<vars, suiteVars>>]_<<vars, suiteVars, labVars>>
==============================================================================
