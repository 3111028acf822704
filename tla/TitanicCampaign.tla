-------------------------- MODULE TitanicCampaign ----------------------------
(***************************************************************************)
(* The automatic experiment suite and its guard: every experiment is       *)
(* validated, turned into a submission file, compared with the current     *)
(* best submission, filed, and - when it qualifies and the user asked for  *)
(* it - sent to Kaggle.  The current best submission is the file that the  *)
(* model comparison leaves, which may run again at any time.               *)
(***************************************************************************)
EXTENDS TitanicStudies

CONSTANTS
  Pclass3Female, MissMrs, EmbarkedSC,  \* test passengers the guard counts apart
  GuardLimits,     \* the guard's MAX_* thresholds
  CliLimits,       \* the thresholds a user may pass to the suite
  Says(_),         \* the test passengers a comparison model declares survivors
  Experiments,     \* number of experiments of the suite
  MaxSuites,       \* bound on the number of suite runs
  NoSuite

ASSUME CampaignAssumption == Experiments \in Nat /\ {"changed", "up"} \subseteq DOMAIN GuardLimits

VARIABLES
  suite,       \* the running suite, or NoSuite
  suites,      \* number of suite runs started
  candidates,  \* experiment |-> its submission file: the predicted survivors
  filed,       \* the result, qualified and guard tables on disk, whole or torn
  suiteReport, \* the report on disk
  sent         \* what Kaggle has received

suiteVars == <<suite, suites, candidates, filed, suiteReport, sent>>
------------------------------------------------------------------------------
(* The guard.                                                              *)

\* The changed rows by direction, and the risky ones among those that become survivors.
BuildFlipRows(best, candidate) ==
  LET up == candidate \ best
      down == best \ candidate
  IN  [changed |-> up \cup down, up |-> up, pclass3Female |-> up \cap Pclass3Female,
       missMrs |-> up \cap MissMrs, embarkedSC |-> up \cap EmbarkedSC]

SummarizeGuard(flips) == [k \in DOMAIN flips |-> Cardinality(flips[k])]

DecideGuardResult(counts) ==
  CASE counts.changed = 0 -> "NO_NEW_INFORMATION"
    [] \E k \in DOMAIN GuardLimits : counts[k] > GuardLimits[k] -> "DO_NOT_SUBMIT_WITHOUT_REVIEW"
    [] OTHER -> "REVIEW_OK"

Guarded(best, candidate) ==
  LET counts == SummarizeGuard(BuildFlipRows(best, candidate))
  IN  [counts |-> counts, decision |-> DecideGuardResult(counts)]

\* The user's thresholds know no limit for the ports of embarkation.
QualifyResult(score, guard, limits) ==
  /\ score.mean >= limits.minMean /\ score.std <= limits.maxStd
  /\ score.mean - score.std >= limits.minRisk
  /\ \A k \in {"changed", "up", "pclass3Female", "missMrs"} : guard.counts[k] <= limits[k]
  /\ guard.decision \notin {"DO_NOT_SUBMIT_WITHOUT_REVIEW", "NO_NEW_INFORMATION"}
------------------------------------------------------------------------------
(* A run of the suite.                                                     *)

\* A table that is being written may be left anyhow.
Whole(rows) == [whole |-> TRUE, rows |-> rows]
Torn        == [whole |-> FALSE, rows |-> <<>>]

CampaignInit ==
  /\ suite = NoSuite /\ suites = 0 /\ sent = {}
  /\ candidates = [e \in 1 .. Experiments |-> NoFile]
  /\ filed = [results |-> Whole(<<>>), qualified |-> Whole(<<>>), guard |-> Whole(<<>>)]
  /\ suiteReport = NoFile

EndSuite == suite' = NoSuite

RunSuite ==
  /\ suite = NoSuite /\ suites < MaxSuites
  /\ suites' = suites + 1
  /\ \E limits \in CliLimits, max \in 0 .. Experiments, submit, dry \in BOOLEAN :
       /\ dry => submit
       /\ suite' = [step |-> IF max = 0 THEN "report" ELSE "train", experiment |-> 1, max |-> max,
                    limits |-> limits, submit |-> submit, dry |-> dry,
                    reference |-> {}, rows |-> <<>>, submitted |-> {}]
  /\ UNCHANGED <<candidates, filed, suiteReport, sent>>

At(step) == suite # NoSuite /\ suite.step = step
Goto(step) == suite' = [suite EXCEPT !.step = step]

\* Cross-validation ends in a score, training in a submission file.
CreateSubmissionForExperiment ==
  /\ At("train")
  /\ \E file \in SUBSET Test : candidates' = [candidates EXCEPT ![suite.experiment] = file]
  /\ Goto("guard")
  /\ UNCHANGED <<suites, filed, suiteReport, sent>>

\* The current best is read again for every experiment; without one the suite ends.
RunGuardForSubmission ==
  /\ At("guard")
  /\ LET file == disk["model_comparison"].submission IN
     IF file = NoFile
     THEN EndSuite
     ELSE \E mean \in Means, std \in Deviations :
       LET best == Says(file.members)
           guard == Guarded(best, candidates[suite.experiment])
           row == [experiment |-> suite.experiment, run |-> suites,
                   qualifies |-> QualifyResult([mean |-> mean, std |-> std], guard, suite.limits)]
       IN  suite' = [suite EXCEPT !.step = "results", !.reference = best, !.rows = Append(suite.rows, row)]
  /\ UNCHANGED <<suites, candidates, filed, suiteReport, sent>>

\* The three tables are rewritten one after the other: to_csv empties the file before it writes.
OpenTable(step, table_, next) ==
  /\ At(step) /\ Goto(next)
  /\ filed' = [filed EXCEPT ![table_] = Torn]
  /\ UNCHANGED <<suites, candidates, suiteReport, sent>>

FileTable(step, table_, rows, next) ==
  /\ At(step) /\ Goto(next)
  /\ filed' = [filed EXCEPT ![table_] = Whole(rows)]
  /\ UNCHANGED <<suites, candidates, suiteReport, sent>>

\* Mutant: the table is written with the experiment at hand.
QualifyingAtHand(rows) == [e \in {i \in DOMAIN rows : i = Len(rows) /\ rows[i].qualifies} |-> rows[e]]

\* The rows that qualify, each under the number of its experiment.
Qualifying(rows) == [e \in {i \in DOMAIN rows : rows[i].qualifies} |-> rows[e]]

FileResults ==
  \/ OpenTable("results", "results", "results opened")
  \/ suite # NoSuite /\ FileTable("results opened", "results", suite.rows, "qualified")

FileQualified ==
  \/ OpenTable("qualified", "qualified", "qualified opened")
  \/ suite # NoSuite /\ FileTable("qualified opened", "qualified", Qualifying(suite.rows), "guarded")

FileGuard ==
  \/ OpenTable("guarded", "guard", "guarded opened")
  \/ suite # NoSuite /\ FileTable("guarded opened", "guard", suite.rows, "submit")

NextStep == IF suite.experiment < suite.max THEN "train" ELSE "report"

Advance(submitted) ==
  suite' = [suite EXCEPT !.step = NextStep, !.experiment = suite.experiment + 1, !.submitted = submitted]

Sending ==
  sent' = sent \cup {[experiment |-> suite.experiment, run |-> suites,
                      file |-> candidates[suite.experiment], reference |-> suite.reference]}

\* A dry run only prints; a failed command ends the suite, whether or not Kaggle got the file.
RunKaggleSubmit ==
  /\ At("submit")
  /\ \/ /\ ~(suite.rows[suite.experiment].qualifies /\ suite.submit)
        /\ Advance(suite.submitted) /\ UNCHANGED sent
     \/ /\ suite.rows[suite.experiment].qualifies /\ suite.submit
        /\ \/ Advance(suite.submitted \cup {suite.experiment}) /\ IF suite.dry THEN UNCHANGED sent ELSE Sending
           \/ ~suite.dry /\ EndSuite /\ UNCHANGED sent
           \/ ~suite.dry /\ EndSuite /\ Sending
  /\ UNCHANGED <<suites, candidates, filed, suiteReport>>

\* Without a single experiment the report cannot be built.
WriteSuiteReport ==
  /\ At("report") /\ EndSuite
  /\ suiteReport' = IF suite.rows = <<>> THEN suiteReport ELSE [run |-> suites, submitted |-> suite.submitted]
  /\ UNCHANGED <<suites, candidates, filed, sent>>

SuiteDies == suite # NoSuite /\ EndSuite /\ UNCHANGED <<suites, candidates, filed, suiteReport, sent>>

CampaignNext ==
  \/ RunSuite \/ CreateSubmissionForExperiment \/ RunGuardForSubmission
  \/ FileResults \/ FileQualified \/ FileGuard \/ RunKaggleSubmit \/ WriteSuiteReport \/ SuiteDies

\* The suite and the scripts are started from different shells.
CampaignSpec ==
  /\ Init /\ CampaignInit
  /\ [][\/ StudyNext /\ UNCHANGED suiteVars
        \/ CampaignNext /\ UNCHANGED vars]_<<vars, suiteVars>>
------------------------------------------------------------------------------
(* What the campaign promises.                                             *)

\* The qualified table on disk is whole and has a row for the file.
Listed(x) ==
  /\ filed.qualified.whole
  /\ \E i \in DOMAIN filed.qualified.rows :
       LET row == filed.qualified.rows[i] IN
       row.experiment = x.experiment /\ row.run = x.run

\* What its run has sent the table goes on to list, except while it is torn; a report names it.
OnFile(x) ==
  /\ x.run = suites' => Listed(x)' \/ (x \in sent /\ ~filed'.qualified.whole)
  /\ suiteReport' # NoFile /\ suiteReport'.run = x.run => x.experiment \in suiteReport'.submitted

\* The file differs from the best submission that the guard had read, within the guard's limits.
SmallChange(x) ==
  LET up == x.file \ x.reference
      changed == up \cup (x.reference \ x.file)
  IN  /\ changed # {} /\ ~(Cardinality(changed) > GuardLimits.changed)
      /\ ~(Cardinality(up) > GuardLimits.up)

\* A file is sent when the qualified table lists it, never before.  The table is rewritten for
\* every later experiment and still lists what its run has sent, except while it is torn.  A
\* report names all that its run has sent.  And however loose the user's thresholds are, what is
\* sent differs from the best submission that the guard had read, in no more passengers than the
\* guard's limits allow.
SentIsQualified ==
  [][/\ \A x \in sent' : OnFile(x)
     /\ \A x \in sent' \ sent : SmallChange(x)]_<<vars, suiteVars>>
==============================================================================
