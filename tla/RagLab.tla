-------------------------------- MODULE RagLab -------------------------------
(***************************************************************************)
(* The retrieval exercises (labs/rag) the document service grew out of: a  *)
(* PDF is split into sections and windows of sentences, which are kept in  *)
(* memory or in Qdrant; a question is answered from the best windows when  *)
(* their scores allow it; experiments choose the thresholds.               *)
(*                                                                         *)
(* The PDF may be replaced and stored again between any two steps of a     *)
(* question.  Scores are free, and negative where the cosine can be.  The  *)
(* sample documents some exercises use are stood for by the PDF, too.      *)
(***************************************************************************)
EXTENDS Naturals, Integers, Sequences, FiniteSets

CONSTANTS
  Sections,          \* the configured section markers
  MaxSentences,      \* bound on the length of a section
  MaxEditions,       \* bound on the editions of the PDF
  Size, Overlap,     \* sentences_per_chunk and overlap
  TopK,              \* candidate_top_k
  Scores,            \* what a similarity can be
  Overlaps,          \* what a keyword overlap can be
  Weights, FullWeight, \* the vector weights experiments try, as parts of FullWeight
  MinScores, Margins \* the thresholds experiments try

ASSUME LabAssumption ==
  /\ Sections # {} /\ IsFiniteSet(Sections)
  /\ Size \in Nat \ {0} /\ Overlap \in 0 .. Size - 1 /\ TopK \in Nat \ {0}
  /\ MaxSentences \in Nat \ {0} /\ MaxEditions \in Nat \ {0}
  /\ Scores \subseteq Int /\ MinScores \subseteq Nat /\ Margins \subseteq Nat
  /\ FullWeight \in Nat \ {0} /\ Weights \subseteq 0 .. FullWeight /\ Overlaps \subseteq Nat

VARIABLES
  pdf,       \* its edition and the number of sentences of every section
  index,     \* the points in Qdrant: chunk id |-> the text stored for it
  indexed,   \* the edition stored last, 0 for none
  question,  \* the question being answered
  trial      \* what an experiment observes: the cases of a gate, or the chunks of a hybrid search

labVars == <<pdf, index, indexed, question, trial>>
------------------------------------------------------------------------------
(* Sections and windows.                                                   *)

\* The windows of a section of n sentences: a last one that reaches the end is the last.
ChunkSentences(n) ==
  LET Start(i) == (i - 1) * (Size - Overlap) + 1
      Last == CHOOSE i \in 1 .. n :
                Start(i) + Size - 1 >= n /\ \A j \in 1 .. i - 1 : Start(j) + Size - 1 < n
      End(i) == IF i = Last THEN n ELSE Start(i) + Size - 1
  IN  [i \in 1 .. Last |-> Start(i) .. End(i)]

\* A document per marker, a chunk per window, numbered within its document.
ChunkDocuments(file) ==
  LET ids == {<<s, i>> : s \in Sections, i \in 1 .. MaxSentences}
  IN  [c \in {c \in ids : c[2] \in DOMAIN ChunkSentences(file.length[c[1]])} |->
         [edition |-> file.edition, sentences |-> ChunkSentences(file.length[c[1]])[c[2]]]]

\* A section as a document, from its first sentence to the next marker.
SectionDocument(file, s) == [edition |-> file.edition, sentences |-> 1 .. file.length[s]]

\* The id of a point depends on the chunk id alone; points are never deleted.
UpsertChunks(points, chunks) ==
  [c \in DOMAIN points \cup DOMAIN chunks |-> IF c \in DOMAIN chunks THEN chunks[c] ELSE points[c]]
------------------------------------------------------------------------------
(* Retrieval.  A list of candidates is what some scoring makes the best.   *)

Ranked(n) == {f \in [1 .. n -> Scores] : \A i \in 1 .. n - 1 : f[i] >= f[i + 1]}

Search(points, k) ==
  LET n == IF Cardinality(DOMAIN points) < k THEN Cardinality(DOMAIN points) ELSE k
      Picks == {f \in [1 .. n -> DOMAIN points] : \A i, j \in 1 .. n : i # j => f[i] # f[j]}
  IN  {[i \in 1 .. n |-> [id |-> ids[i], text |-> points[ids[i]], score |-> best[i]]] :
         ids \in Picks, best \in Ranked(n)}

\* The cross-encoder reorders the candidates as it likes.
Rerank(candidates) == {p \in [DOMAIN candidates -> DOMAIN candidates] :
                         \A i, j \in DOMAIN p : i # j => p[i] # p[j]}
------------------------------------------------------------------------------
(* The gate.                                                               *)

ScoreAt(list, i) == IF i \in DOMAIN list THEN list[i].score ELSE 0

\* Mutant: the best score must exceed the threshold.
DecideAboveMinimum(list, min, margin) ==
  CASE list = <<>> -> "no_results"
    [] list # <<>> /\ ScoreAt(list, 1) <= min -> "low_score"
    [] list # <<>> /\ ScoreAt(list, 1) > min ->
         IF margin > 0 /\ Len(list) > 1 /\ ScoreAt(list, 1) - ScoreAt(list, 2) < margin
         THEN "ambiguous_top_results" ELSE "answerable"

DecideAnswerability(list, min, margin) ==
  CASE list = <<>> -> "no_results"
    [] list # <<>> /\ ScoreAt(list, 1) < min -> "low_score"
    [] list # <<>> /\ ScoreAt(list, 1) >= min ->
         IF margin > 0 /\ Len(list) > 1 /\ ScoreAt(list, 1) - ScoreAt(list, 2) < margin
         THEN "ambiguous_top_results" ELSE "answerable"

\* The results come in the order of their scores: those that reach the threshold come first.
FilterResultsByScore(list, min) == [i \in {j \in DOMAIN list : list[j].score >= min} |-> list[i]]
------------------------------------------------------------------------------
(* A question.                                                             *)

NoQuestion == [step |-> "none"]

Documents(file) == [s \in Sections |-> SectionDocument(file, s)]

\* Extractive answers, from memory.
GuardEntry == [entry : {"guard"}, from : {"memory"}, strategy : {"extractive"}, min : MinScores, margin : Margins]

\* The pipeline searches Qdrant; no threshold means 0.
PipelineEntry ==
  [entry : {"pipeline"}, from : {"qdrant"}, strategy : {"reranked_chunks", "parent_section"},
   min : MinScores, margin : Margins]

\* The evaluation of a language model uses the pipeline without thresholds, or memory and no gate.
EvaluationEntry ==
  [entry : {"evaluation"}, from : {"memory", "qdrant"}, strategy : {"reranked_chunks", "parent_section"},
   min : {0}, margin : {0}]

Gated(q) == q.entry # "evaluation" \/ q.from = "qdrant"

\* The script parses the PDF, then opens its store: memory, from what it parsed, or Qdrant.
Ask ==
  /\ question = NoQuestion
  /\ \E how \in GuardEntry \cup PipelineEntry \cup EvaluationEntry :
       question' = [step |-> "search", entry |-> how.entry, from |-> how.from, strategy |-> how.strategy,
                    min |-> how.min, margin |-> how.margin, documents |-> Documents(pdf),
                    chunks |-> ChunkDocuments(pdf), found |-> <<>>, ranked |-> <<>>, reason |-> "none", context |-> <<>>]
  /\ UNCHANGED <<pdf, index, indexed, trial>>

AskStep(step) == question # NoQuestion /\ question.step = step

\* The gate follows the search at once; the evaluation takes a refusal for a failure and ends.
RetrieveCandidates ==
  /\ AskStep("search")
  /\ \E list \in Search(IF question.from = "qdrant" THEN index ELSE question.chunks, TopK) :
       LET reason == IF Gated(question) THEN DecideAnswerability(list, question.min, question.margin) ELSE "answerable"
       IN  question' = [question EXCEPT !.found = list, !.reason = reason,
                                        !.step = IF reason = "answerable" THEN "context"
                                                 ELSE IF question.entry = "evaluation" THEN "failed" ELSE "ended"]
  /\ UNCHANGED <<pdf, index, indexed, trial>>

\* The guard answers from the candidates that reach the threshold themselves.
BuildExtractiveAnswer ==
  /\ AskStep("context") /\ question.strategy = "extractive"
  /\ question' = [question EXCEPT !.step = "ended",
                    !.ranked = question.found, !.context = FilterResultsByScore(question.found, question.min)]
  /\ UNCHANGED <<pdf, index, indexed, trial>>

ParentSectionAsContext(c, documents) == [id |-> c.id, text |-> documents[c.id[1]], score |-> c.score]

\* The pipeline reranks all candidates, those below the threshold too, and keeps the first k.
RetrieveAndBuildContext ==
  /\ AskStep("context") /\ question.strategy # "extractive"
  /\ \E p \in Rerank(question.found), k \in 1 .. TopK :
       LET order == [i \in DOMAIN p |-> question.found[p[i]]]
           ranked == SubSeq(order, 1, IF k < Len(order) THEN k ELSE Len(order))
       IN  question' = [question EXCEPT !.step = "ended", !.ranked = ranked,
                          !.context = IF question.strategy = "parent_section"
                                      THEN <<ParentSectionAsContext(ranked[1], question.documents)>>
                                      ELSE ranked]
  /\ UNCHANGED <<pdf, index, indexed, trial>>

EndQuestion ==
  /\ AskStep("ended") \/ AskStep("failed")
  /\ question' = NoQuestion
  /\ UNCHANGED <<pdf, index, indexed, trial>>
------------------------------------------------------------------------------
(* Storing the PDF.                                                        *)

ReplacePdf ==
  /\ pdf.edition < MaxEditions
  /\ \E length \in [Sections -> 1 .. MaxSentences] : pdf' = [edition |-> pdf.edition + 1, length |-> length]
  /\ UNCHANGED <<index, indexed, question, trial>>

IngestMentorProgramPdf ==
  /\ index' = UpsertChunks(index, ChunkDocuments(pdf)) /\ indexed' = pdf.edition
  /\ UNCHANGED <<pdf, question, trial>>
------------------------------------------------------------------------------
(* Experiments on cases [list, expected].                                  *)

Confusion(cases, Predicted(_)) ==
  [tp |-> Cardinality({i \in DOMAIN cases : cases[i].expected /\ Predicted(cases[i].list)}),
   tn |-> Cardinality({i \in DOMAIN cases : ~cases[i].expected /\ ~Predicted(cases[i].list)}),
   fp |-> Cardinality({i \in DOMAIN cases : ~cases[i].expected /\ Predicted(cases[i].list)}),
   fn |-> Cardinality({i \in DOMAIN cases : cases[i].expected /\ ~Predicted(cases[i].list)})]

\* answerability_evaluation: the gate is asked, with all candidates.
EvaluateAnswerability(cases, min, margin) ==
  Confusion(cases, LAMBDA list : DecideAnswerability(list, min, margin) = "answerable")

\* qdrant_answerability_calibration: only the best candidate is retrieved, 0 stands for none.
EvaluateThreshold(cases, min) == Confusion(cases, LAMBDA list : ScoreAt(list, 1) >= min)

\* Of equally good settings the first tried wins; accuracy counts before the kind of mistake.
MoreAccurate(a, b) ==
  \/ a.tp + a.tn > b.tp + b.tn
  \/ a.tp + a.tn = b.tp + b.tn /\ (a.fp < b.fp \/ (a.fp = b.fp /\ a.fn < b.fn))

\* The profile that makes the fewest false answers, then the fewest refusals.
Safer(a, b) == a.fp < b.fp \/ (a.fp = b.fp /\ a.fn < b.fn)

Settings == MinScores \X Margins
Measured(cases) == [x \in Settings |-> EvaluateAnswerability(cases, x[1], x[2])]
FindBestThreshold(cases) ==
  {x \in Settings : \A y \in Settings : ~MoreAccurate(Measured(cases)[y], Measured(cases)[x])}
LowestFalsePositive(cases) ==
  {x \in Settings : \A y \in Settings : ~Safer(Measured(cases)[y], Measured(cases)[x])}

Lists == {<<>>} \cup UNION {{[i \in 1 .. n |-> [score |-> f[i]]] : f \in Ranked(n)} : n \in 1 .. TopK}

RunExperiment ==
  /\ trial = <<>>
  /\ trial' \in [kind : {"gate"}, cases : [1 .. 2 -> [list : Lists, expected : BOOLEAN]]]
  /\ UNCHANGED <<pdf, index, indexed, question>>
------------------------------------------------------------------------------
(* Hybrid retrieval: vector similarity and keyword overlap, weighted.      *)

CombineScores(chunk, weight) == weight * chunk.vector + (FullWeight - weight) * chunk.keyword

\* Its place in a stable sort by combined score.
HybridRank(chunks, weight, i) ==
  1 + Cardinality({j \in DOMAIN chunks :
        \/ CombineScores(chunks[j], weight) > CombineScores(chunks[i], weight)
        \/ CombineScores(chunks[j], weight) = CombineScores(chunks[i], weight) /\ j < i})

\* The rank of the first chunk of the expected document among the best k, 0 if there is none.
FindExpectedRank(chunks, weight, expected, k) ==
  LET ranks == {HybridRank(chunks, weight, i) : i \in {c \in DOMAIN chunks : chunks[c].document = expected}} \cap 1 .. k
  IN  IF ranks = {} THEN 0 ELSE CHOOSE r \in ranks : \A other \in ranks : r <= other

RunHybridWeightExperiment ==
  /\ trial = <<>>
  /\ trial' \in [kind : {"hybrid"},
                 chunks : [1 .. 3 -> [document : Sections, vector : Scores, keyword : Overlaps]]]
  /\ UNCHANGED <<pdf, index, indexed, question>>
------------------------------------------------------------------------------
LabInit ==
  /\ pdf \in [edition : {1}, length : [Sections -> 1 .. MaxSentences]]
  /\ index = [c \in {} |-> {}] /\ indexed = 0 /\ question = NoQuestion /\ trial = <<>>

\* An experiment uses neither the PDF nor the questions of others.
LabNext ==
  \/ trial = <<>> /\ (\/ ReplacePdf \/ IngestMentorProgramPdf \/ Ask \/ RetrieveCandidates
                      \/ BuildExtractiveAnswer \/ RetrieveAndBuildContext \/ EndQuestion)
  \/ pdf.edition = 1 /\ indexed = 0 /\ question = NoQuestion /\ (RunExperiment \/ RunHybridWeightExperiment)

LabSpec == LabInit /\ [][LabNext]_labVars
------------------------------------------------------------------------------
(* What holds of the exercises.                                            *)

\* Right after a PDF was stored every sentence of it can be found, whatever an earlier edition
\* has left behind.
IndexCovers ==
  indexed = pdf.edition =>
    \A s \in Sections : \A n \in 1 .. pdf.length[s] :
      \E c \in DOMAIN index : c[1] = s /\ index[c].edition = pdf.edition /\ n \in index[c].sentences

\* A gated question gets context exactly when its best candidate passes the gate; an extractive
\* answer shows the candidates that reach the threshold and no other; a parent section is the whole
\* section of the first candidate, as it stood when the script read it, however stale the index.
ContextIsEarned ==
  AskStep("ended") =>
    LET q == question IN
    /\ q.context # <<>> <=> q.reason = "answerable"
    /\ q.context # <<>> /\ Gated(q) => q.found[1].score >= q.min
    /\ q.strategy = "extractive" /\ q.reason = "answerable" =>
         \A i \in DOMAIN q.found :
           q.found[i].score >= q.min <=> \E j \in DOMAIN q.context : q.context[j] = q.found[i]
    /\ q.strategy = "parent_section" /\ q.context # <<>> =>
         q.context[1].text = q.documents[q.ranked[1].id[1]]

\* The threshold calibration, which looks at one candidate, foretells the gate, which looks at
\* all of them - but for an empty result under threshold 0; and a stricter setting answers no
\* question that a looser one refuses, so a cautious profile never makes more false answers.
CautionIsMonotone ==
  trial # <<>> /\ trial.kind = "gate" =>
    LET cases == trial.cases IN
    /\ \A min \in MinScores :
         (min > 0 \/ \A i \in DOMAIN cases : cases[i].list # <<>>) =>
            EvaluateThreshold(cases, min) = EvaluateAnswerability(cases, min, 0)
    /\ \A x, y \in Settings : x[1] <= y[1] /\ x[2] <= y[2] =>
         Measured(cases)[y].fp <= Measured(cases)[x].fp /\ Measured(cases)[y].tp <= Measured(cases)[x].tp
    /\ \A x \in FindBestThreshold(cases), y \in LowestFalsePositive(cases) :
         Measured(cases)[y].fp <= Measured(cases)[x].fp

\* A chunk that is ahead of another in one similarity and not behind in the other is never ranked
\* behind it, and so a document that leads in both is found first, whatever the weight.
HybridKeepsOrder ==
  trial # <<>> /\ trial.kind = "hybrid" =>
    LET chunks == trial.chunks
        Leads(i, j) == chunks[i].vector >= chunks[j].vector /\ chunks[i].keyword >= chunks[j].keyword
                       /\ (i < j \/ (chunks[i].vector > chunks[j].vector /\ chunks[i].keyword > chunks[j].keyword))
    IN \A weight \in Weights :
         /\ \A i, j \in DOMAIN chunks : i # j /\ Leads(i, j) =>
              HybridRank(chunks, weight, i) < HybridRank(chunks, weight, j)
         /\ \A i \in DOMAIN chunks : (\A j \in DOMAIN chunks \ {i} : Leads(i, j)) =>
              FindExpectedRank(chunks, weight, chunks[i].document, TopK) = 1

\* What the exercises show when they are run: stored sentences are found, context is earned, and
\* the experiments agree with the retrieval they are meant to tune.
LabAnswers == IndexCovers /\ ContextIsEarned /\ CautionIsMonotone /\ HybridKeepsOrder
==============================================================================
