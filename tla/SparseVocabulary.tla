-------------------------- MODULE SparseVocabulary ---------------------------
(***************************************************************************)
(* The BM25 vocabulary: BM25SparseEncoder numbers the terms of a corpus in *)
(* memory, keeps the numbers in one JSON file and encodes chunks with      *)
(* them.  The worker process fits and encodes; the API process has an      *)
(* encoder of its own, loaded from the same file, for the queries.  Term   *)
(* numbers outlive both in the points of the collection.                   *)
(*                                                                         *)
(* Kept: which number a term has, in each encoder, in the file and in the  *)
(* indexed points.  Left out: weights and corpus statistics (no vector     *)
(* depends on them with b = 0), and the order of the terms in a text.      *)
(***************************************************************************)
EXTENDS Naturals, FiniteSets

CONSTANTS
  Terms,     \* tokens
  Batches,   \* texts of one ingestion job
  TermsOf,   \* [Batches -> SUBSET Terms]
  Tasks,     \* runs of run_job that can be in the embed_sparse stage at once
  NoId,      \* a term without a number
  NoBatch,   \* "no batch", for an idle task
  NoTerm     \* "no term"

ASSUME SparseAssumption ==
  /\ IsFiniteSet(Terms) /\ Terms # {}
  /\ TermsOf \in [Batches -> SUBSET Terms]
  /\ NoId \notin Nat
  /\ NoBatch \notin Batches
  /\ NoTerm \notin Terms

VARIABLES
  fitted,     \* _vocabulary of the worker's encoder
  queried,    \* _vocabulary of the query encoder
  file,       \* the state file
  indexed,    \* numbers used by the points of each batch
  tasks,      \* runs inside the embed_sparse stage
  workerUp, apiUp

vars == <<fitted, queried, file, indexed, tasks, workerUp, apiUp>>

Ids == 0 .. Cardinality(Terms) - 1
Vocabulary == [Terms -> Ids \cup {NoId}]
NoVocabulary == [t \in Terms |-> NoId]
Size(vocabulary) == Cardinality({t \in Terms : vocabulary[t] # NoId})

\* "torn" is a file that json.loads rejects: truncated, or half overwritten.
File == [state : {"missing", "whole", "torn"}, vocabulary : Vocabulary]
Whole(vocabulary) == [state |-> "whole", vocabulary |-> vocabulary]
Torn == [state |-> "torn", vocabulary |-> NoVocabulary]

Task == [phase : {"idle", "fit", "assign", "open", "write", "encode"},
         batch : Batches \cup {NoBatch},
         todo  : SUBSET Terms,             \* terms fit_documents has yet to see
         term  : Terms \cup {NoTerm},      \* the unknown term at hand ...
         next  : Ids,                      \* ... and len(_vocabulary), its number to be
         text  : Vocabulary]               \* what json.dumps has written out

IdleTask == [phase |-> "idle", batch |-> NoBatch, todo |-> {}, term |-> NoTerm,
             next |-> 0, text |-> NoVocabulary]

TypeOK ==
  /\ fitted \in Vocabulary /\ queried \in Vocabulary
  /\ file \in File
  /\ indexed \in [Batches -> Vocabulary]
  /\ tasks \in [Tasks -> Task]
  /\ workerUp \in BOOLEAN /\ apiUp \in BOOLEAN

Init ==
  /\ fitted = NoVocabulary /\ queried = NoVocabulary
  /\ file = [state |-> "missing", vocabulary |-> NoVocabulary]
  /\ indexed = [b \in Batches |-> NoVocabulary]
  /\ tasks = [k \in Tasks |-> IdleTask]
  /\ workerUp = TRUE /\ apiUp = TRUE

-----------------------------------------------------------------------------
(* fit_documents and embed_documents, in a thread per run.  A definition     *)
(* whose comment begins with `Mutant' is a plausible bug in the definition   *)
(* below it; no model uses it.                                               *)

Fit(k, b) ==
  /\ tasks[k].phase = "idle"
  /\ workerUp
  /\ tasks' = [tasks EXCEPT ![k] = [IdleTask EXCEPT !.phase = "fit", !.batch = b,
                                                    !.todo = TermsOf[b]]]
  /\ UNCHANGED <<fitted, queried, file, indexed, workerUp, apiUp>>

\* Mutants: numbers start at one, or are counted without the present batch.
NextNumberFromOne(k) == Size(fitted) + 1
NextNumberOfBatch(k) == Size([t \in Terms |-> IF t \in TermsOf[tasks[k].batch]
                                              THEN NoId ELSE fitted[t]])

NextNumber(k) == Size(fitted)

\* A known term is passed over; for an unknown one len() comes first ...
Look(k, t) ==
  /\ tasks[k].phase = "fit"
  /\ t \in tasks[k].todo
  /\ tasks' = [tasks EXCEPT ![k] =
       IF fitted[t] # NoId
       THEN [@ EXCEPT !.todo = tasks[k].todo \ {t}]
       ELSE [@ EXCEPT !.phase = "assign", !.term = t, !.next = NextNumber(k)]]
  /\ UNCHANGED <<fitted, queried, file, indexed, workerUp, apiUp>>

\* ... and then the assignment; another thread may run in between.
Assign(k) ==
  /\ tasks[k].phase = "assign"
  /\ fitted' = [fitted EXCEPT ![tasks[k].term] = tasks[k].next]
  /\ tasks' = [tasks EXCEPT ![k] = [@ EXCEPT !.phase = "fit", !.term = NoTerm, !.next = 0,
                                             !.todo = tasks[k].todo \ {tasks[k].term}]]
  /\ UNCHANGED <<queried, file, indexed, workerUp, apiUp>>

Dump(k) ==
  /\ tasks[k].phase = "fit"
  /\ tasks[k].todo = {}
  /\ tasks' = [tasks EXCEPT ![k] = [@ EXCEPT !.phase = "open", !.text = fitted]]
  /\ UNCHANGED <<fitted, queried, file, indexed, workerUp, apiUp>>

\* The stage ends, with an OSError for one; the numbers stay in memory.
EndStage(k) == tasks' = [tasks EXCEPT ![k] = IdleTask]

\* Mutant: a file that cannot be saved does not keep the texts from being encoded.
OpenOrGoOn(k) ==
  /\ tasks[k].phase = "open"
  /\ \/ file' = Torn /\ tasks' = [tasks EXCEPT ![k] = [@ EXCEPT !.phase = "write"]]
     \/ UNCHANGED file /\ tasks' = [tasks EXCEPT ![k] = [@ EXCEPT !.phase = "encode"]]
  /\ UNCHANGED <<fitted, queried, indexed, workerUp, apiUp>>

\* write_text truncates the file before it writes it.
Open(k) ==
  /\ tasks[k].phase = "open"
  /\ \/ file' = Torn /\ tasks' = [tasks EXCEPT ![k] = [@ EXCEPT !.phase = "write"]]
     \/ UNCHANGED file /\ EndStage(k)
  /\ UNCHANGED <<fitted, queried, indexed, workerUp, apiUp>>

\* Writing over a longer text that another thread has put there meanwhile
\* leaves the end of that one.
Write(k) ==
  /\ tasks[k].phase = "write"
  /\ \/ /\ file' = IF file.state = "whole" /\ Size(file.vocabulary) > Size(tasks[k].text)
                   THEN Torn ELSE Whole(tasks[k].text)
        /\ tasks' = [tasks EXCEPT ![k] = [@ EXCEPT !.phase = "encode", !.text = NoVocabulary]]
     \/ file' = Torn /\ EndStage(k)
  /\ UNCHANGED <<fitted, queried, indexed, workerUp, apiUp>>

\* embed_documents and the staging of its vectors, which overwrite earlier
\* points of the batch.  Either may fail: SparseVector refuses a number that
\* occurs twice, the store may be out of reach.
Encode(k) ==
  LET b == tasks[k].batch IN
  /\ tasks[k].phase = "encode"
  /\ \/ indexed' = [indexed EXCEPT ![b] =
            [t \in Terms |-> IF t \in TermsOf[b] THEN fitted[t] ELSE NoId]]
     \/ UNCHANGED indexed
  /\ EndStage(k)
  /\ UNCHANGED <<fitted, queried, file, workerUp, apiUp>>

-----------------------------------------------------------------------------
(* Processes.  __init__ loads the file, and raises when it cannot.  An       *)
(* embedded worker stops and starts with the API: two steps in a row here.   *)

CanLoad == file.state # "torn"

\* Mutant: the worker starts with an empty vocabulary and overwrites the file.
LoadNothing == NoVocabulary

Loaded == file.vocabulary

StopWorker == workerUp' = FALSE /\ tasks' = [k \in Tasks |-> IdleTask] /\ fitted' = NoVocabulary
StopApi == apiUp' = FALSE /\ queried' = NoVocabulary

Crash ==
  /\ \/ workerUp /\ StopWorker /\ UNCHANGED <<apiUp, queried>>
     \/ apiUp /\ StopApi /\ UNCHANGED <<workerUp, tasks, fitted>>
  /\ UNCHANGED <<file, indexed>>

StartWorker == workerUp' = TRUE /\ fitted' = Loaded
StartApi == apiUp' = TRUE /\ queried' = Loaded

Start ==
  /\ CanLoad
  /\ \/ ~workerUp /\ StartWorker /\ UNCHANGED <<apiUp, queried>>
     \/ ~apiUp /\ StartApi /\ UNCHANGED <<workerUp, fitted>>
  /\ UNCHANGED <<file, indexed, tasks>>

Next ==
  \/ \E k \in Tasks, b \in Batches : Fit(k, b)
  \/ \E k \in Tasks, t \in Terms : Look(k, t)
  \/ \E k \in Tasks : Assign(k) \/ Dump(k) \/ Open(k) \/ Write(k) \/ Encode(k)
  \/ Crash
  \/ Start

Spec == Init /\ [][Next]_vars

-----------------------------------------------------------------------------
(* Properties *)

\* Two terms never share a feature id: the "exact vocabulary" of the class
\* and of ADR-001, where hash collisions were the known limit.
VocabularyExact ==
  \A s, t \in Terms : s # t /\ fitted[s] # NoId => fitted[s] # fitted[t]

\* Whatever crashes and restarts, the worker that is running still has the
\* numbers with which every point was encoded.
IdsAreStable ==
  workerUp => \A b \in Batches, t \in Terms :
                indexed[b][t] # NoId => fitted[t] = indexed[b][t]

\* A query term never hits the points of a different term, and is never
\* looked up under a number the points do not use for it, although the API
\* process loaded the file at some other time.
QueryMeansIndexed ==
  \A b \in Batches, s, t \in Terms :
    queried[s] # NoId /\ indexed[b][t] # NoId => (queried[s] = indexed[b][t] <=> s = t)
=============================================================================
