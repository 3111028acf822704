---------------------------- MODULE SparseProofs -----------------------------
(***************************************************************************)
(* Proofs about the BM25 vocabulary for every set of terms and batches:    *)
(* types in every deployment and, as long as one run at a time fits terms, *)
(* that numbers are exact, stable, and mean the same to the query encoder. *)
(***************************************************************************)
EXTENDS SparseVocabulary, FiniteSetTheorems, TLAPS

-----------------------------------------------------------------------------
(* Sizes *)

\* The terms that have a number.
Known(vocabulary) == {t \in Terms : vocabulary[t] # NoId}

\* len() of a vocabulary is a natural number.
LEMMA SizeNat == ASSUME NEW v PROVE Size(v) \in Nat
<1>1. IsFiniteSet(Known(v))
  BY SparseAssumption, FS_Subset DEF Known
<1>. QED BY <1>1, FS_CardinalityType DEF Size, Known

\* While a term is unknown, the next number is within the range of numbers.
LEMMA NextNumberInRange ==
  ASSUME NEW v, NEW t \in Terms, v[t] = NoId
  PROVE  Size(v) \in Ids
<1>1. Known(v) \subseteq Terms \ {t}
  BY DEF Known
<1>2. IsFiniteSet(Terms) /\ IsFiniteSet(Terms \ {t}) /\ Cardinality(Terms \ {t}) = Cardinality(Terms) - 1
  BY SparseAssumption, FS_RemoveElement
<1>3. Cardinality(Known(v)) <= Cardinality(Terms \ {t})
  BY <1>1, <1>2, FS_Subset
<1>4. Cardinality(Terms) \in Nat
  BY <1>2, FS_CardinalityType
<1>. QED BY <1>2, <1>3, <1>4, SizeNat DEF Size, Known, Ids

\* Zero is a number, since there is a term.
LEMMA ZeroInRange == 0 \in Ids
<1>1. Cardinality(Terms) \in Nat /\ Cardinality(Terms) # 0
  BY SparseAssumption, FS_CardinalityType, FS_EmptySet
<1>. QED BY <1>1 DEF Ids

\* Numbering an unknown term makes the vocabulary one larger.
LEMMA SizeGrows ==
  ASSUME NEW v \in Vocabulary, NEW t \in Terms, v[t] = NoId, NEW n \in Ids
  PROVE  Size([v EXCEPT ![t] = n]) = Size(v) + 1
<1>. DEFINE u == [v EXCEPT ![t] = n]
<1>1. n # NoId
  BY SparseAssumption DEF Ids
<1>2. Known(u) = Known(v) \cup {t} /\ t \notin Known(v)
  BY <1>1 DEF Known, Vocabulary
<1>3. IsFiniteSet(Known(v))
  BY SparseAssumption, FS_Subset DEF Known
<1>4. Cardinality(Known(u)) = Cardinality(Known(v)) + 1
  BY <1>2, <1>3, FS_AddElement
<1>. QED BY <1>4 DEF Size, Known

-----------------------------------------------------------------------------
(* Type correctness *)

\* An empty vocabulary is one.
LEMMA NoVocabularyType == NoVocabulary \in Vocabulary
BY DEF NoVocabulary, Vocabulary

\* The initial values have their types.
LEMMA TypeInit == Init => TypeOK
BY NoVocabularyType, ZeroInRange DEF Init, TypeOK, File, Task, IdleTask

\* Every action keeps the types.
LEMMA TypeNext == TypeOK /\ [Next]_vars => TypeOK'
<1>. SUFFICES ASSUME TypeOK, [Next]_vars PROVE TypeOK'
  OBVIOUS
<1>. USE NoVocabularyType, ZeroInRange
<1>1. IdleTask \in Task /\ Torn \in File
  BY DEF Task, IdleTask, Torn, File
<1>2. ASSUME NEW k \in Tasks, NEW b \in Batches, Fit(k, b) PROVE TypeOK'
  <2>1. [IdleTask EXCEPT !.phase = "fit", !.batch = b, !.todo = TermsOf[b]] \in Task
    BY SparseAssumption DEF Task, IdleTask
  <2>. QED BY <1>2, <2>1 DEF Fit, TypeOK
<1>3. ASSUME NEW k \in Tasks, NEW t \in Terms, Look(k, t) PROVE TypeOK'
  <2>. DEFINE x == tasks[k]
  <2>1. x \in Task
    BY DEF TypeOK
  <2>2. [x EXCEPT !.todo = x.todo \ {t}] \in Task
    BY <2>1 DEF Task
  <2>3. fitted[t] = NoId => [x EXCEPT !.phase = "assign", !.term = t, !.next = NextNumber(k)] \in Task
    BY <2>1, NextNumberInRange DEF Task, NextNumber
  <2>. QED BY <1>3, <2>2, <2>3 DEF Look, TypeOK
<1>4. ASSUME NEW k \in Tasks, Assign(k) PROVE TypeOK'
  <2>. DEFINE x == tasks[k]
  <2>1. x \in Task
    BY DEF TypeOK
  <2>2. [x EXCEPT !.phase = "fit", !.todo = x.todo \ {x.term}, !.term = NoTerm, !.next = 0] \in Task
    BY <2>1 DEF Task
  <2>3. [fitted EXCEPT ![x.term] = x.next] \in Vocabulary
    BY <2>1 DEF Task, TypeOK, Vocabulary
  <2>. QED BY <1>4, <2>2, <2>3 DEF Assign, TypeOK
<1>5. ASSUME NEW k \in Tasks, Dump(k) PROVE TypeOK'
  <2>1. [tasks[k] EXCEPT !.phase = "open", !.text = fitted] \in Task
    BY DEF TypeOK, Task
  <2>. QED BY <1>5, <2>1 DEF Dump, TypeOK
<1>6. ASSUME NEW k \in Tasks, Open(k) PROVE TypeOK'
  <2>1. [tasks[k] EXCEPT !.phase = "write"] \in Task
    BY DEF TypeOK, Task
  <2>. QED BY <1>1, <1>6, <2>1 DEF Open, EndStage, TypeOK
<1>7. ASSUME NEW k \in Tasks, Write(k) PROVE TypeOK'
  <2>1. tasks[k] \in Task
    BY DEF TypeOK
  <2>2. [tasks[k] EXCEPT !.phase = "encode", !.text = NoVocabulary] \in Task
    BY <2>1 DEF Task
  <2>3. Whole(tasks[k].text) \in File
    BY <2>1 DEF Task, Whole, File
  <2>. QED BY <1>1, <1>7, <2>2, <2>3 DEF Write, EndStage, TypeOK
<1>8. ASSUME NEW k \in Tasks, Encode(k) PROVE TypeOK'
  <2>. DEFINE i == [t \in Terms |-> IF t \in TermsOf[tasks[k].batch] THEN fitted[t] ELSE NoId]
  <2>1. i \in Vocabulary
    BY DEF TypeOK, Vocabulary
  <2>2. indexed' \in [Batches -> Vocabulary]
    BY <1>8, <2>1 DEF Encode, TypeOK
  <2>. QED BY <1>1, <1>8, <2>2 DEF Encode, EndStage, TypeOK
<1>9. CASE Crash
  BY <1>1, <1>9 DEF Crash, StopWorker, StopApi, TypeOK
<1>10. CASE Start
  BY <1>10 DEF Start, StartWorker, StartApi, Loaded, File, TypeOK
<1>11. CASE UNCHANGED vars
  BY <1>11 DEF vars, TypeOK
<1>. QED BY <1>2, <1>3, <1>4, <1>5, <1>6, <1>7, <1>8, <1>9, <1>10, <1>11 DEF Next

\* In every deployment, however many runs fit terms at once, the numbers stay
\* in the range 0 .. Cardinality(Terms) - 1 and all variables in their types.
THEOREM SparseTypeCorrect == Spec => []TypeOK
BY TypeInit, TypeNext, PTL DEF Spec

-----------------------------------------------------------------------------
(* One run at a time in the embed_sparse stage: the worker container of      *)
(* compose.yaml, where one poller fits and saves.                            *)

SoleTask == \A j, k \in Tasks : j = k

\* Whatever is numbered in u has the same number in v.
Extends(u, v) == \A t \in Terms : u[t] # NoId => v[t] = u[t]

\* Numbers are handed out in turn, so no two terms share one.
Exact(v) ==
  /\ \A t \in Terms : v[t] # NoId => v[t] < Size(v)
  /\ \A s, t \in Terms : s # t /\ v[s] # NoId => v[s] # v[t]

\* What a task has established about memory and file.
TaskOK(x) ==
  /\ x.phase # "idle" => workerUp
  /\ x.phase = "assign" => x.term \in Terms /\ fitted[x.term] = NoId /\ x.next = Size(fitted)
  /\ x.phase \in {"open", "write"} => x.text = fitted
  /\ x.phase = "write" => file.state = "torn"
  /\ x.phase = "encode" => file = Whole(fitted)

\* Everything that has ever been loaded, saved or indexed is part of the
\* worker's vocabulary and, unless the file is torn, of the file's.
MemoryOK ==
  workerUp => /\ Extends(file.vocabulary, fitted)
              /\ Extends(queried, fitted)
              /\ \A b \in Batches : Extends(indexed[b], fitted)

FileOK ==
  file.state # "torn" => /\ Extends(queried, file.vocabulary)
                         /\ \A b \in Batches : Extends(indexed[b], file.vocabulary)

SparseInv ==
  /\ Exact(fitted)
  /\ Exact(file.vocabulary)
  /\ MemoryOK
  /\ FileOK
  /\ QueryMeansIndexed
  /\ \A k \in Tasks : TaskOK(tasks[k])

-----------------------------------------------------------------------------
(* Vocabularies *)

\* The empty vocabulary is exact and part of every other.
LEMMA NothingKnown == Exact(NoVocabulary) /\ \A v : Extends(NoVocabulary, v)
BY DEF Exact, Extends, NoVocabulary

\* Numbering an unknown term keeps what was numbered before.
LEMMA GrownExtends ==
  ASSUME NEW u, NEW v \in Vocabulary, NEW t \in Terms, v[t] = NoId, NEW n,
         Extends(u, v)
  PROVE  Extends(u, [v EXCEPT ![t] = n])
BY DEF Extends, Vocabulary

\* len() of an exact vocabulary is a number that no term has.
LEMMA GrownExact ==
  ASSUME NEW v \in Vocabulary, Exact(v), NEW t \in Terms, v[t] = NoId
  PROVE  Exact([v EXCEPT ![t] = Size(v)])
<1>. DEFINE u == [v EXCEPT ![t] = Size(v)]
<1>1. Size(v) \in Ids /\ Size(v) \in Nat /\ Size(u) = Size(v) + 1
  BY NextNumberInRange, SizeNat, SizeGrows
<1>2. \A s \in Terms : v[s] # NoId => v[s] \in Nat /\ v[s] < Size(v)
  <2>1. Cardinality(Terms) \in Nat
    BY SparseAssumption, FS_CardinalityType
  <2>. QED BY <2>1 DEF Exact, Vocabulary, Ids
<1>3. \A s \in Terms : u[s] = IF s = t THEN Size(v) ELSE v[s]
  BY DEF Vocabulary
<1>4. \A s \in Terms : u[s] # NoId => u[s] < Size(u)
  BY <1>1, <1>2, <1>3
<1>5. \A r, s \in Terms : r # s /\ u[r] # NoId => u[r] # u[s]
  <2>. SUFFICES ASSUME NEW r \in Terms, NEW s \in Terms, r # s, u[r] # NoId PROVE u[r] # u[s]
    OBVIOUS
  <2>1. CASE r = t
    BY <1>1, <1>2, <1>3, <2>1, SparseAssumption
  <2>2. CASE s = t
    BY <1>1, <1>2, <1>3, <2>2, SparseAssumption
  <2>3. CASE r # t /\ s # t
    BY <1>3, <2>3 DEF Exact
  <2>. QED BY <2>1, <2>2, <2>3
<1>. QED BY <1>4, <1>5 DEF Exact

\* Two parts of one exact vocabulary agree on what a number means.
LEMMA PartsAgree ==
  ASSUME NEW v, Exact(v), NEW p, NEW q, Extends(p, v), Extends(q, v),
         NEW s \in Terms, NEW t \in Terms, p[s] # NoId, q[t] # NoId
  PROVE  p[s] = q[t] <=> s = t
BY DEF Exact, Extends

-----------------------------------------------------------------------------
(* The invariant *)

\* Before any batch nothing is numbered.
LEMMA SparseInvInit == Init => SparseInv
<1>. SUFFICES ASSUME Init PROVE SparseInv
  OBVIOUS
<1>1. fitted = NoVocabulary /\ queried = NoVocabulary /\ file.vocabulary = NoVocabulary
  BY DEF Init
<1>2. \A b \in Batches : indexed[b] = NoVocabulary
  BY DEF Init
<1>3. MemoryOK /\ FileOK
  BY <1>1, <1>2, NothingKnown DEF MemoryOK, FileOK
<1>4. QueryMeansIndexed
  BY <1>1 DEF QueryMeansIndexed, NoVocabulary
<1>5. \A k \in Tasks : TaskOK(tasks[k])
  BY DEF Init, TaskOK, IdleTask
<1>. QED BY <1>1, <1>3, <1>4, <1>5, NothingKnown DEF SparseInv

\* An idle task has established nothing.
LEMMA IdleTaskOK == TaskOK(IdleTask) /\ TaskOK(IdleTask)'
BY DEF TaskOK, IdleTask

\* A step of the sole task that only changes its own locals, to x.
LEMMA LocalsChange ==
  ASSUME SoleTask, TypeOK, SparseInv, NEW k \in Tasks, NEW x,
         tasks' = [tasks EXCEPT ![k] = x], TaskOK(x),
         UNCHANGED <<fitted, queried, file, indexed, workerUp>>
  PROVE  SparseInv'
<1>1. \A j \in Tasks : tasks'[j] = x
  BY DEF SoleTask, TypeOK
<1>2. TaskOK(x)'
  BY DEF TaskOK, Whole
<1>3. MemoryOK' /\ FileOK' /\ QueryMeansIndexed' /\ Exact(fitted)' /\ Exact(file.vocabulary)'
  BY DEF SparseInv, MemoryOK, FileOK, QueryMeansIndexed, Exact
<1>4. \A j \in Tasks : TaskOK(tasks[j])'
  BY <1>1, <1>2 DEF TaskOK
<1>. QED BY <1>3, <1>4 DEF SparseInv

\* A stage that ends leaves a file that is torn or as before.
LEMMA StageEnds ==
  ASSUME SoleTask, TypeOK, SparseInv, NEW k \in Tasks, EndStage(k),
         file' = Torn \/ UNCHANGED file,
         UNCHANGED <<fitted, queried, indexed, workerUp>>
  PROVE  SparseInv'
<1>1. \A j \in Tasks : tasks'[j] = IdleTask
  BY DEF SoleTask, TypeOK, EndStage
<1>2. \A j \in Tasks : TaskOK(tasks[j])'
  BY <1>1, IdleTaskOK DEF TaskOK
<1>3. Exact(fitted)' /\ QueryMeansIndexed'
  BY DEF SparseInv, QueryMeansIndexed, Exact
<1>4. CASE UNCHANGED file
  BY <1>2, <1>3, <1>4 DEF SparseInv, MemoryOK, FileOK, Exact
<1>5. CASE file' = Torn
  <2>1. file.vocabulary' = NoVocabulary /\ file.state' = "torn"
    BY <1>5 DEF Torn
  <2>2. MemoryOK' /\ FileOK' /\ Exact(file.vocabulary)'
    BY <2>1, NothingKnown DEF SparseInv, MemoryOK, FileOK
  <2>. QED BY <1>2, <1>3, <2>2 DEF SparseInv
<1>. QED BY <1>4, <1>5

\* With one run at a time every action keeps the invariant.
LEMMA SparseInvNext == SoleTask /\ TypeOK /\ SparseInv /\ [Next]_vars => SparseInv'
<1>. SUFFICES ASSUME SoleTask, TypeOK, SparseInv, [Next]_vars PROVE SparseInv'
  OBVIOUS
<1>0. \A k \in Tasks : tasks[k] \in Task /\ TaskOK(tasks[k])
  BY DEF TypeOK, SparseInv
<1>1. ASSUME NEW k \in Tasks, NEW b \in Batches, Fit(k, b) PROVE SparseInv'
  <2>. DEFINE x == [IdleTask EXCEPT !.phase = "fit", !.batch = b, !.todo = TermsOf[b]]
  <2>1. TaskOK(x)
    BY <1>1 DEF Fit, TaskOK, IdleTask
  <2>2. tasks' = [tasks EXCEPT ![k] = x]
    BY <1>1 DEF Fit
  <2>. QED BY <1>1, <2>1, <2>2, LocalsChange DEF Fit
<1>2. ASSUME NEW k \in Tasks, NEW t \in Terms, Look(k, t) PROVE SparseInv'
  <2>. DEFINE x == IF fitted[t] # NoId
                   THEN [tasks[k] EXCEPT !.todo = tasks[k].todo \ {t}]
                   ELSE [tasks[k] EXCEPT !.phase = "assign", !.term = t, !.next = NextNumber(k)]
  <2>1. tasks[k].phase = "fit" /\ tasks' = [tasks EXCEPT ![k] = x]
    BY <1>2 DEF Look
  <2>2. TaskOK(x)
    BY <1>0, <2>1 DEF TaskOK, Task, NextNumber
  <2>. HIDE DEF x
  <2>. QED BY <1>2, <2>1, <2>2, LocalsChange DEF Look
<1>3. ASSUME NEW k \in Tasks, Assign(k) PROVE SparseInv'
  <2>. DEFINE t == tasks[k].term
              x == [tasks[k] EXCEPT !.phase = "fit", !.todo = tasks[k].todo \ {tasks[k].term},
                                    !.term = NoTerm, !.next = 0]
  <2>1. t \in Terms /\ fitted[t] = NoId /\ tasks[k].next = Size(fitted) /\ workerUp
    BY <1>0, <1>3 DEF Assign, TaskOK
  <2>2. fitted' = [fitted EXCEPT ![t] = Size(fitted)] /\ fitted \in Vocabulary
    BY <1>3, <2>1 DEF Assign, TypeOK
  <2>3. \A u : Extends(u, fitted) => Extends(u, fitted')
    BY <2>1, <2>2, GrownExtends
  <2>4. Exact(fitted')
    BY <2>1, <2>2, GrownExact DEF SparseInv
  <2>5. UNCHANGED <<queried, file, indexed, workerUp>> /\ tasks' = [tasks EXCEPT ![k] = x]
    BY <1>3 DEF Assign
  <2>6. MemoryOK' /\ FileOK' /\ Exact(file.vocabulary)' /\ QueryMeansIndexed'
    BY <2>3, <2>5 DEF SparseInv, MemoryOK, FileOK, QueryMeansIndexed, Exact
  <2>7. \A j \in Tasks : tasks'[j] = x /\ x.phase = "fit"
    BY <1>0, <2>5 DEF SoleTask, TypeOK, Task
  <2>8. \A j \in Tasks : TaskOK(tasks[j])'
    BY <2>1, <2>5, <2>7 DEF TaskOK
  <2>. QED BY <2>4, <2>6, <2>8 DEF SparseInv
<1>4. ASSUME NEW k \in Tasks, Dump(k) PROVE SparseInv'
  <2>. DEFINE x == [tasks[k] EXCEPT !.phase = "open", !.text = fitted]
  <2>1. tasks' = [tasks EXCEPT ![k] = x] /\ tasks[k].phase = "fit"
    BY <1>4 DEF Dump
  <2>2. TaskOK(x)
    BY <1>0, <2>1 DEF TaskOK, Task
  <2>. QED BY <1>4, <2>1, <2>2, LocalsChange DEF Dump
<1>5. ASSUME NEW k \in Tasks, Open(k) PROVE SparseInv'
  <2>1. CASE UNCHANGED file /\ EndStage(k)
    BY <1>5, <2>1, StageEnds DEF Open
  <2>2. CASE file' = Torn /\ tasks' = [tasks EXCEPT ![k] = [@ EXCEPT !.phase = "write"]]
    <3>. DEFINE x == [tasks[k] EXCEPT !.phase = "write"]
    <3>1. UNCHANGED <<fitted, queried, indexed, workerUp>> /\ tasks[k].phase = "open"
      BY <1>5 DEF Open
    <3>2. file.vocabulary' = NoVocabulary /\ file.state' = "torn"
      BY <2>2 DEF Torn
    <3>3. \A j \in Tasks : tasks'[j] = x
      BY <2>2 DEF SoleTask, TypeOK
    <3>4. x.phase = "write" /\ x.text = fitted /\ workerUp
      BY <1>0, <3>1 DEF TaskOK, Task
    <3>5. \A j \in Tasks : TaskOK(tasks[j])'
      BY <3>1, <3>2, <3>3, <3>4 DEF TaskOK
    <3>6. MemoryOK' /\ FileOK' /\ Exact(file.vocabulary)' /\ QueryMeansIndexed' /\ Exact(fitted)'
      BY <3>1, <3>2, NothingKnown DEF SparseInv, MemoryOK, FileOK, QueryMeansIndexed, Exact
    <3>. QED BY <3>5, <3>6 DEF SparseInv
  <2>. QED BY <1>5, <2>1, <2>2 DEF Open
<1>6. ASSUME NEW k \in Tasks, Write(k) PROVE SparseInv'
  <2>. DEFINE x == [tasks[k] EXCEPT !.phase = "encode", !.text = NoVocabulary]
  <2>1. UNCHANGED <<fitted, queried, indexed, workerUp>> /\ tasks[k].phase = "write"
    BY <1>6 DEF Write
  <2>2. tasks[k].text = fitted /\ file.state = "torn" /\ workerUp
    BY <1>0, <2>1 DEF TaskOK
  <2>3. CASE file' = Torn /\ EndStage(k)
    BY <2>1, <2>3, StageEnds
  <2>4. CASE file' = Whole(fitted) /\ tasks' = [tasks EXCEPT ![k] = x]
    <3>1. file.vocabulary' = fitted /\ file.state' = "whole" /\ file' = Whole(fitted')
      BY <2>1, <2>4 DEF Whole
    <3>2. \A j \in Tasks : tasks'[j] = x /\ x.phase = "encode"
      BY <1>0, <2>4 DEF SoleTask, TypeOK, Task
    <3>3. \A j \in Tasks : TaskOK(tasks[j])'
      BY <2>1, <2>2, <3>1, <3>2 DEF TaskOK
    <3>4. Extends(fitted, fitted) /\ Exact(fitted)
      BY DEF Extends, SparseInv
    <3>5. MemoryOK' /\ FileOK' /\ Exact(file.vocabulary)' /\ QueryMeansIndexed' /\ Exact(fitted)'
      BY <2>1, <2>2, <3>1, <3>4 DEF SparseInv, MemoryOK, FileOK, QueryMeansIndexed
    <3>. QED BY <3>3, <3>5 DEF SparseInv
  <2>. QED BY <1>6, <2>2, <2>3, <2>4 DEF Write
<1>7. ASSUME NEW k \in Tasks, Encode(k) PROVE SparseInv'
  <2>1. EndStage(k) /\ UNCHANGED <<fitted, queried, file, workerUp, apiUp>>
    BY <1>7 DEF Encode
  <2>2. CASE UNCHANGED indexed
    BY <2>1, <2>2, StageEnds
  <2>3. CASE ~UNCHANGED indexed
    <3>. DEFINE i == [t \in Terms |-> IF t \in TermsOf[tasks[k].batch] THEN fitted[t] ELSE NoId]
    <3>1. indexed' = [indexed EXCEPT ![tasks[k].batch] = i]
      BY <1>7, <2>3 DEF Encode
    <3>2. workerUp /\ file = Whole(fitted)
      BY <1>0, <1>7 DEF Encode, TaskOK
    <3>3. file.vocabulary = fitted /\ file.state = "whole"
      BY <3>2 DEF Whole
    <3>4. Extends(i, fitted) /\ Extends(queried, fitted) /\ Exact(fitted)
      BY <3>2 DEF Extends, SparseInv, MemoryOK
    <3>5. \A b \in Batches : indexed'[b] = indexed[b] \/ indexed'[b] = i
      BY <3>1 DEF TypeOK
    <3>6. \A b \in Batches : Extends(indexed'[b], fitted)
      BY <3>2, <3>4, <3>5 DEF SparseInv, MemoryOK
    <3>7. QueryMeansIndexed'
      BY <2>1, <3>4, <3>6, PartsAgree DEF QueryMeansIndexed
    <3>8. \A j \in Tasks : tasks'[j] = IdleTask
      BY <2>1 DEF SoleTask, TypeOK, EndStage
    <3>9. \A j \in Tasks : TaskOK(tasks[j])'
      BY <3>8, IdleTaskOK DEF TaskOK
    <3>10. MemoryOK' /\ FileOK' /\ Exact(file.vocabulary)' /\ Exact(fitted)'
      BY <2>1, <3>3, <3>4, <3>6 DEF MemoryOK, FileOK, SparseInv, Exact
    <3>. QED BY <3>7, <3>9, <3>10 DEF SparseInv
  <2>. QED BY <2>2, <2>3
<1>8. CASE Crash
  <2>1. UNCHANGED <<file, indexed>>
    BY <1>8 DEF Crash
  <2>2. UNCHANGED <<workerUp, tasks, fitted>> \/ StopWorker
    BY <1>8 DEF Crash
  <2>3. UNCHANGED queried \/ queried' = NoVocabulary
    BY <1>8 DEF Crash, StopApi
  <2>4. QueryMeansIndexed'
    BY <2>1, <2>3 DEF SparseInv, QueryMeansIndexed, NoVocabulary
  <2>5. \A v : Extends(queried, v) => Extends(queried', v)
    BY <2>3, NothingKnown
  <2>6. FileOK' /\ Exact(file.vocabulary)'
    BY <2>1, <2>5 DEF SparseInv, FileOK
  <2>7. CASE UNCHANGED <<workerUp, tasks, fitted>>
    <3>1. MemoryOK' /\ Exact(fitted)'
      BY <2>1, <2>5, <2>7 DEF SparseInv, MemoryOK
    <3>2. \A k \in Tasks : TaskOK(tasks[k])'
      BY <1>0, <2>1, <2>7 DEF TaskOK, Whole
    <3>. QED BY <2>4, <2>6, <3>1, <3>2 DEF SparseInv
  <2>8. CASE StopWorker
    <3>1. MemoryOK' /\ Exact(fitted)'
      BY <2>8, NothingKnown DEF StopWorker, MemoryOK
    <3>2. \A k \in Tasks : TaskOK(tasks[k])'
      BY <2>8, IdleTaskOK DEF StopWorker, TaskOK
    <3>. QED BY <2>4, <2>6, <3>1, <3>2 DEF SparseInv
  <2>. QED BY <2>2, <2>7, <2>8
<1>9. CASE Start
  <2>1. UNCHANGED <<file, indexed, tasks>> /\ file.state # "torn"
    BY <1>9 DEF Start, CanLoad
  <2>2. UNCHANGED <<workerUp, fitted>> \/ (~workerUp /\ workerUp' /\ fitted' = file.vocabulary)
    BY <1>9 DEF Start, StartWorker, Loaded
  <2>3. UNCHANGED queried \/ queried' = file.vocabulary
    BY <1>9 DEF Start, StartApi, Loaded
  <2>4. Extends(file.vocabulary, file.vocabulary)
    BY DEF Extends
  <2>5. /\ Extends(queried', file.vocabulary)
        /\ Exact(file.vocabulary)
        /\ \A b \in Batches : Extends(indexed[b], file.vocabulary)
    BY <2>1, <2>3, <2>4 DEF SparseInv, FileOK
  <2>6. FileOK' /\ Exact(file.vocabulary)'
    BY <2>1, <2>5 DEF FileOK
  <2>7. QueryMeansIndexed'
    BY <2>1, <2>5, PartsAgree DEF QueryMeansIndexed
  <2>8. CASE UNCHANGED <<workerUp, fitted>>
    <3>1. workerUp => Extends(queried', fitted)
      BY <2>3 DEF SparseInv, MemoryOK
    <3>2. MemoryOK' /\ Exact(fitted)'
      BY <2>1, <2>8, <3>1 DEF SparseInv, MemoryOK
    <3>3. \A k \in Tasks : TaskOK(tasks[k])'
      BY <1>0, <2>1, <2>8 DEF TaskOK, Whole
    <3>. QED BY <2>6, <2>7, <3>2, <3>3 DEF SparseInv
  <2>9. CASE ~workerUp /\ workerUp' /\ fitted' = file.vocabulary
    <3>1. MemoryOK' /\ Exact(fitted)'
      BY <2>1, <2>4, <2>5, <2>9 DEF MemoryOK
    <3>2. \A k \in Tasks : tasks[k].phase = "idle"
      BY <1>0, <2>9 DEF TaskOK
    <3>3. \A k \in Tasks : TaskOK(tasks[k])'
      BY <2>1, <3>2 DEF TaskOK
    <3>. QED BY <2>6, <2>7, <3>1, <3>3 DEF SparseInv
  <2>. QED BY <2>2, <2>8, <2>9
<1>10. CASE UNCHANGED vars
  <2>1. \A k \in Tasks : TaskOK(tasks[k])'
    BY <1>0, <1>10 DEF vars, TaskOK, Whole
  <2>. QED BY <1>10, <2>1 DEF vars, SparseInv, MemoryOK, FileOK, QueryMeansIndexed, Exact
<1>. QED BY <1>1, <1>2, <1>3, <1>4, <1>5, <1>6, <1>7, <1>8, <1>9, <1>10 DEF Next

-----------------------------------------------------------------------------
(* Theorems *)

\* The invariant holds at all times, with one run at a time.
LEMMA SparseInvariant == ASSUME SoleTask PROVE Spec => [](TypeOK /\ SparseInv)
<1>1. Init => TypeOK /\ SparseInv
  BY TypeInit, SparseInvInit
<1>2. TypeOK /\ SparseInv /\ [Next]_vars => (TypeOK /\ SparseInv)'
  BY TypeNext, SparseInvNext
<1>. QED BY <1>1, <1>2, PTL DEF Spec

\* With one run at a time the vocabulary is exact: no two terms share a number,
\* whatever was lost in crashes and failed saves.
THEOREM VocabularyStaysExact == ASSUME SoleTask PROVE Spec => []VocabularyExact
<1>1. SparseInv => VocabularyExact
  BY DEF SparseInv, Exact, VocabularyExact
<1>. QED BY <1>1, SparseInvariant, PTL

\* With one run at a time a running worker knows the numbers of all points,
\* also after restarts: numbers are saved before a point is encoded with them.
THEOREM IdsStayStable == ASSUME SoleTask PROVE Spec => []IdsAreStable
<1>1. SparseInv => IdsAreStable
  BY DEF SparseInv, MemoryOK, Extends, IdsAreStable
<1>. QED BY <1>1, SparseInvariant, PTL

\* With one run at a time a query, encoded with a vocabulary loaded at any
\* time, never takes the number of one term for that of another.
THEOREM QueriesMeanIndexed == ASSUME SoleTask PROVE Spec => []QueryMeansIndexed
<1>1. SparseInv => QueryMeansIndexed
  BY DEF SparseInv
<1>. QED BY <1>1, SparseInvariant, PTL
=============================================================================
