---------------------------- MODULE QueryService -----------------------------
(***************************************************************************)
(* POST /queries: QueryService.execute from the prompt check to the trace, *)
(* while versions of the documents it searches are staged, activated,      *)
(* discarded and deleted.  A hybrid query sends two search requests; each  *)
(* sees the collection as it is then.                                      *)
(*                                                                         *)
(* The writer is IngestionPipeline cut down to its requests to the store.  *)
(* Queries of several clients share nothing but the store and the          *)
(* counters, so one client stands for all.                                 *)
(***************************************************************************)
EXTENDS Retrieval, ChunkStore

CONSTANTS
  Docs,
  ChunkOf,        \* [Chunks -> Versions]
  Unsafe,         \* chunks that the evidence policy filters out
  TopK,           \* top_k of the request
  Scopes,         \* document_ids of requests, {} for all documents
  NoVersion

ASSUME QueryAssumption ==
  /\ DocOf \in [Versions -> Docs]
  /\ ChunkOf \in [Chunks -> Versions]
  /\ Unsafe \subseteq Chunks
  /\ TopK \in Nat \ {0}
  /\ Scopes \subseteq SUBSET Docs
  /\ NoVersion \notin Versions

VARIABLES
  writer,    \* the ingestion in progress
  query,     \* the query in progress
  seen       \* history: the chunks it could have been shown at any moment so far

vars == <<points, writer, query, seen>>

Writer == [phase : {"idle", "stage", "publish", "hide"}, version : Versions \cup {NoVersion}]
IdleWriter == [phase |-> "idle", version |-> NoVersion]

Outcome == {"none", "answered", "NO_EVIDENCE", "LOW_RELEVANCE",
            "INSUFFICIENT_COVERAGE", "SECURITY_POLICY", "INVALID_REQUEST", "error"}

Query == [phase   : {"idle", "dense", "sparse", "combine", "gate", "generate", "ended"},
          mode    : Modes,
          scope   : SUBSET Docs,             \* document_ids, empty for all
          dense   : Seq(Hit),
          sparse  : Seq(Hit),
          window  : Seq(Candidate),
          final   : Seq(Candidate),
          blocked : BOOLEAN,                 \* the evidence policy removed something
          outcome : Outcome,
          traces  : 0 .. 1,                  \* events in the trace sink
          errors  : 0 .. 1]                  \* counts of rag_dependency_errors_total

IdleQuery == [phase |-> "idle", mode |-> "hybrid", scope |-> {}, dense |-> <<>>,
              sparse |-> <<>>, window |-> <<>>, final |-> <<>>, blocked |-> FALSE,
              outcome |-> "none", traces |-> 0, errors |-> 0]

TypeOK ==
  /\ StoreTypeOK
  /\ writer \in Writer
  /\ query \in Query
  /\ seen \subseteq Chunks

Init ==
  /\ StoreInit
  /\ writer = IdleWriter
  /\ query = IdleQuery
  /\ seen = {}

InScope(c, scope) == scope = {} \/ DocOf[ChunkOf[c]] \in scope

\* Mutant: inactive points are not filtered out.
SearchableStaged(store, scope) == {c \in Chunks : store[ChunkOf[c]] # "absent" /\ InScope(c, scope)}

\* _active_filter, and _filter_access once more on what comes back.
Searchable(store, scope) ==
  {c \in Chunks : store[ChunkOf[c]] = "active" /\ InScope(c, scope)}

\* The same, for the history.
Active(store, scope) == {c \in Chunks : store[ChunkOf[c]] = "active" /\ InScope(c, scope)}

-----------------------------------------------------------------------------
(* The store while queries run *)

Observe == seen' = IF query.phase \in {"dense", "sparse"}
                   THEN seen \cup Active(points', query.scope) ELSE seen

Stage(v) ==
  /\ writer.phase = "idle"
  /\ points' = Staged(v)
  /\ writer' = [phase |-> "stage", version |-> v]
  /\ Observe
  /\ UNCHANGED query

Discard ==
  /\ writer.phase = "stage"
  /\ points' = Discarded(writer.version)
  /\ writer' = IdleWriter
  /\ Observe
  /\ UNCHANGED query

Publish ==
  /\ writer.phase = "stage"
  /\ points' = Flagged(writer.version)
  /\ writer' = [writer EXCEPT !.phase = "hide"]
  /\ Observe
  /\ UNCHANGED query

HideOthers ==
  /\ writer.phase = "hide"
  /\ points' = OthersHidden(writer.version)
  /\ writer' = IdleWriter
  /\ Observe
  /\ UNCHANGED query

Delete(d) ==
  /\ points' = DocumentDeleted(d)
  /\ points' # points
  /\ Observe
  /\ UNCHANGED <<writer, query>>

-----------------------------------------------------------------------------
(* The query *)

FirstPhase(mode) == IF mode = "bm25" THEN "sparse" ELSE "dense"

Ask(mode, scope) ==
  /\ query.phase = "idle"
  /\ query' = [IdleQuery EXCEPT !.phase = FirstPhase(mode), !.mode = mode, !.scope = scope]
  /\ seen' = Active(points, scope)
  /\ UNCHANGED <<points, writer>>

\* _record_and_return: one trace event for every result.
Record(q, outcome) ==
  [q EXCEPT !.phase = "ended", !.outcome = outcome, !.traces = @ + 1]

\* Mutant: the first rejection returns without a record.
AskBlockedUnrecorded(mode) ==
  /\ query.phase = "idle"
  /\ query' = [IdleQuery EXCEPT !.mode = mode, !.phase = "ended", !.outcome = "SECURITY_POLICY"]
  /\ seen' = {}
  /\ UNCHANGED <<points, writer>>

\* The prompt policy rejects the question before anything is searched.
AskBlocked(mode) ==
  /\ query.phase = "idle"
  /\ query' = Record([IdleQuery EXCEPT !.mode = mode], "SECURITY_POLICY")
  /\ seen' = {}
  /\ UNCHANGED <<points, writer>>

\* normalize_tenant_id or normalize_acl_tags refuses a value that was short
\* enough for the API contract.  That is the first thing search does, and its
\* ServiceError is passed on as it is: no trace event and no error count.
RetrievalRejected ==
  /\ query.phase = FirstPhase(query.mode)
  /\ query' = [query EXCEPT !.phase = "ended", !.outcome = "INVALID_REQUEST"]
  /\ UNCHANGED <<points, writer, seen>>

\* Embedding, a search or the reranker fails: DEPENDENCY_UNAVAILABLE.
RetrievalFails ==
  /\ query.phase \in {"dense", "sparse", "combine"}
  /\ query' = [query EXCEPT !.phase = "ended", !.outcome = "error", !.errors = @ + 1]
  /\ UNCHANGED <<points, writer, seen>>

SearchDense ==
  /\ query.phase = "dense"
  /\ \E hits \in Rankings(Searchable(points, query.scope), SearchLimit(TopK)) :
       query' = [query EXCEPT !.dense = hits,
                   !.phase = IF query.mode = "hybrid" THEN "sparse" ELSE "combine"]
  /\ UNCHANGED <<points, writer, seen>>

\* Only chunks that share a term with the question match.
SearchSparse ==
  /\ query.phase = "sparse"
  /\ \E matching \in SUBSET Searchable(points, query.scope) :
       \E hits \in Rankings(matching, SearchLimit(TopK)) :
         query' = [query EXCEPT !.sparse = hits, !.phase = "combine"]
  /\ UNCHANGED <<points, writer, seen>>

\* The candidates that the policy keeps, in their order.
Safe(s) ==
  LET precedes(i, j) == i < j
      kept == Ordered({i \in DOMAIN s : s[i].chunk \notin Unsafe}, precedes)
  IN  [k \in DOMAIN kept |-> s[kept[k]]]

\* _apply_evidence_safety, on the candidates and the window they come from.
Filtered(q) == [q EXCEPT !.window = Safe(@), !.final = Safe(@),
                         !.blocked = Safe(q.window) # q.window \/ Safe(q.final) # q.final]

\* The rest of search, with or without a reranker (reranker_enabled), and the
\* evidence policy.  Hit lists and scope are done with.
Combine ==
  LET window == CandidateWindow(query.mode, query.dense, query.sparse, TopK)
      combined(final) ==
        Filtered([query EXCEPT !.window = window, !.final = final,
                               !.dense = <<>>, !.sparse = <<>>, !.scope = {}, !.phase = "gate"])
  IN
  /\ query.phase = "combine"
  /\ \E final \in {Cut(window, TopK)} \cup (IF window # <<>> THEN Reranked(window, TopK) ELSE {}) :
       query' = combined(final)
  /\ UNCHANGED <<points, writer, seen>>

\* assess_answerability; whether the evidence covers the question is open.
Gate(covers) ==
  LET decision == IF query.blocked /\ query.final = <<>> THEN "SECURITY_POLICY"
                  ELSE Decide(query.mode, query.final, covers)
  IN
  /\ query.phase = "gate"
  /\ query' = IF decision = "answer" THEN [query EXCEPT !.phase = "generate", !.window = <<>>]
              ELSE Record([query EXCEPT !.window = <<>>], decision)
  /\ UNCHANGED <<points, writer, seen>>

Generate ==
  /\ query.phase = "generate"
  /\ query' = Record(query, "answered")
  /\ UNCHANGED <<points, writer, seen>>

\* Ollama fails or times out.
GenerationFails ==
  /\ query.phase = "generate"
  /\ query' = [query EXCEPT !.phase = "ended", !.outcome = "error", !.errors = @ + 1]
  /\ UNCHANGED <<points, writer, seen>>

Reply ==
  /\ query.phase = "ended"
  /\ query' = IdleQuery
  /\ seen' = {}
  /\ UNCHANGED <<points, writer>>

Next ==
  \/ \E v \in Versions : Stage(v)
  \/ Discard \/ Publish \/ HideOthers
  \/ \E d \in Docs : Delete(d)
  \/ \E mode \in Modes : AskBlocked(mode) \/ \E scope \in Scopes : Ask(mode, scope)
  \/ RetrievalRejected \/ SearchDense \/ SearchSparse \/ Combine \/ RetrievalFails
  \/ \E covers \in BOOLEAN : Gate(covers)
  \/ Generate \/ GenerationFails \/ Reply

Spec == Init /\ [][Next]_vars

-----------------------------------------------------------------------------
(* Properties *)

\* Whatever is activated, hidden or deleted while the two searches of a query
\* run, the model is given, and the answer names, only chunks that were
\* searchable in the scope of the query at some moment of it, and no unsafe one.
SourcesWereSearchable ==
  query.phase = "generate" \/ query.outcome = "answered" =>
    /\ query.final # <<>>
    /\ ChunksOf(query.final) \subseteq seen \ Unsafe

\* The greatest score that fusion gives a chunk of one list only is below the
\* dense minimum: 1/61 and 0.331 by default.  The settings allow a minimum of
\* 0 and rrf_k = 1, where such a score passes the gate.
FusedScoresAreLow == Greater(MinDense, FusedScore(0, 1))

\* Where fused scores are low, a query is answered only if one of the selected
\* chunks has a score of its own that reaches the minimum of the kind the gate
\* looks at; and wherever one has, the query is not called irrelevant, in
\* whatever order fusion has put the candidates.
AnswersAreRelevant ==
  LET kind == ScoreKind(query.mode, query.final)
      relevant == \E i \in DOMAIN query.final : query.final[i][kind] = Good
  IN  /\ FusedScoresAreLow /\ (query.phase = "generate" \/ query.outcome = "answered") => relevant
      /\ query.outcome = "LOW_RELEVANCE" => ~relevant

\* Of the nine exits of a query one leaves no record, the refused tenant or ACL
\* tags; each of the others leaves one trace event or one dependency error
\* behind, never both.
UnrecordedOnlyIfInvalid ==
  query.phase = "ended" =>
    /\ query.traces + query.errors = (IF query.outcome = "INVALID_REQUEST" THEN 0 ELSE 1)
    /\ query.errors = 1 <=> query.outcome = "error"

\* b is ranked before c by one of the lists and not behind it by the other.
RankedBefore(b, c, denseHits, sparseHits) ==
  LET d(x) == RankIn(denseHits, x)
      s(x) == RankIn(sparseHits, x)
      leads(m, n) == m # 0 /\ (n = 0 \/ m < n)
  IN  /\ leads(d(b), d(c)) \/ leads(s(b), s(c))
      /\ ~leads(d(c), d(b)) /\ ~leads(s(c), s(b))

\* Fusion never turns the two rankings around: a chunk that both of them put
\* before another one keeps its place before it, and the window cuts off the
\* other one first.  No chunk is in the window twice.
FusionKeepsOrder ==
  [][query.phase = "combine" /\ query'.phase = "gate" /\ query.mode = "hybrid" =>
       LET window == query'.window IN
       /\ \A i, j \in DOMAIN window : window[i].chunk = window[j].chunk => i = j
       /\ \A j \in DOMAIN window, b \in ChunksOf(query.dense) \cup ChunksOf(query.sparse) :
            RankedBefore(b, window[j].chunk, query.dense, query.sparse) /\ b \notin Unsafe
              => \E i \in 1 .. j - 1 : window[i].chunk = b]_vars
=============================================================================
