----------------------------- MODULE RagServing -----------------------------
(***************************************************************************)
(* POST /v1/ask of the RAG service, over the collection of RagIndex while   *)
(* index runs go on: rag/api/main.py, pipeline.py, retrieval/ and           *)
(* generation/.  The endpoints are sync functions, so requests run in       *)
(* threads of one process and share the pipeline built for their mode, its  *)
(* embedder (with a running total of what it spent) and, in hybrid mode,    *)
(* its BM25 index, which is built once from the rows stored at that moment. *)
(***************************************************************************)
EXTENDS RagIndex, Functions

CONSTANTS Asks,         \* 1..n, in the order they come
          Questions,    \* what is asked about, among the contents
          ServedModel,
          TopK, Candidates,   \* how many chunks an answer uses, and a source offers
          Replies,            \* the answers: per sentence, the numbers it cites
          MaxBusy             \* bound: how many runs and requests overlap
NoAsk == 0
Refusal == << >>              \* REFUSAL_MESSAGE, which cites nothing

VARIABLES pipelines,  \* mode -> the request that built its pipeline, or NoAsk
          spent,      \* request -> what the embedder it built has spent
          snapshot,   \* request -> the rows in the BM25 index it built
          ask         \* request -> its locals
serveVars == <<pipelines, spent, snapshot, ask>>
vars == <<indexVars, serveVars>>

Modes == {"dense", "hybrid"}
Unasked == [pc |-> "idle", mode |-> "dense", q |-> "", uses |-> NoAsk, before |-> 0,
            hits |-> <<>>, cost |-> 0, outcome |-> "none", reply |-> Refusal,
            supported |-> {}, after |-> {}]

Init == /\ IndexInit
        /\ pipelines = [m \in Modes |-> NoAsk]
        /\ spent = [a \in Asks |-> 0]
        /\ snapshot = [a \in Asks |-> {}]
        /\ ask = [a \in Asks |-> Unasked]

-----------------------------------------------------------------------------
(* Retrieval.  A ranking is a sequence of chunk ids, the best first.        *)
Best(ranking, k) == SubSeq(ranking, 1, IF Len(ranking) < k THEN Len(ranking) ELSE k)

RankBy(ids, Score(_)) == SetToSortSeq(ids, LAMBDA x, y : Score(x) > Score(y))

(* VectorStore.query: the nearest k rows, ties in either order *)
DenseHits(q, k) ==
  {s \in UNION {[1..n -> Ids] : n \in {IF Cardinality(Ids) < k THEN Cardinality(Ids) ELSE k}} :
     /\ IsInjective(s)
     /\ \A i, j \in DOMAIN s : i < j =>
          Similarity(q, s[i].content) >= Similarity(q, s[j].content)
     /\ \A c \in Ids \ ToSet(s) : \A i \in DOMAIN s :
          Similarity(q, c.content) <= Similarity(q, s[i].content)}

(* BM25Index.query: exact tokens count, and rows that match nothing rank too *)
SparseHits(q, rows, k) == Best(RankBy(rows, LAMBDA c : IF c.content = q THEN 1 ELSE 0), k)

(* Mutant: only what both sources found is kept. *)
FuseCommon(dense, sparse) == SelectSeq(sparse, LAMBDA c : c \in ToSet(dense))

(* rrf_fuse: weight / (60 + rank) from each list, scaled to integers *)
Earned(ranking, c, weight) ==
  LET scale == 61 * 62 * 63
  IN  IF c \in ToSet(ranking)
      THEN weight * (scale \div (60 + CHOOSE i \in DOMAIN ranking : ranking[i] = c)) ELSE 0
Fuse(dense, sparse) ==
  RankBy(ToSet(dense) \cup ToSet(sparse),
         LAMBDA c : Earned(dense, c, 7) + Earned(sparse, c, 3))

(* Reranker.rerank: the cross-encoder scores the fused candidates *)
Rerank(q, candidates, k) ==
  Best(RankBy(ToSet(candidates), LAMBDA c : Similarity(q, c.content)), k)

-----------------------------------------------------------------------------
(* Generation.  Confidences are sixths.                                     *)
RetrievalConfidence(q, hits) ==
  IF hits = <<>> THEN 0 ELSE 3 * Similarity(q, Head(hits).content)
RefusalThreshold == 3

Resolved(reply, hits) == UNION ToSet(reply) \cap DOMAIN hits

(* Mutant: coverage counts as unmeasured when no citation was supported. *)
CompositeOfSupported(retrieval, resolved, supported, reply) ==
  LET cited == Cardinality({i \in DOMAIN reply : reply[i] # {}})
      all   == Cardinality(resolved) * Len(reply)
  IN  IF supported = {}
      THEN <<5 * retrieval * Len(reply) + 2 * 6 * cited, 7 * 6 * Len(reply)>>
      ELSE <<5 * retrieval * all + 3 * 6 * Cardinality(supported) * Len(reply)
               + 2 * 6 * cited * Cardinality(resolved), 10 * 6 * all>>

(* verify_citations: the judge supports any of the citations that resolve. *)
Verdicts(reply, hits) == SUBSET Resolved(reply, hits)

(* composite_confidence, with the default weights 0.5, 0.3 and 0.2: a part  *)
(* that was not measured has no weight.  A fraction <<numerator, denominator>>. *)
Composite(retrieval, resolved, supported, reply) ==
  LET cited == Cardinality({i \in DOMAIN reply : reply[i] # {}})
      all   == Cardinality(resolved) * Len(reply)
      \* numerators over 6 * all (or 6 * Len(reply) when nothing was verified)
  IN  IF resolved = {}
      THEN <<5 * retrieval * Len(reply) + 2 * 6 * cited, 7 * 6 * Len(reply)>>
      ELSE <<5 * retrieval * all + 3 * 6 * Cardinality(supported) * Len(reply)
               + 2 * 6 * cited * Cardinality(resolved), 10 * 6 * all>>

Confidence(a, supported) ==
  Composite(RetrievalConfidence(ask[a].q, ask[a].hits), Resolved(ask[a].reply, ask[a].hits),
            supported, ask[a].reply)

-----------------------------------------------------------------------------
Go(a, pc) == [ask[a] EXCEPT !.pc = pc]
Fail(a) == [Unasked EXCEPT !.pc = "done"]

(* POST /v1/ask looks the pipeline of its mode up. *)
ReceiveAsk(a) ==
  /\ ask[a].pc = "idle"
  /\ \A b \in Asks : b < a => ask[b].pc # "idle"
  /\ work >= 1
  /\ work' = work - 1
  /\ \E m \in Modes, q \in Questions :
       ask' = [ask EXCEPT ![a] = [Unasked EXCEPT !.mode = m, !.q = q, !.after = Finished,
                 !.uses = pipelines[m],
                 !.pc = IF pipelines[m] = NoAsk THEN "build" ELSE "answer"]]
  /\ UNCHANGED <<disk, registry, table, run, pipelines, spent, snapshot>>

Servable == registry.model = ServedModel

(* SparseRetriever.from_settings: BM25 is built over every stored chunk. *)
BM25Rows(mode) == IF mode = "hybrid" THEN Ids ELSE {}

(* RAGPipeline.from_settings: hybrid reads every stored chunk into BM25, and *)
(* fails on a collection that is unseeded, empty or of another model.        *)
BuildPipeline(a) ==
  /\ ask[a].pc = "build"
  /\ IF ask[a].mode = "hybrid" /\ (~Servable \/ table = {})
     THEN ask' = [ask EXCEPT ![a] = Fail(a)] /\ UNCHANGED snapshot
     ELSE /\ ask' = [ask EXCEPT ![a] = Go(a, "publish")]
          /\ snapshot' = [snapshot EXCEPT ![a] = BM25Rows(ask[a].mode)]
  /\ UNCHANGED <<indexVars, pipelines, spent>>

(* app.state.pipelines[mode] = ...: another thread may have built one too *)
PublishPipeline(a) ==
  /\ ask[a].pc = "publish"
  /\ pipelines' = [pipelines EXCEPT ![ask[a].mode] = a]
  /\ ask' = [ask EXCEPT ![a] = [Go(a, "answer") EXCEPT !.uses = a]]
  /\ UNCHANGED <<indexVars, spent, snapshot>>

(* getattr(self.retriever, "embedder", None): a HybridRetriever has none *)
EmbedderTotal(a) == IF ask[a].mode = "dense" THEN spent[ask[a].uses] ELSE 0

ReadCostBefore(a) ==
  /\ ask[a].pc = "answer"
  /\ ask' = [ask EXCEPT ![a] = [Go(a, "embed") EXCEPT !.before = EmbedderTotal(a)]]
  /\ UNCHANGED <<indexVars, pipelines, spent, snapshot>>

EmbedQuery(a) ==
  /\ ask[a].pc = "embed"
  /\ spent' = [spent EXCEPT ![ask[a].uses] = @ + 1]
  /\ ask' = [ask EXCEPT ![a] = Go(a, "search")]
  /\ UNCHANGED <<indexVars, pipelines, snapshot>>

(* The rows are read from Postgres; fusing and reranking them is local. *)
Search(a) ==
  /\ ask[a].pc = "search"
  /\ IF ~Servable THEN ask' = [ask EXCEPT ![a] = Fail(a)]
     ELSE IF ask[a].mode = "dense"
     THEN \E dense \in DenseHits(ask[a].q, TopK) :
            ask' = [ask EXCEPT ![a] = [Go(a, "gate") EXCEPT !.hits = dense]]
     ELSE \E dense \in DenseHits(ask[a].q, Candidates) :
            LET sparse == SparseHits(ask[a].q, snapshot[ask[a].uses], Candidates)
                fused  == Best(Fuse(dense, sparse), Candidates)
            IN  ask' = [ask EXCEPT ![a] =
                          [Go(a, "gate") EXCEPT !.hits = Rerank(ask[a].q, fused, TopK)]]
  /\ UNCHANGED <<indexVars, pipelines, spent, snapshot>>

(* The embedding cost is read off the shared total; weak retrieval refuses. *)
Gate(a) ==
  /\ ask[a].pc = "gate"
  /\ LET refuse == RetrievalConfidence(ask[a].q, ask[a].hits) < RefusalThreshold
     IN  ask' = [ask EXCEPT ![a] = [Go(a, IF refuse THEN "trace" ELSE "generate") EXCEPT
                   !.cost = EmbedderTotal(a) - ask[a].before,
                   !.outcome = IF refuse THEN "gate" ELSE "none"]]
  /\ UNCHANGED <<indexVars, pipelines, spent, snapshot>>

(* The model refuses, or answers; each citation that resolves is judged.  The *)
(* calls share nothing with other requests.                                   *)
Generate(a) ==
  /\ ask[a].pc = "generate"
  /\ \/ ask' = [ask EXCEPT ![a] = [Go(a, "trace") EXCEPT !.outcome = "model"]]
     \/ \E reply \in Replies : \E ok \in Verdicts(reply, ask[a].hits) :
          ask' = [ask EXCEPT ![a] = [Go(a, "trace") EXCEPT
                    !.outcome = "answered", !.reply = reply, !.supported = ok]]
     \/ ask' = [ask EXCEPT ![a] = Fail(a)]
  /\ UNCHANGED <<indexVars, pipelines, spent, snapshot>>

(* TraceStore.record and the response: the request is over. *)
RecordTrace(a) ==
  /\ ask[a].pc = "trace"
  /\ ask' = [ask EXCEPT ![a] = [Unasked EXCEPT !.pc = "done"]]
  /\ UNCHANGED <<indexVars, pipelines, spent, snapshot>>

AskStep(a) ==
  \/ ReceiveAsk(a) \/ BuildPipeline(a) \/ PublishPipeline(a) \/ ReadCostBefore(a)
  \/ EmbedQuery(a) \/ Search(a) \/ Gate(a) \/ Generate(a) \/ RecordTrace(a)

Busy == Cardinality(Active) + Cardinality({a \in Asks : ask[a].pc \notin {"idle", "done"}})

Next ==
  /\ (IndexNext /\ UNCHANGED serveVars) \/ (\E a \in Asks : AskStep(a))
  /\ Busy' <= MaxBusy

Spec == Init /\ [][Next]_vars

-----------------------------------------------------------------------------
(* The request has its result, and records and returns it next. *)
Answered(a) == ask[a].pc = "trace"

(* What a finished run loaded is found by every question asked afterwards:   *)
(* the best chunk is near the text asked about and retrieval never refuses,  *)
(* though dedup may have skipped the text itself, a hybrid pipeline may hold *)
(* a BM25 index older than the run, and other runs store chunks meanwhile.   *)
LoadedIsFindable ==
  \A a \in Asks : Answered(a) => \A r \in ask[a].after :
    ask[a].q \in {c.content : c \in ToSet(run[r].chunks)} =>
      /\ ask[a].outcome # "gate"
      /\ Close(ask[a].q, Head(ask[a].hits).content)

(* Confidence is earned: had the judge supported more of the citations, the  *)
(* answer would have been no less confident ("Monotonic in every input",     *)
(* generation/confidence.py:17), and it never exceeds one.                   *)
ConfidenceIsEarned ==
  \A a \in Asks : Answered(a) /\ ask[a].outcome = "answered" =>
    \A more \in SUBSET Resolved(ask[a].reply, ask[a].hits) :
      ask[a].supported \subseteq more =>
        LET c == Confidence(a, ask[a].supported)
            d == Confidence(a, more)
        IN  c[1] * d[2] <= d[1] * c[2] /\ c[1] <= c[2]

(* The embedding part of a request's cost_usd is what its own query cost     *)
(* ("Embedding + generation cost of this request", api/schemas.py:97).       *)
CostIsOfThisRequest == \A a \in Asks : Answered(a) => ask[a].cost = 1
=============================================================================
