------------------------------ MODULE RagIndex ------------------------------
(***************************************************************************)
(* The collection of the RAG service and the index runs that fill it:       *)
(* services/rag/src/rag/indexing/__init__.py, indexing/vector_store.py and  *)
(* ingestion/dedup.py.  A collection is a registry row and a table of       *)
(* chunks in Postgres.  Runs (`seed', `ingest', POST /v1/ingest) are        *)
(* separate processes or threads: each statement of a run that reads or     *)
(* writes the database is one step here, and a run may die between two.     *)
(*                                                                          *)
(* A file is a sequence of contents, a chunk is the triple its id hashes,   *)
(* and Near says whose embeddings are closer than dedup_cosine_threshold.   *)
(***************************************************************************)
EXTENDS Integers, Sequences, FiniteSets, SequencesExt

CONSTANTS Files,
          Near,        \* pairs of distinct contents closer than the threshold
          Drafts,      \* file -> the successive texts of it on disk
          Runs,        \* 1..n, in the order they start
          Settings,    \* the [model, chunking] pairs a run may be started with
          Paths,       \* the sets of files a run may be pointed at
          MaxWork      \* bound on what starts: a run counts two, a request one

None == [model |-> "none", chunking |-> "none"]   \* not seeded yet
ASSUME SettingsAssumption == None \notin Settings

VARIABLES disk,      \* file -> which draft is on disk
          registry,  \* the collection's row in rag_collections, or None
          table,     \* the rows of rag_chunks__<collection>
          run,       \* run -> its locals
          work       \* how much may still start
indexVars == <<disk, registry, table, run, work>>

Close(a, b) == a = b \/ {a, b} \in Near

(* cosine: the same text, a near-duplicate, or neither *)
Similarity(a, b) == IF a = b THEN 2 ELSE IF {a, b} \in Near THEN 1 ELSE 0

Text(f) == Drafts[f][disk[f]]

(* build_chunks_for_file / build_chunks_for_dir: files in sorted order *)
ChunksOf(f) == [n \in DOMAIN Text(f) |-> [source |-> f, ordinal |-> n, content |-> Text(f)[n]]]
LoadChunks(path) == FlattenSeq([i \in 1..Cardinality(path) |-> ChunksOf(SetToSeq(path)[i])])

Ids == {row.id : row \in table}

(* store.query(vector, top_k=1): a nearest row *)
Nearest(content) ==
  {row \in table : \A other \in table :
     Similarity(content, other.id.content) <= Similarity(content, row.id.content)}

Idle == [pc |-> "idle", set |-> None, chunks |-> <<>>, info |-> None, new |-> {},
         hasContent |-> FALSE, kept |-> {}, skipped |-> {},
         embedded |-> {}, after |-> {}, beside |-> {}]

Active == {r \in Runs : run[r].pc \notin {"idle", "done", "failed", "dead"}}
Finished == {r \in Runs : run[r].pc = "done"}

IndexInit ==
  /\ disk = [f \in Files |-> 1]
  /\ registry = None
  /\ table = {}
  /\ run = [r \in Runs |-> Idle]
  /\ work = MaxWork

(* Somebody edits a file of the corpus. *)
EditFile(f) ==
  /\ disk[f] < Len(Drafts[f])
  /\ disk' = [disk EXCEPT ![f] = @ + 1]
  /\ UNCHANGED <<registry, table, run, work>>

(* index_path is called; the files are loaded and chunked.  `after' and    *)
(* `beside' remember which runs had finished and which were under way.      *)
LoadCorpus(r) ==
  /\ run[r].pc = "idle"
  /\ \A q \in Runs : q < r => run[q].pc # "idle"
  /\ work >= 2
  /\ work' = work - 2
  /\ \E set \in Settings, path \in Paths :
       run' = [q \in Runs |->
         IF q = r THEN [Idle EXCEPT !.pc = "info", !.set = set, !.chunks = LoadChunks(path),
                                    !.after = Finished, !.beside = Active]
         ELSE IF q \in Active THEN [run[q] EXCEPT !.beside = @ \cup {r}]
         ELSE run[q]]
  /\ UNCHANGED <<disk, registry, table>>

(* info = store.collection_info().  `new' is what of the chunks is to be     *)
(* stored, by position: all of them when there was no collection.            *)
ReadInfo(r) ==
  /\ run[r].pc = "info"
  /\ run' = [run EXCEPT ![r].info = registry,
                        ![r].pc = IF registry = None THEN "embed" ELSE "match",
                        ![r].new = IF registry = None THEN DOMAIN run[r].chunks ELSE {}]
  /\ UNCHANGED <<disk, registry, table, work>>

(* Mutant: a collection found registered is not compared. *)
RegisterOnly(r, next) ==
  /\ registry' = IF registry = None THEN run[r].set ELSE registry
  /\ run' = [run EXCEPT ![r].pc = next]
  /\ UNCHANGED <<disk, table, work>>

(* ensure_collection is one transaction under an advisory lock: register,   *)
(* or refuse a collection made with another model or chunking.              *)
EnsureCollection(r, next) ==
  /\ registry' = IF registry = None THEN run[r].set ELSE registry
  /\ run' = [run EXCEPT ![r] = IF registry \in {None, run[r].set}
                               THEN [@ EXCEPT !.pc = next] ELSE [Idle EXCEPT !.pc = "failed"]]
  /\ UNCHANGED <<disk, table, work>>

MatchCollection(r)    == run[r].pc = "match" /\ EnsureCollection(r, "ids")
RegisterCollection(r) == run[r].pc = "register" /\ EnsureCollection(r, "count")

(* Mutant: every chunk is taken for new. *)
EmbedAgain(r) ==
  /\ run[r].pc = "ids"
  /\ run' = [run EXCEPT ![r].new = DOMAIN run[r].chunks, ![r].pc = "embed"]
  /\ UNCHANGED <<disk, registry, table, work>>

(* stored_ids = store.existing_ids(...) *)
ReadStoredIds(r) ==
  /\ run[r].pc = "ids"
  /\ run' = [run EXCEPT ![r].new = {n \in DOMAIN run[r].chunks : run[r].chunks[n] \notin Ids},
                        ![r].pc = "embed"]
  /\ UNCHANGED <<disk, registry, table, work>>

(* embedder.embed_texts: nothing to pay for when nothing is new *)
EmbedNew(r) ==
  /\ run[r].pc = "embed"
  /\ run' = [run EXCEPT ![r].embedded = {run[r].chunks[n] : n \in run[r].new},
                        ![r].pc = IF run[r].new # {} /\ run[r].info = None
                                  THEN "register" ELSE "count"]
  /\ UNCHANGED <<disk, registry, table, work>>

(* store_has_content = store.count() > 0 *)
CountStored(r) ==
  /\ run[r].pc = "count"
  /\ run' = [run EXCEPT ![r].hasContent = table # {}, ![r].pc = "dedup"]
  /\ UNCHANGED <<disk, registry, table, work>>

(* One turn of filter_duplicates' loop: the nearest stored chunk first,     *)
(* unless it is the chunk itself, then the chunks this batch accepted.      *)
IsDuplicate(r, chunk, nearest) ==
  \/ run[r].hasContent /\ nearest.id # chunk /\ Close(chunk.content, nearest.id.content)
  \/ \E k \in run[r].kept : Close(chunk.content, k.content)

CheckChunk(r) ==
  /\ run[r].pc = "dedup"
  /\ \E n \in run[r].new : (\A m \in run[r].new : n <= m) /\
       LET chunk == run[r].chunks[n]
       IN  \E nearest \in IF Nearest(chunk.content) = {} THEN {[id |-> chunk]}
                          ELSE Nearest(chunk.content) :
             run' = [run EXCEPT ![r].new = @ \ {n},
                       ![r].kept = IF IsDuplicate(r, chunk, nearest) THEN @ ELSE @ \cup {chunk},
                       ![r].skipped = IF IsDuplicate(r, chunk, nearest)
                                      THEN @ \cup {chunk} ELSE @]
  /\ UNCHANGED <<disk, registry, table, work>>

(* INSERT ... ON CONFLICT (chunk_id) DO UPDATE: the row is overwritten, and  *)
(* `by' goes on naming the run that inserted it.                            *)
Upserted(kept, r) ==
  LET By(c) == IF c \in Ids THEN (CHOOSE row \in table : row.id = c).by ELSE r
  IN  {row \in table : row.id \notin kept}
        \cup {[id |-> c, set |-> run[r].set, by |-> By(c)] : c \in kept}

(* store.add: one transaction upserts what was kept.                        *)
StoreKept(r) ==
  /\ run[r].pc = "dedup"
  /\ run[r].new = {}
  /\ table' = Upserted(run[r].kept, r)
  /\ run' = [run EXCEPT ![r] = [Idle EXCEPT !.pc = "done", !.chunks = run[r].chunks,
                !.skipped = run[r].skipped, !.embedded = run[r].embedded,
                !.after = run[r].after, !.beside = run[r].beside]]
  /\ UNCHANGED <<disk, registry, work>>

(* The process of a run is killed, or one of its calls raises. *)
RunDies(r) ==
  /\ r \in Active
  /\ run' = [run EXCEPT ![r] = [Idle EXCEPT !.pc = "dead"]]
  /\ UNCHANGED <<disk, registry, table, work>>

IndexStep(r) ==
  \/ LoadCorpus(r) \/ ReadInfo(r) \/ MatchCollection(r) \/ RegisterCollection(r)
  \/ ReadStoredIds(r) \/ EmbedNew(r) \/ CountStored(r) \/ CheckChunk(r) \/ StoreKept(r)

IndexNext == (\E r \in Runs : IndexStep(r) \/ RunDies(r)) \/ (\E f \in Files : EditFile(f))

-----------------------------------------------------------------------------
(* Every stored vector was made by the model and the chunking the registry  *)
(* names, whichever runs raced to seed the collection first: vectors of two *)
(* models are never compared (vector_store.py ensure_collection).  And two  *)
(* stored chunks are near-duplicates of each other only when the runs that  *)
(* stored them were under way at the same time (ingestion/dedup.py).        *)
StoreIsCoherent ==
  /\ \A row \in table : row.set = registry
  /\ \A x \in table, y \in table :
       x # y /\ Close(x.id.content, y.id.content) => y.by \in run[x.by].beside

Added(r) == {row.id : row \in {x \in table : x.by = r}}

(* Seeding a corpus that an earlier run has finished loading stores nothing *)
(* and pays only for the near-duplicates that run left out, whatever other  *)
(* runs did meanwhile (index_path's docstring).                             *)
ReseedCostsOnlySkipped ==
  \A r \in Runs : \A q \in run[r].after :
    ToSet(run[r].chunks) \subseteq ToSet(run[q].chunks) =>
      Added(r) = {} /\ run[r].embedded \subseteq run[q].skipped
=============================================================================
