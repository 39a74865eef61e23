-------------------------- MODULE RagServingProofs --------------------------
(***************************************************************************)
(* Theorems about the collection of RagIndex and the answers of RagServing, *)
(* for any files, likeness of texts, settings, number of runs and requests, *)
(* and whatever runs overlap, die or are repeated.                          *)
(***************************************************************************)
EXTENDS RagServing, TLAPS, FiniteSetTheorems

Over == {"idle", "done", "failed", "dead"}
Steps == {"info", "match", "ids", "embed", "register", "count", "dedup"}

RunType(p) ==
  /\ p \in [pc : Over \cup Steps, set : Settings \cup {None}, chunks : {p.chunks},
            info : Settings \cup {None}, new : SUBSET DOMAIN p.chunks, hasContent : BOOLEAN,
            kept : {p.kept}, skipped : {p.skipped}, embedded : {p.embedded},
            after : SUBSET Runs, beside : SUBSET Runs]
  /\ p.pc \in Steps => p.set \in Settings

TypeInv ==
  /\ registry \in Settings \cup {None}
  /\ \A row \in table : row = [id |-> row.id, set |-> row.set, by |-> row.by] /\ row.by \in Runs
  /\ run = [r \in Runs |-> run[r]]
  /\ \A r \in Runs : RunType(run[r])

(* A run that is past the registry has the settings the registry names, or *)
(* nothing to store.                                                       *)
SettingInv(r) ==
  LET p == run[r]
  IN  /\ p.pc \in {"match", "ids"} => p.info # None
      /\ p.pc = "ids" => p.set = registry
      /\ p.pc = "embed" => IF p.info = None THEN p.new = DOMAIN p.chunks ELSE p.set = registry
      /\ p.pc = "register" => p.new = DOMAIN p.chunks
      /\ p.pc \in {"count", "dedup"} => p.set = registry \/ DOMAIN p.chunks = {}
      /\ p.pc = "done" => registry # None \/ DOMAIN p.chunks = {}
      /\ p.pc \notin {"dedup", "done"} => p.kept = {} /\ p.skipped = {}
      /\ p.kept \subseteq {p.chunks[n] : n \in DOMAIN p.chunks}

TableInv ==
  /\ \A row \in table : row.set = registry /\ registry # None
  /\ \A x, y \in table : x.id = y.id => x = y

(* Runs that were under way at the same time know each other.              *)
Met(q, r) == q \in run[r].beside /\ r \in run[q].beside
MetInv ==
  /\ \A q, r \in Active : q # r => Met(q, r)
  /\ \A row \in table : run[row.by].pc = "done"

(* What a run keeps is like nothing it kept before, and like no row but    *)
(* those of runs beside it; so is what it stored.                          *)
KeptInv(r) ==
  run[r].pc = "dedup" =>
    /\ \A c, k \in run[r].kept : Close(c.content, k.content) => c = k
    /\ ~run[r].hasContent => \A row \in table : Met(row.by, r)
    /\ \A c \in run[r].kept, row \in table :
         Close(c.content, row.id.content) => c \in Ids \/ Met(row.by, r)
TwinInv ==
  \A x, y \in table : x # y /\ Close(x.id.content, y.id.content) => Met(y.by, x.by)

(* Once a run knows what is new, a chunk it has not come to is new, stored, *)
(* kept or skipped, and what it skipped is like something stored or kept.   *)
Like(c) == \E i \in Ids : Close(c.content, i.content)
ProgressInv(r) ==
  LET p == run[r]
  IN  /\ p.pc \in {"embed", "register", "count", "dedup"} =>
           \A n \in DOMAIN p.chunks : n \in p.new \/ p.chunks[n] \in Ids \cup p.kept \cup p.skipped
      /\ p.pc = "done" => \A n \in DOMAIN p.chunks : p.chunks[n] \in Ids \cup p.skipped
      /\ \A c \in p.skipped :
           Like(c) \/ (p.pc = "dedup" /\ \E k \in p.kept : Close(c.content, k.content))

(* What a run finds to embed, when a run finished before it began had its   *)
(* chunks, that run skipped; and it keeps only what is stored already.      *)
Seeded(r, q) == ToSet(run[r].chunks) \subseteq ToSet(run[q].chunks)
RepeatInv(r, q) ==
  LET p == run[r]
  IN  /\ p.pc = "embed" => {p.chunks[n] : n \in p.new} \subseteq run[q].skipped
      /\ p.embedded \subseteq run[q].skipped
      /\ p.pc = "dedup" => p.kept \subseteq Ids /\ (p.hasContent \/ DOMAIN p.chunks = {})
      /\ Added(r) = {}
ReseedInv(r) ==
  \A q \in run[r].after : run[q].pc = "done" /\ (Seeded(r, q) => RepeatInv(r, q))

-----------------------------------------------------------------------------
(* The operators.                                                          *)

LEMMA SimilarityIs ==
  \A a, b : /\ Similarity(a, b) \in 0..2 /\ (Similarity(a, b) >= 1 <=> Close(a, b))
            /\ Close(a, b) <=> Close(b, a)
            /\ Close(a, a)
<1> SUFFICES ASSUME NEW a, NEW b
             PROVE  /\ Similarity(a, b) \in 0..2 /\ (Similarity(a, b) >= 1 <=> Close(a, b))
                    /\ Close(a, b) <=> Close(b, a)
                    /\ Close(a, a)
  OBVIOUS
<1>1. {a, b} = {b, a}
  OBVIOUS
<1> QED  BY <1>1 DEF Similarity, Close

LEMMA NearestIs ==
  ASSUME NEW content, NEW row \in table, Close(content, row.id.content), NEW other,
         NEW nearest \in IF Nearest(content) = {} THEN {other} ELSE Nearest(content)
  PROVE  nearest \in table /\ Close(content, nearest.id.content)
<1>1. Similarity(content, row.id.content) >= 1
  BY SimilarityIs
<1>2. Nearest(content) # {}
  <2>1. CASE \E x \in table : Similarity(content, x.id.content) = 2
    <3>1. PICK x \in table : Similarity(content, x.id.content) = 2
      BY <2>1
    <3>2. \A y \in table : Similarity(content, y.id.content) <= Similarity(content, x.id.content)
      BY <3>1, SimilarityIs
    <3> QED  BY <3>2 DEF Nearest
  <2>2. CASE ~\E x \in table : Similarity(content, x.id.content) = 2
    <3>1. \A y \in table : Similarity(content, y.id.content) \in 0..2 /\ Similarity(content, y.id.content) # 2
      BY <2>2, SimilarityIs
    <3>2. \A y \in table : Similarity(content, y.id.content) <= Similarity(content, row.id.content)
      BY <1>1, <3>1
    <3> QED  BY <3>2 DEF Nearest
  <2> QED  BY <2>1, <2>2
<1>3. nearest \in table /\ Similarity(content, row.id.content) <= Similarity(content, nearest.id.content)
  BY <1>2 DEF Nearest
<1>4. Similarity(content, nearest.id.content) \in 0..2 /\ Similarity(content, row.id.content) \in 0..2
  BY SimilarityIs
<1>5. Similarity(content, nearest.id.content) >= 1
  BY <1>1, <1>3, <1>4
<1> QED  BY <1>3, <1>5, SimilarityIs

(* What an upsert makes of the table.                                      *)
LEMMA UpsertDoes ==
  ASSUME TypeInv, TableInv, NEW r \in Runs, NEW kept, table' = Upserted(kept, r)
  PROVE  /\ Ids' = Ids \cup kept
         /\ \A x \in table' :
              /\ x = [id |-> x.id, set |-> x.set, by |-> x.by]
              /\ x.id \in kept => x.set = run[r].set
              /\ x.id \notin kept => x \in table
              /\ IF x.id \in Ids THEN \E y \in table : y.id = x.id /\ y.by = x.by
                 ELSE x.id \in kept /\ x.by = r
         /\ \A x, y \in table' : x.id = y.id => x = y
<1> DEFINE By(c) == IF c \in Ids THEN (CHOOSE row \in table : row.id = c).by ELSE r
           New(c) == [id |-> c, set |-> run[r].set, by |-> By(c)]
<1>1. \A c \in Ids : \E row \in table : row.id = c /\ row.by = By(c)
  BY DEF Ids
<1>2. \A c : c \notin Ids => By(c) = r
  OBVIOUS
<1>3. table' = {row \in table : row.id \notin kept} \cup {New(c) : c \in kept}
  BY DEF Upserted
<1>4. \A c : New(c) = [id |-> c, set |-> run[r].set, by |-> By(c)]
             /\ New(c).id = c /\ New(c).set = run[r].set /\ New(c).by = By(c)
  OBVIOUS
<1> HIDE DEF By, New
<1>5. Ids' = Ids \cup kept
  <2>1. \A x \in table' : x.id \in Ids \cup kept
    BY <1>3, <1>4 DEF Ids
  <2>2. \A c \in kept : \E x \in table' : x.id = c
    BY <1>3, <1>4
  <2>3. \A y \in table : \E x \in table' : x.id = y.id
    BY <1>3, <2>2
  <2> QED  BY <2>1, <2>2, <2>3 DEF Ids
<1>6. ASSUME NEW x \in table'
      PROVE  /\ x = [id |-> x.id, set |-> x.set, by |-> x.by]
             /\ x.id \in kept => x.set = run[r].set
             /\ x.id \notin kept => x \in table
             /\ IF x.id \in Ids THEN \E y \in table : y.id = x.id /\ y.by = x.by
                ELSE x.id \in kept /\ x.by = r
  <2>1. CASE x \in table /\ x.id \notin kept
    BY <2>1 DEF TypeInv, Ids
  <2>2. CASE \E c \in kept : x = New(c)
    <3>1. PICK c \in kept : x = New(c)
      BY <2>2
    <3>2. x.id = c /\ x.set = run[r].set /\ x.by = By(c) /\ x = [id |-> x.id, set |-> x.set, by |-> x.by]
      BY <3>1, <1>4
    <3> QED  BY <3>2, <1>1, <1>2
  <2> QED  BY <1>3, <2>1, <2>2
<1>7. ASSUME NEW x \in table', NEW y \in table', x.id = y.id PROVE x = y
  <2>1. CASE x.id \in kept
    <3>1. x = New(x.id) /\ y = New(y.id)
      BY <1>3, <1>4, <1>7, <2>1
    <3> QED  BY <1>7, <3>1
  <2>2. CASE x.id \notin kept
    BY <1>6, <1>7, <2>2 DEF TableInv
  <2> QED  BY <2>1, <2>2
<1> QED  BY <1>5, <1>6, <1>7

-----------------------------------------------------------------------------
(* What a step does to the runs.                                           *)

Stays(q) ==
  LET p == run[q]
      n == run'[q]
  IN  /\ n.pc = p.pc /\ n.set = p.set /\ n.chunks = p.chunks /\ n.info = p.info /\ n.new = p.new
      /\ n.hasContent = p.hasContent /\ n.kept = p.kept /\ n.skipped = p.skipped
      /\ n.embedded = p.embedded /\ n.after = p.after /\ p.beside \subseteq n.beside

Moves(r) ==
  /\ run' = [q \in Runs |-> run'[q]] /\ \A q \in Runs : RunType(run'[q])
  /\ \A q \in Runs \ {r} : Stays(q)

(* The run goes on with the files it loaded.                               *)
GoesOn(r) ==
  LET p == run[r]
      n == run'[r]
  IN  /\ Moves(r) /\ n.set = p.set /\ n.chunks = p.chunks /\ n.after = p.after /\ n.beside = p.beside

(* What is left of a run that failed or died.                              *)
Ends(r) ==
  LET n == run'[r]
  IN  /\ Moves(r) /\ r \in Active /\ n.pc \in {"failed", "dead"}
      /\ n.kept = {} /\ n.skipped = {} /\ n.embedded = {} /\ n.after = {} /\ DOMAIN n.chunks = {}

LEMMA OneRun ==
  ASSUME TypeInv, NEW r \in Runs, NEW n, run' = [run EXCEPT ![r] = n], RunType(n)
  PROVE  Moves(r) /\ run'[r] = n /\ \A q \in Runs \ {r} : run'[q] = run[q]
  BY DEF TypeInv, Moves, Stays

LEMMA EndsIs ==
  ASSUME TypeInv, NEW r \in Active, NEW pc \in {"failed", "dead"},
         run' = [run EXCEPT ![r] = [Idle EXCEPT !.pc = pc]]
  PROVE  Ends(r)
<1> DEFINE n == [Idle EXCEPT !.pc = pc]
<1>0. DOMAIN <<>> = {}
  OBVIOUS
<1>1. /\ RunType(n) /\ n.pc = pc /\ n.kept = {} /\ n.skipped = {} /\ n.embedded = {} /\ n.after = {}
      /\ DOMAIN n.chunks = {}
  BY <1>0 DEF RunType, Idle, Over, Steps
<1>2. r \in Runs
  BY DEF Active
<1> HIDE DEF n
<1>3. Moves(r) /\ run'[r] = n
  BY <1>1, <1>2, OneRun DEF n
<1> QED  BY <1>1, <1>3 DEF Ends, TypeInv, Moves

LEMMA LoadDoes ==
  ASSUME TypeInv, NEW r \in Runs, LoadCorpus(r)
  PROVE  /\ Moves(r) /\ run[r].pc = "idle" /\ run'[r].pc = "info" /\ UNCHANGED <<registry, table>>
         /\ run'[r].new = {} /\ run'[r].kept = {} /\ run'[r].skipped = {} /\ run'[r].embedded = {}
         /\ run'[r].after = Finished /\ run'[r].beside = Active
         /\ \A q \in Active : r \in run'[q].beside
<1>1. PICK set \in Settings, path \in Paths :
       run' = [q \in Runs |->
         IF q = r THEN [Idle EXCEPT !.pc = "info", !.set = set, !.chunks = LoadChunks(path),
                                    !.after = Finished, !.beside = Active]
         ELSE IF q \in Active THEN [run[q] EXCEPT !.beside = @ \cup {r}]
         ELSE run[q]]
  BY DEF LoadCorpus
<1> DEFINE chunks == LoadChunks(path)
           n == [Idle EXCEPT !.pc = "info", !.set = set, !.chunks = chunks,
                             !.after = Finished, !.beside = Active]
           Told(q) == [run[q] EXCEPT !.beside = @ \cup {r}]
<1>2. run[r].pc = "idle" /\ UNCHANGED <<registry, table>>
  BY DEF LoadCorpus
<1>3. Finished \subseteq Runs /\ Active \subseteq Runs /\ r \notin Active
  BY <1>2 DEF Finished, Active
<1> HIDE DEF chunks
<1>4. /\ RunType(n) /\ n.pc = "info" /\ n.new = {} /\ n.kept = {} /\ n.skipped = {} /\ n.embedded = {}
      /\ n.after = Finished /\ n.beside = Active
  BY <1>3 DEF RunType, Idle, Over, Steps
<1>5. ASSUME NEW q \in Runs
      PROVE  /\ RunType(Told(q)) /\ Told(q).beside = run[q].beside \cup {r}
             /\ LET p == run[q]
                    t == Told(q)
                IN  /\ t.pc = p.pc /\ t.set = p.set /\ t.chunks = p.chunks /\ t.info = p.info /\ t.new = p.new
                    /\ t.hasContent = p.hasContent /\ t.kept = p.kept /\ t.skipped = p.skipped
                    /\ t.embedded = p.embedded /\ t.after = p.after
  <2>1. RunType(run[q])
    BY DEF TypeInv
  <2> QED  BY <2>1 DEF RunType
<1>6. run' = [q \in Runs |-> IF q = r THEN n ELSE IF q \in Active THEN Told(q) ELSE run[q]]
  BY <1>1 DEF chunks
<1> HIDE DEF n, Told
<1>7. run'[r] = n
  BY <1>6
<1>8. \A q \in Runs \ {r} : run'[q] = IF q \in Active THEN Told(q) ELSE run[q]
  BY <1>6
<1>9. \A q \in Runs : RunType(run'[q])
  BY <1>4, <1>5, <1>7, <1>8 DEF TypeInv
<1>10. \A q \in Runs \ {r} : Stays(q)
  BY <1>5, <1>8 DEF Stays
<1>11. run' = [q \in Runs |-> run'[q]]
  BY <1>6
<1> QED  BY <1>2, <1>3, <1>4, <1>5, <1>7, <1>8, <1>9, <1>10, <1>11 DEF Moves

LEMMA ReadInfoDoes ==
  ASSUME TypeInv, NEW r \in Runs, ReadInfo(r)
  PROVE  /\ GoesOn(r) /\ run[r].pc = "info" /\ UNCHANGED <<registry, table>>
         /\ run'[r].kept = run[r].kept /\ run'[r].skipped = run[r].skipped /\ run'[r].embedded = run[r].embedded
         /\ IF registry = None
            THEN run'[r].pc = "embed" /\ run'[r].info = None /\ run'[r].new = DOMAIN run[r].chunks
            ELSE run'[r].pc = "match" /\ run'[r].info # None
<1> DEFINE pc == IF registry = None THEN "embed" ELSE "match"
           new == IF registry = None THEN DOMAIN run[r].chunks ELSE {}
           n == [run[r] EXCEPT !.info = registry, !.pc = pc, !.new = new]
<1>1. RunType(run[r]) /\ run[r].pc = "info" /\ UNCHANGED <<registry, table>> /\ registry \in Settings \cup {None}
  BY DEF TypeInv, ReadInfo
<1>2. run' = [run EXCEPT ![r] = n]
  BY DEF ReadInfo, TypeInv
<1>3. pc \in Steps /\ new \subseteq DOMAIN run[r].chunks
  BY DEF Steps
<1>31. IF registry = None THEN pc = "embed" /\ new = DOMAIN run[r].chunks ELSE pc = "match"
  OBVIOUS
<1> HIDE DEF pc, new
<1>4. /\ RunType(n) /\ n.pc = pc /\ n.info = registry /\ n.new = new
      /\ n.set = run[r].set /\ n.chunks = run[r].chunks /\ n.after = run[r].after /\ n.beside = run[r].beside
      /\ n.kept = run[r].kept /\ n.skipped = run[r].skipped /\ n.embedded = run[r].embedded
  BY <1>1, <1>3 DEF RunType, Steps
<1> HIDE DEF n
<1>5. Moves(r) /\ run'[r] = n
  BY <1>2, <1>4, OneRun
<1> QED  BY <1>1, <1>31, <1>4, <1>5 DEF GoesOn

LEMMA EnsureDoes ==
  ASSUME TypeInv, NEW r \in Runs, NEW next \in Steps, run[r].pc \in {"match", "register"},
         EnsureCollection(r, next)
  PROVE  /\ UNCHANGED table
         /\ \/ Ends(r) /\ registry # None /\ registry' = registry
            \/ /\ GoesOn(r) /\ registry \in {None, run[r].set} /\ registry' = run[r].set
               /\ run'[r].pc = next /\ run'[r].info = run[r].info /\ run'[r].new = run[r].new
               /\ run'[r].kept = run[r].kept /\ run'[r].skipped = run[r].skipped
               /\ run'[r].embedded = run[r].embedded
<1> DEFINE n == [run[r] EXCEPT !.pc = next]
<1>1. /\ RunType(run[r]) /\ r \in Active /\ UNCHANGED table
      /\ registry' = IF registry = None THEN run[r].set ELSE registry
      /\ run' = [run EXCEPT ![r] = IF registry \in {None, run[r].set} THEN n ELSE [Idle EXCEPT !.pc = "failed"]]
  BY DEF TypeInv, EnsureCollection, Active
<1>2. CASE registry \in {None, run[r].set}
  <2>1. /\ RunType(n) /\ n.pc = next /\ n.info = run[r].info /\ n.new = run[r].new
        /\ n.set = run[r].set /\ n.chunks = run[r].chunks /\ n.after = run[r].after /\ n.beside = run[r].beside
        /\ n.kept = run[r].kept /\ n.skipped = run[r].skipped /\ n.embedded = run[r].embedded
    BY <1>1 DEF RunType, Steps
  <2> HIDE DEF n
  <2>2. Moves(r) /\ run'[r] = n
    BY <1>1, <1>2, <2>1, OneRun
  <2> QED  BY <1>1, <1>2, <2>1, <2>2 DEF GoesOn
<1>3. CASE registry \notin {None, run[r].set}
  <2>1. run' = [run EXCEPT ![r] = [Idle EXCEPT !.pc = "failed"]]
    BY <1>1, <1>3
  <2> QED  BY <1>1, <1>3, <2>1, EndsIs
<1> QED  BY <1>2, <1>3

LEMMA ReadIdsDoes ==
  ASSUME TypeInv, NEW r \in Runs, ReadStoredIds(r)
  PROVE  /\ GoesOn(r) /\ run[r].pc = "ids" /\ run'[r].pc = "embed" /\ UNCHANGED <<registry, table>>
         /\ run'[r].info = run[r].info /\ run'[r].kept = run[r].kept
         /\ run'[r].skipped = run[r].skipped /\ run'[r].embedded = run[r].embedded
         /\ run'[r].new = {n \in DOMAIN run[r].chunks : run[r].chunks[n] \notin Ids}
<1> DEFINE new == {n \in DOMAIN run[r].chunks : run[r].chunks[n] \notin Ids}
           n == [run[r] EXCEPT !.new = new, !.pc = "embed"]
<1>1. /\ RunType(run[r]) /\ run[r].pc = "ids" /\ UNCHANGED <<registry, table>>
      /\ run' = [run EXCEPT ![r] = n]
  BY DEF TypeInv, ReadStoredIds
<1>2. new \subseteq DOMAIN run[r].chunks
  OBVIOUS
<1> HIDE DEF new
<1>3. /\ RunType(n) /\ n.pc = "embed" /\ n.new = new /\ n.info = run[r].info
      /\ n.set = run[r].set /\ n.chunks = run[r].chunks /\ n.after = run[r].after /\ n.beside = run[r].beside
      /\ n.kept = run[r].kept /\ n.skipped = run[r].skipped /\ n.embedded = run[r].embedded
  BY <1>1, <1>2 DEF RunType, Steps
<1> HIDE DEF n
<1>4. Moves(r) /\ run'[r] = n
  BY <1>1, <1>3, OneRun
<1> QED  BY <1>1, <1>3, <1>4 DEF GoesOn, new

LEMMA EmbedDoes ==
  ASSUME TypeInv, NEW r \in Runs, EmbedNew(r)
  PROVE  /\ GoesOn(r) /\ run[r].pc = "embed" /\ UNCHANGED <<registry, table>>
         /\ run'[r].info = run[r].info /\ run'[r].new = run[r].new /\ run'[r].kept = run[r].kept
         /\ run'[r].skipped = run[r].skipped
         /\ run'[r].embedded = {run[r].chunks[n] : n \in run[r].new}
         /\ IF run[r].new # {} /\ run[r].info = None THEN run'[r].pc = "register" ELSE run'[r].pc = "count"
<1> DEFINE pc == IF run[r].new # {} /\ run[r].info = None THEN "register" ELSE "count"
           embedded == {run[r].chunks[n] : n \in run[r].new}
           n == [run[r] EXCEPT !.embedded = embedded, !.pc = pc]
<1>1. /\ RunType(run[r]) /\ run[r].pc = "embed" /\ UNCHANGED <<registry, table>>
      /\ run' = [run EXCEPT ![r] = n]
  BY DEF TypeInv, EmbedNew
<1>2. /\ pc \in Steps
      /\ IF run[r].new # {} /\ run[r].info = None THEN pc = "register" ELSE pc = "count"
  BY DEF Steps
<1> HIDE DEF pc, embedded
<1>3. /\ RunType(n) /\ n.pc = pc /\ n.new = run[r].new /\ n.info = run[r].info
      /\ n.set = run[r].set /\ n.chunks = run[r].chunks /\ n.after = run[r].after /\ n.beside = run[r].beside
      /\ n.kept = run[r].kept /\ n.skipped = run[r].skipped /\ n.embedded = embedded
  BY <1>1, <1>2 DEF RunType, Steps
<1> HIDE DEF n
<1>4. Moves(r) /\ run'[r] = n
  BY <1>1, <1>3, OneRun
<1> QED  BY <1>1, <1>2, <1>3, <1>4 DEF GoesOn, embedded

LEMMA CountDoes ==
  ASSUME TypeInv, NEW r \in Runs, CountStored(r)
  PROVE  /\ GoesOn(r) /\ run[r].pc = "count" /\ run'[r].pc = "dedup" /\ UNCHANGED <<registry, table>>
         /\ run'[r].new = run[r].new /\ run'[r].kept = run[r].kept
         /\ run'[r].skipped = run[r].skipped /\ run'[r].embedded = run[r].embedded
         /\ ~run'[r].hasContent => table = {}
<1> DEFINE has == table # {}
           n == [run[r] EXCEPT !.hasContent = has, !.pc = "dedup"]
<1>1. /\ RunType(run[r]) /\ run[r].pc = "count" /\ UNCHANGED <<registry, table>>
      /\ run' = [run EXCEPT ![r] = n]
  BY DEF TypeInv, CountStored
<1>2. has \in BOOLEAN /\ (~has => table = {})
  OBVIOUS
<1> HIDE DEF has
<1>3. /\ RunType(n) /\ n.pc = "dedup" /\ n.new = run[r].new /\ n.hasContent = has
      /\ n.set = run[r].set /\ n.chunks = run[r].chunks /\ n.after = run[r].after /\ n.beside = run[r].beside
      /\ n.kept = run[r].kept /\ n.skipped = run[r].skipped /\ n.embedded = run[r].embedded
  BY <1>1, <1>2 DEF RunType, Steps
<1> HIDE DEF n
<1>4. Moves(r) /\ run'[r] = n
  BY <1>1, <1>3, OneRun
<1> QED  BY <1>1, <1>2, <1>3, <1>4 DEF GoesOn

LEMMA CheckDoes ==
  ASSUME TypeInv, NEW r \in Runs, CheckChunk(r)
  PROVE  /\ GoesOn(r) /\ run[r].pc = "dedup" /\ run'[r].pc = "dedup" /\ UNCHANGED <<registry, table>>
         /\ run'[r].hasContent = run[r].hasContent /\ run'[r].embedded = run[r].embedded
         /\ \E n \in run[r].new : LET chunk == run[r].chunks[n] IN
              /\ n \in DOMAIN run[r].chunks /\ run'[r].new = run[r].new \ {n}
              /\ \/ /\ run'[r].kept = run[r].kept /\ run'[r].skipped = run[r].skipped \cup {chunk}
                    /\ \/ \E row \in table : Close(chunk.content, row.id.content)
                       \/ \E k \in run[r].kept : Close(chunk.content, k.content)
                 \/ /\ run'[r].kept = run[r].kept \cup {chunk} /\ run'[r].skipped = run[r].skipped
                    /\ \A k \in run[r].kept : ~Close(chunk.content, k.content)
                    /\ run[r].hasContent => \A row \in table :
                         Close(chunk.content, row.id.content) => chunk \in Ids
<1>1. /\ RunType(run[r]) /\ run[r].pc = "dedup" /\ UNCHANGED <<registry, table>>
  BY DEF TypeInv, CheckChunk
<1>2. PICK n \in run[r].new : LET chunk == run[r].chunks[n] IN
        \E nearest \in IF Nearest(chunk.content) = {} THEN {[id |-> chunk]} ELSE Nearest(chunk.content) :
          run' = [run EXCEPT ![r].new = @ \ {n},
                    ![r].kept = IF IsDuplicate(r, chunk, nearest) THEN @ ELSE @ \cup {chunk},
                    ![r].skipped = IF IsDuplicate(r, chunk, nearest) THEN @ \cup {chunk} ELSE @]
  BY DEF CheckChunk
<1> DEFINE chunk == run[r].chunks[n]
<1>3. PICK nearest \in IF Nearest(chunk.content) = {} THEN {[id |-> chunk]} ELSE Nearest(chunk.content) :
          run' = [run EXCEPT ![r].new = @ \ {n},
                    ![r].kept = IF IsDuplicate(r, chunk, nearest) THEN @ ELSE @ \cup {chunk},
                    ![r].skipped = IF IsDuplicate(r, chunk, nearest) THEN @ \cup {chunk} ELSE @]
  BY <1>2
<1> DEFINE kept == IF IsDuplicate(r, chunk, nearest) THEN run[r].kept ELSE run[r].kept \cup {chunk}
           skipped == IF IsDuplicate(r, chunk, nearest) THEN run[r].skipped \cup {chunk} ELSE run[r].skipped
           next == [run[r] EXCEPT !.new = run[r].new \ {n}, !.kept = kept, !.skipped = skipped]
<1>4. run' = [run EXCEPT ![r] = next]
  BY <1>3 DEF TypeInv
<1>5. \/ /\ kept = run[r].kept /\ skipped = run[r].skipped \cup {chunk}
         /\ \/ \E row \in table : Close(chunk.content, row.id.content)
            \/ \E k \in run[r].kept : Close(chunk.content, k.content)
      \/ /\ kept = run[r].kept \cup {chunk} /\ skipped = run[r].skipped
         /\ \A k \in run[r].kept : ~Close(chunk.content, k.content)
         /\ run[r].hasContent => \A row \in table : Close(chunk.content, row.id.content) => chunk \in Ids
  <2> HIDE DEF chunk
  <2>1. CASE IsDuplicate(r, chunk, nearest)
    <3>1. nearest.id # chunk => nearest \in table
      BY DEF Nearest
    <3> QED  BY <2>1, <3>1 DEF IsDuplicate
  <2>2. CASE ~IsDuplicate(r, chunk, nearest)
    <3>1. ASSUME NEW row \in table, Close(chunk.content, row.id.content), run[r].hasContent
          PROVE  chunk \in Ids
      <4>1. nearest \in table /\ Close(chunk.content, nearest.id.content)
        BY <3>1, NearestIs
      <4>2. nearest.id = chunk
        BY <2>2, <3>1, <4>1 DEF IsDuplicate
      <4> QED  BY <4>1, <4>2 DEF Ids
    <3>2. \A k \in run[r].kept : ~Close(chunk.content, k.content)
      BY <2>2 DEF IsDuplicate
    <3> QED  BY <2>2, <3>1, <3>2
  <2> QED  BY <2>1, <2>2
<1> HIDE DEF kept, skipped
<1>6. /\ RunType(next) /\ next.pc = "dedup" /\ next.new = run[r].new \ {n}
      /\ next.hasContent = run[r].hasContent /\ next.embedded = run[r].embedded
      /\ next.set = run[r].set /\ next.chunks = run[r].chunks /\ next.after = run[r].after
      /\ next.beside = run[r].beside /\ next.kept = kept /\ next.skipped = skipped
  BY <1>1 DEF RunType, Steps
<1>7. n \in DOMAIN run[r].chunks
  BY <1>1 DEF RunType
<1> HIDE DEF next
<1>8. Moves(r) /\ run'[r] = next
  BY <1>4, <1>6, OneRun
<1>9. GoesOn(r)
  BY <1>6, <1>8 DEF GoesOn
<1> QED  BY <1>1, <1>5, <1>6, <1>7, <1>8, <1>9

LEMMA StoreDoes ==
  ASSUME TypeInv, NEW r \in Runs, StoreKept(r)
  PROVE  /\ Moves(r) /\ run[r].pc = "dedup" /\ run[r].new = {} /\ run'[r].pc = "done"
         /\ run'[r].chunks = run[r].chunks /\ run'[r].skipped = run[r].skipped /\ run'[r].kept = {}
         /\ run'[r].embedded = run[r].embedded /\ run'[r].after = run[r].after
         /\ run'[r].beside = run[r].beside
         /\ table' = Upserted(run[r].kept, r) /\ UNCHANGED registry
<1> DEFINE n == [Idle EXCEPT !.pc = "done", !.chunks = run[r].chunks,
                !.skipped = run[r].skipped, !.embedded = run[r].embedded,
                !.after = run[r].after, !.beside = run[r].beside]
<1>1. /\ RunType(run[r]) /\ run[r].pc = "dedup" /\ run[r].new = {} /\ UNCHANGED registry
      /\ table' = Upserted(run[r].kept, r) /\ run' = [run EXCEPT ![r] = n]
  BY DEF TypeInv, StoreKept
<1>2. run[r].after \subseteq Runs /\ run[r].beside \subseteq Runs
  BY <1>1 DEF RunType
<1>3. /\ RunType(n) /\ n.pc = "done" /\ n.chunks = run[r].chunks /\ n.after = run[r].after
      /\ n.beside = run[r].beside /\ n.kept = {} /\ n.skipped = run[r].skipped
      /\ n.embedded = run[r].embedded
  BY <1>2 DEF RunType, Idle, Over, Steps
<1> HIDE DEF n
<1>4. Moves(r) /\ run'[r] = n
  BY <1>1, <1>3, OneRun
<1> QED  BY <1>1, <1>3, <1>4

LEMMA DiesDoes ==
  ASSUME TypeInv, NEW r \in Runs, RunDies(r)
  PROVE  Ends(r) /\ UNCHANGED <<registry, table>>
<1>1. r \in Active /\ run' = [run EXCEPT ![r] = [Idle EXCEPT !.pc = "dead"]] /\ UNCHANGED <<registry, table>>
  BY DEF RunDies
<1> QED  BY <1>1, EndsIs

(* The requests and the editing of files leave the collection alone.       *)
LEMMA StepIs ==
  [Next]_vars =>
    \/ \E r \in Runs : IndexStep(r) \/ RunDies(r)
    \/ UNCHANGED <<registry, table, run>>
<1> SUFFICES ASSUME [Next]_vars PROVE (\E r \in Runs : IndexStep(r) \/ RunDies(r)) \/ UNCHANGED <<registry, table, run>>
  OBVIOUS
<1>1. ASSUME NEW f \in Files, EditFile(f) PROVE UNCHANGED <<registry, table, run>>
  BY <1>1 DEF EditFile
<1>2. ASSUME NEW a \in Asks, AskStep(a) PROVE UNCHANGED <<registry, table, run>>
  BY <1>2 DEF AskStep, ReceiveAsk, BuildPipeline, PublishPipeline, ReadCostBefore, EmbedQuery, Search, Gate,
       Generate, RecordTrace, indexVars
<1>3. CASE UNCHANGED vars
  BY <1>3 DEF vars, indexVars
<1> QED  BY <1>1, <1>2, <1>3 DEF Next, IndexNext

-----------------------------------------------------------------------------
(* One registry, one table.                                                *)

CollectionInv == TypeInv /\ TableInv /\ \A r \in Runs : SettingInv(r)

LEMMA SettingOn ==
  ASSUME TypeInv, NEW q \in Runs, SettingInv(q), Stays(q),
         registry' = registry \/ (registry = None /\ registry' \in Settings)
  PROVE  SettingInv(q)'
<1>1. RunType(run[q])
  BY DEF TypeInv
<1>2. run[q].pc \in Steps => run[q].set \in Settings
  BY <1>1 DEF RunType
<1>3. None \notin Settings
  BY SettingsAssumption
<1>4. run[q].pc \in {"ids", "embed", "count", "dedup"} => run[q].pc \in Steps
  BY DEF Steps
<1> QED  BY <1>2, <1>3, <1>4 DEF SettingInv, Stays

LEMMA CollectionStep == CollectionInv /\ [Next]_vars => CollectionInv'
<1> SUFFICES ASSUME CollectionInv, [Next]_vars PROVE CollectionInv'
  OBVIOUS
<1>0. TypeInv /\ TableInv /\ (\A r \in Runs : SettingInv(r)) /\ None \notin Settings
  BY SettingsAssumption DEF CollectionInv
<1>1. ASSUME NEW r \in Runs, Moves(r), UNCHANGED <<registry, table>>, SettingInv(r)' PROVE CollectionInv'
  <2>1. TypeInv' /\ TableInv'
    BY <1>0, <1>1 DEF TypeInv, TableInv, Moves
  <2>2. \A q \in Runs : SettingInv(q)'
    BY <1>0, <1>1, SettingOn DEF Moves
  <2> QED  BY <2>1, <2>2 DEF CollectionInv
<1>2. ASSUME NEW r \in Runs PROVE RunType(run[r]) /\ SettingInv(r) /\ (run[r].pc \in Steps => run[r].set \in Settings)
  BY <1>0 DEF TypeInv, RunType
<1>3. ASSUME NEW r \in Runs, Ends(r), UNCHANGED <<registry, table>> PROVE CollectionInv'
  <2>1. SettingInv(r)'
    BY <1>3 DEF Ends, SettingInv
  <2> QED  BY <1>1, <1>3, <2>1 DEF Ends
<1>4. ASSUME NEW r \in Runs, LoadCorpus(r) PROVE CollectionInv'
  <2>1. SettingInv(r)'
    BY <1>0, <1>4, LoadDoes DEF SettingInv
  <2> QED  BY <1>0, <1>1, <1>4, <2>1, LoadDoes
<1>5. ASSUME NEW r \in Runs, ReadInfo(r) PROVE CollectionInv'
  <2>1. SettingInv(r)'
    BY <1>0, <1>2, <1>5, ReadInfoDoes DEF SettingInv, GoesOn
  <2> QED  BY <1>0, <1>1, <1>5, <2>1, ReadInfoDoes DEF GoesOn
<1>6. ASSUME NEW r \in Runs, NEW next \in {"ids", "count"}, run[r].pc \in {"match", "register"},
             next = "ids" => run[r].pc = "match", EnsureCollection(r, next)
      PROVE  CollectionInv'
  <2>1. next \in Steps /\ run[r].set \in Settings
    BY <1>2, <1>6 DEF Steps
  <2>2. CASE Ends(r) /\ registry' = registry
    BY <1>0, <1>3, <1>6, <2>1, <2>2, EnsureDoes
  <2>3. CASE ~(Ends(r) /\ registry' = registry)
    <3>1. /\ UNCHANGED table /\ GoesOn(r) /\ registry \in {None, run[r].set} /\ registry' = run[r].set
          /\ run'[r].pc = next /\ run'[r].info = run[r].info /\ run'[r].new = run[r].new
          /\ run'[r].kept = run[r].kept /\ run'[r].skipped = run[r].skipped
      BY <1>0, <1>6, <2>1, <2>3, EnsureDoes
    <3>2. registry' = registry \/ (registry = None /\ registry' \in Settings)
      BY <2>1, <3>1
    <3>3. TypeInv'
      BY <1>0, <2>1, <3>1 DEF TypeInv, Moves, GoesOn
    <3>4. TableInv'
      BY <1>0, <3>1, <3>2 DEF TableInv
    <3>5. SettingInv(r)'
      BY <1>2, <1>6, <3>1 DEF SettingInv, GoesOn
    <3>6. \A q \in Runs \ {r} : SettingInv(q)'
      BY <1>0, <1>2, <3>1, <3>2, SettingOn DEF Moves, GoesOn
    <3> QED  BY <3>3, <3>4, <3>5, <3>6 DEF CollectionInv
  <2> QED  BY <2>2, <2>3
<1>7. ASSUME NEW r \in Runs, ReadStoredIds(r) PROVE CollectionInv'
  <2>1. SettingInv(r)'
    BY <1>0, <1>2, <1>7, ReadIdsDoes DEF SettingInv, GoesOn
  <2> QED  BY <1>0, <1>1, <1>7, <2>1, ReadIdsDoes DEF GoesOn
<1>8. ASSUME NEW r \in Runs, EmbedNew(r) PROVE CollectionInv'
  <2>1. SettingInv(r)'
    BY <1>0, <1>2, <1>8, EmbedDoes DEF SettingInv, GoesOn
  <2> QED  BY <1>0, <1>1, <1>8, <2>1, EmbedDoes DEF GoesOn
<1>9. ASSUME NEW r \in Runs, CountStored(r) PROVE CollectionInv'
  <2>1. SettingInv(r)'
    BY <1>0, <1>2, <1>9, CountDoes DEF SettingInv, GoesOn
  <2> QED  BY <1>0, <1>1, <1>9, <2>1, CountDoes DEF GoesOn
<1>10. ASSUME NEW r \in Runs, CheckChunk(r) PROVE CollectionInv'
  <2>1. /\ GoesOn(r) /\ run[r].pc = "dedup" /\ run'[r].pc = "dedup" /\ UNCHANGED <<registry, table>>
        /\ run'[r].kept \subseteq run[r].kept \cup {run[r].chunks[n] : n \in DOMAIN run[r].chunks}
    BY <1>0, <1>10, CheckDoes
  <2>2. SettingInv(r)'
    BY <1>2, <2>1 DEF SettingInv, GoesOn
  <2> QED  BY <1>1, <2>1, <2>2 DEF GoesOn
<1>11. ASSUME NEW r \in Runs, StoreKept(r) PROVE CollectionInv'
  <2>1. /\ Moves(r) /\ run[r].pc = "dedup" /\ run'[r].pc = "done" /\ run'[r].kept = {}
        /\ run'[r].chunks = run[r].chunks
        /\ table' = Upserted(run[r].kept, r) /\ UNCHANGED registry
    BY <1>0, <1>11, StoreDoes
  <2>2. /\ run[r].set \in Settings /\ (run[r].kept # {} => run[r].set = registry)
        /\ run[r].set = registry \/ DOMAIN run[r].chunks = {}
    BY <1>2, <2>1 DEF Steps, SettingInv
  <2>3. /\ \A x \in table' :
              /\ x = [id |-> x.id, set |-> x.set, by |-> x.by]
              /\ x.id \in run[r].kept => x.set = run[r].set
              /\ x.id \notin run[r].kept => x \in table
              /\ IF x.id \in Ids THEN \E y \in table : y.id = x.id /\ y.by = x.by
                 ELSE x.id \in run[r].kept /\ x.by = r
        /\ \A x, y \in table' : x.id = y.id => x = y
    BY <1>0, <2>1, UpsertDoes
  <2>4. TypeInv'
    BY <1>0, <2>1, <2>3 DEF TypeInv, Moves
  <2>5. TableInv'
    BY <1>0, <2>1, <2>2, <2>3 DEF TableInv
  <2>6. SettingInv(r)'
    BY <1>0, <2>1, <2>2 DEF SettingInv
  <2>7. \A q \in Runs \ {r} : SettingInv(q)'
    BY <1>0, <1>2, <2>1, SettingOn DEF Moves
  <2> QED  BY <2>4, <2>5, <2>6, <2>7 DEF CollectionInv
<1>12. ASSUME NEW r \in Runs, RunDies(r) PROVE CollectionInv'
  BY <1>0, <1>3, <1>12, DiesDoes
<1>13. CASE UNCHANGED <<registry, table, run>>
  BY <1>13 DEF CollectionInv, TypeInv, TableInv, SettingInv
<1>14. ASSUME NEW r \in Runs, MatchCollection(r) \/ RegisterCollection(r) PROVE CollectionInv'
  BY <1>6, <1>14 DEF MatchCollection, RegisterCollection
<1> QED  BY <1>4, <1>5, <1>7, <1>8, <1>9, <1>10, <1>11, <1>12, <1>13, <1>14, StepIs DEF IndexStep

LEMMA CollectionInit == Init => CollectionInv
<1> SUFFICES ASSUME Init PROVE CollectionInv
  OBVIOUS
<1>1. RunType(Idle) /\ Idle.pc = "idle" /\ Idle.kept = {} /\ Idle.skipped = {}
  BY DEF RunType, Idle, Over, Steps
<1>2. run = [r \in Runs |-> Idle] /\ table = {} /\ registry = None
  BY DEF Init, IndexInit
<1> HIDE DEF Idle
<1> QED  BY <1>1, <1>2 DEF CollectionInv, TypeInv, TableInv, SettingInv

-----------------------------------------------------------------------------
(* Near-duplicates.                                                        *)

TwinsInv == MetInv /\ (\A r \in Runs : KeptInv(r)) /\ TwinInv

LEMMA TwinsOn ==
  ASSUME TypeInv, TwinsInv, NEW r \in Runs, Moves(r), table' = table, run[r].pc # "done",
         KeptInv(r)', (r \in Active)' => \A q \in Active \ {r} : Met(q, r)'
  PROVE  TwinsInv'
<1>1. \A q \in Runs \ {r} : Stays(q)
  BY DEF Moves
<1>2. \A q \in Runs \ {r} : run'[q].pc = run[q].pc /\ run[q].beside \subseteq run'[q].beside
  BY <1>1 DEF Stays
<1>3. \A p, q \in Runs \ {r} : Met(p, q) => Met(p, q)'
  BY <1>2 DEF Met
<1>4. \A q : (q \in Active)' /\ q # r => q \in Active
  BY <1>2 DEF Active
<1>5. \A row \in table : row.by \in Runs \ {r} /\ run[row.by].pc = "done"
  BY DEF TwinsInv, MetInv, TypeInv
<1>6. Active \subseteq Runs /\ (Active \subseteq Runs)'
  BY DEF Active
<1>7. MetInv'
  <2>1. ASSUME NEW p \in Active', NEW q \in Active', p # q PROVE Met(p, q)'
    <3>1. CASE p # r /\ q # r
      BY <1>3, <1>4, <1>6, <2>1, <3>1 DEF TwinsInv, MetInv
    <3>2. CASE p = r \/ q = r
      BY <1>4, <2>1, <3>2 DEF Met
    <3> QED  BY <3>1, <3>2
  <2>2. \A row \in table : run'[row.by].pc = "done"
    BY <1>2, <1>5
  <2> QED  BY <2>1, <2>2 DEF MetInv
<1>8. ASSUME NEW q \in Runs \ {r} PROVE KeptInv(q)'
  <2>1. /\ run'[q].pc = run[q].pc /\ run'[q].kept = run[q].kept /\ run'[q].hasContent = run[q].hasContent
    BY <1>1 DEF Stays
  <2>2. KeptInv(q) /\ Ids' = Ids
    BY DEF TwinsInv, Ids
  <2>3. \A row \in table : Met(row.by, q) => Met(row.by, q)'
    BY <1>3, <1>5
  <2> QED  BY <2>1, <2>2, <2>3 DEF KeptInv, Close
<1>9. TwinInv'
  BY <1>3, <1>5 DEF TwinsInv, TwinInv, Close
<1> QED  BY <1>7, <1>8, <1>9 DEF TwinsInv

LEMMA TwinsGoOn ==
  ASSUME TypeInv, TwinsInv, NEW r \in Active, GoesOn(r), table' = table, KeptInv(r)'
  PROVE  TwinsInv'
<1>1. r \in Runs /\ run[r].pc # "done" /\ Moves(r) /\ run'[r].beside = run[r].beside
  BY DEF Active, GoesOn
<1>2. ASSUME NEW q \in Active \ {r} PROVE Met(q, r)'
  <2>1. Met(q, r) /\ q \in Runs
    BY DEF TwinsInv, MetInv, Active
  <2>2. run[q].beside \subseteq run'[q].beside
    BY <1>1, <2>1 DEF Moves, Stays
  <2> QED  BY <1>1, <2>1, <2>2 DEF Met
<1> QED  BY <1>1, <1>2, TwinsOn

LEMMA TwinsStep == CollectionInv /\ TwinsInv /\ [Next]_vars => TwinsInv'
<1> SUFFICES ASSUME CollectionInv, TwinsInv, [Next]_vars PROVE TwinsInv'
  OBVIOUS
<1>0. TypeInv /\ TableInv /\ \A r \in Runs : SettingInv(r)
  BY DEF CollectionInv
<1>1. ASSUME NEW r \in Runs, GoesOn(r), table' = table, run[r].pc \in Steps, run'[r].pc # "dedup" PROVE TwinsInv'
  <2>1. r \in Active /\ KeptInv(r)'
    BY <1>1 DEF Active, Steps, KeptInv
  <2> QED  BY <1>0, <1>1, <2>1, TwinsGoOn
<1>2. ASSUME NEW r \in Runs, Ends(r), table' = table PROVE TwinsInv'
  <2>1. Moves(r) /\ run[r].pc # "done" /\ KeptInv(r)' /\ ~(r \in Active)'
    BY <1>2 DEF Ends, KeptInv, Active
  <2> QED  BY <1>0, <1>2, <2>1, TwinsOn
<1>3. ASSUME NEW r \in Runs, LoadCorpus(r) PROVE TwinsInv'
  <2>1. /\ Moves(r) /\ run[r].pc = "idle" /\ run'[r].pc = "info" /\ table' = table
        /\ run'[r].beside = Active /\ \A q \in Active : r \in run'[q].beside
    BY <1>0, <1>3, LoadDoes
  <2>2. KeptInv(r)' /\ \A q \in Active \ {r} : Met(q, r)'
    BY <2>1 DEF KeptInv, Met
  <2> QED  BY <1>0, <2>1, <2>2, TwinsOn
<1>4. ASSUME NEW r \in Runs, MatchCollection(r) \/ RegisterCollection(r) PROVE TwinsInv'
  <2>1. PICK next \in {"ids", "count"} : run[r].pc \in {"match", "register"} /\ EnsureCollection(r, next)
    BY <1>4 DEF MatchCollection, RegisterCollection
  <2>2. next \in Steps /\ run[r].pc \in Steps
    BY <2>1 DEF Steps
  <2>3. table' = table /\ (Ends(r) \/ (GoesOn(r) /\ run'[r].pc = next))
    BY <1>0, <2>1, <2>2, EnsureDoes
  <2> QED  BY <1>1, <1>2, <2>1, <2>2, <2>3
<1>5. ASSUME NEW r \in Runs, ReadInfo(r) PROVE TwinsInv'
  <2>1. GoesOn(r) /\ table' = table /\ run[r].pc = "info" /\ run'[r].pc # "dedup"
    BY <1>0, <1>5, ReadInfoDoes
  <2> QED  BY <1>1, <2>1 DEF Steps
<1>6. ASSUME NEW r \in Runs, ReadStoredIds(r) PROVE TwinsInv'
  <2>1. GoesOn(r) /\ table' = table /\ run[r].pc = "ids" /\ run'[r].pc = "embed"
    BY <1>0, <1>6, ReadIdsDoes
  <2> QED  BY <1>1, <2>1 DEF Steps
<1>7. ASSUME NEW r \in Runs, EmbedNew(r) PROVE TwinsInv'
  <2>1. GoesOn(r) /\ table' = table /\ run[r].pc = "embed" /\ run'[r].pc # "dedup"
    BY <1>0, <1>7, EmbedDoes
  <2> QED  BY <1>1, <2>1 DEF Steps
<1>8. ASSUME NEW r \in Runs, CountStored(r) PROVE TwinsInv'
  <2>1. /\ GoesOn(r) /\ table' = table /\ run[r].pc = "count" /\ run'[r].kept = run[r].kept
        /\ ~run'[r].hasContent => table = {}
    BY <1>0, <1>8, CountDoes
  <2>2. run'[r].kept = {}
    BY <1>0, <2>1 DEF SettingInv
  <2>3. r \in Active /\ KeptInv(r)'
    BY <2>1, <2>2 DEF Active, KeptInv
  <2> QED  BY <1>0, <2>1, <2>3, TwinsGoOn
<1>9. ASSUME NEW r \in Runs, CheckChunk(r) PROVE TwinsInv'
  <2>1. /\ GoesOn(r) /\ run[r].pc = "dedup" /\ table' = table /\ run'[r].hasContent = run[r].hasContent
    BY <1>0, <1>9, CheckDoes
  <2>2. \E chunk :
          \/ run'[r].kept = run[r].kept
          \/ /\ run'[r].kept = run[r].kept \cup {chunk}
             /\ \A k \in run[r].kept : ~Close(chunk.content, k.content)
             /\ run[r].hasContent => \A row \in table : Close(chunk.content, row.id.content) => chunk \in Ids
    BY <1>0, <1>9, CheckDoes
  <2>3. r \in Active /\ KeptInv(r) /\ run'[r].beside = run[r].beside /\ Ids' = Ids
    BY <2>1 DEF TwinsInv, Active, GoesOn, Ids
  <2>4. \A row \in table : Met(row.by, r) => Met(row.by, r)'
    <3>1. ASSUME NEW row \in table PROVE row.by \in Runs \ {r}
      BY <1>0, <2>1 DEF TwinsInv, MetInv, TypeInv
    <3>2. ASSUME NEW row \in table PROVE run[row.by].beside \subseteq run'[row.by].beside
      BY <2>1, <3>1 DEF GoesOn, Moves, Stays
    <3> QED  BY <2>3, <3>2 DEF Met
  <2>5. KeptInv(r)'
    <3>1. \A c, k \in run'[r].kept : Close(c.content, k.content) => c = k
      BY <2>1, <2>2, <2>3, SimilarityIs DEF KeptInv
    <3>2. ~run[r].hasContent => \A row \in table : Met(row.by, r)'
      BY <2>1, <2>3, <2>4 DEF KeptInv
    <3>3. \A c \in run'[r].kept, row \in table :
            Close(c.content, row.id.content) => c \in Ids \/ Met(row.by, r)'
      BY <2>1, <2>2, <2>3, <2>4, <3>2 DEF KeptInv
    <3>4. \A a, b : Close(a, b)' <=> Close(a, b)
      BY DEF Close
    <3> QED  BY <2>1, <2>3, <3>1, <3>2, <3>3, <3>4 DEF KeptInv
  <2> QED  BY <1>0, <2>1, <2>3, <2>5, TwinsGoOn
<1>10. ASSUME NEW r \in Runs, StoreKept(r) PROVE TwinsInv'
  <2> DEFINE kept == run[r].kept
  <2>1. /\ Moves(r) /\ run[r].pc = "dedup" /\ run'[r].pc = "done" /\ run'[r].beside = run[r].beside
        /\ table' = Upserted(kept, r)
    BY <1>0, <1>10, StoreDoes
  <2>2. /\ Ids' = Ids \cup kept
        /\ \A x \in table' : IF x.id \in Ids THEN \E y \in table : y.id = x.id /\ y.by = x.by
                             ELSE x.id \in kept /\ x.by = r
        /\ \A x, y \in table' : x.id = y.id => x = y
    BY <1>0, <2>1, UpsertDoes
  <2>3. r \in Active /\ KeptInv(r)
    BY <2>1 DEF Active, TwinsInv
  <2>4. \A q \in Runs \ {r} : Stays(q)
    BY <2>1 DEF Moves
  <2>5. \A q \in Runs : run[q].beside \subseteq run'[q].beside
    BY <2>1, <2>4 DEF Stays
  <2>6. \A p, q \in Runs : Met(p, q) => Met(p, q)'
    BY <2>5 DEF Met
  <2>7. \A row \in table : row.by \in Runs \ {r} /\ run[row.by].pc = "done"
    BY <1>0, <2>1 DEF TwinsInv, MetInv, TypeInv
  <2>8. \A q : (q \in Active)' <=> q \in Active /\ q # r
    BY <2>1, <2>4 DEF Active, Stays
  <2>9. \A a, b : Close(a, b)' <=> Close(a, b)
    BY DEF Close
  <2>10. MetInv'
    <3>1. \A p, q \in Active' : p # q => Met(p, q)'
      BY <2>6, <2>8 DEF TwinsInv, MetInv, Active
    <3>2. ASSUME NEW x \in table' PROVE run'[x.by].pc = "done"
      <4>1. x.by = r \/ \E y \in table : y.by = x.by
        BY <2>2
      <4> QED  BY <2>1, <2>4, <2>7, <4>1 DEF Stays
    <3> QED  BY <3>1, <3>2 DEF MetInv
  <2>11. ASSUME NEW q \in Runs PROVE KeptInv(q)'
    <3>1. CASE q = r
      BY <2>1, <3>1 DEF KeptInv
    <3>2. CASE q # r /\ run[q].pc = "dedup"
      <4>1. /\ run'[q].pc = run[q].pc /\ run'[q].kept = run[q].kept /\ run'[q].hasContent = run[q].hasContent
        BY <2>4, <3>2 DEF Stays
      <4>2. KeptInv(q) /\ Met(r, q)'
        BY <2>3, <2>6, <3>2 DEF TwinsInv, MetInv, Active
      <4>3. ~run[q].hasContent => \A x \in table' : Met(x.by, q)'
        BY <2>2, <2>6, <2>7, <3>2, <4>2 DEF KeptInv
      <4>4. ASSUME NEW c \in run[q].kept, NEW x \in table', Close(c.content, x.id.content)
            PROVE  (c \in Ids)' \/ Met(x.by, q)'
        <5>1. CASE x.id \in Ids
          <6>1. PICK y \in table : y.id = x.id /\ y.by = x.by
            BY <2>2, <5>1
          <6>2. c \in Ids \/ Met(y.by, q)
            BY <3>2, <4>2, <4>4, <6>1 DEF KeptInv
          <6> QED  BY <2>2, <2>6, <2>7, <6>1, <6>2
        <5>2. CASE x.id \notin Ids
          BY <2>2, <4>2, <5>2
        <5> QED  BY <5>1, <5>2
      <4>5. \A c, k \in run[q].kept : Close(c.content, k.content) => c = k
        BY <3>2, <4>2 DEF KeptInv
      <4> QED  BY <2>9, <4>1, <4>3, <4>4, <4>5 DEF KeptInv
    <3>3. CASE q # r /\ run[q].pc # "dedup"
      BY <2>4, <3>3 DEF Stays, KeptInv
    <3> QED  BY <3>1, <3>2, <3>3
  <2>12. ASSUME NEW x \in table', NEW y \in table', x # y, Close(x.id.content, y.id.content)
         PROVE  Met(y.by, x.by)'
    <3>1. x.id # y.id /\ Close(y.id.content, x.id.content)
      BY <2>2, <2>12, SimilarityIs
    <3>2. ASSUME NEW u \in table', NEW v \in table', Close(u.id.content, v.id.content),
                 u.id \notin Ids, v.id \in Ids
          PROVE  Met(v.by, u.by)'
      <4>1. PICK w \in table : w.id = v.id /\ w.by = v.by
        BY <2>2, <3>2
      <4>2. u.id \in kept /\ u.by = r
        BY <2>2, <3>2
      <4>3. Met(w.by, r)
        BY <2>1, <2>3, <3>2, <4>1, <4>2 DEF KeptInv
      <4> QED  BY <2>6, <2>7, <4>1, <4>2, <4>3
    <3>3. CASE x.id \in Ids /\ y.id \in Ids
      <4>1. PICK u \in table, v \in table : u.id = x.id /\ u.by = x.by /\ v.id = y.id /\ v.by = y.by
        BY <2>2, <3>3
      <4>2. Met(v.by, u.by)
        BY <2>12, <3>1, <4>1 DEF TwinsInv, TwinInv
      <4> QED  BY <2>6, <2>7, <4>1, <4>2
    <3>4. CASE x.id \notin Ids /\ y.id \in Ids
      BY <2>12, <3>2, <3>4
    <3>5. CASE x.id \in Ids /\ y.id \notin Ids
      BY <3>1, <3>2, <3>5 DEF Met
    <3>6. CASE x.id \notin Ids /\ y.id \notin Ids
      BY <2>1, <2>2, <2>3, <2>12, <3>1, <3>6 DEF KeptInv
    <3> QED  BY <3>3, <3>4, <3>5, <3>6
  <2>13. TwinInv'
    BY <2>9, <2>12 DEF TwinInv
  <2> QED  BY <2>10, <2>11, <2>13 DEF TwinsInv
<1>11. ASSUME NEW r \in Runs, RunDies(r) PROVE TwinsInv'
  BY <1>0, <1>2, <1>11, DiesDoes
<1>12. CASE UNCHANGED <<registry, table, run>>
  BY <1>12 DEF TwinsInv, MetInv, KeptInv, TwinInv, Met, Active, Ids, Close
<1> QED  BY <1>3, <1>4, <1>5, <1>6, <1>7, <1>8, <1>9, <1>10, <1>11, <1>12, StepIs DEF IndexStep

LEMMA TwinsInit == Init => TwinsInv
  BY DEF Init, IndexInit, Idle, TwinsInv, MetInv, KeptInv, TwinInv, Active

(* Every stored vector is of the one setting registered, and two stored     *)
(* chunks are near-duplicates only when their runs overlapped.              *)
THEOREM StoreIsCoherentAlways == Spec => []StoreIsCoherent
<1>1. CollectionInv /\ TwinsInv => StoreIsCoherent
  BY DEF CollectionInv, TwinsInv, TableInv, TwinInv, Met, StoreIsCoherent
<1> QED  BY <1>1, CollectionInit, CollectionStep, TwinsInit, TwinsStep, PTL DEF Spec

-----------------------------------------------------------------------------
(* Repeating a run.                                                        *)

RepeatsInv == \A r \in Runs : ProgressInv(r) /\ ReseedInv(r)

(* Rows are added by the run that takes the step; none is lost.            *)
Grows(r) ==
  /\ Ids \subseteq Ids'
  /\ \A x \in table' : x.by = r \/ \E y \in table : y.by = x.by

LEMMA SameGrows == \A r : UNCHANGED table => Grows(r)
  BY DEF Grows, Ids

LEMMA RepeatsOn ==
  ASSUME TypeInv, RepeatsInv, NEW r \in Runs, Moves(r), run[r].pc # "done", Grows(r),
         ProgressInv(r)', ReseedInv(r)'
  PROVE  RepeatsInv'
<1>1. \A c : Like(c) => Like(c)'
  BY DEF Like, Close, Grows
<1>2. ASSUME NEW q \in Runs \ {r} PROVE ProgressInv(q)' /\ ReseedInv(q)'
  <2>1. /\ run'[q].pc = run[q].pc /\ run'[q].chunks = run[q].chunks /\ run'[q].new = run[q].new
        /\ run'[q].kept = run[q].kept /\ run'[q].skipped = run[q].skipped
        /\ run'[q].embedded = run[q].embedded /\ run'[q].after = run[q].after
        /\ run'[q].hasContent = run[q].hasContent
    BY DEF Moves, Stays
  <2>2. ProgressInv(q) /\ ReseedInv(q) /\ Ids \subseteq Ids'
    BY DEF RepeatsInv, Grows
  <2>3. ProgressInv(q)'
    BY <1>1, <2>1, <2>2 DEF ProgressInv, Close
  <2>4. ASSUME NEW s \in run[q].after
        PROVE  (run[s].pc = "done")' /\ (Seeded(q, s)' => RepeatInv(q, s)')
    <3>1. s \in Runs \ {r} /\ run[s].pc = "done" /\ (Seeded(q, s) => RepeatInv(q, s))
      BY <2>2 DEF ReseedInv, TypeInv, RunType
    <3>2. run'[s].pc = "done" /\ run'[s].chunks = run[s].chunks /\ run'[s].skipped = run[s].skipped
      BY <3>1 DEF Moves, Stays
    <3>3. Added(q) = {} => Added(q)' = {}
      BY DEF Added, Grows
    <3>4. Seeded(q, s)' => Seeded(q, s)
      BY <2>1, <3>2 DEF Seeded
    <3>5. RepeatInv(q, s) => RepeatInv(q, s)'
      BY <2>1, <2>2, <3>2, <3>3 DEF RepeatInv
    <3> QED  BY <3>1, <3>2, <3>4, <3>5
  <2>5. ReseedInv(q)'
    BY <2>1, <2>4 DEF ReseedInv
  <2> QED  BY <2>3, <2>5
<1> QED  BY <1>2 DEF RepeatsInv

(* What a finished run loaded is stored, or is like something stored.      *)
LEMMA FinishedHasIt ==
  ASSUME NEW r, NEW q, ProgressInv(q), run[q].pc = "done", Seeded(r, q), NEW n \in DOMAIN run[r].chunks
  PROVE  LET c == run[r].chunks[n]
         IN  (c \in Ids \/ c \in run[q].skipped) /\ Like(c)
<1>1. PICK m \in DOMAIN run[q].chunks : run[q].chunks[m] = run[r].chunks[n]
  BY DEF Seeded, ToSet
<1> QED  BY <1>1, SimilarityIs DEF ProgressInv, Like

(* A step of a run that adds no row.                                       *)
LEMMA RepeatsGoOn ==
  ASSUME TypeInv, RepeatsInv, NEW r \in Runs, run[r].pc \in Steps, GoesOn(r), UNCHANGED table,
         ProgressInv(r)',
         \A q \in Runs : run[q].pc = "done" /\ Seeded(r, q) /\ RepeatInv(r, q) /\ ProgressInv(q) =>
           LET p == run'[r]
           IN  /\ p.pc = "embed" => {p.chunks[n] : n \in p.new} \subseteq run[q].skipped
               /\ p.embedded \subseteq run[q].skipped
               /\ p.pc = "dedup" => p.kept \subseteq Ids /\ (p.hasContent \/ DOMAIN p.chunks = {})
  PROVE  RepeatsInv'
<1>1. Moves(r) /\ run'[r].after = run[r].after /\ run'[r].chunks = run[r].chunks /\ run[r].pc # "done"
  BY DEF GoesOn, Steps
<1>2. ASSUME NEW q \in run[r].after
      PROVE  (run[q].pc = "done")' /\ (Seeded(r, q)' => RepeatInv(r, q)')
  <2>1. q \in Runs /\ run[q].pc = "done" /\ (Seeded(r, q) => RepeatInv(r, q)) /\ ProgressInv(q)
    BY DEF RepeatsInv, ReseedInv, TypeInv, RunType
  <2>2. q # r
    BY <1>1, <2>1
  <2>3. run'[q].pc = "done" /\ run'[q].chunks = run[q].chunks /\ run'[q].skipped = run[q].skipped
    BY <1>1, <2>1, <2>2 DEF Moves, Stays
  <2>4. Seeded(r, q)' => Seeded(r, q)
    BY <1>1, <2>3 DEF Seeded
  <2>5. Added(r)' = Added(r) /\ Ids' = Ids
    BY DEF Added, Ids
  <2> QED  BY <2>1, <2>3, <2>4, <2>5 DEF RepeatInv
<1>3. ReseedInv(r)'
  BY <1>1, <1>2 DEF ReseedInv
<1> QED  BY <1>1, <1>3, SameGrows, RepeatsOn

LEMMA RepeatsStep == CollectionInv /\ TwinsInv /\ RepeatsInv /\ [Next]_vars => RepeatsInv'
<1> SUFFICES ASSUME CollectionInv, TwinsInv, RepeatsInv, [Next]_vars PROVE RepeatsInv'
  OBVIOUS
<1>0. TypeInv /\ TableInv /\ \A r \in Runs : SettingInv(r) /\ ProgressInv(r)
  BY DEF CollectionInv, RepeatsInv
<1>1. UNCHANGED table => Ids' = Ids /\ \A c : Like(c)' <=> Like(c)
  BY DEF Ids, Like, Close
<1>2. ASSUME NEW r \in Runs, Ends(r), UNCHANGED table PROVE RepeatsInv'
  <2>1. Moves(r) /\ run[r].pc # "done"
    BY <1>2 DEF Ends, Active
  <2>2. ProgressInv(r)' /\ ReseedInv(r)'
    BY <1>2 DEF Ends, ProgressInv, ReseedInv
  <2> QED  BY <1>0, <1>2, <2>1, <2>2, SameGrows, RepeatsOn
<1>3. ASSUME NEW r \in Runs, LoadCorpus(r) PROVE RepeatsInv'
  <2>1. /\ Moves(r) /\ run[r].pc = "idle" /\ run'[r].pc = "info" /\ UNCHANGED table
        /\ run'[r].skipped = {} /\ run'[r].embedded = {} /\ run'[r].after = Finished
    BY <1>0, <1>3, LoadDoes
  <2>2. ProgressInv(r)'
    BY <2>1 DEF ProgressInv
  <2>3. Added(r)' = {}
    BY <2>1 DEF TwinsInv, MetInv, Added
  <2>4. \A q \in run'[r].after : run'[q].pc = "done"
    BY <2>1 DEF Finished, Moves, Stays
  <2>5. ReseedInv(r)'
    BY <2>1, <2>3, <2>4 DEF ReseedInv, RepeatInv
  <2> QED  BY <1>0, <2>1, <2>2, <2>5, SameGrows, RepeatsOn
<1>4. ASSUME NEW r \in Runs, ReadInfo(r) PROVE RepeatsInv'
  <2>1. /\ GoesOn(r) /\ run[r].pc = "info" /\ UNCHANGED table /\ run'[r].chunks = run[r].chunks
        /\ run'[r].kept = run[r].kept /\ run'[r].skipped = run[r].skipped /\ run'[r].embedded = run[r].embedded
        /\ IF registry = None THEN run'[r].pc = "embed" /\ run'[r].new = DOMAIN run[r].chunks
           ELSE run'[r].pc = "match"
    BY <1>0, <1>4, ReadInfoDoes DEF GoesOn
  <2>2. run[r].skipped = {}
    BY <1>0, <2>1 DEF SettingInv
  <2>3. ProgressInv(r)'
    BY <2>1, <2>2 DEF ProgressInv
  <2>4. ASSUME NEW q \in Runs, run[q].pc = "done", Seeded(r, q), registry = None
        PROVE  DOMAIN run[r].chunks = {}
    <3>1. DOMAIN run[q].chunks = {}
      BY <1>0, <2>4 DEF SettingInv
    <3> QED  BY <2>4, <3>1 DEF Seeded, ToSet
  <2>5. \A q \in Runs : run[q].pc = "done" /\ Seeded(r, q) /\ RepeatInv(r, q) =>
           LET p == run'[r]
           IN  /\ p.pc = "embed" => {p.chunks[n] : n \in p.new} \subseteq run[q].skipped
               /\ p.embedded \subseteq run[q].skipped
               /\ p.pc # "dedup"
    BY <2>1, <2>4 DEF RepeatInv
  <2> QED  BY <1>0, <2>1, <2>3, <2>5, RepeatsGoOn DEF Steps
<1>5. ASSUME NEW r \in Runs, MatchCollection(r) \/ RegisterCollection(r) PROVE RepeatsInv'
  <2>1. PICK next \in {"ids", "count"} : /\ run[r].pc \in {"match", "register"} /\ EnsureCollection(r, next)
                                         /\ next = "count" => run[r].pc = "register"
    BY <1>5 DEF MatchCollection, RegisterCollection
  <2>2. next \in Steps /\ run[r].pc \in Steps
    BY <2>1 DEF Steps
  <2>3. /\ UNCHANGED table
        /\ \/ Ends(r)
           \/ /\ GoesOn(r) /\ run'[r].pc = next /\ run'[r].new = run[r].new
              /\ run'[r].kept = run[r].kept /\ run'[r].skipped = run[r].skipped
              /\ run'[r].embedded = run[r].embedded
    BY <1>0, <2>1, <2>2, EnsureDoes
  <2>4. CASE Ends(r)
    BY <1>2, <2>3, <2>4
  <2>5. CASE ~Ends(r)
    <3>1. ProgressInv(r) /\ run'[r].chunks = run[r].chunks
      BY <1>0, <2>3, <2>5 DEF GoesOn
    <3>2. ProgressInv(r)'
      BY <1>1, <2>1, <2>3, <2>5, <3>1 DEF ProgressInv
    <3>3. run'[r].pc \notin {"embed", "dedup"}
      BY <2>1, <2>3, <2>5
    <3>4. \A q \in Runs : RepeatInv(r, q) => run'[r].embedded \subseteq run[q].skipped
      BY <2>3, <2>5 DEF RepeatInv
    <3> QED  BY <1>0, <2>2, <2>3, <2>5, <3>2, <3>3, <3>4, RepeatsGoOn
  <2> QED  BY <2>4, <2>5
<1>6. ASSUME NEW r \in Runs, ReadStoredIds(r) PROVE RepeatsInv'
  <2>1. /\ GoesOn(r) /\ run[r].pc = "ids" /\ run'[r].pc = "embed" /\ UNCHANGED table
        /\ run'[r].chunks = run[r].chunks /\ run'[r].kept = run[r].kept
        /\ run'[r].skipped = run[r].skipped /\ run'[r].embedded = run[r].embedded
        /\ run'[r].new = {n \in DOMAIN run[r].chunks : run[r].chunks[n] \notin Ids}
    BY <1>0, <1>6, ReadIdsDoes DEF GoesOn
  <2>2. run[r].skipped = {}
    BY <1>0, <2>1 DEF SettingInv
  <2>3. ProgressInv(r)'
    BY <1>1, <2>1, <2>2 DEF ProgressInv
  <2>4. ASSUME NEW q \in Runs, run[q].pc = "done", Seeded(r, q), ProgressInv(q)
        PROVE  {run[r].chunks[n] : n \in run'[r].new} \subseteq run[q].skipped
    BY <2>1, <2>4, FinishedHasIt
  <2>5. \A q \in Runs : RepeatInv(r, q) => run'[r].embedded \subseteq run[q].skipped
    BY <2>1 DEF RepeatInv
  <2> QED  BY <1>0, <2>1, <2>3, <2>4, <2>5, RepeatsGoOn DEF Steps
<1>7. ASSUME NEW r \in Runs, EmbedNew(r) PROVE RepeatsInv'
  <2>1. /\ GoesOn(r) /\ run[r].pc = "embed" /\ run'[r].pc \in {"register", "count"} /\ UNCHANGED table
        /\ run'[r].chunks = run[r].chunks /\ run'[r].kept = run[r].kept
        /\ run'[r].skipped = run[r].skipped /\ run'[r].new = run[r].new
        /\ run'[r].embedded = {run[r].chunks[n] : n \in run[r].new}
    BY <1>0, <1>7, EmbedDoes DEF GoesOn
  <2>2. ProgressInv(r)'
    BY <1>0, <1>1, <2>1 DEF ProgressInv
  <2>3. \A q \in Runs : RepeatInv(r, q) => run'[r].embedded \subseteq run[q].skipped
    BY <2>1 DEF RepeatInv
  <2> QED  BY <1>0, <2>1, <2>2, <2>3, RepeatsGoOn DEF Steps
<1>8. ASSUME NEW r \in Runs, CountStored(r) PROVE RepeatsInv'
  <2>1. /\ GoesOn(r) /\ run[r].pc = "count" /\ run'[r].pc = "dedup" /\ UNCHANGED table
        /\ run'[r].chunks = run[r].chunks /\ run'[r].kept = run[r].kept
        /\ run'[r].skipped = run[r].skipped /\ run'[r].new = run[r].new
        /\ run'[r].embedded = run[r].embedded
        /\ ~run'[r].hasContent => table = {}
    BY <1>0, <1>8, CountDoes DEF GoesOn
  <2>2. run'[r].kept = {} /\ run'[r].skipped = {}
    BY <1>0, <2>1 DEF SettingInv
  <2>3. ProgressInv(r)'
    BY <1>0, <1>1, <2>1, <2>2 DEF ProgressInv
  <2>4. ASSUME NEW q \in Runs, run[q].pc = "done", Seeded(r, q), ProgressInv(q), table = {}
        PROVE  DOMAIN run[r].chunks = {}
    BY <2>4, FinishedHasIt DEF Like, Ids
  <2>5. \A q \in Runs : RepeatInv(r, q) => run'[r].embedded \subseteq run[q].skipped
    BY <2>1 DEF RepeatInv
  <2> QED  BY <1>0, <2>1, <2>2, <2>3, <2>4, <2>5, RepeatsGoOn DEF Steps
<1>9. ASSUME NEW r \in Runs, CheckChunk(r) PROVE RepeatsInv'
  <2>1. /\ GoesOn(r) /\ run[r].pc = "dedup" /\ run'[r].pc = "dedup" /\ UNCHANGED table
        /\ run'[r].chunks = run[r].chunks
        /\ run'[r].hasContent = run[r].hasContent /\ run'[r].embedded = run[r].embedded
    BY <1>0, <1>9, CheckDoes DEF GoesOn
  <2>2. PICK n \in run[r].new : LET chunk == run[r].chunks[n] IN
              /\ n \in DOMAIN run[r].chunks /\ run'[r].new = run[r].new \ {n}
              /\ \/ /\ run'[r].kept = run[r].kept /\ run'[r].skipped = run[r].skipped \cup {chunk}
                    /\ \/ \E row \in table : Close(chunk.content, row.id.content)
                       \/ \E k \in run[r].kept : Close(chunk.content, k.content)
                 \/ /\ run'[r].kept = run[r].kept \cup {chunk} /\ run'[r].skipped = run[r].skipped
                    /\ run[r].hasContent => \A row \in table :
                         Close(chunk.content, row.id.content) => chunk \in Ids
    BY <1>0, <1>9, CheckDoes
  <2> DEFINE chunk == run[r].chunks[n]
  <2>3. \A c \in run'[r].skipped : Like(c) \/ \E k \in run'[r].kept : Close(c.content, k.content)
    <3>1. \A c \in run[r].skipped : Like(c) \/ \E k \in run[r].kept : Close(c.content, k.content)
      BY <1>0 DEF ProgressInv
    <3>2. (\E row \in table : Close(chunk.content, row.id.content)) => Like(chunk)
      BY DEF Like, Ids
    <3> QED  BY <2>2, <3>1, <3>2
  <2>4. ProgressInv(r)'
    <3>1. \A a, b : Close(a, b)' <=> Close(a, b)
      BY DEF Close
    <3>2. \A m \in DOMAIN run[r].chunks :
            m \in run'[r].new \/ run[r].chunks[m] \in Ids \cup run'[r].kept \cup run'[r].skipped
      BY <1>0, <2>1, <2>2 DEF ProgressInv
    <3>3. \A c \in run'[r].skipped : Like(c)' \/ \E k \in run'[r].kept : Close(c.content, k.content)'
      BY <1>1, <2>1, <2>3, <3>1
    <3> QED  BY <1>1, <2>1, <3>2, <3>3 DEF ProgressInv
  <2>5. ASSUME NEW q \in Runs, run[q].pc = "done", Seeded(r, q), ProgressInv(q), RepeatInv(r, q)
        PROVE  run'[r].kept \subseteq Ids /\ (run'[r].hasContent \/ DOMAIN run'[r].chunks = {})
    <3>1. Like(chunk) /\ run[r].kept \subseteq Ids /\ (run[r].hasContent \/ DOMAIN run[r].chunks = {})
      BY <2>1, <2>2, <2>5, FinishedHasIt DEF RepeatInv
    <3>2. \E row \in table : Close(chunk.content, row.id.content)
      BY <3>1 DEF Like, Ids
    <3> QED  BY <2>1, <2>2, <3>1, <3>2
  <2>6. \A q \in Runs : RepeatInv(r, q) => run'[r].embedded \subseteq run[q].skipped
    BY <2>1 DEF RepeatInv
  <2> QED  BY <1>0, <2>1, <2>4, <2>5, <2>6, RepeatsGoOn DEF Steps
<1>10. ASSUME NEW r \in Runs, StoreKept(r) PROVE RepeatsInv'
  <2>1. /\ Moves(r) /\ run[r].pc = "dedup" /\ run[r].new = {} /\ run'[r].pc = "done"
        /\ run'[r].chunks = run[r].chunks /\ run'[r].skipped = run[r].skipped
        /\ run'[r].embedded = run[r].embedded /\ run'[r].after = run[r].after
        /\ table' = Upserted(run[r].kept, r)
    BY <1>0, <1>10, StoreDoes
  <2>2. /\ Ids' = Ids \cup run[r].kept
        /\ \A x \in table' : IF x.id \in Ids THEN \E y \in table : y.id = x.id /\ y.by = x.by
                             ELSE x.id \in run[r].kept /\ x.by = r
    BY <1>0, <2>1, UpsertDoes
  <2>3. Grows(r)
    BY <2>2 DEF Grows
  <2>4. ProgressInv(r)'
    <3>1. \A n \in DOMAIN run[r].chunks : run[r].chunks[n] \in Ids' \cup run[r].skipped
      BY <1>0, <2>1, <2>2 DEF ProgressInv
    <3>2. \A c \in run[r].skipped : Like(c)'
      BY <1>0, <2>1, <2>2 DEF ProgressInv, Like, Close
    <3> QED  BY <2>1, <3>1, <3>2 DEF ProgressInv
  <2>5. ASSUME NEW q \in run[r].after
        PROVE  (run[q].pc = "done")' /\ (Seeded(r, q)' => RepeatInv(r, q)')
    <3>1. q \in Runs \ {r} /\ run[q].pc = "done" /\ (Seeded(r, q) => RepeatInv(r, q))
      BY <1>0, <2>1 DEF RepeatsInv, ReseedInv, TypeInv, RunType
    <3>2. run'[q].pc = "done" /\ run'[q].chunks = run[q].chunks /\ run'[q].skipped = run[q].skipped
      BY <2>1, <3>1 DEF Moves, Stays
    <3>3. Seeded(r, q)' => Seeded(r, q)
      BY <2>1, <3>2 DEF Seeded
    <3>4. RepeatInv(r, q) => Added(r)' = {}
      BY <2>1, <2>2 DEF RepeatInv, Added
    <3> QED  BY <2>1, <3>1, <3>2, <3>3, <3>4 DEF RepeatInv
  <2>6. ReseedInv(r)'
    BY <2>1, <2>5 DEF ReseedInv
  <2> QED  BY <1>0, <2>1, <2>3, <2>4, <2>6, RepeatsOn
<1>11. ASSUME NEW r \in Runs, RunDies(r) PROVE RepeatsInv'
  BY <1>0, <1>2, <1>11, DiesDoes
<1>12. CASE UNCHANGED <<registry, table, run>>
  <2>1. \A r \in Runs : ProgressInv(r)'
    BY <1>0, <1>1, <1>12 DEF ProgressInv, Close
  <2>2. \A r, q : Seeded(r, q)' = Seeded(r, q) /\ RepeatInv(r, q)' = RepeatInv(r, q)
    BY <1>1, <1>12 DEF Seeded, RepeatInv, Added
  <2>3. \A r \in Runs : ReseedInv(r)'
    BY <1>12, <2>2 DEF RepeatsInv, ReseedInv
  <2> QED  BY <2>1, <2>3 DEF RepeatsInv
<1> QED  BY <1>3, <1>4, <1>5, <1>6, <1>7, <1>8, <1>9, <1>10, <1>11, <1>12, StepIs DEF IndexStep

LEMMA RepeatsInit == Init => RepeatsInv
  BY DEF Init, IndexInit, Idle, RepeatsInv, ProgressInv, ReseedInv

(* Seeding again what a finished run loaded stores no row, and embeds only  *)
(* what that run skipped.                                                   *)
THEOREM ReseedCostsOnlySkippedAlways == Spec => []ReseedCostsOnlySkipped
<1>1. RepeatsInv => ReseedCostsOnlySkipped
  BY DEF RepeatsInv, ReseedInv, Seeded, RepeatInv, ReseedCostsOnlySkipped
<1> QED  BY <1>1, CollectionInit, CollectionStep, TwinsInit, TwinsStep, RepeatsInit, RepeatsStep, PTL DEF Spec
=============================================================================
