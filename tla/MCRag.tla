------------------------------- MODULE MCRag --------------------------------
EXTENDS RagServing, Chunkers, TLC

(* f1 is rewritten with a paragraph in front, so that its ordinals shift;   *)
(* b and c are near-duplicates, and a is in two files.                      *)
MCDrafts == ("f1" :> <<<<"a">>, <<"c", "a">>>>) @@ ("f2" :> <<<<"a", "b">>>>)
MCNear == {{"b", "c"}}
MCSettings == {[model |-> "m", chunking |-> "x"], [model |-> "n", chunking |-> "x"]}
MCPaths == {{"f1"}, {"f1", "f2"}}

(* A sentence that cites two passages, two of which one cites, and one that *)
(* cites a passage that was never retrieved.                                 *)
MCReplies == {<<{1, 2}>>, <<{1}, {}>>, <<{3}>>}

-----------------------------------------------------------------------------
(* The files the chunking is checked on: every file of up to four lines.     *)
Lines == UNION {[1..n -> {"head", "fence", "blank", "short", "long"}] : n \in 0..4}

InFence(lines, i) == Cardinality({j \in 1..(i - 1) : lines[j] = "fence"}) % 2 = 1
IsHeading(lines, i) == lines[i] = "head" /\ ~InFence(lines, i)
HeadingOf(lines, i) ==
  LET above == {j \in 1..i : IsHeading(lines, j)}
  IN  IF above = {} THEN 0 ELSE CHOOSE j \in above : \A k \in above : k <= j
Body(lines) == FlattenSeq([i \in DOMAIN lines |->
                 IF lines[i] = "blank" \/ IsHeading(lines, i) THEN <<>>
                 ELSE Units(i, lines[i])])

Filed(lines, chunks, size) ==
  \A n \in DOMAIN chunks :
    /\ chunks[n].ordinal = n - 1
    /\ Len(chunks[n].text) \in 1..size
    /\ \A u \in ToSet(Visible(chunks[n].text)) : HeadingOf(lines, u \div 10) = chunks[n].heading

Told(chunks) == FlattenSeq([n \in DOMAIN chunks |-> Visible(chunks[n].text)])

(* However a file is cut, its chunks tell its body once and in order (or, in *)
(* overlapping windows, leave none of it out), none is empty or longer than  *)
(* chunk_size, and each is filed under the heading its text stands under: a  *)
(* `#' inside a code fence is no heading (ingestion/loaders.py, chunkers.py).*)
(* It is about no variable, so it is evaluated before anything has started.  *)
EveryLineIsChunked ==
  work = MaxWork => \A lines \in Lines : \A size \in 2..4 :
    LET blocks == LoadMarkdown(lines)
        text == [b \in DOMAIN blocks |-> blocks[b].text]
        recursive == ChunkDocument(blocks, [b \in DOMAIN text |-> RecursiveSplit(text[b], size)])
    IN  /\ Filed(lines, recursive, size) /\ Told(recursive) = Body(lines)
        /\ \A topics \in SUBSET {2, 3} :
             LET chunks == ChunkDocument(blocks, [b \in DOMAIN text |-> SemanticSplit(text[b], size, topics)])
             IN  Filed(lines, chunks, size) /\ Told(chunks) = Body(lines)
        /\ \A overlap \in 0..(size - 1) :
             LET chunks == ChunkDocument(blocks, [b \in DOMAIN text |-> FixedWindows(text[b], size, overlap)])
             IN  Filed(lines, chunks, size) /\ ToSet(Told(chunks)) = ToSet(Body(lines))
=============================================================================
