------------------------------ MODULE Chunkers ------------------------------
(***************************************************************************)
(* How the RAG service turns a file into chunks: the Markdown loader, the   *)
(* normaliser and the three chunkers of services/rag/src/rag/ingestion.     *)
(*                                                                          *)
(* A text is a sequence of units.  A positive number is a unit of visible   *)
(* text (line n of the file gives the units 10n, 10n + 1, ...); the three   *)
(* other units are the places the splitters look for: a sentence end, a     *)
(* blank line, and the line break before a `#'.  Every unit has width one.  *)
(***************************************************************************)
EXTENDS Integers, Sequences, FiniteSets, SequencesExt

SentenceEnd == 0
Paragraph   == -1
Heading     == -2

Visible(text) == SelectSeq(text, LAMBDA u : u > 0)

(* text.strip(): no separator at either end. *)
Strip(text) ==
  LET ink == {i \in DOMAIN text : text[i] > 0}
  IN  IF ink = {} THEN <<>>
      ELSE SubSeq(text, CHOOSE i \in ink : \A j \in ink : i <= j,
                        CHOOSE i \in ink : \A j \in ink : j <= i)

(***************************************************************************)
(* load_markdown: a line is a heading, a code fence, blank, a sentence, or  *)
(* a long sentence.  The fold carries the loop's locals.                    *)
(***************************************************************************)
Units(line, kind) ==
  IF kind = "long" THEN [k \in 1..3 |-> 10 * line + k - 1] ELSE <<10 * line>>

(* "\n".join(buffer) once normalize_text has collapsed runs of blank lines. *)
Append2Buffer(buffer, line, kind, fenced) ==
  IF kind = "blank"
  THEN IF buffer = <<>> \/ Last(buffer) = Paragraph THEN buffer
       ELSE (IF Last(buffer) = SentenceEnd THEN Front(buffer) ELSE buffer)
              \o <<Paragraph>>
  ELSE buffer \o (IF fenced /\ kind = "head" THEN <<Heading>> ELSE <<>>)
              \o Units(line, kind)
              \o (IF kind = "fence" \/ fenced THEN <<>> ELSE <<SentenceEnd>>)

(* flush(): a section with no text gives no block. *)
Flush(s) ==
  IF Strip(s.buffer) = <<>> THEN [s EXCEPT !.buffer = <<>>]
  ELSE [s EXCEPT !.blocks = Append(@, [heading |-> s.heading, text |-> Strip(s.buffer)]),
                 !.buffer = <<>>]

LoadLine(lines, s, i) ==
  CASE lines[i] = "fence" ->
         [s EXCEPT !.fenced = ~@, !.buffer = Append2Buffer(@, i, "fence", s.fenced)]
    [] lines[i] = "head" /\ ~s.fenced -> [Flush(s) EXCEPT !.heading = i]
    [] OTHER -> [s EXCEPT !.buffer = Append2Buffer(@, i, lines[i], s.fenced)]

LoadMarkdown(lines) ==
  Flush(FoldLeft(LAMBDA s, i : LoadLine(lines, s, i),
                 [blocks |-> <<>>, heading |-> 0, buffer |-> <<>>, fenced |-> FALSE],
                 [i \in DOMAIN lines |-> i])).blocks

-----------------------------------------------------------------------------
(* The hard character cut the last level of every splitter falls back on. *)
HardCut(text, size) ==
  [k \in 1..((Len(text) + size - 1) \div size) |->
     SubSeq(text, (k - 1) * size + 1,
            IF k * size < Len(text) THEN k * size ELSE Len(text))]

(* FixedSizeChunker.split_text: windows of `size' that step by size - overlap. *)
FixedWindows(text, size, overlap) ==
  LET step  == size - overlap
      count == IF Len(text) <= size THEN 1
               ELSE 1 + (Len(text) - size + step - 1) \div step
  IN  IF text = <<>> THEN <<>>
      ELSE [k \in 1..count |->
              SubSeq(text, (k - 1) * step + 1,
                     IF (k - 1) * step + size < Len(text)
                     THEN (k - 1) * step + size ELSE Len(text))]

(* [p.strip() for p in sep.split(text) if p.strip()] *)
Parts(text, sep) ==
  LET cut == FoldLeft(LAMBDA a, u : IF u = sep
                                    THEN [done |-> Append(a.done, a.part), part |-> <<>>]
                                    ELSE [a EXCEPT !.part = Append(@, u)],
                      [done |-> <<>>, part |-> <<>>], text)
      all == Append(cut.done, cut.part)
  IN  SelectSeq([i \in DOMAIN all |-> Strip(all[i])], LAMBDA p : p # <<>>)

(* Mutant: the last buffer is not flushed. *)
MergeFull(parts, size, joiner) ==
  LET Step(a, part) ==
        LET candidate == IF a.buffer = <<>> THEN part ELSE a.buffer \o <<joiner>> \o part
        IN  IF a.buffer # <<>> /\ Len(candidate) > size
            THEN [merged |-> Append(a.merged, a.buffer), buffer |-> part]
            ELSE [a EXCEPT !.buffer = candidate]
  IN  FoldLeft(Step, [merged |-> <<>>, buffer |-> <<>>], parts).merged

MergeToBudget(parts, size, joiner) ==
  LET Step(a, part) ==
        LET candidate == IF a.buffer = <<>> THEN part ELSE a.buffer \o <<joiner>> \o part
        IN  IF a.buffer # <<>> /\ Len(candidate) > size
            THEN [merged |-> Append(a.merged, a.buffer), buffer |-> part]
            ELSE [a EXCEPT !.buffer = candidate]
      end == FoldLeft(Step, [merged |-> <<>>, buffer |-> <<>>], parts)
  IN  IF end.buffer = <<>> THEN end.merged ELSE Append(end.merged, end.buffer)

(* One level of RecursiveChunker._split; Deeper is the next one. *)
SplitLevel(text, size, sep, Deeper(_)) ==
  LET parts  == Parts(text, sep)
      merged == MergeToBudget(parts, size, sep)
  IN  CASE Len(text) <= size -> <<text>>
        [] Len(text) > size /\ Len(parts) <= 1 -> Deeper(text)
        [] OTHER -> FlattenSeq([i \in DOMAIN merged |->
                      IF Len(merged[i]) <= size THEN <<merged[i]>> ELSE Deeper(merged[i])])

(* RecursiveChunker: headings, then paragraphs, then sentences, then a cut. *)
RecursiveSplit(text, size) ==
  LET Sentences(t)  == SplitLevel(t, size, SentenceEnd, LAMBDA u : HardCut(u, size))
      Paragraphs(t) == SplitLevel(t, size, Paragraph, Sentences)
  IN  IF Strip(text) = <<>> THEN <<>>
      ELSE SplitLevel(Strip(text), size, Heading, Paragraphs)

(* SemanticChunker: `topics' holds the sentences that open a new topic. *)
SemanticSplit(text, size, topics) ==
  LET sentences == Parts(Strip(text), SentenceEnd)
      Step(runs, i) == IF i = 1 \/ i \in topics
                       THEN Append(runs, sentences[i])
                       ELSE Append(Front(runs), Last(runs) \o <<SentenceEnd>> \o sentences[i])
      runs   == FoldLeft(Step, <<>>, [i \in DOMAIN sentences |-> i])
      merged == MergeToBudget(runs, size, Paragraph)
  IN  CASE Strip(text) = <<>> -> <<>>
        [] Strip(text) # <<>> /\ Len(Strip(text)) <= size -> <<Strip(text)>>
        [] Len(Strip(text)) > size /\ Len(sentences) <= 1 -> HardCut(Strip(text), size)
        [] OTHER -> FlattenSeq([i \in DOMAIN merged |->
                      IF Len(merged[i]) <= size THEN <<merged[i]>>
                      ELSE HardCut(merged[i], size)])

(* chunk_document: pieces are the texts each block was split into, and the *)
(* ordinals run over the blocks.                                           *)
ChunkDocument(blocks, pieces) ==
  LET filed(b) == [i \in DOMAIN pieces[b] |->
                      [heading |-> blocks[b].heading, text |-> pieces[b][i]]]
      all == FlattenSeq([b \in DOMAIN blocks |-> filed(b)])
  IN  [n \in DOMAIN all |-> all[n] @@ [ordinal |-> n - 1]]
=============================================================================
