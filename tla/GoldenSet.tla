----------------------------- MODULE GoldenSet ------------------------------
(***************************************************************************)
(* How the golden set comes about (eval/dataset/): synthesize has a model    *)
(* draft questions from chunks of files that have none yet, review asks a    *)
(* person about each draft, and every accepted row, like every row written   *)
(* by hand, is given a split.  Three commands that share three files; each   *)
(* reads them when it starts and may be killed between two writes.           *)
(***************************************************************************)
EXTENDS Integers, Sequences, SequencesExt, FiniteSets, FiniteSetsExt

CONSTANTS Sources,      \* the files of the collection with an eligible chunk
          Categories,   \* "lookup" among them, which every draft is
          MaxHand,      \* bound: the rows written by hand
          MaxCommands   \* bound: how often a command is started
Nobody == [id |-> 0, source |-> "none"]
Open == "none"          \* a row without a split

VARIABLES golden,      \* golden_set.jsonl
          candidates,  \* candidates_unverified.jsonl: the drafts nobody judged
          rejects,     \* synthetic_rejects.jsonl
          syn, rev,    \* the locals of synthesize and of review
          drafts,      \* the drafts a model was paid for
          commands,    \* how many commands were started
          mixed, cut   \* history: commands overlapped; a review died between two writes
setVars == <<golden, candidates, rejects, syn, rev, drafts, commands, mixed, cut>>

SynIdle == [pc |-> "idle", cid |-> 0, chunks |-> <<>>]
RevIdle == [pc |-> "idle", pending |-> <<>>, todo |-> <<>>, lines |-> <<>>]

SetInit == /\ golden = <<>> /\ candidates = <<>> /\ rejects = <<>>
           /\ syn = SynIdle /\ rev = RevIdle
           /\ drafts = {} /\ commands = 0 /\ mixed = FALSE /\ cut = FALSE

StartsCommand == /\ commands < MaxCommands /\ commands' = commands + 1
                 /\ mixed' = (mixed \/ syn.pc # "idle" \/ rev.pc # "idle")

-----------------------------------------------------------------------------
(* assign_splits.  The rows are filled in an order a hash of the ids fixes:  *)
(* any choice of that many of them.                                         *)
DevTarget(n) == (4 * n + 5) \div 10          \* DEV_SHARE, rounded half up

DevWanted(rows, category) ==
  LET members == {n \in DOMAIN rows : rows[n].category = category}
      dev == {n \in members : rows[n].split = "dev"}
      todo == {n \in members : rows[n].split = Open}
      want == DevTarget(Cardinality(members)) - Cardinality(dev)
  IN  Max({0, Min({want, Cardinality(todo)})})

WithSplits(rows) ==
  LET open == {n \in DOMAIN rows : rows[n].split = Open}
  IN  {[n \in DOMAIN rows |-> IF n \notin open THEN rows[n]
          ELSE [rows[n] EXCEPT !.split = IF n \in dev THEN "dev" ELSE "test"]] :
         dev \in {d \in SUBSET open : \A c \in Categories :
                    Cardinality({n \in d : rows[n].category = c}) = DevWanted(rows, c)}}

-----------------------------------------------------------------------------
(* synthesize.run: the files that gave a draft before are skipped, the       *)
(* others asked for in any order; a draft's id is past those that are        *)
(* pending or rejected.                                                     *)
Skipped == {c.source : c \in ToSet(candidates) \cup ToSet(rejects)}
             \cup {r.source : r \in ToSet(golden)}
NextId(s) == Max({0} \cup {c.id : c \in ToSet(s)}) + 1

Synthesize ==
  /\ syn.pc = "idle" /\ StartsCommand
  /\ \E chosen \in SUBSET (Sources \ Skipped) : \E order \in SetToSeqs(chosen) :
       syn' = [pc |-> "draft", cid |-> NextId(candidates \o rejects), chunks |-> order]
  /\ UNCHANGED <<golden, candidates, rejects, rev, drafts, cut>>

Draft ==
  /\ syn.pc = "draft" /\ syn.chunks # <<>>
  /\ \/ LET c == [id |-> syn.cid, source |-> Head(syn.chunks)]
        IN  /\ candidates' = Append(candidates, c)
            /\ drafts' = drafts \cup {c}
            /\ syn' = [syn EXCEPT !.cid = @ + 1, !.chunks = Tail(@)]
     \/ /\ syn' = [syn EXCEPT !.chunks = Tail(@)]       \* LLMError
        /\ UNCHANGED <<candidates, drafts>>
  /\ UNCHANGED <<golden, rejects, rev, commands, mixed, cut>>

(* Nothing left to draft, the cap reached, or a kill. *)
SynEnds ==
  /\ syn.pc = "draft" /\ syn' = SynIdle
  /\ UNCHANGED <<golden, candidates, rejects, rev, drafts, commands, mixed, cut>>

-----------------------------------------------------------------------------
(* review: the drafts are read once; each answer is written down at once.    *)
Review ==
  /\ rev.pc = "idle" /\ candidates # <<>> /\ StartsCommand
  /\ rev' = [RevIdle EXCEPT !.pc = "ask", !.pending = candidates, !.todo = candidates]
  /\ UNCHANGED <<golden, candidates, rejects, syn, drafts, cut>>

Current == Head(rev.todo)

(* accept: the row is written without a split first, under the next id. *)
Accept ==
  /\ rev.pc = "ask" /\ rev.todo # <<>>
  /\ LET row == [id |-> NextId(golden), source |-> Current.source,
                 category |-> "lookup", split |-> Open]
     IN  /\ golden' = Append(golden, row)
         /\ rev' = [rev EXCEPT !.pc = "split", !.lines = golden']
  /\ UNCHANGED <<candidates, rejects, syn, drafts, commands, mixed, cut>>

Split ==
  /\ rev.pc = "split"
  /\ golden' \in WithSplits(rev.lines)
  /\ rev' = [rev EXCEPT !.pc = "save", !.lines = <<>>]
  /\ UNCHANGED <<candidates, rejects, syn, drafts, commands, mixed, cut>>

Reject ==
  /\ rev.pc = "ask" /\ rev.todo # <<>>
  /\ rejects' = Append(rejects, Current)
  /\ rev' = [rev EXCEPT !.pc = "save"]
  /\ UNCHANGED <<golden, candidates, syn, drafts, commands, mixed, cut>>

(* Mutant: what was skipped is left out. *)
ButSkipped(pending) == SelectSeq(pending, LAMBDA c : c \in ToSet(rev.todo))

(* save: the file becomes what this review still has pending. *)
SavedAs(pending) == pending

Save ==
  /\ rev.pc = "save"
  /\ LET left == SelectSeq(rev.pending, LAMBDA c : c # Current)
     IN  /\ candidates' = SavedAs(left)
         /\ rev' = [rev EXCEPT !.pc = "ask", !.pending = left, !.todo = Tail(@)]
  /\ UNCHANGED <<golden, rejects, syn, drafts, commands, mixed, cut>>

(* An edit is saved and the draft asked about again. *)
Edit ==
  /\ rev.pc = "ask" /\ rev.todo # <<>> /\ candidates' = SavedAs(rev.pending)
  /\ UNCHANGED <<golden, rejects, syn, rev, drafts, commands, mixed, cut>>

Skip ==
  /\ rev.pc = "ask" /\ rev.todo # <<>> /\ rev' = [rev EXCEPT !.todo = Tail(@)]
  /\ UNCHANGED <<golden, candidates, rejects, syn, drafts, commands, mixed, cut>>

(* The last draft, [q]uit, or a kill, which may come between two writes. *)
RevEnds ==
  /\ rev.pc # "idle" /\ rev' = RevIdle
  /\ cut' = (cut \/ rev.pc # "ask")
  /\ UNCHANGED <<golden, candidates, rejects, syn, drafts, commands, mixed>>

-----------------------------------------------------------------------------
(* A row written by hand, and validate --assign-splits.                     *)
Hand(r) == r.source = "none"
WriteByHand(category) ==
  /\ Cardinality({n \in DOMAIN golden : Hand(golden[n])}) < MaxHand
  /\ golden' = Append(golden, [id |-> 0, source |-> "none", category |-> category, split |-> Open])
  /\ UNCHANGED <<candidates, rejects, syn, rev, drafts, commands, mixed, cut>>

AssignSplits ==
  /\ golden' \in WithSplits(golden)
  /\ UNCHANGED <<candidates, rejects, syn, rev, drafts, commands, mixed, cut>>

SetNext == \/ Synthesize \/ Draft \/ SynEnds
           \/ Review \/ Accept \/ Split \/ Reject \/ Save \/ Edit \/ Skip \/ RevEnds
           \/ \E c \in Categories : WriteByHand(c)
           \/ AssignSplits

-----------------------------------------------------------------------------
(* A draft that was paid for is pending, accepted or rejected, whatever is   *)
(* killed: unless a review's save wrote over what was drafted meanwhile      *)
(* (review.py:106-109).  No file gives two questions, and no rejected draft  *)
(* is in the golden set: unless a review died between the write that accepts *)
(* or rejects a draft and the one that takes it off the list.  And whenever  *)
(* every row has its split, the dev rows of each category are the share the  *)
(* set is meant to have, however the rows came in (validate.py:178-204).     *)
GoldenSetIsSound ==
  /\ ~mixed => \A d \in drafts :
       \/ d \in ToSet(candidates) \cup ToSet(rejects)
       \/ \E r \in ToSet(golden) : r.source = d.source
  /\ ~mixed /\ ~cut => \A s \in Sources :
       Cardinality({n \in DOMAIN golden : golden[n].source = s})
         + Cardinality({n \in DOMAIN rejects : rejects[n].source = s}) <= 1
  /\ \A c \in Categories :
       LET rows == {n \in DOMAIN golden : golden[n].category = c}
       IN  (\A n \in rows : golden[n].split # Open) =>
             Cardinality({n \in rows : golden[n].split = "dev"}) = DevTarget(Cardinality(rows))
=============================================================================
