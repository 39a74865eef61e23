--------------------------- MODULE RagEvalProofs ---------------------------
(***************************************************************************)
(* Theorems about RagEval, for any questions, answers, prices, caps and     *)
(* commands, and any number of kills, faults, redeploys and overlaps.       *)
(***************************************************************************)
EXTENDS RagEval, TLAPS, WellFoundedInduction, SequenceTheorems, FiniteSetTheorems

(* The types.                                                              *)
Pairs == ToSet(Items)
Kinds == {"correctness", "faithfulness"}
FailedRecord == [item : Pairs, error : {TRUE}]
Hit == [item : Pairs, error : {FALSE}, under : Configs]
Answer == [item : Pairs, error : {FALSE}, refused : BOOLEAN, contexts : BOOLEAN,
           verdicts : SUBSET Kinds, id : Pairs \X Nat, under : Configs]
RecordOf(s) == FailedRecord \cup (IF s = "retrieval" THEN Hit ELSE Answer)

Steps == {"opening", "checking", "begin", "next", "judge", "append"}
Looping == {"next", "judge", "append"}

QueueType(q, s) ==
  /\ q = [n \in DOMAIN q |-> q[n]] /\ DOMAIN q \subseteq DOMAIN Items
  /\ \A n \in DOMAIN q : \/ q[n] = Fresh
                         \/ q[n] \in RecordOf(s) /\ q[n].item = Items[n]

CommandType(p, s) ==
  /\ p \in [pc : Over \cup Steps, config : Configs \cup {NoConfig},
            run : [STAGES -> Configs \cup {NoConfig}],
            queue : {p.queue}, record : {p.record}, todo : SUBSET Kinds,
            stop : BOOLEAN, errors : BOOLEAN, spent : Nat, paid : Nat, lost : Nat,
            rc : {0, 1, NoReturn}]
  /\ QueueType(p.queue, s)
  /\ p.pc \in {"opening", "checking", "begin"} => p.config \in Configs
  /\ p.pc \in {"judge", "append"} =>
       /\ p.queue # <<>>
       /\ p.record \in RecordOf(s) /\ p.record.item = Items[First(p.queue)]
  /\ p.pc = "judge" => s = "answers" /\ p.record \in Answer
  /\ p.rc # NoReturn => p.pc = "done"

TypeInv ==
  /\ config \in Configs
  /\ runJson \in [STAGES -> Configs \cup {NoConfig}]
  /\ file = [s \in STAGES |-> file[s]]
  /\ \A s \in STAGES : file[s] \in Seq(RecordOf(s))
  /\ collect = [c \in Collects |-> collect[c]]
  /\ \A c \in Collects : CommandType(collect[c], Stage[c])
  /\ answered \in [Pairs -> Nat] /\ orphaned \in [Pairs -> Nat]
  /\ met \subseteq Collects /\ raced \in BOOLEAN

(* The budget hears of all that is paid but for the asks that were lost.   *)
BudgetInv(c) ==
  /\ collect[c].pc \notin {"done", "refused", "dead"} =>
       /\ collect[c].paid <= collect[c].spent + collect[c].lost * AskReserve
       /\ collect[c].spent <= Cap[c]
  /\ collect[c].paid <= Cap[c] + collect[c].lost * AskReserve

(* Commands of one stage that are at work together have met.               *)
MetInv ==
  \A c, d \in Collects :
    c # d /\ Busy(c) /\ Busy(d) /\ Stage[c] = Stage[d] => c \in met /\ d \in met

(* Unless commands met, what one read is what the file says still, and     *)
(* each answer of an item was lost, is recorded or is in somebody's hands. *)
ReadInv ==
  \A c \in Collects : collect[c].pc \in Looping =>
    \A n \in DOMAIN collect[c].queue : collect[c].queue[n] = Latest(Stage[c], Items[n])

HandInv ==
  \A c \in Collects : collect[c].pc = "append" /\ Stage[c] = "answers" /\ collect[c].record.error
    => Before(c).error

Hand(i) == \E c \in Collects : InHand(c) /\ Item(c) = i
Held(i) == (IF Latest("answers", i).error THEN 0 ELSE 1) + (IF Hand(i) THEN 1 ELSE 0)
AnswerInv == met = {} => ReadInv /\ \A i \in Pairs : answered[i] <= orphaned[i] + Held(i)

(* A command that met none of its stage has recorded what is not in its    *)
(* queue, and nothing is left to do in a stage once one returned 0.        *)
RecordInv(c) ==
  /\ collect[c].pc = "judge" => collect[c].errors \/ needs_verdicts(collect[c].record) \subseteq collect[c].todo
  /\ collect[c].pc = "append" /\ ~collect[c].errors /\ ~collect[c].stop =>
       Stage[c] = "retrieval" /\ ~collect[c].record.error
  /\ collect[c].stop => collect[c].pc = "append"
WorkInv(c) ==
  /\ collect[c].pc \in Looping => Stage[c] \notin torn
  /\ collect[c].pc \in Looping /\ ~collect[c].errors =>
       \A n \in DOMAIN Items : n \in DOMAIN collect[c].queue \/ Recorded(Stage[c], Items[n])
SealInv(c) ==
  collect[c].rc = 0 =>
    /\ \A n \in DOMAIN Items : Recorded(Stage[c], Items[n])
    /\ Stage[c] \notin torn
    /\ \A d \in Collects : Stage[d] = Stage[c] /\ collect[d].pc \in Looping =>
         collect[d].pc = "next" /\ collect[d].queue = <<>>
DoneInv == \A c \in Collects : RecordInv(c) /\ (c \notin met => WorkInv(c) /\ SealInv(c))

(* Unless the service moved under it, what a stage holds was measured under *)
(* its snapshot; unless two raced to write it, a snapshot stays.            *)
FileUnder(s) == \A n \in DOMAIN file[s] :
                  ~file[s][n].error => file[s][n].under = runJson[s] /\ runJson[s] # NoConfig
CommandUnder(c) ==
  LET p == collect[c]
      snapshot == runJson[Stage[c]]
  IN  /\ p.pc \in {"opening", "checking", "begin"} => p.config = config
      /\ p.pc \in {"begin"} \cup Looping => snapshot = config
      /\ \A n \in DOMAIN p.queue : ~p.queue[n].error => p.queue[n].under = snapshot
      /\ p.pc \in {"judge", "append"} /\ ~p.record.error => p.record.under = snapshot
UnderOne(s) == FileUnder(s) /\ \A c \in Collects : Stage[c] = s => CommandUnder(c)
SnapshotInv ==
  ~raced =>
    /\ \A s \in STAGES \ moved : UnderOne(s)
    /\ \A c \in Collects : collect[c].pc = "checking" =>
         \A s \in STAGES : collect[c].run[s] # NoConfig => collect[c].run[s] = runJson[s]
    /\ \A s, t \in STAGES : NoConfig \notin {runJson[s], runJson[t]} => SameCollection(runJson[s], runJson[t])

-----------------------------------------------------------------------------
(* Questions, queues and files.                                            *)

LEMMA ItemsFacts ==
  /\ DOMAIN Items = 1..Len(Items) /\ Len(Items) \in Nat
  /\ \A n \in DOMAIN Items : Items[n] \in Pairs
  /\ \A i \in Pairs : \E n \in DOMAIN Items : Items[n] = i
  BY ItemsAssumption DEF Pairs, ToSet

LEMMA SmallestOf ==
  ASSUME NEW S \in SUBSET Nat, S # {}
  PROVE  \E n \in S : \A m \in S : n <= m
<1> DEFINE R == OpToRel(<, Nat)
<1>1. \A x, y \in Nat : <<y, x>> \in R <=> y < x
  BY DEF OpToRel
<1>2. IsWellFoundedOn(R, Nat)
  BY NatLessThanWellFounded
<1> HIDE DEF R
<1>3. S \subseteq Nat
  OBVIOUS
<1>4. PICK n \in S : \A m \in S : ~(<<m, n>> \in R)
  BY <1>2, <1>3, WFMin
<1>5. \A m \in S : m \in Nat /\ n \in Nat /\ ~(m < n)
  BY <1>1, <1>3, <1>4
<1> QED  BY <1>5

LEMMA FirstOf ==
  ASSUME NEW q, DOMAIN q \subseteq DOMAIN Items, DOMAIN q # {}
  PROVE  First(q) \in DOMAIN q
<1>1. DOMAIN q \in SUBSET Nat
  BY ItemsFacts
<1>2. \E n \in DOMAIN q : \A m \in DOMAIN q : n <= m
  BY <1>1, SmallestOf
<1> QED  BY <1>2 DEF First

LEMMA Emptied == /\ \A s : QueueType(<<>>, s) /\ DOMAIN <<>> = {}
                 /\ \A q, s : QueueType(q, s) /\ q # <<>> => DOMAIN q # {}
<1>1. DOMAIN <<>> = {} /\ <<>> = [n \in {} |-> <<>>[n]]
  OBVIOUS
<1>2. ASSUME NEW q, q = [n \in DOMAIN q |-> q[n]], DOMAIN q = {} PROVE q = <<>>
  <2>1. q \in [1..0 -> {}]
    BY <1>2
  <2>2. q \in Seq({}) /\ Len(q) = 0
    BY <2>1
  <2> QED  BY <2>2, EmptySeq
<1> QED  BY <1>1, <1>2 DEF QueueType

LEMMA QueueFirst ==
  ASSUME NEW q, NEW s, QueueType(q, s), q # <<>>
  PROVE  /\ First(q) \in DOMAIN q /\ First(q) \in DOMAIN Items
         /\ QueueType(Rest(q), s) /\ DOMAIN Rest(q) = DOMAIN q \ {First(q)}
         /\ \A n \in DOMAIN Rest(q) : Rest(q)[n] = q[n]
<1>1. DOMAIN q # {}
  BY Emptied
<1>2. First(q) \in DOMAIN q
  BY <1>1, FirstOf DEF QueueType
<1> QED  BY <1>2 DEF QueueType, Rest, Restrict

(* The last line about an item.                                            *)
Lines(s, i) == {n \in DOMAIN file[s] : file[s][n].item = i}

LEMMA Largest ==
  ASSUME NEW S, NEW k \in Nat, S \subseteq 1..k, S # {}
  PROVE  \E n \in S : \A m \in S : m <= n
<1> DEFINE T == {j \in 0..k : \E n \in S : j = k - n}
<1>1. T \in SUBSET Nat /\ T # {}
  <2>1. PICK n \in S : TRUE
    OBVIOUS
  <2>2. n \in 1..k
    BY <2>1
  <2>3. k - n \in T
    BY <2>2
  <2>4. T \subseteq Nat
    OBVIOUS
  <2> HIDE DEF T
  <2> QED  BY <2>3, <2>4
<1>2. PICK j \in T : \A l \in T : j <= l
  <2> HIDE DEF T
  <2> QED  BY <1>1, SmallestOf
<1>3. PICK n \in S : j = k - n
  BY <1>2
<1>4. ASSUME NEW m \in S PROVE m <= n
  <2>1. k - m \in T
    OBVIOUS
  <2> QED  BY <2>1, <1>2, <1>3
<1> QED  BY <1>4

LastOf(f, of) == IF of = {} THEN Fresh ELSE f[CHOOSE n \in of : \A m \in of : m <= n]

LEMMA LatestIs == \A s, i : Latest(s, i) = LastOf(file[s], Lines(s, i))
  BY DEF Latest, LastOf, Lines
LEMMA LatestNext == \A s, i : Latest(s, i)' = LastOf(file'[s], Lines(s, i)')
  BY DEF Latest, LastOf, Lines

LEMMA LatestOf ==
  ASSUME TypeInv, NEW s \in STAGES, NEW i \in Pairs
  PROVE  \/ Latest(s, i) = Fresh /\ Lines(s, i) = {}
         \/ /\ Latest(s, i) \in RecordOf(s) /\ Latest(s, i).item = i
            /\ \E n \in DOMAIN file[s] : Latest(s, i) = file[s][n]
<1>1. CASE Lines(s, i) = {}
  BY <1>1 DEF Latest, Lines
<1>2. CASE Lines(s, i) # {}
  <2>1. file[s] \in Seq(RecordOf(s)) /\ Len(file[s]) \in Nat /\ DOMAIN file[s] = 1..Len(file[s])
    BY DEF TypeInv
  <2>2. PICK n \in Lines(s, i) : Latest(s, i) = file[s][n]
    <3>1. Lines(s, i) \subseteq 1..Len(file[s])
      BY <2>1 DEF Lines
    <3>2. \E n \in Lines(s, i) : \A m \in Lines(s, i) : m <= n
      BY <3>1, <2>1, <1>2, Largest
    <3> QED  BY <3>2, <1>2 DEF Latest, Lines
  <2> QED  BY <2>1, <2>2 DEF Lines
<1> QED  BY <1>1, <1>2

LEMMA Appended ==
  ASSUME TypeInv, NEW s \in STAGES, NEW r \in RecordOf(s), file' = [file EXCEPT ![s] = Append(@, r)]
  PROVE  /\ \A t \in STAGES : file'[t] \in Seq(RecordOf(t))
         /\ file' = [t \in STAGES |-> file'[t]]
         /\ \A t \in STAGES, i \in Pairs :
              Latest(t, i)' = IF t = s /\ i = r.item THEN r ELSE Latest(t, i)
         /\ \A t \in STAGES : \A n \in DOMAIN file'[t] :
              \/ n \in DOMAIN file[t] /\ file'[t][n] = file[t][n]
              \/ t = s /\ file'[t][n] = r
<1>1. file[s] \in Seq(RecordOf(s)) /\ Len(file[s]) \in Nat /\ DOMAIN file[s] = 1..Len(file[s])
  BY DEF TypeInv
<1>2. /\ file' = [t \in STAGES |-> file'[t]]
      /\ file'[s] = Append(file[s], r)
      /\ \A t \in STAGES \ {s} : file'[t] = file[t]
  BY DEF TypeInv
<1>3. /\ file'[s] \in Seq(RecordOf(s)) /\ DOMAIN file'[s] = 1..(Len(file[s]) + 1)
      /\ file'[s][Len(file[s]) + 1] = r
      /\ \A n \in 1..Len(file[s]) : file'[s][n] = file[s][n]
  BY <1>1, <1>2
<1>4. ASSUME NEW t \in STAGES, NEW i \in Pairs, ~(t = s /\ i = r.item)
      PROVE  Latest(t, i)' = Latest(t, i)
  <2>1. CASE t # s
    <3>1. file'[t] = file[t]
      BY <2>1, <1>2
    <3>2. Lines(t, i)' = Lines(t, i)
      BY <3>1 DEF Lines
    <3> QED  BY <3>1, <3>2, LatestIs, LatestNext
  <2>2. CASE t = s /\ i # r.item
    <3>1. Lines(t, i)' = Lines(t, i)
      BY <2>2, <1>3, <1>1 DEF Lines
    <3>2. \A n \in Lines(t, i) : file'[t][n] = file[t][n]
      BY <2>2, <1>3, <1>1 DEF Lines
    <3>3. Latest(t, i)' = LastOf(file'[t], Lines(t, i)) /\ Latest(t, i) = LastOf(file[t], Lines(t, i))
      BY <3>1, LatestIs, LatestNext
    <3>4. Lines(t, i) # {} => \E n \in Lines(t, i) : \A m \in Lines(t, i) : m <= n
      <4>1. Lines(t, i) \subseteq 1..Len(file[s]) /\ Len(file[s]) \in Nat
        BY <2>2, <1>1 DEF Lines
      <4> QED  BY <4>1, Largest
    <3> QED  BY <3>2, <3>3, <3>4 DEF LastOf
  <2> QED  BY <1>4, <2>1, <2>2
<1>5. ASSUME r.item \in Pairs PROVE Latest(s, r.item)' = r
  <2> DEFINE L == Len(file[s]) + 1
             of == {n \in DOMAIN file'[s] : file'[s][n].item = r.item}
  <2>1. L \in of /\ \A m \in of : m \in Nat /\ m <= L
    BY <1>1, <1>3
  <2>2. Latest(s, r.item)' = file'[s][CHOOSE n \in of : \A m \in of : m <= n]
    BY <2>1 DEF Latest
  <2>3. (CHOOSE n \in of : \A m \in of : m <= n) = L
    <3> HIDE DEF of
    <3>1. L \in Nat
      BY <1>1
    <3> HIDE DEF L
    <3>2. PICK n \in of : n = (CHOOSE x \in of : \A m \in of : m <= x) /\ \A m \in of : m <= n
      BY <2>1
    <3>3. n = L
      BY <3>1, <3>2, <2>1
    <3> QED  BY <3>2, <3>3
  <2> QED  BY <2>2, <2>3, <1>3
<1> QED  BY <1>1, <1>2, <1>3, <1>4, <1>5 DEF TypeInv

-----------------------------------------------------------------------------
(* What a step does to the command that takes it.                          *)

OneMoves(c) ==
  /\ collect' = [d \in Collects |-> collect'[d]]
  /\ \A d \in Collects \ {c} : collect'[d] = collect[d]
  /\ CommandType(collect'[c], Stage[c])

LEMMA OneCommand ==
  ASSUME TypeInv, NEW c \in Collects, NEW q, collect' = [collect EXCEPT ![c] = q],
         CommandType(q, Stage[c])
  PROVE  OneMoves(c) /\ collect'[c] = q
  BY DEF TypeInv, OneMoves

(* What is left of a command that ended.                                   *)
Ends(c) ==
  LET p == collect[c]
      q == collect'[c]
  IN  /\ q.pc \in {"done", "refused", "dead"} /\ q.rc \in {0, 1, NoReturn}
      /\ q.rc # NoReturn => q.pc = "done"
      /\ q.queue = <<>> /\ q.record = Fresh /\ q.spent = 0
      /\ ~q.stop /\ ~q.errors /\ q.paid = p.paid /\ q.lost = p.lost

LEMMA EndedDoes ==
  ASSUME TypeInv, NEW c \in Collects, NEW pc \in {"refused", "dead"},
         collect' = [collect EXCEPT ![c] = Ended(collect[c], pc)]
  PROVE  OneMoves(c) /\ Ends(c) /\ collect'[c].pc = pc /\ collect'[c].rc = NoReturn
<1>1. CommandType(collect[c], Stage[c])
  BY DEF TypeInv
<1> DEFINE q == Ended(collect[c], pc)
<1>2. /\ CommandType(q, Stage[c])
      /\ q.pc = pc /\ q.rc = NoReturn
      /\ q.queue = <<>> /\ q.record = Fresh /\ q.spent = 0
      /\ ~q.stop /\ ~q.errors /\ q.paid = collect[c].paid /\ q.lost = collect[c].lost
  BY <1>1, Emptied DEF CommandType, Ended, Idle, Over, Steps, NoReturn
<1> HIDE DEF q
<1>3. OneMoves(c) /\ collect'[c] = q
  BY <1>2, OneCommand DEF q
<1> QED  BY <1>2, <1>3 DEF Ends

LEMMA ReturnedDoes ==
  ASSUME TypeInv, NEW c \in Collects, NEW rc \in {0, 1},
         collect' = [collect EXCEPT ![c] = Returned(collect[c], rc)]
  PROVE  OneMoves(c) /\ Ends(c) /\ collect'[c].pc = "done" /\ collect'[c].rc = rc
<1>1. CommandType(collect[c], Stage[c])
  BY DEF TypeInv
<1> DEFINE q == Returned(collect[c], rc)
<1>2. /\ CommandType(q, Stage[c])
      /\ q.pc = "done" /\ q.rc = rc
      /\ q.queue = <<>> /\ q.record = Fresh /\ q.spent = 0
      /\ ~q.stop /\ ~q.errors /\ q.paid = collect[c].paid /\ q.lost = collect[c].lost
  BY <1>1, Emptied DEF CommandType, Returned, Ended, Idle, Over, Steps, NoReturn
<1> HIDE DEF q
<1>3. OneMoves(c) /\ collect'[c] = q
  BY <1>2, OneCommand DEF q
<1> QED  BY <1>2, <1>3 DEF Ends, NoReturn

(* The command's budget and its return code are as they were.              *)
GoesOn(c) ==
  LET p == collect[c]
      q == collect'[c]
  IN  /\ q.spent = p.spent /\ q.paid = p.paid /\ q.lost = p.lost
      /\ q.rc = p.rc /\ q.stop = p.stop /\ q.errors = p.errors

LEMMA StartsDoes ==
  ASSUME TypeInv, NEW c \in Collects, Starts(c)
  PROVE  /\ OneMoves(c) /\ GoesOn(c) /\ collect[c].pc = "idle" /\ collect'[c].pc = "opening"
         /\ collect'[c].config = config /\ collect'[c].queue = collect[c].queue
<1>1. CommandType(collect[c], Stage[c]) /\ config \in Configs
  BY DEF TypeInv
<1> DEFINE q == [collect[c] EXCEPT !.pc = "opening", !.config = config]
<1>2. collect' = [collect EXCEPT ![c] = q] /\ collect[c].pc = "idle"
  BY DEF Starts, TypeInv
<1>3. /\ CommandType(q, Stage[c])
      /\ q.spent = collect[c].spent /\ q.paid = collect[c].paid /\ q.lost = collect[c].lost
      /\ q.rc = collect[c].rc /\ q.stop = collect[c].stop /\ q.errors = collect[c].errors
      /\ q.pc = "opening" /\ q.config = config /\ q.queue = collect[c].queue
  BY <1>1, <1>2 DEF CommandType, Over, Steps
<1> HIDE DEF q
<1>4. OneMoves(c) /\ collect'[c] = q
  BY <1>2, <1>3, OneCommand
<1> QED  BY <1>2, <1>3, <1>4 DEF GoesOn

LEMMA ReadRunDoes ==
  ASSUME TypeInv, NEW c \in Collects, ReadRun(c)
  PROVE  /\ OneMoves(c) /\ collect[c].pc = "opening"
         /\ \/ Ends(c) /\ collect'[c].rc = NoReturn
            \/ /\ GoesOn(c) /\ collect'[c].pc = "checking" /\ collect'[c].run = runJson
               /\ collect'[c].config = collect[c].config /\ collect'[c].queue = collect[c].queue
<1>1. CommandType(collect[c], Stage[c]) /\ runJson \in [STAGES -> Configs \cup {NoConfig}]
  BY DEF TypeInv
<1> DEFINE q == [collect[c] EXCEPT !.pc = "checking", !.run = runJson]
<1>2. CASE "run.json" \in torn
  <2>1. collect' = [collect EXCEPT ![c] = Ended(collect[c], "dead")] /\ collect[c].pc = "opening"
    BY <1>2 DEF ReadRun
  <2> QED  BY <2>1, EndedDoes
<1>3. CASE "run.json" \notin torn
  <2>1. collect' = [collect EXCEPT ![c] = q] /\ collect[c].pc = "opening"
    BY <1>3 DEF ReadRun
  <2>2. /\ CommandType(q, Stage[c])
        /\ q.spent = collect[c].spent /\ q.paid = collect[c].paid /\ q.lost = collect[c].lost
        /\ q.rc = collect[c].rc /\ q.stop = collect[c].stop /\ q.errors = collect[c].errors
        /\ q.pc = "checking" /\ q.run = runJson /\ q.config = collect[c].config /\ q.queue = collect[c].queue
    BY <1>1, <2>1 DEF CommandType, Over, Steps
  <2> HIDE DEF q
  <2>3. OneMoves(c) /\ collect'[c] = q
    BY <2>1, <2>2, OneCommand
  <2> QED  BY <2>1, <2>2, <2>3 DEF GoesOn
<1> QED  BY <1>2, <1>3

LEMMA OpenStageDoes ==
  ASSUME TypeInv, NEW c \in Collects, OpenStage(c)
  PROVE  /\ OneMoves(c) /\ collect[c].pc = "checking"
         /\ \/ Ends(c) /\ collect'[c].rc = NoReturn /\ UNCHANGED <<runJson, torn, raced>>
            \/ /\ GoesOn(c) /\ collect'[c].pc = "begin" /\ Fits(c)
               /\ collect'[c].config = collect[c].config /\ collect'[c].queue = collect[c].queue
<1>1. /\ CommandType(collect[c], Stage[c]) /\ collect[c].pc = "checking"
      /\ [s \in STAGES |-> NoConfig] \in [STAGES -> Configs \cup {NoConfig}]
  BY DEF TypeInv, OpenStage
<1> DEFINE q == [collect[c] EXCEPT !.pc = "begin", !.run = Idle.run]
<1>2. CASE ~Fits(c)
  <2>1. /\ collect' = [collect EXCEPT ![c] = Ended(collect[c], "refused")]
        /\ UNCHANGED <<runJson, torn, raced>>
    BY <1>2 DEF OpenStage
  <2> QED  BY <1>1, <2>1, EndedDoes
<1>3. CASE Fits(c)
  <2>1. collect' = [collect EXCEPT ![c] = q]
    BY <1>3 DEF OpenStage, TypeInv
  <2>2. /\ CommandType(q, Stage[c])
        /\ q.spent = collect[c].spent /\ q.paid = collect[c].paid /\ q.lost = collect[c].lost
        /\ q.rc = collect[c].rc /\ q.stop = collect[c].stop /\ q.errors = collect[c].errors
        /\ q.pc = "begin" /\ q.config = collect[c].config /\ q.queue = collect[c].queue
    BY <1>1 DEF CommandType, Over, Steps, Idle
  <2> HIDE DEF q
  <2>3. OneMoves(c) /\ collect'[c] = q
    BY <2>1, <2>2, OneCommand
  <2> QED  BY <1>1, <1>3, <2>2, <2>3 DEF GoesOn
<1> QED  BY <1>2, <1>3

Lacking(s) == {n \in DOMAIN Items : ~Recorded(s, Items[n])}

LEMMA BeginDoes ==
  ASSUME TypeInv, NEW c \in Collects, Begin(c)
  PROVE  /\ OneMoves(c) /\ collect[c].pc = "begin"
         /\ \/ Ends(c) /\ collect'[c].rc = NoReturn
            \/ /\ GoesOn(c) /\ collect'[c].pc = "next" /\ Stage[c] \notin torn
               /\ DOMAIN collect'[c].queue = Lacking(Stage[c])
               /\ \A n \in Lacking(Stage[c]) : collect'[c].queue[n] = Latest(Stage[c], Items[n])
<1> DEFINE s == Stage[c]
           queue == [n \in Lacking(s) |-> Latest(s, Items[n])]
           q == [collect[c] EXCEPT !.pc = "next", !.config = NoConfig, !.queue = queue]
<1>1. CommandType(collect[c], s) /\ collect[c].pc = "begin" /\ s \in STAGES
  BY StageAssumption DEF TypeInv, Begin
<1>2. \/ collect' = [collect EXCEPT ![c] = Ended(collect[c], "refused")]
      \/ collect' = [collect EXCEPT ![c] = Ended(collect[c], "dead")]
      \/ s \notin torn /\ collect' = [collect EXCEPT ![c] = q]
  BY DEF Begin, Lacking
<1>3. QueueType(queue, s)
  BY <1>1, LatestOf, ItemsFacts DEF QueueType, Lacking
<1>4. /\ DOMAIN queue = Lacking(s)
      /\ \A n \in Lacking(s) : queue[n] = Latest(s, Items[n])
  OBVIOUS
<1> HIDE DEF queue
<1>5. /\ CommandType(q, s) /\ q.queue = queue
      /\ q.spent = collect[c].spent /\ q.paid = collect[c].paid /\ q.lost = collect[c].lost
      /\ q.rc = collect[c].rc /\ q.stop = collect[c].stop /\ q.errors = collect[c].errors
      /\ q.pc = "next"
  BY <1>1, <1>3 DEF CommandType, Over, Steps
<1> HIDE DEF q
<1>6. CASE s \notin torn /\ collect' = [collect EXCEPT ![c] = q]
  <2>1. OneMoves(c) /\ collect'[c] = q
    BY <1>5, <1>6, OneCommand
  <2> QED  BY <1>1, <1>4, <1>5, <1>6, <2>1 DEF GoesOn
<1> QED  BY <1>1, <1>2, <1>6, EndedDoes

LEMMA FinishDoes ==
  ASSUME TypeInv, NEW c \in Collects, Finish(c)
  PROVE  /\ OneMoves(c) /\ Ends(c) /\ collect[c].pc = "next" /\ collect[c].queue = <<>>
         /\ collect'[c].rc = IF collect[c].errors THEN 1 ELSE 0
<1> DEFINE rc == IF collect[c].errors THEN 1 ELSE 0
<1>1. /\ collect' = [collect EXCEPT ![c] = Returned(collect[c], rc)] /\ rc \in {0, 1}
      /\ collect[c].pc = "next" /\ collect[c].queue = <<>>
  BY DEF Finish
<1> HIDE DEF rc
<1>2. OneMoves(c) /\ Ends(c) /\ collect'[c].rc = rc
  BY <1>1, ReturnedDoes
<1> QED  BY <1>1, <1>2 DEF rc

(* The command takes the first item up.                                    *)
Takes(c, pc) ==
  LET p == collect[c]
      q == collect'[c]
  IN  /\ p.pc = "next" /\ p.queue # <<>> /\ q.pc = pc /\ q.queue = p.queue
      /\ q.stop = p.stop /\ q.rc = p.rc /\ q.record.item = Item(c)
      /\ First(p.queue) \in DOMAIN p.queue
      /\ First(p.queue) \in DOMAIN Items /\ Item(c) \in Pairs

LEMMA TakesUp ==
  ASSUME TypeInv, NEW c \in Collects, Working(c)
  PROVE  /\ First(collect[c].queue) \in DOMAIN collect[c].queue
         /\ First(collect[c].queue) \in DOMAIN Items
         /\ Item(c) \in Pairs /\ Failed(c) \in FailedRecord
         /\ \/ Before(c) = Fresh
            \/ Before(c) \in RecordOf(Stage[c]) /\ Before(c).item = Item(c)
<1>1. QueueType(collect[c].queue, Stage[c]) /\ collect[c].queue # <<>>
  BY DEF TypeInv, CommandType, Working
<1>2. First(collect[c].queue) \in DOMAIN collect[c].queue /\ First(collect[c].queue) \in DOMAIN Items
  BY <1>1, QueueFirst
<1> QED  BY <1>1, <1>2, ItemsFacts DEF QueueType, Item, Before, Failed, FailedRecord

LEMMA SearchDoes ==
  ASSUME TypeInv, NEW c \in Collects, Search(c)
  PROVE  /\ OneMoves(c) /\ Stage[c] = "retrieval" /\ Takes(c, "append")
         /\ collect'[c].spent = collect[c].spent /\ collect'[c].paid = collect[c].paid
         /\ collect'[c].lost = collect[c].lost
         /\ \/ /\ collect'[c].errors = collect[c].errors
               /\ ~collect'[c].record.error /\ collect'[c].record.under = config
            \/ collect'[c].errors /\ collect'[c].record.error
<1> DEFINE Q(r, e) == [collect[c] EXCEPT !.pc = "append", !.record = r, !.errors = e]
           hit == [item |-> Item(c), error |-> FALSE, under |-> config]
<1>1. CommandType(collect[c], Stage[c]) /\ config \in Configs /\ Working(c) /\ Stage[c] = "retrieval"
  BY DEF TypeInv, Search
<1>2. /\ First(collect[c].queue) \in DOMAIN collect[c].queue
      /\ First(collect[c].queue) \in DOMAIN Items
      /\ Item(c) \in Pairs /\ Failed(c) \in FailedRecord
  BY <1>1, TakesUp
<1>3. PICK r, e : /\ collect' = [collect EXCEPT ![c] = Q(r, e)]
                  /\ \/ r = hit /\ e = collect[c].errors
                     \/ r = Failed(c) /\ e = TRUE
  <2>1. CASE collect' = [collect EXCEPT ![c].pc = "append", ![c].record = hit]
    <3>1. collect' = [collect EXCEPT ![c] = Q(hit, collect[c].errors)]
      BY <1>1, <2>1 DEF TypeInv, CommandType
    <3> QED  BY <3>1
  <2>2. CASE collect' = [collect EXCEPT ![c].pc = "append", ![c].record = Failed(c), ![c].errors = TRUE]
    <3>1. collect' = [collect EXCEPT ![c] = Q(Failed(c), TRUE)]
      BY <1>1, <2>2 DEF TypeInv, CommandType
    <3> QED  BY <3>1
  <2> QED  BY <2>1, <2>2 DEF Search
<1>4. /\ r \in RecordOf(Stage[c]) /\ r.item = Item(c) /\ e \in BOOLEAN
      /\ \/ e = collect[c].errors /\ ~r.error /\ r.under = config
         \/ e /\ r.error
  <2>1. collect[c].errors \in BOOLEAN
    BY <1>1 DEF CommandType
  <2>2. CASE r = hit /\ e = collect[c].errors
    BY <1>1, <1>2, <2>1, <2>2 DEF RecordOf, Hit
  <2>3. CASE r = Failed(c) /\ e = TRUE
    BY <1>1, <1>2, <2>3 DEF RecordOf, Failed
  <2> QED  BY <1>3, <2>2, <2>3
<1> DEFINE q == Q(r, e)
<1>5. /\ CommandType(q, Stage[c])
      /\ q.spent = collect[c].spent /\ q.paid = collect[c].paid /\ q.lost = collect[c].lost
      /\ q.rc = collect[c].rc /\ q.stop = collect[c].stop /\ q.errors = e
      /\ q.pc = "append" /\ q.record = r /\ q.queue = collect[c].queue
  BY <1>1, <1>2, <1>4 DEF CommandType, Over, Steps, Working, Item
<1> HIDE DEF q
<1>6. OneMoves(c) /\ collect'[c] = q
  BY <1>3, <1>5, OneCommand DEF q
<1> QED  BY <1>1, <1>2, <1>4, <1>5, <1>6 DEF Takes, Working

LEMMA AskDoes ==
  ASSUME TypeInv, NEW c \in Collects, Ask(c)
  PROVE  /\ OneMoves(c) /\ Stage[c] = "answers" /\ Working(c) /\ Before(c).error
         /\ Item(c) \in Pairs
         /\ \/ Ends(c) /\ collect'[c].rc = 1 /\ UNCHANGED answered
            \/ /\ ~OverCap(collect[c], Cap[c], AskReserve)
               /\ Takes(c, "judge") /\ collect'[c].errors = collect[c].errors
               /\ collect'[c].lost = collect[c].lost
               /\ \E cost \in 0..AskReserve :
                    /\ collect'[c].spent = collect[c].spent + cost
                    /\ collect'[c].paid = collect[c].paid + cost
               /\ ~collect'[c].record.error /\ collect'[c].record.under = config
               /\ needs_verdicts(collect'[c].record) = collect'[c].todo
               /\ answered' = [answered EXCEPT ![Item(c)] = @ + 1]
            \/ /\ Takes(c, "append") /\ collect'[c].errors
               /\ collect'[c].lost = collect[c].lost + 1
               /\ collect'[c].spent = collect[c].spent
               /\ \E billed \in 0..AskReserve : collect'[c].paid = collect[c].paid + billed
               /\ collect'[c].record.error /\ UNCHANGED answered
<1>1. /\ CommandType(collect[c], Stage[c]) /\ config \in Configs /\ answered \in [Pairs -> Nat]
      /\ Working(c) /\ Stage[c] = "answers" /\ Before(c).error
  BY DEF TypeInv, Ask
<1>2. /\ First(collect[c].queue) \in DOMAIN collect[c].queue
      /\ First(collect[c].queue) \in DOMAIN Items
      /\ Item(c) \in Pairs /\ Failed(c) \in FailedRecord
  BY <1>1, TakesUp
<1>3. CASE OverCap(collect[c], Cap[c], AskReserve)
  <2>1. collect' = [collect EXCEPT ![c] = Returned(collect[c], 1)] /\ UNCHANGED answered
    BY <1>3 DEF Ask
  <2> QED  BY <1>1, <1>2, <2>1, ReturnedDoes
<1>4. CASE /\ ~OverCap(collect[c], Cap[c], AskReserve)
           /\ \E a \in Answers :
                LET r == [item |-> Item(c), error |-> FALSE, refused |-> a.refused,
                          contexts |-> a.contexts, verdicts |-> {},
                          id |-> <<Item(c), answered[Item(c)]>>, under |-> config]
                IN  /\ collect' = [collect EXCEPT ![c].pc = "judge", ![c].record = r,
                         ![c].todo = needs_verdicts(r),
                         ![c].spent = @ + a.cost, ![c].paid = @ + a.cost]
                    /\ answered' = [answered EXCEPT ![Item(c)] = @ + 1]
  <2>1. PICK a \in Answers :
          LET r == [item |-> Item(c), error |-> FALSE, refused |-> a.refused,
                    contexts |-> a.contexts, verdicts |-> {},
                    id |-> <<Item(c), answered[Item(c)]>>, under |-> config]
          IN  /\ collect' = [collect EXCEPT ![c].pc = "judge", ![c].record = r,
                   ![c].todo = needs_verdicts(r),
                   ![c].spent = @ + a.cost, ![c].paid = @ + a.cost]
              /\ answered' = [answered EXCEPT ![Item(c)] = @ + 1]
    BY <1>4
  <2> DEFINE r == [item |-> Item(c), error |-> FALSE, refused |-> a.refused,
                   contexts |-> a.contexts, verdicts |-> {},
                   id |-> <<Item(c), answered[Item(c)]>>, under |-> config]
             todo == needs_verdicts(r)
             spent == collect[c].spent + a.cost
             paid == collect[c].paid + a.cost
             q == [collect[c] EXCEPT !.pc = "judge", !.record = r, !.todo = todo,
                                     !.spent = spent, !.paid = paid]
  <2>2. collect' = [collect EXCEPT ![c] = q] /\ answered' = [answered EXCEPT ![Item(c)] = @ + 1]
    BY <2>1 DEF TypeInv
  <2>3. a.refused \in BOOLEAN /\ a.contexts \in BOOLEAN /\ a.cost \in 0..AskReserve /\ a.cost \in Nat
    BY AnswersAssumption, BudgetAssumption
  <2>4. r \in Answer /\ r.item = Item(c) /\ ~r.error /\ r.under = config
    BY <1>1, <1>2, <2>3 DEF Answer
  <2>5. todo \in SUBSET Kinds
    BY DEF needs_verdicts, Kinds
  <2>51. spent \in Nat /\ paid \in Nat
    BY <1>1, <2>3 DEF CommandType
  <2> HIDE DEF r, spent, paid
  <2>6. needs_verdicts(r) = todo
    OBVIOUS
  <2> HIDE DEF todo
  <2>7. /\ CommandType(q, Stage[c])
        /\ q.spent = spent /\ q.paid = paid
        /\ q.lost = collect[c].lost /\ q.todo = todo
        /\ q.rc = collect[c].rc /\ q.stop = collect[c].stop /\ q.errors = collect[c].errors
        /\ q.pc = "judge" /\ q.record = r /\ q.queue = collect[c].queue
    BY <1>1, <1>2, <2>4, <2>5, <2>51 DEF CommandType, Over, Steps, Working, Item, RecordOf
  <2> HIDE DEF q
  <2>8. OneMoves(c) /\ collect'[c] = q
    BY <2>2, <2>7, OneCommand
  <2>9. Takes(c, "judge")
    BY <1>1, <1>2, <2>4, <2>7, <2>8 DEF Takes, Working
  <2>10. \E cost \in 0..AskReserve :
           collect'[c].spent = collect[c].spent + cost /\ collect'[c].paid = collect[c].paid + cost
    BY <2>3, <2>7, <2>8 DEF spent, paid
  <2>11. needs_verdicts(collect'[c].record) = collect'[c].todo
    BY <2>6, <2>7, <2>8
  <2> QED  BY <1>1, <1>2, <1>4, <2>2, <2>4, <2>7, <2>8, <2>9, <2>10, <2>11
<1>5. CASE \E billed \in {0, AskReserve} :
             /\ collect' = [collect EXCEPT ![c].pc = "append", ![c].record = Failed(c),
                  ![c].errors = TRUE, ![c].paid = @ + billed, ![c].lost = @ + 1]
             /\ UNCHANGED answered
  <2>1. PICK billed \in {0, AskReserve} :
             /\ collect' = [collect EXCEPT ![c].pc = "append", ![c].record = Failed(c),
                  ![c].errors = TRUE, ![c].paid = @ + billed, ![c].lost = @ + 1]
             /\ UNCHANGED answered
    BY <1>5
  <2> DEFINE paid == collect[c].paid + billed
             lost == collect[c].lost + 1
             q == [collect[c] EXCEPT !.pc = "append", !.record = Failed(c),
                     !.errors = TRUE, !.paid = paid, !.lost = lost]
  <2>2. collect' = [collect EXCEPT ![c] = q]
    BY <2>1 DEF TypeInv
  <2>3. billed \in Nat /\ billed \in 0..AskReserve
    BY BudgetAssumption
  <2>4. Failed(c) \in RecordOf(Stage[c]) /\ Failed(c).item = Item(c) /\ Failed(c).error
    BY <1>2 DEF Failed, RecordOf
  <2>41. paid \in Nat /\ lost \in Nat
    BY <1>1, <2>3 DEF CommandType
  <2> HIDE DEF paid, lost
  <2>5. /\ CommandType(q, Stage[c])
        /\ q.spent = collect[c].spent /\ q.paid = paid /\ q.lost = lost
        /\ q.rc = collect[c].rc /\ q.stop = collect[c].stop /\ q.errors
        /\ q.pc = "append" /\ q.record = Failed(c) /\ q.queue = collect[c].queue
    BY <1>1, <1>2, <2>4, <2>41 DEF CommandType, Over, Steps, Working, Item
  <2> HIDE DEF q
  <2>6. OneMoves(c) /\ collect'[c] = q
    BY <2>2, <2>5, OneCommand
  <2>7. Takes(c, "append")
    BY <1>1, <1>2, <2>4, <2>5, <2>6 DEF Takes, Working
  <2>8. \E b \in 0..AskReserve : collect'[c].paid = collect[c].paid + b
    BY <2>3, <2>5, <2>6 DEF paid
  <2> QED  BY <1>1, <1>2, <2>1, <2>4, <2>5, <2>6, <2>7, <2>8 DEF lost
<1> QED  BY <1>3, <1>4, <1>5 DEF Ask

LEMMA RejudgeDoes ==
  ASSUME TypeInv, NEW c \in Collects, Rejudge(c)
  PROVE  /\ OneMoves(c) /\ GoesOn(c) /\ Stage[c] = "answers" /\ Takes(c, "judge")
         /\ ~Before(c).error /\ collect'[c].record = Before(c)
         /\ needs_verdicts(collect'[c].record) = collect'[c].todo
<1> DEFINE todo == needs_verdicts(Before(c))
           q == [collect[c] EXCEPT !.pc = "judge", !.record = Before(c), !.todo = todo]
<1>1. /\ CommandType(collect[c], Stage[c])
      /\ Working(c) /\ Stage[c] = "answers" /\ ~Before(c).error
  BY DEF TypeInv, Rejudge
<1>2. /\ First(collect[c].queue) \in DOMAIN collect[c].queue
      /\ First(collect[c].queue) \in DOMAIN Items
      /\ Item(c) \in Pairs
      /\ \/ Before(c) = Fresh
         \/ Before(c) \in RecordOf(Stage[c]) /\ Before(c).item = Item(c)
  BY <1>1, TakesUp
<1>3. Before(c) \in Answer /\ Before(c) \in RecordOf(Stage[c]) /\ Before(c).item = Item(c)
  <2>1. Fresh.error /\ \A r \in FailedRecord : r.error
    BY DEF Fresh, FailedRecord
  <2> QED  BY <1>1, <1>2, <2>1 DEF RecordOf
<1>4. todo \in SUBSET Kinds /\ needs_verdicts(Before(c)) = todo
  BY <1>3 DEF needs_verdicts, Kinds
<1>5. collect' = [collect EXCEPT ![c] = q]
  BY DEF Rejudge, TypeInv
<1> HIDE DEF todo
<1>6. /\ CommandType(q, Stage[c])
      /\ q.spent = collect[c].spent /\ q.paid = collect[c].paid /\ q.lost = collect[c].lost
      /\ q.rc = collect[c].rc /\ q.stop = collect[c].stop /\ q.errors = collect[c].errors
      /\ q.pc = "judge" /\ q.record = Before(c) /\ q.queue = collect[c].queue /\ q.todo = todo
  BY <1>1, <1>2, <1>3, <1>4 DEF CommandType, Over, Steps, Working, Item
<1> HIDE DEF q
<1>7. OneMoves(c) /\ collect'[c] = q
  BY <1>5, <1>6, OneCommand
<1> QED  BY <1>1, <1>2, <1>3, <1>4, <1>6, <1>7 DEF Takes, GoesOn, Working

(* The command holds the same answer as before, perhaps with a verdict.    *)
HoldsOn(c) ==
  LET p == collect[c]
      q == collect'[c]
  IN  /\ q.queue = p.queue /\ q.record.item = p.record.item /\ q.record.error = p.record.error
      /\ p.record \in Answer /\ q.record.under = p.record.under
      /\ q.lost = p.lost /\ q.rc = p.rc

Judging(c) == IF "correctness" \in collect[c].todo THEN "correctness" ELSE "faithfulness"

LEMMA NeedsLess ==
  ASSUME NEW r \in Answer, NEW kind \in Kinds
  PROVE  LET q == [r EXCEPT !.verdicts = @ \cup {kind}]
         IN  /\ q \in Answer /\ q.item = r.item /\ q.under = r.under /\ ~q.error /\ q.error = r.error
             /\ needs_verdicts(q) = needs_verdicts(r) \ {kind}
<1> DEFINE q == [r EXCEPT !.verdicts = @ \cup {kind}]
<1>1. /\ q \in Answer /\ q.item = r.item /\ q.under = r.under /\ ~q.error /\ q.error = r.error
      /\ q.refused = r.refused /\ q.contexts = r.contexts /\ q.verdicts = r.verdicts \cup {kind}
  BY DEF Answer
<1> HIDE DEF q
<1>2. needs_verdicts(q) = needs_verdicts(r) \ {kind}
  BY <1>1 DEF needs_verdicts
<1> QED  BY <1>1, <1>2 DEF q

LEMMA JudgeDoes ==
  ASSUME TypeInv, NEW c \in Collects, Judge(c)
  PROVE  /\ OneMoves(c) /\ Stage[c] = "answers" /\ collect[c].pc = "judge"
         /\ \/ /\ Ends(c) /\ collect'[c].rc = NoReturn /\ Orphan(c)
            \/ /\ HoldsOn(c) /\ UNCHANGED orphaned
               /\ \/ /\ collect'[c].pc = "judge" /\ collect'[c].stop = collect[c].stop
                     /\ \/ /\ collect'[c].errors = collect[c].errors
                           /\ needs_verdicts(collect'[c].record) = needs_verdicts(collect[c].record) \ {Judging(c)}
                           /\ collect'[c].todo = collect[c].todo \ {Judging(c)}
                        \/ collect'[c].errors
                     /\ \/ /\ collect'[c].spent = collect[c].spent /\ collect'[c].paid = collect[c].paid
                        \/ /\ ~OverCap(collect[c], Cap[c], JudgeWorst)
                           /\ collect'[c].spent = collect[c].spent + JudgeWorst
                           /\ collect'[c].paid = collect[c].paid + JudgeWorst
                  \/ /\ collect'[c].pc = "append" /\ collect'[c].stop /\ collect'[c].record = collect[c].record
                     /\ collect'[c].spent = collect[c].spent /\ collect'[c].paid = collect[c].paid
                     /\ collect'[c].errors = collect[c].errors
<1> DEFINE p == collect[c]
           kind == Judging(c)
           record == [p.record EXCEPT !.verdicts = @ \cup {kind}]
           todo == p.todo \ {kind}
           spent == p.spent + JudgeWorst
           paid == p.paid + JudgeWorst
           judged == [p EXCEPT !.todo = todo, !.record = record]
           billed == [p EXCEPT !.todo = todo, !.record = record, !.spent = spent, !.paid = paid]
           failed == [p EXCEPT !.todo = todo, !.errors = TRUE, !.spent = spent, !.paid = paid]
           stopped == [p EXCEPT !.pc = "append", !.stop = TRUE]
<1>1. /\ CommandType(p, Stage[c]) /\ p.pc = "judge" /\ Stage[c] = "answers"
      /\ p.record \in Answer
  BY DEF TypeInv, Judge, CommandType
<1>2. kind \in Kinds
  BY DEF Judging, Kinds
<1>3. /\ record \in Answer /\ record.item = p.record.item /\ record.under = p.record.under
      /\ ~record.error /\ record.error = p.record.error
      /\ needs_verdicts(record) = needs_verdicts(p.record) \ {kind}
  BY <1>1, <1>2, NeedsLess
<1>4. \/ /\ \/ collect' = [collect EXCEPT ![c] = judged]
            \/ collect' = [collect EXCEPT ![c] = stopped]
            \/ /\ ~OverCap(p, Cap[c], JudgeWorst)
               /\ \/ collect' = [collect EXCEPT ![c] = billed]
                  \/ collect' = [collect EXCEPT ![c] = failed]
         /\ UNCHANGED orphaned
      \/ collect' = [collect EXCEPT ![c] = Ended(p, "dead")] /\ Orphan(c)
  <2>1. CASE Prompt(p, kind) \in cache
    <3>1. collect' = [collect EXCEPT ![c] = [p EXCEPT !.todo = @ \ {kind}, !.record.verdicts = @ \cup {kind}]]
          /\ UNCHANGED orphaned
      BY <2>1 DEF Judge, Judging
    <3>2. [p EXCEPT !.todo = @ \ {kind}, !.record.verdicts = @ \cup {kind}] = judged
      BY <1>1 DEF CommandType
    <3> QED  BY <3>1, <3>2
  <2>2. CASE Prompt(p, kind) \notin cache /\ OverCap(p, Cap[c], JudgeWorst)
    <3>1. collect' = [collect EXCEPT ![c].pc = "append", ![c].stop = TRUE] /\ UNCHANGED orphaned
      BY <2>2 DEF Judge, Judging
    <3>2. collect' = [collect EXCEPT ![c] = stopped]
      BY <3>1 DEF TypeInv
    <3> QED  BY <3>1, <3>2
  <2>3. CASE Prompt(p, kind) \notin cache /\ ~OverCap(p, Cap[c], JudgeWorst)
    <3>1. \/ /\ collect' = [collect EXCEPT ![c] =
                  Billed([p EXCEPT !.todo = @ \ {kind}, !.record.verdicts = @ \cup {kind}])]
             /\ UNCHANGED orphaned
          \/ /\ collect' = [collect EXCEPT ![c] =
                  Billed([p EXCEPT !.todo = @ \ {kind}, !.errors = TRUE])]
             /\ UNCHANGED orphaned
          \/ collect' = [collect EXCEPT ![c] = Ended(p, "dead")] /\ Orphan(c)
      BY <2>3 DEF Judge, Judging
    <3>2. Billed([p EXCEPT !.todo = @ \ {kind}, !.record.verdicts = @ \cup {kind}]) = billed
      BY <1>1 DEF CommandType, Billed
    <3>3. Billed([p EXCEPT !.todo = @ \ {kind}, !.errors = TRUE]) = failed
      BY <1>1 DEF CommandType, Billed
    <3> QED  BY <2>3, <3>1, <3>2, <3>3
  <2> QED  BY <2>1, <2>2, <2>3
<1>5. spent \in Nat /\ paid \in Nat /\ todo \in SUBSET Kinds /\ record \in RecordOf(Stage[c])
  BY <1>1, <1>3, BudgetAssumption DEF CommandType, RecordOf
<1>6. p.record \in RecordOf(Stage[c]) /\ p.queue # <<>> /\ p.record.item = Items[First(p.queue)]
  BY <1>1 DEF CommandType
<1>61. kind = Judging(c)
  OBVIOUS
<1> HIDE DEF kind, record, todo, spent, paid
<1>7. CASE collect' = [collect EXCEPT ![c] = judged] /\ UNCHANGED orphaned
  <2>1. /\ CommandType(judged, Stage[c])
        /\ judged.queue = p.queue /\ judged.record = record /\ judged.todo = todo
        /\ judged.lost = p.lost /\ judged.rc = p.rc /\ judged.pc = "judge" /\ judged.stop = p.stop
        /\ judged.errors = p.errors /\ judged.spent = p.spent /\ judged.paid = p.paid
    BY <1>1, <1>3, <1>5, <1>6 DEF CommandType, Over, Steps
  <2> HIDE DEF judged
  <2>2. OneMoves(c) /\ collect'[c] = judged
    BY <1>7, <2>1, OneCommand
  <2>3. HoldsOn(c)
    BY <1>1, <1>3, <2>1, <2>2 DEF HoldsOn
  <2> QED  BY <1>1, <1>3, <1>61, <1>7, <2>1, <2>2, <2>3 DEF todo
<1>8. CASE collect' = [collect EXCEPT ![c] = stopped] /\ UNCHANGED orphaned
  <2>1. /\ CommandType(stopped, Stage[c])
        /\ stopped.queue = p.queue /\ stopped.record = p.record
        /\ stopped.lost = p.lost /\ stopped.rc = p.rc /\ stopped.pc = "append" /\ stopped.stop
        /\ stopped.errors = p.errors /\ stopped.spent = p.spent /\ stopped.paid = p.paid
    BY <1>1, <1>6 DEF CommandType, Over, Steps
  <2> HIDE DEF stopped
  <2>2. OneMoves(c) /\ collect'[c] = stopped
    BY <1>8, <2>1, OneCommand
  <2>3. HoldsOn(c)
    BY <1>1, <1>3, <2>1, <2>2 DEF HoldsOn
  <2> QED  BY <1>1, <1>8, <2>1, <2>2, <2>3
<1>9. CASE /\ collect' = [collect EXCEPT ![c] = billed] /\ UNCHANGED orphaned
           /\ ~OverCap(p, Cap[c], JudgeWorst)
  <2>1. /\ CommandType(billed, Stage[c])
        /\ billed.queue = p.queue /\ billed.record = record /\ billed.todo = todo
        /\ billed.lost = p.lost /\ billed.rc = p.rc /\ billed.pc = "judge" /\ billed.stop = p.stop
        /\ billed.errors = p.errors /\ billed.spent = spent /\ billed.paid = paid
    BY <1>1, <1>3, <1>5, <1>6 DEF CommandType, Over, Steps
  <2> HIDE DEF billed
  <2>2. OneMoves(c) /\ collect'[c] = billed
    BY <1>9, <2>1, OneCommand
  <2>3. HoldsOn(c)
    BY <1>1, <1>3, <2>1, <2>2 DEF HoldsOn
  <2> QED  BY <1>1, <1>3, <1>61, <1>9, <2>1, <2>2, <2>3 DEF todo, spent, paid
<1>10. CASE /\ collect' = [collect EXCEPT ![c] = failed] /\ UNCHANGED orphaned
            /\ ~OverCap(p, Cap[c], JudgeWorst)
  <2>1. /\ CommandType(failed, Stage[c])
        /\ failed.queue = p.queue /\ failed.record = p.record
        /\ failed.lost = p.lost /\ failed.rc = p.rc /\ failed.pc = "judge" /\ failed.stop = p.stop
        /\ failed.errors /\ failed.spent = spent /\ failed.paid = paid
    BY <1>1, <1>5, <1>6 DEF CommandType, Over, Steps
  <2> HIDE DEF failed
  <2>2. OneMoves(c) /\ collect'[c] = failed
    BY <1>10, <2>1, OneCommand
  <2>3. HoldsOn(c)
    BY <1>1, <1>3, <2>1, <2>2 DEF HoldsOn
  <2> QED  BY <1>1, <1>10, <2>1, <2>2, <2>3 DEF spent, paid
<1>11. CASE collect' = [collect EXCEPT ![c] = Ended(p, "dead")] /\ Orphan(c)
  BY <1>1, <1>11, EndedDoes
<1> QED  BY <1>4, <1>7, <1>8, <1>9, <1>10, <1>11

LEMMA RecordLineDoes ==
  ASSUME TypeInv, NEW c \in Collects, RecordLine(c)
  PROVE  /\ OneMoves(c)
         /\ collect[c].pc = "append" \/ (collect[c].pc = "judge" /\ collect[c].todo = {})
         /\ Stage[c] \in STAGES /\ collect[c].record \in RecordOf(Stage[c])
         /\ collect[c].record.item = Item(c) /\ Item(c) \in Pairs
         /\ First(collect[c].queue) \in DOMAIN collect[c].queue
         /\ First(collect[c].queue) \in DOMAIN Items
         /\ file' = [file EXCEPT ![Stage[c]] = Append(@, collect[c].record)]
         /\ \/ Ends(c) /\ collect[c].stop /\ collect'[c].rc = 1
            \/ /\ GoesOn(c) /\ ~collect[c].stop /\ collect'[c].pc = "next"
               /\ DOMAIN collect'[c].queue = DOMAIN collect[c].queue \ {First(collect[c].queue)}
               /\ \A n \in DOMAIN collect'[c].queue : collect'[c].queue[n] = collect[c].queue[n]
<1> DEFINE p == collect[c]
           queue == Rest(p.queue)
           q == [p EXCEPT !.pc = "next", !.queue = queue, !.record = Fresh]
<1>1. /\ CommandType(p, Stage[c]) /\ Stage[c] \in STAGES
      /\ p.pc = "append" \/ (p.pc = "judge" /\ p.todo = {})
      /\ file' = [file EXCEPT ![Stage[c]] = Append(@, p.record)]
  BY StageAssumption DEF TypeInv, RecordLine
<1>2. p.record \in RecordOf(Stage[c]) /\ p.record.item = Item(c) /\ p.queue # <<>>
  BY <1>1 DEF CommandType, Item
<1>3. /\ First(p.queue) \in DOMAIN p.queue /\ First(p.queue) \in DOMAIN Items
      /\ QueueType(queue, Stage[c]) /\ DOMAIN queue = DOMAIN p.queue \ {First(p.queue)}
      /\ \A n \in DOMAIN queue : queue[n] = p.queue[n]
  BY <1>1, <1>2, QueueFirst DEF CommandType
<1>4. Item(c) \in Pairs
  BY <1>3, ItemsFacts DEF Item
<1>5. CASE p.stop
  <2>1. collect' = [collect EXCEPT ![c] = Returned(p, 1)]
    BY <1>5 DEF RecordLine
  <2> QED  BY <1>1, <1>2, <1>3, <1>4, <1>5, <2>1, ReturnedDoes
<1>6. CASE ~p.stop
  <2> HIDE DEF queue
  <2>1. collect' = [collect EXCEPT ![c] = q]
    BY <1>6 DEF RecordLine, queue
  <2>2. /\ CommandType(q, Stage[c]) /\ q.pc = "next" /\ q.queue = queue
        /\ q.spent = p.spent /\ q.paid = p.paid /\ q.lost = p.lost
        /\ q.rc = p.rc /\ q.stop = p.stop /\ q.errors = p.errors
    BY <1>1, <1>3 DEF CommandType, Over, Steps
  <2> HIDE DEF q
  <2>3. OneMoves(c) /\ collect'[c] = q
    BY <2>1, <2>2, OneCommand
  <2> QED  BY <1>1, <1>2, <1>3, <1>4, <1>6, <2>2, <2>3 DEF GoesOn
<1> QED  BY <1>5, <1>6

LEMMA KillDoes ==
  ASSUME TypeInv, NEW c \in Collects, Kill(c)
  PROVE  OneMoves(c) /\ Busy(c) /\ Ends(c) /\ collect'[c].rc = NoReturn /\ Orphan(c)
<1>1. collect' = [collect EXCEPT ![c] = Ended(collect[c], "dead")] /\ Busy(c) /\ Orphan(c)
  BY DEF Kill
<1> QED  BY <1>1, EndedDoes

-----------------------------------------------------------------------------
(* The types are kept.                                                     *)

LEMMA OrphanType == ASSUME TypeInv, NEW c \in Collects, Orphan(c) PROVE orphaned' \in [Pairs -> Nat]
  BY DEF TypeInv, Orphan

LEMMA OneMovesTypes ==
  ASSUME TypeInv, NEW c \in Collects, OneMoves(c), UNCHANGED <<config, runJson, file>>,
         answered' \in [Pairs -> Nat], orphaned' \in [Pairs -> Nat],
         met' \subseteq Collects, raced' \in BOOLEAN
  PROVE  TypeInv'
  BY DEF TypeInv, OneMoves

LEMMA TypeStep == TypeInv /\ [RagNext]_ragVars => TypeInv'
<1> SUFFICES ASSUME TypeInv, [RagNext]_ragVars PROVE TypeInv'
  OBVIOUS
<1>1. /\ answered \in [Pairs -> Nat] /\ orphaned \in [Pairs -> Nat]
      /\ met \subseteq Collects /\ raced \in BOOLEAN
  BY DEF TypeInv
<1>2. ASSUME NEW c \in Collects, Starts(c) PROVE TypeInv'
  <2>1. met' \subseteq Collects
    BY <1>1, <1>2 DEF Starts
  <2> QED  BY <1>1, <1>2, <2>1, StartsDoes, OneMovesTypes DEF Starts, Files
<1>3. ASSUME NEW c \in Collects, ReadRun(c) PROVE TypeInv'
  BY <1>1, <1>3, ReadRunDoes, OneMovesTypes DEF ReadRun, Files, History
<1>4. ASSUME NEW c \in Collects, OpenStage(c) PROVE TypeInv'
  <2>1. OneMoves(c) /\ collect[c].pc = "checking" /\ CommandType(collect[c], Stage[c])
    BY <1>4, OpenStageDoes DEF TypeInv
  <2>2. runJson' \in [STAGES -> Configs \cup {NoConfig}] /\ raced' \in BOOLEAN
    <3>1. \/ UNCHANGED <<runJson, raced>>
          \/ /\ runJson' = [collect[c].run EXCEPT ![Stage[c]] = collect[c].config]
             /\ raced' \in BOOLEAN
      BY <1>1, <1>4 DEF OpenStage
    <3>2. /\ collect[c].run \in [STAGES -> Configs \cup {NoConfig}]
          /\ collect[c].config \in Configs
      BY <2>1 DEF CommandType
    <3> QED  BY <1>1, <3>1, <3>2 DEF TypeInv
  <2> QED  BY <1>4, <2>1, <2>2 DEF TypeInv, OneMoves, OpenStage
<1>5. ASSUME NEW c \in Collects, Begin(c) PROVE TypeInv'
  BY <1>1, <1>5, BeginDoes, OneMovesTypes DEF Begin, Files, History
<1>6. ASSUME NEW c \in Collects, Finish(c) PROVE TypeInv'
  BY <1>1, <1>6, FinishDoes, OneMovesTypes DEF Finish, Files, History
<1>7. ASSUME NEW c \in Collects, Search(c) PROVE TypeInv'
  BY <1>1, <1>7, SearchDoes, OneMovesTypes DEF Search, Files, History
<1>8. ASSUME NEW c \in Collects, Ask(c) PROVE TypeInv'
  <2>1. OneMoves(c) /\ Item(c) \in Pairs
        /\ (answered' = [answered EXCEPT ![Item(c)] = @ + 1] \/ UNCHANGED answered)
    BY <1>8, AskDoes
  <2>2. answered' \in [Pairs -> Nat]
    BY <1>1, <2>1
  <2> QED  BY <1>1, <1>8, <2>1, <2>2, OneMovesTypes DEF Ask, Files
<1>9. ASSUME NEW c \in Collects, Rejudge(c) PROVE TypeInv'
  BY <1>1, <1>9, RejudgeDoes, OneMovesTypes DEF Rejudge, Files, History
<1>10. ASSUME NEW c \in Collects, Judge(c) PROVE TypeInv'
  <2>1. OneMoves(c) /\ (Orphan(c) \/ UNCHANGED orphaned)
    BY <1>10, JudgeDoes
  <2>2. orphaned' \in [Pairs -> Nat]
    BY <1>1, <2>1, OrphanType
  <2> QED  BY <1>1, <1>10, <2>1, <2>2, OneMovesTypes DEF Judge
<1>11. ASSUME NEW c \in Collects, RecordLine(c) PROVE TypeInv'
  <2>1. /\ OneMoves(c) /\ Stage[c] \in STAGES /\ collect[c].record \in RecordOf(Stage[c])
        /\ file' = [file EXCEPT ![Stage[c]] = Append(@, collect[c].record)]
    BY <1>11, RecordLineDoes
  <2>2. file' = [s \in STAGES |-> file'[s]] /\ \A s \in STAGES : file'[s] \in Seq(RecordOf(s))
    BY <2>1, Appended
  <2> QED  BY <1>11, <2>1, <2>2 DEF TypeInv, OneMoves, RecordLine, History
<1>12. ASSUME NEW c \in Collects, Kill(c) PROVE TypeInv'
  <2>1. OneMoves(c) /\ orphaned' \in [Pairs -> Nat]
    BY <1>12, KillDoes, OrphanType
  <2> QED  BY <1>1, <1>12, <2>1, OneMovesTypes DEF Kill
<1>13. CASE Redeploy
  BY <1>13 DEF TypeInv, Redeploy, Files
<1>14. CASE UNCHANGED ragVars
  BY <1>14 DEF TypeInv, ragVars
<1> QED  BY <1>2, <1>3, <1>4, <1>5, <1>6, <1>7, <1>8, <1>9, <1>10, <1>11, <1>12, <1>13, <1>14 DEF RagNext

LEMMA TypeInit == RagInit => TypeInv
<1> SUFFICES ASSUME RagInit PROVE TypeInv
  OBVIOUS
<1>1. /\ Idle.queue = <<>> /\ Idle.record = Fresh /\ Idle.pc = "idle"
      /\ \A s : CommandType(Idle, s)
  BY Emptied DEF CommandType, Idle, Over, Steps, NoReturn
<1> HIDE DEF Idle
<1>2. \A s \in STAGES : file[s] \in Seq(RecordOf(s))
  BY DEF RagInit
<1> QED  BY <1>1, <1>2 DEF RagInit, TypeInv, Pairs

-----------------------------------------------------------------------------
(* The cap.                                                                *)

LEMMA LostGrows ==
  ASSUME NEW l \in Nat, NEW paid \in Nat, NEW spent \in Nat, NEW b \in 0..AskReserve, NEW cap \in Nat,
         paid <= spent + l * AskReserve, spent <= cap
  PROVE  /\ paid <= cap + l * AskReserve
         /\ paid + b <= spent + (l + 1) * AskReserve /\ paid + b <= cap + (l + 1) * AskReserve
<1> DEFINE m == l * AskReserve
<1>1. (l + 1) * AskReserve = m + AskReserve /\ m \in Nat /\ AskReserve \in Nat
  BY BudgetAssumption
<1> HIDE DEF m
<1>2. b \in Nat /\ b <= AskReserve /\ paid <= spent + m
  BY <1>1 DEF m
<1>3. /\ paid <= cap + m /\ paid + b <= spent + (m + AskReserve) /\ paid + b <= cap + (m + AskReserve)
  BY <1>1, <1>2
<1> QED  BY <1>1, <1>3 DEF m

LEMMA SpentGrows ==
  ASSUME NEW l \in Nat, NEW paid \in Nat, NEW spent \in Nat, NEW b \in Nat, NEW cap \in Nat,
         paid <= spent + l * AskReserve, spent + b <= cap
  PROVE  /\ paid + b <= (spent + b) + l * AskReserve /\ paid + b <= cap + l * AskReserve
<1> DEFINE m == l * AskReserve
<1>1. m \in Nat
  BY BudgetAssumption
<1> HIDE DEF m
<1>2. paid <= spent + m
  BY DEF m
<1>3. paid + b <= (spent + b) + m /\ paid + b <= cap + m
  BY <1>1, <1>2
<1> QED  BY <1>3 DEF m

LEMMA BudgetStep ==
  TypeInv /\ (\A c \in Collects : BudgetInv(c)) /\ [RagNext]_ragVars => (\A c \in Collects : BudgetInv(c))'
<1> SUFFICES ASSUME TypeInv, \A c \in Collects : BudgetInv(c), [RagNext]_ragVars, NEW d \in Collects
             PROVE  BudgetInv(d)'
  OBVIOUS
<1> DEFINE p == collect[d]
           q == collect'[d]
           AtWork == p.pc \notin {"done", "refused", "dead"}
<1>1. /\ CommandType(p, Stage[d]) /\ Cap[d] \in Nat /\ JudgeWorst \in Nat /\ AskReserve \in Nat
      /\ p.spent \in Nat /\ p.paid \in Nat /\ p.lost \in Nat
  BY BudgetAssumption DEF TypeInv, CommandType
<1>2. /\ AtWork => p.paid <= p.spent + p.lost * AskReserve /\ p.spent <= Cap[d]
      /\ p.paid <= Cap[d] + p.lost * AskReserve
  BY DEF BudgetInv
<1>3. ASSUME q.paid <= q.spent + q.lost * AskReserve, q.spent <= Cap[d],
             q.paid <= Cap[d] + q.lost * AskReserve
      PROVE  BudgetInv(d)'
  BY <1>3 DEF BudgetInv
<1>4. ASSUME q = p PROVE BudgetInv(d)'
  BY <1>2, <1>4 DEF BudgetInv
<1>5. ASSUME Ends(d) PROVE BudgetInv(d)'
  BY <1>2, <1>5 DEF BudgetInv, Ends
<1>6. ASSUME q.spent = p.spent, q.paid = p.paid, q.lost = p.lost, AtWork PROVE BudgetInv(d)'
  BY <1>2, <1>3, <1>6
<1>7. ASSUME NEW c \in Collects, OneMoves(c),
             c = d => Ends(d) \/ (AtWork /\ q.spent = p.spent /\ q.paid = p.paid /\ q.lost = p.lost)
      PROVE  BudgetInv(d)'
  BY <1>4, <1>5, <1>6, <1>7 DEF OneMoves
<1>8. ASSUME NEW c \in Collects, Starts(c) PROVE BudgetInv(d)'
  BY <1>7, <1>8, StartsDoes DEF GoesOn
<1>9. ASSUME NEW c \in Collects, ReadRun(c) PROVE BudgetInv(d)'
  BY <1>7, <1>9, ReadRunDoes DEF GoesOn
<1>10. ASSUME NEW c \in Collects, OpenStage(c) PROVE BudgetInv(d)'
  BY <1>7, <1>10, OpenStageDoes DEF GoesOn
<1>11. ASSUME NEW c \in Collects, Begin(c) PROVE BudgetInv(d)'
  BY <1>7, <1>11, BeginDoes DEF GoesOn
<1>12. ASSUME NEW c \in Collects, Finish(c) PROVE BudgetInv(d)'
  BY <1>7, <1>12, FinishDoes
<1>13. ASSUME NEW c \in Collects, Search(c) PROVE BudgetInv(d)'
  BY <1>7, <1>13, SearchDoes DEF Takes
<1>14. ASSUME Ask(d) PROVE BudgetInv(d)'
  <2>1. AtWork
    BY <1>14, AskDoes DEF Working
  <2>2. ASSUME NEW cost \in 0..AskReserve, q.spent = p.spent + cost, q.paid = p.paid + cost,
               q.lost = p.lost, ~OverCap(p, Cap[d], AskReserve)
        PROVE  BudgetInv(d)'
    <3>1. cost \in Nat /\ p.spent + cost <= Cap[d]
      BY <1>1, <2>2 DEF OverCap
    <3> HIDE DEF p, q
    <3>2. /\ p.paid + cost <= (p.spent + cost) + p.lost * AskReserve
          /\ p.paid + cost <= Cap[d] + p.lost * AskReserve
      BY <1>1, <1>2, <2>1, <3>1, SpentGrows
    <3> QED  BY <1>3, <2>2, <3>1, <3>2
  <2>3. ASSUME NEW billed \in 0..AskReserve, q.spent = p.spent, q.paid = p.paid + billed,
               q.lost = p.lost + 1
        PROVE  BudgetInv(d)'
    <3> HIDE DEF p, q
    <3>1. /\ p.paid + billed <= p.spent + (p.lost + 1) * AskReserve
          /\ p.paid + billed <= Cap[d] + (p.lost + 1) * AskReserve
      BY <1>1, <1>2, <2>1, LostGrows
    <3> QED  BY <1>2, <1>3, <2>1, <2>3, <3>1
  <2> QED  BY <1>5, <1>14, <2>2, <2>3, AskDoes DEF Takes
<1>15. ASSUME NEW c \in Collects, Ask(c) PROVE BudgetInv(d)'
  BY <1>4, <1>14, <1>15, AskDoes DEF OneMoves
<1>16. ASSUME NEW c \in Collects, Rejudge(c) PROVE BudgetInv(d)'
  BY <1>7, <1>16, RejudgeDoes DEF GoesOn, Takes
<1>17. ASSUME Judge(d) PROVE BudgetInv(d)'
  <2>1. AtWork
    BY <1>17, JudgeDoes
  <2>2. ASSUME q.spent = p.spent + JudgeWorst, q.paid = p.paid + JudgeWorst,
               q.lost = p.lost, ~OverCap(p, Cap[d], JudgeWorst)
        PROVE  BudgetInv(d)'
    <3>1. p.spent + JudgeWorst <= Cap[d]
      BY <1>1, <2>2 DEF OverCap
    <3> HIDE DEF p, q
    <3>2. /\ p.paid + JudgeWorst <= (p.spent + JudgeWorst) + p.lost * AskReserve
          /\ p.paid + JudgeWorst <= Cap[d] + p.lost * AskReserve
      BY <1>1, <1>2, <2>1, <3>1, SpentGrows
    <3> QED  BY <1>3, <2>2, <3>1, <3>2
  <2> QED  BY <1>5, <1>6, <1>17, <2>1, <2>2, JudgeDoes DEF HoldsOn
<1>18. ASSUME NEW c \in Collects, Judge(c) PROVE BudgetInv(d)'
  BY <1>4, <1>17, <1>18, JudgeDoes DEF OneMoves
<1>19. ASSUME NEW c \in Collects, RecordLine(c) PROVE BudgetInv(d)'
  BY <1>7, <1>19, RecordLineDoes DEF GoesOn
<1>20. ASSUME NEW c \in Collects, Kill(c) PROVE BudgetInv(d)'
  BY <1>7, <1>20, KillDoes
<1>21. CASE Redeploy \/ UNCHANGED ragVars
  BY <1>4, <1>21 DEF Redeploy, ragVars
<1> QED  BY <1>8, <1>9, <1>10, <1>11, <1>12, <1>13, <1>15, <1>16, <1>18, <1>19, <1>20, <1>21 DEF RagNext

LEMMA BudgetAlways == RagSpec => [](TypeInv /\ \A c \in Collects : BudgetInv(c))
<1>1. RagInit => \A c \in Collects : BudgetInv(c)
  <2> SUFFICES ASSUME RagInit, NEW c \in Collects PROVE BudgetInv(c)
    OBVIOUS
  <2>1. collect[c].paid = 0 /\ collect[c].spent = 0 /\ collect[c].lost = 0
    BY DEF RagInit, Idle
  <2>2. Cap[c] \in Nat /\ AskReserve \in Nat
    BY BudgetAssumption
  <2> QED  BY <2>1, <2>2 DEF BudgetInv
<1> QED  BY <1>1, TypeInit, TypeStep, BudgetStep, PTL DEF RagSpec

(* A command spends at most its --max-cost-usd on the service and the judge *)
(* together (budget.py, check before every paid call), but for the asks it  *)
(* paid for and never saw answered: for any cap, prices and verdicts, and   *)
(* whatever happens to it and beside it.                                    *)
THEOREM CapAlways == RagSpec => []CapHolds
<1>1. (\A c \in Collects : BudgetInv(c)) => CapHolds
  BY DEF BudgetInv, CapHolds
<1> QED  BY <1>1, BudgetAlways, PTL

-----------------------------------------------------------------------------
(* Who works at the same time.                                             *)

LEMMA OneWorks ==
  TypeInv /\ [RagNext]_ragVars =>
    \/ \E c \in Collects : Starts(c)
    \/ met' = met /\ \A d \in Collects : Busy(d)' => Busy(d)
<1> SUFFICES ASSUME TypeInv, [RagNext]_ragVars, ~\E c \in Collects : Starts(c)
             PROVE  met' = met /\ \A d \in Collects : Busy(d)' => Busy(d)
  OBVIOUS
<1>1. ASSUME NEW c \in Collects, OneMoves(c), Busy(c)
      PROVE  \A d \in Collects : Busy(d)' => Busy(d)
  BY <1>1 DEF OneMoves, Busy
<1>2. ASSUME NEW c \in Collects, ReadRun(c) PROVE met' = met /\ \A d \in Collects : Busy(d)' => Busy(d)
  BY <1>1, <1>2, ReadRunDoes DEF ReadRun, History, Busy, Over
<1>3. ASSUME NEW c \in Collects, OpenStage(c) PROVE met' = met /\ \A d \in Collects : Busy(d)' => Busy(d)
  BY <1>1, <1>3, OpenStageDoes DEF OpenStage, Busy, Over
<1>4. ASSUME NEW c \in Collects, Begin(c) PROVE met' = met /\ \A d \in Collects : Busy(d)' => Busy(d)
  BY <1>1, <1>4, BeginDoes DEF Begin, History, Busy, Over
<1>5. ASSUME NEW c \in Collects, Finish(c) PROVE met' = met /\ \A d \in Collects : Busy(d)' => Busy(d)
  BY <1>1, <1>5, FinishDoes DEF Finish, History, Busy, Over
<1>6. ASSUME NEW c \in Collects, Search(c) PROVE met' = met /\ \A d \in Collects : Busy(d)' => Busy(d)
  BY <1>1, <1>6, SearchDoes DEF Search, Takes, History, Busy, Over
<1>7. ASSUME NEW c \in Collects, Ask(c) PROVE met' = met /\ \A d \in Collects : Busy(d)' => Busy(d)
  BY <1>1, <1>7, AskDoes DEF Ask, Working, Busy, Over
<1>8. ASSUME NEW c \in Collects, Rejudge(c) PROVE met' = met /\ \A d \in Collects : Busy(d)' => Busy(d)
  BY <1>1, <1>8, RejudgeDoes DEF Rejudge, Takes, History, Busy, Over
<1>9. ASSUME NEW c \in Collects, Judge(c) PROVE met' = met /\ \A d \in Collects : Busy(d)' => Busy(d)
  BY <1>1, <1>9, JudgeDoes DEF Judge, Busy, Over
<1>10. ASSUME NEW c \in Collects, RecordLine(c) PROVE met' = met /\ \A d \in Collects : Busy(d)' => Busy(d)
  BY <1>1, <1>10, RecordLineDoes DEF RecordLine, History, Busy, Over
<1>11. ASSUME NEW c \in Collects, Kill(c) PROVE met' = met /\ \A d \in Collects : Busy(d)' => Busy(d)
  BY <1>1, <1>11, KillDoes DEF Kill
<1>12. CASE Redeploy \/ UNCHANGED ragVars
  BY <1>12 DEF Redeploy, ragVars, Busy
<1> QED  BY <1>2, <1>3, <1>4, <1>5, <1>6, <1>7, <1>8, <1>9, <1>10, <1>11, <1>12 DEF RagNext

LEMMA MetStep == TypeInv /\ MetInv /\ [RagNext]_ragVars => MetInv'
<1> SUFFICES ASSUME TypeInv, MetInv, [RagNext]_ragVars PROVE MetInv'
  OBVIOUS
<1>1. ASSUME NEW b \in Collects, Starts(b) PROVE MetInv'
  <2> SUFFICES ASSUME NEW c \in Collects, NEW d \in Collects,
                      c # d, Busy(c)', Busy(d)', Stage[c] = Stage[d]
               PROVE  c \in met' /\ d \in met'
    BY DEF MetInv
  <2>1. /\ \A e \in Collects \ {b} : Busy(e)' => Busy(e)
        /\ LET twins == {e \in Collects : Busy(e) /\ Stage[e] = Stage[b]}
           IN  met' = met \cup (IF twins = {} THEN {} ELSE twins \cup {b})
    <3>1. OneMoves(b)
      BY <1>1, StartsDoes
    <3>2. {e \in {x \in Collects : Busy(x)} : Stage[e] = Stage[b]} = {e \in Collects : Busy(e) /\ Stage[e] = Stage[b]}
      OBVIOUS
    <3> QED  BY <1>1, <3>1, <3>2 DEF Starts, OneMoves, Busy
  <2> QED  BY <2>1 DEF MetInv
<1> QED  BY <1>1, OneWorks DEF MetInv

-----------------------------------------------------------------------------
(* Nothing is asked twice.                                                 *)

AskedInv == HandInv /\ AnswerInv

LEMMA Alone ==
  ASSUME MetInv, met = {}, NEW c \in Collects, NEW d \in Collects,
         Busy(c), Busy(d), Stage[c] = Stage[d]
  PROVE  c = d
  BY DEF MetInv

LEMMA LoopingBusy == \A c : collect[c].pc \in Looping => Busy(c)
  BY DEF Looping, Busy, Over

(* A step that leaves the files as they are.                               *)
LEMMA ReadOn ==
  ASSUME TypeInv, ReadInv, NEW c \in Collects, OneMoves(c), UNCHANGED file,
         collect'[c].pc \in Looping => collect[c].pc \in Looping /\ collect'[c].queue = collect[c].queue
  PROVE  ReadInv'
<1> SUFFICES ASSUME NEW d \in Collects, collect'[d].pc \in Looping, NEW n \in DOMAIN collect'[d].queue
             PROVE  collect'[d].queue[n] = Latest(Stage[d], Items[n])'
  BY DEF ReadInv
<1>1. collect[d].pc \in Looping /\ collect'[d].queue = collect[d].queue
  BY DEF OneMoves
<1>2. collect[d].queue[n] = Latest(Stage[d], Items[n])
  BY <1>1 DEF ReadInv
<1>3. Lines(Stage[d], Items[n])' = Lines(Stage[d], Items[n])
  BY DEF Lines
<1> QED  BY <1>1, <1>2, <1>3, LatestIs, LatestNext

LEMMA LatestSame ==
  ASSUME UNCHANGED file PROVE \A s, i : Latest(s, i)' = Latest(s, i)
  BY DEF Latest

LEMMA HandSame ==
  ASSUME NEW c \in Collects, OneMoves(c),
         InHand(c)' <=> InHand(c), InHand(c) => Item(c)' = Item(c)
  PROVE  \A i : Hand(i)' <=> Hand(i)
  BY DEF Hand, OneMoves, InHand, Item, Before

(* What a step outside of asking, judging and recording leaves alone.      *)
LEMMA AsideStep ==
  ASSUME TypeInv, AskedInv, NEW c \in Collects, OneMoves(c),
         UNCHANGED <<file, answered, orphaned>>, met = {} \/ met' # {},
         ~InHand(c), ~InHand(c)',
         collect'[c].pc = "append" => Stage[c] # "answers",
         met = {} => ReadInv'
  PROVE  AskedInv'
<1>1. HandInv'
  BY DEF AskedInv, HandInv, OneMoves, Before
<1>2. \A i : Hand(i)' <=> Hand(i)
  BY HandSame
<1>3. \A s, i : Latest(s, i)' = Latest(s, i)
  BY LatestSame
<1>4. \A i : Held(i)' = Held(i)
  BY <1>2, <1>3 DEF Held
<1> QED  BY <1>1, <1>4 DEF AskedInv, AnswerInv

(* The answer in hand stays in hand.                                       *)
LEMMA HoldStep ==
  ASSUME TypeInv, AskedInv, NEW c \in Collects, OneMoves(c), HoldsOn(c),
         UNCHANGED <<file, answered, orphaned, met>>,
         collect[c].pc = "judge", Stage[c] = "answers", collect'[c].pc \in {"judge", "append"}
  PROVE  AskedInv'
<1>1. ~collect[c].record.error /\ ~collect'[c].record.error
  BY DEF HoldsOn, Answer
<1>2. HandInv'
  BY <1>1 DEF AskedInv, HandInv, OneMoves, Before
<1>3. met = {} => ReadInv'
  BY ReadOn DEF AskedInv, AnswerInv, HoldsOn, Looping
<1>4. (InHand(c)' <=> InHand(c)) /\ Item(c)' = Item(c)
  BY <1>1 DEF InHand, HoldsOn, Before, Item
<1>5. \A i : Hand(i)' <=> Hand(i)
  BY <1>4, HandSame
<1>6. \A s, i : Latest(s, i)' = Latest(s, i)
  BY LatestSame
<1>7. \A i : Held(i)' = Held(i)
  BY <1>5, <1>6 DEF Held
<1> QED  BY <1>2, <1>3, <1>7 DEF AskedInv, AnswerInv

(* A command ends, with an answer in hand or not.                          *)
LEMMA EndStep ==
  ASSUME TypeInv, AskedInv, NEW c \in Collects, OneMoves(c), Ends(c), Orphan(c),
         UNCHANGED <<file, answered, met>>
  PROVE  AskedInv'
<1>1. HandInv'
  BY DEF AskedInv, HandInv, OneMoves, Before, Ends
<1>2. met = {} => ReadInv'
  BY ReadOn DEF AskedInv, AnswerInv, Ends, Looping
<1>3. ~InHand(c)'
  BY DEF InHand, Ends
<1>4. \A i \in Pairs : orphaned'[i] = orphaned[i] + (IF InHand(c) /\ i = Item(c) THEN 1 ELSE 0)
  BY DEF Orphan, TypeInv
<1>5. ASSUME NEW i \in Pairs, Hand(i), ~(InHand(c) /\ i = Item(c)) PROVE Hand(i)'
  BY <1>5 DEF Hand, OneMoves, InHand, Item, Before
<1>6. ASSUME NEW i \in Pairs, answered[i] <= orphaned[i] + Held(i)
      PROVE  answered'[i] <= orphaned'[i] + Held(i)'
  <2>1. Latest("answers", i)' = Latest("answers", i)
    BY LatestSame
  <2>2. answered'[i] = answered[i] /\ answered[i] \in Nat /\ orphaned[i] \in Nat
    BY DEF TypeInv
  <2>3. CASE InHand(c) /\ i = Item(c)
    <3>1. Held(i) <= Held(i)' + 1 /\ Held(i) \in Nat /\ Held(i)' \in Nat
      BY <2>1 DEF Held
    <3>2. orphaned'[i] = orphaned[i] + 1
      BY <1>4, <2>3
    <3> QED  BY <1>6, <2>2, <3>1, <3>2
  <2>4. CASE ~(InHand(c) /\ i = Item(c))
    <3>1. Held(i) <= Held(i)' /\ Held(i) \in Nat /\ Held(i)' \in Nat
      BY <1>5, <2>1, <2>4 DEF Held
    <3>2. orphaned'[i] = orphaned[i]
      BY <1>4, <2>2, <2>4
    <3> QED  BY <1>6, <2>2, <3>1, <3>2
  <2> QED  BY <2>3, <2>4
<1> QED  BY <1>1, <1>2, <1>6 DEF AskedInv, AnswerInv

LEMMA AskStep ==
  ASSUME TypeInv, MetInv, AskedInv, NEW c \in Collects, Ask(c)
  PROVE  AskedInv'
<1>1. /\ OneMoves(c) /\ Stage[c] = "answers" /\ Working(c) /\ Before(c).error /\ Item(c) \in Pairs
      /\ UNCHANGED <<file, orphaned, met>>
  BY AskDoes DEF Ask, Files
<1>2. ~InHand(c) /\ collect[c].pc \in Looping /\ Busy(c)
  BY <1>1 DEF InHand, Working, Looping, Busy, Over
<1>3. CASE Ends(c) /\ UNCHANGED answered
  <2>1. ~InHand(c)' /\ collect'[c].pc # "append"
    BY <1>3 DEF InHand, Ends
  <2>2. met = {} => ReadInv'
    BY <1>1, <1>3, ReadOn DEF AskedInv, AnswerInv, Ends, Looping
  <2> QED  BY <1>1, <1>2, <1>3, <2>1, <2>2, AsideStep
<1>4. CASE Takes(c, "append") /\ collect'[c].record.error /\ UNCHANGED answered
  <2>1. ~InHand(c)'
    BY <1>4 DEF InHand
  <2>2. met = {} => ReadInv'
    BY <1>1, <1>2, <1>4, ReadOn DEF AskedInv, AnswerInv, Takes
  <2>3. HandInv'
    BY <1>1, <1>4 DEF AskedInv, HandInv, OneMoves, Before, Takes
  <2>4. \A i : Hand(i)' <=> Hand(i)
    BY <1>1, <1>2, <2>1, HandSame
  <2>5. \A s, i : Latest(s, i)' = Latest(s, i)
    BY <1>1, LatestSame
  <2>6. \A i : Held(i)' = Held(i)
    BY <2>4, <2>5 DEF Held
  <2> QED  BY <1>1, <1>4, <2>2, <2>3, <2>6 DEF AskedInv, AnswerInv
<1>5. CASE Takes(c, "judge") /\ ~collect'[c].record.error /\ answered' = [answered EXCEPT ![Item(c)] = @ + 1]
  <2>1. InHand(c)' /\ Item(c)' = Item(c)
    BY <1>1, <1>5 DEF InHand, Takes, Before, Item
  <2>2. met = {} => ReadInv'
    BY <1>1, <1>2, <1>5, ReadOn DEF AskedInv, AnswerInv, Takes
  <2>3. HandInv'
    BY <1>1, <1>5 DEF AskedInv, HandInv, OneMoves, Before, Takes
  <2>4. \A i : Latest("answers", i)' = Latest("answers", i)
    BY <1>1, LatestSame
  <2>5. ASSUME met = {}, NEW i \in Pairs PROVE answered'[i] <= orphaned'[i] + Held(i)'
    <3>1. answered[i] <= orphaned[i] + Held(i) /\ orphaned'[i] = orphaned[i]
      BY <1>1, <2>5 DEF AskedInv, AnswerInv
    <3>2. answered[i] \in Nat /\ orphaned[i] \in Nat
      BY DEF TypeInv
    <3>3. CASE i = Item(c)
      <4>1. Latest("answers", i).error
        <5>1. Before(c) = Latest("answers", i)
          BY <1>1, <1>2, <2>5, <3>3, TakesUp DEF AskedInv, AnswerInv, ReadInv, Before, Item
        <5> QED  BY <1>1, <5>1
      <4>2. ~Hand(i)
        BY <1>1, <1>2, <2>5, Alone DEF Hand, InHand, Busy, Over
      <4>3. Held(i) = 0
        BY <4>1, <4>2 DEF Held
      <4>4. Hand(i)'
        BY <2>1, <3>3 DEF Hand
      <4>5. Held(i)' = 1
        BY <2>4, <4>1, <4>4 DEF Held
      <4>6. answered'[i] = answered[i] + 1
        BY <1>5, <3>3 DEF TypeInv
      <4> QED  BY <3>1, <3>2, <4>3, <4>5, <4>6
    <3>4. CASE i # Item(c)
      <4>1. Hand(i) => Hand(i)'
        BY <1>1, <1>2 DEF Hand, OneMoves, InHand, Item, Before
      <4>2. Held(i) <= Held(i)' /\ Held(i) \in Nat /\ Held(i)' \in Nat
        BY <2>4, <4>1 DEF Held
      <4>3. answered'[i] = answered[i]
        BY <1>5, <3>4 DEF TypeInv
      <4> QED  BY <3>1, <3>2, <4>2, <4>3
    <3> QED  BY <3>3, <3>4
  <2> QED  BY <1>1, <2>2, <2>3, <2>5 DEF AskedInv, AnswerInv
<1> QED  BY <1>3, <1>4, <1>5, AskDoes

LEMMA RecordStep ==
  ASSUME TypeInv, MetInv, AskedInv, NEW c \in Collects, RecordLine(c)
  PROVE  AskedInv'
<1> DEFINE r == collect[c].record
           s == Stage[c]
<1>1. /\ OneMoves(c) /\ s \in STAGES /\ r \in RecordOf(s) /\ r.item = Item(c) /\ Item(c) \in Pairs
      /\ First(collect[c].queue) \in DOMAIN collect[c].queue
      /\ First(collect[c].queue) \in DOMAIN Items
      /\ collect[c].pc \in {"judge", "append"} /\ collect'[c].pc \notin {"judge", "append"}
      /\ UNCHANGED <<answered, orphaned, met>>
  BY RecordLineDoes DEF RecordLine, Ends, History
<1>2. \A t \in STAGES, i \in Pairs : Latest(t, i)' = IF t = s /\ i = Item(c) THEN r ELSE Latest(t, i)
  <2>1. file' = [file EXCEPT ![s] = Append(@, r)]
    BY RecordLineDoes
  <2> HIDE DEF r, s
  <2>2. s \in STAGES /\ r \in RecordOf(s)
    BY <1>1
  <2>3. \A t \in STAGES, i \in Pairs : Latest(t, i)' = IF t = s /\ i = r.item THEN r ELSE Latest(t, i)
    BY <2>1, <2>2, Appended
  <2> QED  BY <1>1, <2>3
<1>3. Busy(c) /\ collect[c].pc \in Looping /\ ~InHand(c)'
  BY <1>1 DEF Busy, Over, Looping, InHand
<1>4. HandInv'
  BY <1>1 DEF AskedInv, HandInv, OneMoves, Before
<1>5. ASSUME met = {} PROVE ReadInv'
  <2> SUFFICES ASSUME NEW d \in Collects, collect'[d].pc \in Looping, NEW n \in DOMAIN collect'[d].queue
               PROVE  collect'[d].queue[n] = Latest(Stage[d], Items[n])'
    BY DEF ReadInv
  <2>1. ReadInv /\ QueueType(collect[d].queue, Stage[d]) /\ Stage[d] \in STAGES
    BY <1>5, StageAssumption DEF AskedInv, AnswerInv, TypeInv, CommandType
  <2>2. CASE d # c
    <3>1. collect'[d] = collect[d] /\ Busy(d)
      BY <1>1, <2>2, LoopingBusy DEF OneMoves
    <3>2. Stage[d] # s
      BY <1>3, <1>5, <2>2, <3>1, Alone
    <3>3. Items[n] \in Pairs
      BY <2>1, <3>1, ItemsFacts DEF QueueType
    <3> QED  BY <1>2, <2>1, <3>1, <3>2, <3>3 DEF ReadInv
  <2>3. CASE d = c
    <3>1. /\ n \in DOMAIN collect[c].queue /\ n # First(collect[c].queue)
          /\ collect'[c].queue[n] = collect[c].queue[n]
      BY <2>3, RecordLineDoes DEF Ends, Looping
    <3>2. n \in DOMAIN Items /\ Items[n] \in Pairs /\ Items[n] # Item(c)
      BY <1>1, <2>1, <2>3, <3>1, ItemsFacts, ItemsAssumption DEF QueueType, Item
    <3> QED  BY <1>1, <1>2, <1>3, <2>1, <2>3, <3>1, <3>2 DEF ReadInv
  <2> QED  BY <2>2, <2>3
<1>6. ASSUME NEW i \in Pairs, Hand(i), ~(InHand(c) /\ i = Item(c)) PROVE Hand(i)'
  BY <1>1, <1>6 DEF Hand, OneMoves, InHand, Item, Before
<1>7. ASSUME met = {}, NEW i \in Pairs PROVE Held(i) <= Held(i)'
  <2>1. CASE s = "answers" /\ i = Item(c)
    <3>1. Before(c) = Latest("answers", i)
      BY <1>1, <1>3, <1>7, <2>1 DEF AskedInv, AnswerInv, ReadInv, Before, Item
    <3>2. Latest("answers", i)' = r
      BY <1>1, <1>2, <2>1
    <3>3. Hand(i) => InHand(c)
      BY <1>3, <1>7, <2>1, Alone DEF Hand, InHand, Busy, Over
    <3>4. InHand(c) => Latest("answers", i).error /\ ~r.error
      BY <3>1 DEF InHand
    <3>5. r.error => Latest("answers", i).error
      <4>1. r.error => collect[c].pc = "append"
        BY <1>1 DEF TypeInv, CommandType, Answer
      <4> QED  BY <2>1, <3>1, <4>1 DEF AskedInv, HandInv
    <3> QED  BY <3>2, <3>3, <3>4, <3>5 DEF Held
  <2>2. CASE s # "answers" \/ i # Item(c)
    <3>1. Latest("answers", i)' = Latest("answers", i)
      BY <1>1, <1>2, <2>2 DEF STAGES
    <3>2. Hand(i) => Hand(i)'
      BY <1>6, <2>2 DEF InHand
    <3> QED  BY <3>1, <3>2 DEF Held
  <2> QED  BY <2>1, <2>2
<1>8. ASSUME met = {}, NEW i \in Pairs PROVE answered'[i] <= orphaned'[i] + Held(i)'
  <2>1. answered[i] <= orphaned[i] + Held(i) /\ answered[i] \in Nat /\ orphaned[i] \in Nat
    BY <1>8 DEF AskedInv, AnswerInv, TypeInv
  <2>2. Held(i) <= Held(i)' /\ Held(i) \in Nat /\ Held(i)' \in Nat
    BY <1>7, <1>8 DEF Held
  <2> QED  BY <1>1, <2>1, <2>2
<1> QED  BY <1>1, <1>4, <1>5, <1>8 DEF AskedInv, AnswerInv

LEMMA AskedStep == TypeInv /\ MetInv /\ AskedInv /\ [RagNext]_ragVars => AskedInv'
<1> SUFFICES ASSUME TypeInv, MetInv, AskedInv, [RagNext]_ragVars PROVE AskedInv'
  OBVIOUS
<1>1. met = {} => ReadInv
  BY DEF AskedInv, AnswerInv
<1>2. ASSUME NEW c \in Collects, Starts(c) PROVE AskedInv'
  <2>1. /\ OneMoves(c) /\ collect[c].pc = "idle" /\ collect'[c].pc = "opening"
        /\ UNCHANGED <<file, answered, orphaned>> /\ (met = {} \/ met' # {})
    BY <1>2, StartsDoes DEF Starts, Files
  <2>2. met = {} => ReadInv'
    BY <1>1, <2>1, ReadOn DEF Looping
  <2>3. ~InHand(c) /\ ~InHand(c)'
    BY <2>1 DEF InHand
  <2> QED  BY <2>1, <2>2, <2>3, AsideStep
<1>3. ASSUME NEW c \in Collects, ReadRun(c) PROVE AskedInv'
  <2>1. /\ OneMoves(c) /\ collect[c].pc = "opening" /\ collect'[c].pc \in {"dead", "done", "refused", "checking"}
        /\ UNCHANGED <<file, answered, orphaned, met>>
    BY <1>3, ReadRunDoes DEF ReadRun, Files, History, Ends
  <2>2. met = {} => ReadInv'
    BY <1>1, <2>1, ReadOn DEF Looping
  <2>3. ~InHand(c) /\ ~InHand(c)'
    BY <2>1 DEF InHand
  <2> QED  BY <2>1, <2>2, <2>3, AsideStep
<1>4. ASSUME NEW c \in Collects, OpenStage(c) PROVE AskedInv'
  <2>1. /\ OneMoves(c) /\ collect[c].pc = "checking" /\ collect'[c].pc \in {"dead", "done", "refused", "begin"}
        /\ UNCHANGED <<file, answered, orphaned, met>>
    BY <1>4, OpenStageDoes DEF OpenStage, Ends
  <2>2. met = {} => ReadInv'
    BY <1>1, <2>1, ReadOn DEF Looping
  <2>3. ~InHand(c) /\ ~InHand(c)'
    BY <2>1 DEF InHand
  <2> QED  BY <2>1, <2>2, <2>3, AsideStep
<1>5. ASSUME NEW c \in Collects, Begin(c) PROVE AskedInv'
  <2>1. /\ OneMoves(c) /\ collect[c].pc = "begin" /\ UNCHANGED <<file, answered, orphaned, met>>
        /\ \/ collect'[c].pc \in {"dead", "done", "refused"}
           \/ /\ collect'[c].pc = "next" /\ DOMAIN collect'[c].queue = Lacking(Stage[c])
              /\ \A n \in Lacking(Stage[c]) : collect'[c].queue[n] = Latest(Stage[c], Items[n])
    BY <1>5, BeginDoes DEF Begin, Files, History, Ends
  <2>2. met = {} => ReadInv'
    <3>1. \A s, i : Latest(s, i)' = Latest(s, i)
      BY <2>1, LatestSame
    <3> SUFFICES ASSUME ReadInv, NEW d \in Collects, collect'[d].pc \in Looping, NEW n \in DOMAIN collect'[d].queue
                 PROVE  collect'[d].queue[n] = Latest(Stage[d], Items[n])'
      BY <1>1 DEF ReadInv
    <3>2. CASE d = c
      BY <2>1, <3>1, <3>2 DEF Looping
    <3>3. CASE d # c
      BY <2>1, <3>1, <3>3 DEF OneMoves, ReadInv
    <3> QED  BY <3>2, <3>3
  <2>3. ~InHand(c) /\ ~InHand(c)' /\ collect'[c].pc # "append"
    BY <2>1 DEF InHand
  <2> QED  BY <2>1, <2>2, <2>3, AsideStep
<1>6. ASSUME NEW c \in Collects, Finish(c) PROVE AskedInv'
  <2>1. /\ OneMoves(c) /\ collect[c].pc = "next" /\ collect'[c].pc \in {"dead", "done", "refused"}
        /\ UNCHANGED <<file, answered, orphaned, met>>
    BY <1>6, FinishDoes DEF Finish, Files, History, Ends
  <2>2. met = {} => ReadInv'
    BY <1>1, <2>1, ReadOn DEF Looping
  <2>3. ~InHand(c) /\ ~InHand(c)'
    BY <2>1 DEF InHand
  <2> QED  BY <2>1, <2>2, <2>3, AsideStep
<1>7. ASSUME NEW c \in Collects, Search(c) PROVE AskedInv'
  <2>1. /\ OneMoves(c) /\ Stage[c] = "retrieval" /\ collect[c].pc = "next" /\ collect'[c].pc = "append"
        /\ collect'[c].queue = collect[c].queue /\ UNCHANGED <<file, answered, orphaned, met>>
    BY <1>7, SearchDoes DEF Search, Files, History, Takes
  <2>2. met = {} => ReadInv'
    BY <1>1, <2>1, ReadOn DEF Looping
  <2>3. ~InHand(c) /\ ~InHand(c)'
    BY <2>1 DEF InHand
  <2> QED  BY <2>1, <2>2, <2>3, AsideStep
<1>8. ASSUME NEW c \in Collects, Ask(c) PROVE AskedInv'
  BY <1>8, AskStep
<1>9. ASSUME NEW c \in Collects, Rejudge(c) PROVE AskedInv'
  <2>1. /\ OneMoves(c) /\ collect[c].pc = "next" /\ collect'[c].pc = "judge" /\ ~Before(c).error
        /\ collect'[c].queue = collect[c].queue /\ UNCHANGED <<file, answered, orphaned, met>>
    BY <1>9, RejudgeDoes DEF Rejudge, Files, History, Takes
  <2>2. met = {} => ReadInv'
    BY <1>1, <2>1, ReadOn DEF Looping
  <2>3. ~InHand(c) /\ ~InHand(c)'
    BY <2>1 DEF InHand, Before
  <2> QED  BY <2>1, <2>2, <2>3, AsideStep
<1>10. ASSUME NEW c \in Collects, Judge(c) PROVE AskedInv'
  <2>1. UNCHANGED <<file, answered, met>>
    BY <1>10 DEF Judge
  <2> QED  BY <1>10, <2>1, JudgeDoes, HoldStep, EndStep
<1>11. ASSUME NEW c \in Collects, RecordLine(c) PROVE AskedInv'
  BY <1>11, RecordStep
<1>12. ASSUME NEW c \in Collects, Kill(c) PROVE AskedInv'
  BY <1>12, KillDoes, EndStep DEF Kill
<1>13. CASE Redeploy \/ UNCHANGED ragVars
  <2>1. UNCHANGED <<file, answered, orphaned, met, collect>>
    BY <1>13 DEF Redeploy, Files, ragVars
  <2>2. \A s, i : Latest(s, i)' = Latest(s, i)
    BY <2>1, LatestSame
  <2>3. \A i : Held(i)' = Held(i)
    BY <2>1, <2>2 DEF Held, Hand, InHand, Item, Before
  <2>4. ReadInv => ReadInv'
    BY <2>1, <2>2 DEF ReadInv
  <2> QED  BY <2>1, <2>3, <2>4 DEF AskedInv, AnswerInv, HandInv, Before
<1> QED  BY <1>2, <1>3, <1>4, <1>5, <1>6, <1>7, <1>8, <1>9, <1>10, <1>11, <1>12, <1>13 DEF RagNext

LEMMA RagAlways == RagSpec => [](TypeInv /\ MetInv /\ AskedInv)
<1>1. RagInit => MetInv /\ AskedInv
  <2> SUFFICES ASSUME RagInit PROVE MetInv /\ AskedInv
    OBVIOUS
  <2>1. \A c \in Collects : collect[c] = Idle /\ collect[c].pc = "idle"
    BY DEF RagInit, Idle
  <2>2. \A i \in Pairs : answered[i] = 0 /\ orphaned[i] = 0
    BY DEF RagInit, Pairs
  <2>3. \A i \in Pairs : answered[i] <= orphaned[i] + Held(i)
    BY <2>2 DEF Held
  <2> QED  BY <2>1, <2>3 DEF MetInv, AskedInv, HandInv, AnswerInv, ReadInv, Busy, Over, Looping
<1> QED  BY <1>1, TypeInit, TypeStep, MetStep, AskedStep, PTL DEF RagSpec

(* What the service answered is not asked again (rag_eval.py, collect): of  *)
(* any number of commands that follow one another, whatever their caps and  *)
(* faults, the question is put again only after a command died with the     *)
(* answer in hand.                                                          *)
THEOREM AnsweredOnceAlways == RagSpec => []AnsweredOnce
<1>1. TypeInv /\ AskedInv => AnsweredOnce
  <2> SUFFICES ASSUME TypeInv, AskedInv, met = {}, NEW i \in ToSet(Items)
               PROVE  answered[i] <= 1 + orphaned[i]
    BY DEF AnsweredOnce
  <2>1. answered[i] <= orphaned[i] + Held(i) /\ answered[i] \in Nat /\ orphaned[i] \in Nat
    BY DEF AskedInv, AnswerInv, TypeInv, Pairs
  <2>2. Hand(i) /\ i \in Pairs => Latest("answers", i).error
    <3> SUFFICES ASSUME Hand(i) PROVE Latest("answers", i).error
      OBVIOUS
    <3>1. PICK c \in Collects : InHand(c) /\ Item(c) = i
      BY DEF Hand
    <3>2. collect[c].pc \in {"judge", "append"} /\ Stage[c] = "answers" /\ Before(c).error
      BY <3>1 DEF InHand
    <3>3. First(collect[c].queue) \in DOMAIN collect[c].queue
      BY <3>2, QueueFirst DEF TypeInv, CommandType
    <3> QED  BY <3>1, <3>2, <3>3 DEF AskedInv, AnswerInv, ReadInv, Looping, Before, Item
  <2>3. Held(i) \in 0..1
    BY <2>2 DEF Held, Pairs
  <2> QED  BY <2>1, <2>3
<1> QED  BY <1>1, RagAlways, PTL

-----------------------------------------------------------------------------
(* What a return code of 0 means.                                          *)

LEMMA RecordInvStep ==
  TypeInv /\ (\A c \in Collects : RecordInv(c)) /\ [RagNext]_ragVars => (\A c \in Collects : RecordInv(c))'
<1> SUFFICES ASSUME TypeInv, \A c \in Collects : RecordInv(c), [RagNext]_ragVars, NEW d \in Collects
             PROVE  RecordInv(d)'
  OBVIOUS
<1> DEFINE p == collect[d]
           q == collect'[d]
<1>1. /\ p.pc = "judge" => p.errors \/ needs_verdicts(p.record) \subseteq p.todo
      /\ p.pc = "append" /\ ~p.errors /\ ~p.stop => Stage[d] = "retrieval" /\ ~p.record.error
      /\ p.stop => p.pc = "append"
  BY DEF RecordInv
<1>2. ASSUME q = p PROVE RecordInv(d)'
  BY <1>1, <1>2 DEF RecordInv
<1>3. ASSUME q.pc \notin {"judge", "append"}, ~q.stop PROVE RecordInv(d)'
  BY <1>3 DEF RecordInv
<1>4. ASSUME NEW c \in Collects, OneMoves(c), c = d => q.pc \notin {"judge", "append"} /\ ~q.stop
      PROVE  RecordInv(d)'
  BY <1>2, <1>3, <1>4 DEF OneMoves
<1>5. ASSUME NEW c \in Collects, Starts(c) PROVE RecordInv(d)'
  BY <1>1, <1>4, <1>5, StartsDoes DEF GoesOn
<1>6. ASSUME NEW c \in Collects, ReadRun(c) PROVE RecordInv(d)'
  BY <1>1, <1>4, <1>6, ReadRunDoes DEF GoesOn, Ends
<1>7. ASSUME NEW c \in Collects, OpenStage(c) PROVE RecordInv(d)'
  BY <1>1, <1>4, <1>7, OpenStageDoes DEF GoesOn, Ends
<1>8. ASSUME NEW c \in Collects, Begin(c) PROVE RecordInv(d)'
  BY <1>1, <1>4, <1>8, BeginDoes DEF GoesOn, Ends
<1>9. ASSUME NEW c \in Collects, Finish(c) PROVE RecordInv(d)'
  BY <1>4, <1>9, FinishDoes DEF Ends
<1>10. ASSUME NEW c \in Collects, Search(c) PROVE RecordInv(d)'
  <2>1. OneMoves(c)
    BY <1>10, SearchDoes
  <2>2. CASE c # d
    BY <1>2, <2>1, <2>2 DEF OneMoves
  <2>3. CASE c = d
    BY <1>1, <1>10, <2>3, SearchDoes DEF RecordInv, Takes
  <2> QED  BY <2>2, <2>3
<1>11. ASSUME NEW c \in Collects, Ask(c) PROVE RecordInv(d)'
  <2>1. OneMoves(c)
    BY <1>11, AskDoes
  <2>2. CASE c # d
    BY <1>2, <2>1, <2>2 DEF OneMoves
  <2>3. CASE c = d
    <3>1. \/ Ends(d)
          \/ /\ Takes(d, "judge") /\ needs_verdicts(q.record) = q.todo
          \/ Takes(d, "append") /\ q.errors
      BY <1>11, <2>3, AskDoes
    <3> QED  BY <1>1, <1>3, <3>1 DEF RecordInv, Takes, Ends
  <2> QED  BY <2>2, <2>3
<1>12. ASSUME NEW c \in Collects, Rejudge(c) PROVE RecordInv(d)'
  <2>1. OneMoves(c)
    BY <1>12, RejudgeDoes
  <2>2. CASE c # d
    BY <1>2, <2>1, <2>2 DEF OneMoves
  <2>3. CASE c = d
    BY <1>1, <1>12, <2>3, RejudgeDoes DEF RecordInv, Takes
  <2> QED  BY <2>2, <2>3
<1>13. ASSUME NEW c \in Collects, Judge(c) PROVE RecordInv(d)'
  <2>1. OneMoves(c)
    BY <1>13, JudgeDoes
  <2>2. CASE c # d
    BY <1>2, <2>1, <2>2 DEF OneMoves
  <2>3. CASE c = d
    <3>1. /\ p.pc = "judge"
          /\ \/ Ends(d)
             \/ /\ q.pc = "judge" /\ q.stop = p.stop
                /\ \/ /\ q.errors = p.errors
                      /\ needs_verdicts(q.record) = needs_verdicts(p.record) \ {Judging(d)}
                      /\ q.todo = p.todo \ {Judging(d)}
                   \/ q.errors
             \/ q.pc = "append" /\ q.stop
      BY <1>13, <2>3, JudgeDoes
    <3> HIDE DEF p, q
    <3>2. \/ q.pc \notin {"judge", "append"} /\ ~q.stop
          \/ q.pc = "judge" /\ ~q.stop /\ (q.errors \/ needs_verdicts(q.record) \subseteq q.todo)
          \/ q.pc = "append" /\ q.stop
      BY <1>1, <3>1 DEF Ends, q
    <3> QED  BY <3>2 DEF RecordInv, q
  <2> QED  BY <2>2, <2>3
<1>14. ASSUME NEW c \in Collects, RecordLine(c) PROVE RecordInv(d)'
  BY <1>4, <1>14, RecordLineDoes DEF GoesOn, Ends
<1>15. ASSUME NEW c \in Collects, Kill(c) PROVE RecordInv(d)'
  BY <1>4, <1>15, KillDoes DEF Ends
<1>16. CASE Redeploy \/ UNCHANGED ragVars
  BY <1>2, <1>16 DEF Redeploy, ragVars
<1> QED  BY <1>5, <1>6, <1>7, <1>8, <1>9, <1>10, <1>11, <1>12, <1>13, <1>14, <1>15, <1>16 DEF RagNext

(* A step that leaves the files of the stages as they are.                 *)
WorkOn(c) ==
  /\ OneMoves(c) /\ met \subseteq met'
  /\ \A s, i : Latest(s, i)' = Latest(s, i)
  /\ \A s \in STAGES : s \in torn' => s \in torn
  /\ collect[c].pc # "done"

LEMMA RecordedSame ==
  ASSUME NEW s, NEW i, Latest(s, i)' = Latest(s, i) PROVE Recorded(s, i)' <=> Recorded(s, i)
  BY DEF Recorded

LEMMA WorkOnStep ==
  ASSUME TypeInv, NEW c \in Collects, WorkOn(c), NEW d \in Collects,
         d \notin met => WorkInv(d) /\ SealInv(d),
         collect'[c].pc \in Looping =>
           \/ /\ collect[c].pc \in Looping /\ collect'[c].queue = collect[c].queue
              /\ collect[c].queue # <<>> /\ (collect[c].errors => collect'[c].errors)
           \/ /\ Stage[c] \notin torn /\ collect'[c].pc = "next"
              /\ DOMAIN collect'[c].queue = Lacking(Stage[c]),
         collect'[c].rc # 0
  PROVE  d \notin met' => WorkInv(d)' /\ SealInv(d)'
<1> SUFFICES ASSUME d \notin met' PROVE WorkInv(d)' /\ SealInv(d)'
  OBVIOUS
<1>1. WorkInv(d) /\ SealInv(d) /\ Stage[c] \in STAGES /\ Stage[d] \in STAGES
  BY StageAssumption DEF WorkOn
<1>2. \A s, i : Recorded(s, i)' <=> Recorded(s, i)
  BY RecordedSame DEF WorkOn
<1>3. \A e \in Collects \ {c} : collect'[e] = collect[e]
  BY DEF WorkOn, OneMoves
<1>4. WorkInv(d)'
  <2>1. CASE d # c
    BY <1>1, <1>2, <1>3, <2>1 DEF WorkInv, WorkOn
  <2>2. CASE d = c /\ collect'[c].pc \in Looping
    BY <1>1, <1>2, <2>2 DEF WorkInv, WorkOn, Lacking
  <2>3. CASE d = c /\ collect'[c].pc \notin Looping
    BY <2>3 DEF WorkInv
  <2> QED  BY <2>1, <2>2, <2>3
<1>5. SealInv(d)'
  <2> SUFFICES ASSUME collect'[d].rc = 0 PROVE SealInv(d)'
    BY DEF SealInv
  <2>1. d # c /\ collect[d].rc = 0
    BY <1>3
  <2>2. /\ \A n \in DOMAIN Items : Recorded(Stage[d], Items[n])
        /\ Stage[d] \notin torn
        /\ \A e \in Collects : Stage[e] = Stage[d] /\ collect[e].pc \in Looping =>
             collect[e].pc = "next" /\ collect[e].queue = <<>>
    BY <1>1, <2>1 DEF SealInv
  <2>3. ASSUME Stage[c] = Stage[d], collect'[c].pc \in Looping
        PROVE  collect'[c].pc = "next" /\ collect'[c].queue = <<>>
    <3>1. ~(collect[c].pc \in Looping /\ collect[c].queue # <<>>)
      BY <2>2, <2>3
    <3>2. collect'[c].pc = "next" /\ DOMAIN collect'[c].queue = {}
      BY <2>2, <2>3, <3>1 DEF Lacking
    <3> QED  BY <3>2, Emptied DEF WorkOn, OneMoves, CommandType
  <2>4. \A e \in Collects : Stage[e] = Stage[d] /\ collect'[e].pc \in Looping =>
             collect'[e].pc = "next" /\ collect'[e].queue = <<>>
    BY <1>3, <2>2, <2>3
  <2>5. Stage[d] \notin torn' /\ \A n \in DOMAIN Items : Recorded(Stage[d], Items[n])'
    BY <1>1, <1>2, <2>2 DEF WorkOn
  <2> QED  BY <2>4, <2>5 DEF SealInv
<1> QED  BY <1>4, <1>5

LEMMA RecordedIs ==
  \A s, i : Recorded(s, i)' <=> ~Latest(s, i)'.error /\ (s = "retrieval" \/ needs_verdicts(Latest(s, i)') = {})
  BY DEF Recorded, needs_verdicts

LEMMA FinishSeals ==
  ASSUME TypeInv, MetInv, NEW c \in Collects, Finish(c), NEW d \in Collects,
         d \notin met => WorkInv(d) /\ SealInv(d)
  PROVE  d \notin met' => WorkInv(d)' /\ SealInv(d)'
<1>0. UNCHANGED <<torn, met, file>>
  BY DEF Finish, Files, History
<1>1. /\ OneMoves(c) /\ collect[c].pc = "next" /\ collect[c].queue = <<>>
      /\ collect'[c].pc \notin Looping /\ (collect'[c].rc = 0 => ~collect[c].errors)
      /\ UNCHANGED <<torn, met>> /\ \A s, i : Latest(s, i)' = Latest(s, i)
  BY <1>0, FinishDoes, LatestSame DEF Ends, Looping
<1>2. \A s, i : Recorded(s, i)' <=> Recorded(s, i)
  BY <1>1, RecordedSame
<1>3. \A e \in Collects \ {c} : collect'[e] = collect[e]
  BY <1>1 DEF OneMoves
<1> SUFFICES ASSUME d \notin met PROVE WorkInv(d)' /\ SealInv(d)'
  BY <1>1
<1>4. CASE d # c
  <2>1. WorkInv(d)'
    BY <1>1, <1>2, <1>3, <1>4 DEF WorkInv
  <2>2. SealInv(d)'
    BY <1>1, <1>2, <1>3, <1>4 DEF SealInv
  <2> QED  BY <2>1, <2>2
<1>5. CASE d = c
  <2>1. WorkInv(d)'
    BY <1>1, <1>5 DEF WorkInv
  <2>2. \A e \in Collects : Stage[e] = Stage[c] /\ collect'[e].pc \in Looping => FALSE
    <3> SUFFICES ASSUME NEW e \in Collects, Stage[e] = Stage[c], collect'[e].pc \in Looping PROVE FALSE
      OBVIOUS
    <3>1. e # c /\ Busy(e) /\ Busy(c)
      BY <1>1, <1>3 DEF Busy, Over, Looping
    <3> QED  BY <1>5, <3>1 DEF MetInv
  <2>3. collect[c].pc \in Looping /\ DOMAIN collect[c].queue = {}
    BY <1>1, Emptied DEF Looping
  <2> QED  BY <1>1, <1>2, <1>5, <2>1, <2>2, <2>3 DEF WorkInv, SealInv
<1> QED  BY <1>4, <1>5

LEMMA RecordSeals ==
  ASSUME TypeInv, MetInv, NEW c \in Collects, RecordInv(c), RecordLine(c), NEW d \in Collects,
         d \notin met => WorkInv(d) /\ SealInv(d)
  PROVE  d \notin met' => WorkInv(d)' /\ SealInv(d)'
<1> DEFINE r == collect[c].record
           s == Stage[c]
<1>1. /\ OneMoves(c) /\ s \in STAGES /\ r \in RecordOf(s) /\ r.item = Item(c) /\ Item(c) \in Pairs
      /\ First(collect[c].queue) \in DOMAIN Items /\ Item(c) = Items[First(collect[c].queue)]
      /\ collect[c].pc = "append" \/ (collect[c].pc = "judge" /\ collect[c].todo = {})
      /\ \/ collect'[c].pc \notin Looping /\ collect'[c].rc = 1
         \/ /\ ~collect[c].stop /\ collect'[c].errors = collect[c].errors /\ collect'[c].rc = collect[c].rc
            /\ DOMAIN collect'[c].queue = DOMAIN collect[c].queue \ {First(collect[c].queue)}
      /\ UNCHANGED <<torn, met>>
  BY RecordLineDoes DEF RecordLine, Ends, GoesOn, History, Item, Looping
<1>2. \A t \in STAGES, i \in Pairs : Latest(t, i)' = IF t = s /\ i = Item(c) THEN r ELSE Latest(t, i)
  <2>1. file' = [file EXCEPT ![s] = Append(@, r)]
    BY RecordLineDoes
  <2> HIDE DEF r, s
  <2>2. s \in STAGES /\ r \in RecordOf(s)
    BY <1>1
  <2>3. \A t \in STAGES, i \in Pairs : Latest(t, i)' = IF t = s /\ i = r.item THEN r ELSE Latest(t, i)
    BY <2>1, <2>2, Appended
  <2> QED  BY <1>1, <2>3
<1>3. \A t \in STAGES, i \in Pairs : (t # s \/ i # Item(c)) => (Recorded(t, i)' <=> Recorded(t, i))
  BY <1>2, RecordedSame
<1>4. \A e \in Collects \ {c} : collect'[e] = collect[e]
  BY <1>1 DEF OneMoves
<1>5. collect[c].pc \in Looping /\ collect[c].pc # "next" /\ Busy(c)
  BY <1>1 DEF Looping, Busy, Over
<1>6. Stage[d] \in STAGES /\ \A n \in DOMAIN Items : Items[n] \in Pairs
  BY StageAssumption, ItemsFacts
<1> SUFFICES ASSUME d \notin met PROVE WorkInv(d)' /\ SealInv(d)'
  BY <1>1
<1>7. CASE Stage[d] # s
  <2>1. d # c /\ \A n \in DOMAIN Items : Recorded(Stage[d], Items[n])' <=> Recorded(Stage[d], Items[n])
    BY <1>3, <1>6, <1>7
  <2>2. WorkInv(d)'
    BY <1>1, <1>4, <2>1 DEF WorkInv
  <2>3. SealInv(d)'
    BY <1>1, <1>4, <1>7, <2>1 DEF SealInv
  <2> QED  BY <2>2, <2>3
<1>8. CASE Stage[d] = s /\ d # c
  <2>1. collect[d].rc # 0
    BY <1>5, <1>8 DEF SealInv
  <2>2. collect[d].pc \notin Looping
    BY <1>5, <1>8, LoopingBusy DEF MetInv
  <2> QED  BY <1>4, <1>8, <2>1, <2>2 DEF WorkInv, SealInv
<1>9. CASE d = c
  <2>1. collect'[c].rc # 0
    <3>1. CommandType(collect[c], s)
      BY DEF TypeInv
    <3>2. collect[c].rc # 0
      BY <1>1, <3>1 DEF CommandType, NoReturn
    <3> QED  BY <1>1, <3>2
  <2>2. ASSUME ~collect[c].errors, ~collect[c].stop, NEW i \in Pairs, i = Item(c) PROVE Recorded(s, i)'
    <3>1. ~r.error /\ (s = "retrieval" \/ needs_verdicts(r) = {})
      <4>1. CommandType(collect[c], s)
        BY DEF TypeInv
      <4>2. collect[c].pc = "judge" => r \in Answer
        BY <4>1 DEF CommandType
      <4>3. collect[c].pc = "judge" => ~r.error
        BY <4>2 DEF Answer
      <4> QED  BY <1>1, <2>2, <4>3 DEF RecordInv
    <3>2. Latest(s, i)' = r
      BY <1>1, <1>2, <2>2
    <3> HIDE DEF r, s
    <3> QED  BY <3>1, <3>2, RecordedIs
  <2>3. WorkInv(c)'
    <3>1. s \notin torn'
      BY <1>1, <1>5, <1>9 DEF WorkInv
    <3>2. ASSUME collect'[c].pc \in Looping, ~collect'[c].errors, NEW n \in DOMAIN Items
          PROVE  n \in DOMAIN collect'[c].queue \/ Recorded(s, Items[n])'
      <4>1. ~collect[c].errors /\ ~collect[c].stop
        <5>1. collect[c].errors = collect'[c].errors /\ ~collect[c].stop
          BY <1>1, <3>2
        <5> QED  BY <3>2, <5>1
      <4>2. n \in DOMAIN collect[c].queue \/ Recorded(s, Items[n])
        BY <1>5, <1>9, <4>1 DEF WorkInv
      <4>3. CASE n = First(collect[c].queue)
        BY <1>1, <1>6, <2>2, <4>1, <4>3
      <4>4. CASE n # First(collect[c].queue)
        <5>1. Items[n] # Item(c)
          BY <1>1, <4>4, ItemsAssumption
        <5> QED  BY <1>1, <1>3, <1>6, <3>2, <4>2, <4>4, <5>1
      <4> QED  BY <4>3, <4>4
    <3> QED  BY <3>1, <3>2 DEF WorkInv
  <2> QED  BY <1>9, <2>1, <2>3 DEF SealInv
<1> QED  BY <1>7, <1>8, <1>9

LEMMA KillSeals ==
  ASSUME TypeInv, MetInv, NEW c \in Collects, Kill(c), NEW d \in Collects,
         d \notin met => WorkInv(d) /\ SealInv(d)
  PROVE  d \notin met' => WorkInv(d)' /\ SealInv(d)'
<1>0. UNCHANGED <<met, file>>
  BY DEF Kill
<1>1. /\ OneMoves(c) /\ Busy(c) /\ collect'[c].pc \notin Looping /\ collect'[c].rc # 0
      /\ UNCHANGED met /\ \A s, i : Latest(s, i)' = Latest(s, i)
  BY <1>0, KillDoes, LatestSame DEF Ends, Looping, NoReturn
<1>2. \A s, i : Recorded(s, i)' <=> Recorded(s, i)
  BY <1>1, RecordedSame
<1>3. \A e \in Collects \ {c} : collect'[e] = collect[e]
  BY <1>1 DEF OneMoves
<1>4. ASSUME Stage[d] \in torn', Stage[d] \notin torn
      PROVE  Stage[c] = Stage[d] /\ collect[c].pc \in {"judge", "append"}
  <2>1. Stage[d] # "run.json"
    BY StageAssumption DEF STAGES
  <2> QED  BY <1>4, <2>1 DEF Kill
<1> SUFFICES ASSUME d \notin met PROVE WorkInv(d)' /\ SealInv(d)'
  BY <1>1
<1>5. CASE d = c
  BY <1>1, <1>5 DEF WorkInv, SealInv
<1>6. CASE d # c
  <2>1. collect[d].pc \in Looping => Stage[d] \notin torn'
    BY <1>1, <1>4, <1>6, LoopingBusy DEF MetInv, WorkInv
  <2>2. collect[d].rc = 0 => Stage[d] \notin torn'
    BY <1>4 DEF SealInv, Looping
  <2>3. WorkInv(d)'
    BY <1>2, <1>3, <1>6, <2>1 DEF WorkInv
  <2>4. SealInv(d)'
    BY <1>1, <1>2, <1>3, <1>6, <2>2 DEF SealInv
  <2> QED  BY <2>3, <2>4
<1> QED  BY <1>5, <1>6

LEMMA DoneStep == TypeInv /\ MetInv /\ DoneInv /\ [RagNext]_ragVars => DoneInv'
<1> SUFFICES ASSUME TypeInv, MetInv, DoneInv, [RagNext]_ragVars PROVE DoneInv'
  OBVIOUS
<1>1. \A d \in Collects : RecordInv(d)'
  BY RecordInvStep DEF DoneInv
<1> SUFFICES ASSUME NEW d \in Collects PROVE d \notin met' => WorkInv(d)' /\ SealInv(d)'
  BY <1>1 DEF DoneInv
<1>2. /\ d \notin met => WorkInv(d) /\ SealInv(d)
      /\ \A c \in Collects : RecordInv(c) /\ (collect[c].rc # NoReturn => collect[c].pc = "done")
  BY DEF DoneInv, TypeInv, CommandType
<1>3. ASSUME NEW c \in Collects, OneMoves(c), met \subseteq met', torn' \subseteq torn,
             UNCHANGED file, collect[c].pc # "done"
      PROVE  WorkOn(c)
  BY <1>3, LatestSame DEF WorkOn
<1>4. ASSUME NEW c \in Collects, Starts(c) PROVE d \notin met' => WorkInv(d)' /\ SealInv(d)'
  <2>1. met \subseteq met' /\ torn' \subseteq torn /\ UNCHANGED file
    BY <1>4 DEF Starts, Files
  <2>2. WorkOn(c) /\ collect'[c].pc \notin Looping /\ collect'[c].rc # 0
    BY <1>2, <1>3, <1>4, <2>1, StartsDoes DEF GoesOn, Looping, NoReturn
  <2> QED  BY <1>2, <2>2, WorkOnStep
<1>5. ASSUME NEW c \in Collects, ReadRun(c) PROVE d \notin met' => WorkInv(d)' /\ SealInv(d)'
  <2>1. met \subseteq met' /\ torn' \subseteq torn /\ UNCHANGED file
    BY <1>5 DEF ReadRun, Files, History
  <2>2. WorkOn(c) /\ collect'[c].pc \notin Looping /\ collect'[c].rc # 0
    BY <1>2, <1>3, <1>5, <2>1, ReadRunDoes DEF GoesOn, Ends, Looping, NoReturn
  <2> QED  BY <1>2, <2>2, WorkOnStep
<1>6. ASSUME NEW c \in Collects, OpenStage(c) PROVE d \notin met' => WorkInv(d)' /\ SealInv(d)'
  <2>1. WorkOn(c) /\ collect'[c].pc \notin Looping /\ collect'[c].rc # 0
    BY <1>2, <1>3, <1>6, OpenStageDoes DEF OpenStage, GoesOn, Ends, Looping, NoReturn
  <2> QED  BY <1>2, <2>1, WorkOnStep
<1>7. ASSUME NEW c \in Collects, Begin(c) PROVE d \notin met' => WorkInv(d)' /\ SealInv(d)'
  <2>1. met \subseteq met' /\ torn' \subseteq torn /\ UNCHANGED file
    BY <1>7 DEF Begin, Files, History
  <2>2. /\ WorkOn(c) /\ collect'[c].rc # 0
        /\ \/ collect'[c].pc \notin Looping
           \/ /\ collect'[c].pc = "next" /\ Stage[c] \notin torn
              /\ DOMAIN collect'[c].queue = Lacking(Stage[c])
    BY <1>2, <1>3, <1>7, <2>1, BeginDoes DEF GoesOn, Ends, Looping, NoReturn
  <2> QED  BY <1>2, <2>2, WorkOnStep
<1>8. ASSUME NEW c \in Collects, Finish(c) PROVE d \notin met' => WorkInv(d)' /\ SealInv(d)'
  BY <1>2, <1>8, FinishSeals
<1>9. ASSUME NEW c \in Collects, Search(c) PROVE d \notin met' => WorkInv(d)' /\ SealInv(d)'
  <2>1. met \subseteq met' /\ torn' \subseteq torn /\ UNCHANGED file
    BY <1>9 DEF Search, Files, History
  <2>2. /\ WorkOn(c) /\ collect'[c].rc # 0 /\ collect[c].pc \in Looping
        /\ collect'[c].queue = collect[c].queue /\ collect[c].queue # <<>>
        /\ collect[c].errors => collect'[c].errors
    BY <1>2, <1>3, <1>9, <2>1, SearchDoes DEF Takes, Looping, NoReturn
  <2> QED  BY <1>2, <2>2, WorkOnStep
<1>10. ASSUME NEW c \in Collects, Ask(c) PROVE d \notin met' => WorkInv(d)' /\ SealInv(d)'
  <2>1. WorkOn(c) /\ collect[c].pc = "next"
    BY <1>3, <1>10, AskDoes DEF Ask, Working, Files
  <2>2. \/ collect'[c].pc \notin Looping /\ collect'[c].rc # 0
        \/ /\ collect'[c].rc # 0 /\ collect[c].pc \in Looping
           /\ collect'[c].queue = collect[c].queue /\ collect[c].queue # <<>>
           /\ collect[c].errors => collect'[c].errors
    BY <1>2, <1>10, AskDoes DEF Ends, Takes, Looping, NoReturn
  <2> QED  BY <1>2, <2>1, <2>2, WorkOnStep
<1>11. ASSUME NEW c \in Collects, Rejudge(c) PROVE d \notin met' => WorkInv(d)' /\ SealInv(d)'
  <2>1. met \subseteq met' /\ torn' \subseteq torn /\ UNCHANGED file
    BY <1>11 DEF Rejudge, Files, History
  <2>2. /\ WorkOn(c) /\ collect'[c].rc # 0 /\ collect[c].pc \in Looping
        /\ collect'[c].queue = collect[c].queue /\ collect[c].queue # <<>>
        /\ collect[c].errors => collect'[c].errors
    BY <1>2, <1>3, <1>11, <2>1, RejudgeDoes DEF GoesOn, Takes, Looping, NoReturn
  <2> QED  BY <1>2, <2>2, WorkOnStep
<1>12. ASSUME NEW c \in Collects, Judge(c) PROVE d \notin met' => WorkInv(d)' /\ SealInv(d)'
  <2>1. WorkOn(c) /\ collect[c].pc = "judge"
    BY <1>3, <1>12, JudgeDoes DEF Judge
  <2>2. collect[c].queue # <<>> /\ collect[c].pc \in Looping
    BY <2>1 DEF TypeInv, CommandType, Looping
  <2>3. \/ collect'[c].pc \notin Looping /\ collect'[c].rc # 0
        \/ /\ collect'[c].rc # 0
           /\ collect'[c].queue = collect[c].queue
           /\ collect[c].errors => collect'[c].errors
    BY <1>2, <1>12, <2>1, JudgeDoes DEF Ends, HoldsOn, Looping, NoReturn
  <2> QED  BY <1>2, <2>1, <2>2, <2>3, WorkOnStep
<1>13. ASSUME NEW c \in Collects, RecordLine(c) PROVE d \notin met' => WorkInv(d)' /\ SealInv(d)'
  BY <1>2, <1>13, RecordSeals
<1>14. ASSUME NEW c \in Collects, Kill(c) PROVE d \notin met' => WorkInv(d)' /\ SealInv(d)'
  BY <1>2, <1>14, KillSeals
<1>15. CASE Redeploy \/ UNCHANGED ragVars
  <2>1. UNCHANGED <<file, torn, met, collect>>
    BY <1>15 DEF Redeploy, Files, ragVars
  <2>2. \A s, i : Recorded(s, i)' <=> Recorded(s, i)
    BY <2>1, LatestSame, RecordedSame
  <2> QED  BY <1>2, <2>1, <2>2 DEF WorkInv, SealInv
<1> QED  BY <1>4, <1>5, <1>6, <1>7, <1>8, <1>9, <1>10, <1>11, <1>12, <1>13, <1>14, <1>15 DEF RagNext

LEMMA DoneAlways == RagSpec => [](TypeInv /\ MetInv /\ DoneInv)
<1>1. RagInit => MetInv /\ DoneInv
  <2> SUFFICES ASSUME RagInit PROVE MetInv /\ DoneInv
    OBVIOUS
  <2>1. \A c \in Collects : collect[c].pc = "idle" /\ collect[c].rc = NoReturn /\ ~collect[c].stop
    BY DEF RagInit, Idle
  <2> QED  BY <2>1 DEF MetInv, DoneInv, RecordInv, WorkInv, SealInv, Busy, Over, Looping, NoReturn
<1> QED  BY <1>1, TypeInit, TypeStep, MetStep, DoneStep, PTL DEF RagSpec

(* A command that returns 0 and met no other of its stage leaves nothing to *)
(* collect (rag_eval.py, collect and build_records): the score of its stage *)
(* covers every pair, misses no answer and no verdict, and its file can be  *)
(* read, then and whatever is run, killed or redeployed afterwards.         *)
THEOREM ZeroMeansCompleteAlways == RagSpec => []ZeroMeansComplete
<1>1. TypeInv /\ DoneInv => ZeroMeansComplete
  <2> SUFFICES ASSUME TypeInv, DoneInv, NEW c \in Collects \ met, collect[c].rc = 0
               PROVE  /\ Scored(Stage[c]) = ToSet(Items)
                      /\ Header(Stage[c]).missing = 0 /\ Header(Stage[c]).unjudged = 0
                      /\ Stage[c] \notin torn
    BY DEF ZeroMeansComplete
  <2> DEFINE s == Stage[c]
  <2>1. /\ \A n \in DOMAIN Items : Recorded(s, Items[n])
        /\ s \notin torn /\ s \in STAGES
    BY StageAssumption DEF DoneInv, SealInv
  <2> HIDE DEF s
  <2>2. \A i \in Pairs : /\ ~Latest(s, i).error
                         /\ s = "retrieval" \/ needs_verdicts(Latest(s, i)) = {}
    BY <2>1, ItemsFacts DEF Recorded
  <2>3. Scored(s) = ToSet(Items)
    <3>1. ASSUME NEW i \in Pairs PROVE i[2] \in ModesOf(s)
      <4>1. PICK n \in DOMAIN file[s] : Latest(s, i) = file[s][n] /\ Latest(s, i).item = i
        BY <2>1, <2>2, LatestOf DEF Fresh
      <4> QED  BY <4>1 DEF ModesOf, ToSet
    <3> QED  BY <3>1 DEF Scored, Pairs
  <2>4. {i \in Scored(s) : Latest(s, i).error} = {}
    BY <2>2, <2>3 DEF Pairs
  <2>5. s # "retrieval" => {r \in Rows(s) : needs_verdicts(r) # {}} = {}
    BY <2>2, <2>3 DEF Pairs, Rows
  <2>6. Cardinality({}) = 0
    BY FS_EmptySet
  <2>7. Header(s).missing = 0 /\ Header(s).unjudged = 0
    BY <2>4, <2>5, <2>6 DEF Header
  <2> QED  BY <2>1, <2>3, <2>7 DEF s
<1> QED  BY <1>1, DoneAlways, PTL

-----------------------------------------------------------------------------
(* What a stage holds was measured under its snapshot.                     *)

(* A step of one command that leaves the snapshots and the settings alone. *)
LEMMA UnderStep ==
  ASSUME SnapshotInv, NEW c \in Collects, OneMoves(c),
         UNCHANGED <<config, runJson, moved, raced>>,
         \A s \in STAGES \ {Stage[c]} : file'[s] = file[s],
         ~raced /\ Stage[c] \notin moved => FileUnder(Stage[c])' /\ CommandUnder(c)',
         collect'[c].pc = "checking" => collect'[c].run = runJson
  PROVE  SnapshotInv'
<1> SUFFICES ASSUME ~raced PROVE SnapshotInv'
  BY DEF SnapshotInv
<1>1. \A d \in Collects \ {c} : collect'[d] = collect[d]
  BY DEF OneMoves
<1>2. ASSUME NEW s \in STAGES \ moved PROVE UnderOne(s)'
  <2>1. UnderOne(s)
    BY DEF SnapshotInv
  <2>2. FileUnder(s)'
    <3>1. CASE s = Stage[c]
      BY <1>2, <3>1
    <3>2. CASE s # Stage[c]
      BY <2>1, <3>2 DEF UnderOne, FileUnder
    <3> QED  BY <3>1, <3>2
  <2>3. ASSUME NEW d \in Collects, Stage[d] = s PROVE CommandUnder(d)'
    <3>1. CASE d = c
      BY <1>2, <2>3, <3>1
    <3>2. CASE d # c
      BY <1>1, <2>1, <2>3, <3>2 DEF UnderOne, CommandUnder
    <3> QED  BY <3>1, <3>2
  <2> QED  BY <2>2, <2>3 DEF UnderOne
<1>3. \A d \in Collects : collect'[d].pc = "checking" =>
        \A s \in STAGES : collect'[d].run[s] # NoConfig => collect'[d].run[s] = runJson[s]
  BY <1>1 DEF SnapshotInv
<1> QED  BY <1>2, <1>3 DEF SnapshotInv

(* The command opens its stage.                                            *)
LEMMA OpenUnder ==
  ASSUME TypeInv, SnapshotInv, NEW c \in Collects, OpenStage(c)
  PROVE  SnapshotInv'
<1> DEFINE s == Stage[c]
<1>1. /\ OneMoves(c) /\ collect[c].pc = "checking" /\ s \in STAGES
      /\ \/ Ends(c) /\ UNCHANGED <<runJson, raced>>
         \/ /\ collect'[c].pc = "begin" /\ Fits(c)
            /\ collect'[c].config = collect[c].config /\ collect'[c].queue = collect[c].queue
  BY OpenStageDoes, StageAssumption
<1>2. /\ UNCHANGED <<config, file, moved>>
      /\ \/ UNCHANGED <<runJson, raced>>
         \/ /\ collect[c].run[s] = NoConfig
            /\ runJson' = [collect[c].run EXCEPT ![s] = collect[c].config]
            /\ raced' = (raced \/ runJson # collect[c].run)
  BY DEF OpenStage
<1>3. collect[c].run[s] # NoConfig => UNCHANGED <<runJson, raced>>
  BY <1>2
<1>4. collect[c].run[s] = NoConfig /\ collect'[c].pc = "begin" =>
        /\ runJson' = [collect[c].run EXCEPT ![s] = collect[c].config]
        /\ raced' = (raced \/ runJson # collect[c].run)
  <2>1. collect[c].pc = "checking" /\ collect' = [collect EXCEPT ![c] = Ended(collect[c], "refused")]
          => collect'[c].pc = "refused"
    BY DEF TypeInv, Ended, Idle
  <2> QED  BY <1>1, <2>1 DEF OpenStage
<1>5. /\ config \in Configs /\ NoConfig \notin Configs
      /\ runJson \in [STAGES -> Configs \cup {NoConfig}]
      /\ collect[c].config \in Configs
      /\ \A d \in Collects : CommandType(collect[d], Stage[d])
  BY <1>1, ConfigsAssumption DEF TypeInv, CommandType
<1>6. CASE Ends(c) /\ UNCHANGED <<runJson, raced>>
  <2>1. ~raced /\ s \notin moved => FileUnder(s)' /\ CommandUnder(c)'
    BY <1>1, <1>2, <1>6, Emptied DEF SnapshotInv, UnderOne, FileUnder, CommandUnder, Ends, Looping
  <2> QED  BY <1>1, <1>2, <1>6, <2>1, UnderStep DEF Ends
<1>7. CASE collect'[c].pc = "begin" /\ collect[c].run[s] # NoConfig
  <2>1. Fits(c) /\ collect[c].run[s] = collect[c].config
    BY <1>1, <1>7 DEF Fits, Ends
  <2>2. ~raced => runJson[s] = collect[c].config
    BY <1>1, <1>7, <2>1 DEF SnapshotInv
  <2>3. ASSUME ~raced, s \notin moved PROVE FileUnder(s)' /\ CommandUnder(c)'
    <3>1. UnderOne(s) /\ collect[c].config = config
      BY <1>1, <2>3 DEF SnapshotInv, UnderOne, CommandUnder
    <3>2. FileUnder(s)'
      BY <1>2, <1>3, <1>7, <3>1 DEF UnderOne, FileUnder
    <3>3. CommandUnder(c)'
      BY <1>1, <1>2, <1>3, <1>7, <2>2, <2>3, <3>1 DEF UnderOne, CommandUnder, Ends
    <3> QED  BY <3>2, <3>3
  <2> QED  BY <1>1, <1>2, <1>3, <1>7, <2>3, UnderStep
<1>8. CASE collect'[c].pc = "begin" /\ collect[c].run[s] = NoConfig
  <2> SUFFICES ASSUME ~raced' PROVE SnapshotInv'
    BY DEF SnapshotInv
  <2>1. /\ ~raced /\ runJson = collect[c].run /\ runJson[s] = NoConfig
        /\ runJson' = [runJson EXCEPT ![s] = collect[c].config]
    BY <1>4, <1>8
  <2>2. runJson'[s] = collect[c].config /\ \A t \in STAGES \ {s} : runJson'[t] = runJson[t]
    BY <1>1, <1>5, <2>1
  <2>3. \A d \in Collects \ {c} : collect'[d] = collect[d]
    BY <1>1 DEF OneMoves
  <2>4. ASSUME NEW t \in STAGES \ moved PROVE UnderOne(t)'
    <3>1. UnderOne(t)
      BY <2>1, <2>4 DEF SnapshotInv
    <3>2. CASE t # s
      <4>1. FileUnder(t)'
        BY <1>2, <2>2, <3>1, <3>2 DEF UnderOne, FileUnder
      <4>2. ASSUME NEW d \in Collects, Stage[d] = t PROVE CommandUnder(d)'
        BY <1>2, <2>2, <2>3, <3>1, <3>2, <4>2 DEF UnderOne, CommandUnder
      <4> QED  BY <4>1, <4>2 DEF UnderOne
    <3>3. CASE t = s
      <4>1. FileUnder(t)'
        BY <1>2, <2>1, <3>1, <3>3 DEF UnderOne, FileUnder
      <4>2. ASSUME NEW d \in Collects, Stage[d] = s
            PROVE  \A n \in DOMAIN collect[d].queue : collect[d].queue[n].error
        <5>1. CommandUnder(d) /\ QueueType(collect[d].queue, s)
          BY <1>5, <3>1, <3>3, <4>2 DEF UnderOne, CommandType
        <5>2. ASSUME NEW n \in DOMAIN collect[d].queue, ~collect[d].queue[n].error PROVE FALSE
          <6>1. collect[d].queue[n] \in RecordOf(s)
            BY <5>1, <5>2 DEF QueueType, Fresh
          <6>2. collect[d].queue[n].under \in Configs
            BY <5>2, <6>1 DEF RecordOf, FailedRecord, Hit, Answer
          <6> QED  BY <1>5, <2>1, <4>2, <5>1, <5>2, <6>2 DEF CommandUnder
        <5> QED  BY <5>1, <5>2 DEF QueueType, RecordOf, FailedRecord, Hit, Answer, Fresh
      <4>3. ASSUME NEW d \in Collects, Stage[d] = s PROVE CommandUnder(d)'
        <5>1. CommandUnder(d) /\ CommandUnder(c)
          BY <3>1, <3>3, <4>3 DEF UnderOne
        <5>2. collect[d].pc \notin {"begin"} \cup Looping
          BY <1>5, <2>1, <4>3, <5>1 DEF CommandUnder
        <5>3. CASE d # c
          BY <1>2, <2>3, <4>2, <4>3, <5>1, <5>2, <5>3 DEF CommandUnder, Looping
        <5>4. CASE d = c
          BY <1>1, <1>2, <1>8, <2>2, <4>2, <5>1, <5>4 DEF CommandUnder, Looping, Ends
        <5> QED  BY <5>3, <5>4
      <4> QED  BY <3>3, <4>1, <4>3 DEF UnderOne
    <3> QED  BY <3>2, <3>3
  <2>5. ASSUME NEW d \in Collects, collect'[d].pc = "checking",
               NEW t \in STAGES, collect'[d].run[t] # NoConfig
        PROVE  collect'[d].run[t] = runJson'[t]
    <3>1. d # c /\ collect'[d] = collect[d]
      BY <1>8, <2>3, <2>5
    <3>2. collect[d].run[t] = runJson[t]
      BY <2>1, <2>5, <3>1 DEF SnapshotInv
    <3> QED  BY <2>1, <2>2, <2>5, <3>1, <3>2
  <2>6. ASSUME NEW t \in STAGES, runJson'[t] # NoConfig, NEW u \in STAGES, runJson'[u] # NoConfig
        PROVE  SameCollection(runJson'[t], runJson'[u])
    <3>1. \A v \in STAGES : runJson[v] # NoConfig => SameCollection(runJson[v], collect[c].config)
      BY <1>1, <1>8, <2>1 DEF Fits, Ends
    <3> QED  BY <2>1, <2>2, <2>6, <3>1 DEF SnapshotInv, SameCollection
  <2> QED  BY <1>2, <2>4, <2>5, <2>6 DEF SnapshotInv
<1>9. Ends(c) \/ collect'[c].pc = "begin"
  BY <1>1
<1>10. Ends(c) => UNCHANGED <<runJson, raced>>
  BY <1>1 DEF Ends
<1> QED  BY <1>6, <1>7, <1>8, <1>9, <1>10

LEMMA SnapshotStep == TypeInv /\ SnapshotInv /\ [RagNext]_ragVars => SnapshotInv'
<1> SUFFICES ASSUME TypeInv, SnapshotInv, [RagNext]_ragVars PROVE SnapshotInv'
  OBVIOUS
<1>1. ASSUME NEW c \in Collects, ~raced, Stage[c] \notin moved
      PROVE  FileUnder(Stage[c]) /\ CommandUnder(c)
  BY <1>1, StageAssumption DEF SnapshotInv, UnderOne
<1>2. ASSUME NEW c \in Collects, OneMoves(c), UNCHANGED <<config, runJson, moved, raced, file>>,
             CommandUnder(c) => CommandUnder(c)',
             collect'[c].pc = "checking" => collect'[c].run = runJson
      PROVE  SnapshotInv'
  <2>1. ~raced /\ Stage[c] \notin moved => FileUnder(Stage[c])' /\ CommandUnder(c)'
    BY <1>1, <1>2 DEF FileUnder
  <2> QED  BY <1>2, <2>1, UnderStep
<1>3. ASSUME NEW c \in Collects, OneMoves(c), UNCHANGED <<config, runJson, moved, raced, file>>, Ends(c)
      PROVE  SnapshotInv'
  BY <1>2, <1>3, Emptied DEF Ends, CommandUnder, Looping
<1>4. ASSUME NEW c \in Collects, Starts(c) PROVE SnapshotInv'
  <2>1. UNCHANGED <<config, runJson, moved, raced, file>>
    BY <1>4 DEF Starts, Files
  <2>2. OneMoves(c) /\ collect'[c].pc # "checking" /\ (CommandUnder(c) => CommandUnder(c)')
    BY <1>4, <2>1, StartsDoes DEF CommandUnder, Looping
  <2> QED  BY <1>2, <2>1, <2>2
<1>5. ASSUME NEW c \in Collects, ReadRun(c) PROVE SnapshotInv'
  <2>1. UNCHANGED <<config, runJson, moved, raced, file>>
    BY <1>5 DEF ReadRun, Files, History
  <2>2. CASE Ends(c)
    BY <1>3, <1>5, <2>1, <2>2, ReadRunDoes
  <2>3. CASE ~Ends(c)
    <3>1. OneMoves(c) /\ collect'[c].run = runJson /\ (CommandUnder(c) => CommandUnder(c)')
      BY <1>5, <2>1, <2>3, ReadRunDoes DEF CommandUnder, Looping
    <3> QED  BY <1>2, <2>1, <3>1
  <2> QED  BY <2>2, <2>3
<1>6. ASSUME NEW c \in Collects, OpenStage(c) PROVE SnapshotInv'
  BY <1>6, OpenUnder
<1>7. ASSUME NEW c \in Collects, Begin(c) PROVE SnapshotInv'
  <2>1. UNCHANGED <<config, runJson, moved, raced, file>>
    BY <1>7 DEF Begin, Files, History
  <2>2. CASE Ends(c)
    BY <1>3, <1>7, <2>1, <2>2, BeginDoes
  <2>3. CASE ~Ends(c)
    <3>1. /\ OneMoves(c) /\ collect[c].pc = "begin" /\ collect'[c].pc = "next"
          /\ DOMAIN collect'[c].queue = Lacking(Stage[c])
          /\ \A n \in Lacking(Stage[c]) : collect'[c].queue[n] = Latest(Stage[c], Items[n])
      BY <1>7, <2>3, BeginDoes
    <3>2. ASSUME ~raced, Stage[c] \notin moved PROVE CommandUnder(c)'
      <4>1. FileUnder(Stage[c]) /\ CommandUnder(c)
        BY <1>1, <3>2
      <4>2. ASSUME NEW n \in Lacking(Stage[c]), ~Latest(Stage[c], Items[n]).error
            PROVE  Latest(Stage[c], Items[n]).under = runJson[Stage[c]]
        BY <4>1, <4>2, LatestOf, ItemsFacts, StageAssumption DEF Lacking, Fresh, FileUnder
      <4> QED  BY <2>1, <3>1, <4>1, <4>2 DEF CommandUnder, Looping
    <3>3. ~raced /\ Stage[c] \notin moved => FileUnder(Stage[c])'
      BY <1>1, <2>1 DEF FileUnder
    <3> QED  BY <2>1, <3>1, <3>2, <3>3, UnderStep
  <2> QED  BY <2>2, <2>3
<1>8. ASSUME NEW c \in Collects, Finish(c) PROVE SnapshotInv'
  <2>1. UNCHANGED <<config, runJson, moved, raced, file>>
    BY <1>8 DEF Finish, Files, History
  <2> QED  BY <1>3, <1>8, <2>1, FinishDoes
<1>9. ASSUME NEW c \in Collects, Search(c) PROVE SnapshotInv'
  <2>1. UNCHANGED <<config, runJson, moved, raced, file>>
    BY <1>9 DEF Search, Files, History
  <2>2. /\ OneMoves(c) /\ Takes(c, "append")
        /\ ~collect'[c].record.error => collect'[c].record.under = config
    BY <1>9, SearchDoes
  <2>3. CommandUnder(c) => CommandUnder(c)'
    BY <2>1, <2>2 DEF CommandUnder, Takes, Looping
  <2> QED  BY <1>2, <2>1, <2>2, <2>3 DEF Takes
<1>10. ASSUME NEW c \in Collects, Ask(c) PROVE SnapshotInv'
  <2>1. UNCHANGED <<config, runJson, moved, raced, file>> /\ OneMoves(c)
    BY <1>10, AskDoes DEF Ask, Files
  <2>2. CASE Ends(c)
    BY <1>3, <2>1, <2>2
  <2>3. CASE ~Ends(c)
    <3>1. /\ Takes(c, "judge") \/ Takes(c, "append")
          /\ ~collect'[c].record.error => collect'[c].record.under = config
      BY <1>10, <2>3, AskDoes
    <3>2. CommandUnder(c) => CommandUnder(c)'
      BY <2>1, <3>1 DEF CommandUnder, Takes, Looping
    <3> QED  BY <1>2, <2>1, <3>1, <3>2 DEF Takes
  <2> QED  BY <2>2, <2>3
<1>11. ASSUME NEW c \in Collects, Rejudge(c) PROVE SnapshotInv'
  <2>1. UNCHANGED <<config, runJson, moved, raced, file>>
    BY <1>11 DEF Rejudge, Files, History
  <2>2. OneMoves(c) /\ Takes(c, "judge") /\ collect'[c].record = Before(c)
    BY <1>11, RejudgeDoes
  <2>3. CommandUnder(c) => CommandUnder(c)'
    BY <2>1, <2>2 DEF CommandUnder, Takes, Looping, Before
  <2> QED  BY <1>2, <2>1, <2>2, <2>3 DEF Takes
<1>12. ASSUME NEW c \in Collects, Judge(c) PROVE SnapshotInv'
  <2>1. UNCHANGED <<config, runJson, moved, raced, file>> /\ OneMoves(c) /\ collect[c].pc = "judge"
    BY <1>12, JudgeDoes DEF Judge
  <2>2. CASE Ends(c)
    BY <1>3, <2>1, <2>2
  <2>3. CASE ~Ends(c)
    <3>1. HoldsOn(c) /\ collect'[c].pc \in {"judge", "append"}
      BY <1>12, <2>3, JudgeDoes
    <3>2. CommandUnder(c) => CommandUnder(c)'
      BY <2>1, <3>1 DEF CommandUnder, HoldsOn, Looping, Answer
    <3> QED  BY <1>2, <2>1, <3>1, <3>2
  <2> QED  BY <2>2, <2>3
<1>13. ASSUME NEW c \in Collects, RecordLine(c) PROVE SnapshotInv'
  <2> DEFINE r == collect[c].record
             s == Stage[c]
  <2>1. UNCHANGED <<config, runJson, moved, raced>>
    BY <1>13 DEF RecordLine, History
  <2>2. /\ OneMoves(c) /\ collect[c].pc \in {"judge", "append"} /\ s \in STAGES /\ r \in RecordOf(s)
        /\ file' = [file EXCEPT ![s] = Append(@, r)]
        /\ \/ Ends(c)
           \/ /\ collect'[c].pc = "next" /\ DOMAIN collect'[c].queue \subseteq DOMAIN collect[c].queue
              /\ \A n \in DOMAIN collect'[c].queue : collect'[c].queue[n] = collect[c].queue[n]
    BY <1>13, RecordLineDoes
  <2>3. /\ \A t \in STAGES \ {s} : file'[t] = file[t]
        /\ \A n \in DOMAIN file'[s] : file'[s][n] = r \/ (n \in DOMAIN file[s] /\ file'[s][n] = file[s][n])
    <3> HIDE DEF r, s
    <3> QED  BY <2>2, Appended DEF TypeInv
  <2>4. ASSUME ~raced, s \notin moved PROVE FileUnder(s)' /\ CommandUnder(c)'
    <3>1. FileUnder(s) /\ CommandUnder(c)
      BY <1>1, <2>4
    <3>2. runJson[s] # NoConfig /\ (~r.error => r.under = runJson[s])
      BY <2>2, <3>1, ConfigsAssumption DEF CommandUnder, Looping, TypeInv
    <3>3. FileUnder(s)'
      <4> HIDE DEF r
      <4> QED  BY <2>1, <2>3, <3>1, <3>2 DEF FileUnder
    <3>4. CommandUnder(c)'
      BY <2>1, <2>2, <3>1, Emptied DEF CommandUnder, Looping, Ends
    <3> QED  BY <3>3, <3>4
  <2>5. collect'[c].pc # "checking"
    BY <2>2 DEF Ends
  <2> QED  BY <2>1, <2>2, <2>3, <2>4, <2>5, UnderStep
<1>14. ASSUME NEW c \in Collects, Kill(c) PROVE SnapshotInv'
  <2>1. UNCHANGED <<config, runJson, moved, raced, file>>
    BY <1>14 DEF Kill
  <2> QED  BY <1>3, <1>14, <2>1, KillDoes
<1>15. CASE Redeploy
  <2>1. /\ UNCHANGED <<runJson, file, collect, raced>>
        /\ moved' = moved \cup {Stage[c] : c \in {d \in Collects : Busy(d)}}
    BY <1>15 DEF Redeploy, Files
  <2>2. ASSUME ~raced, NEW s \in STAGES \ moved' PROVE UnderOne(s)'
    <3>1. UnderOne(s)
      BY <2>1, <2>2 DEF SnapshotInv
    <3>2. FileUnder(s)'
      BY <2>1, <3>1 DEF UnderOne, FileUnder
    <3>3. ASSUME NEW c \in Collects, Stage[c] = s PROVE CommandUnder(c)'
      <4>1. CommandUnder(c) /\ ~Busy(c)
        BY <2>1, <2>2, <3>1, <3>3 DEF UnderOne
      <4> QED  BY <2>1, <4>1 DEF CommandUnder, Busy, Over, Looping
    <3> QED  BY <3>2, <3>3 DEF UnderOne
  <2> QED  BY <2>1, <2>2 DEF SnapshotInv
<1>16. CASE UNCHANGED ragVars
  BY <1>16 DEF ragVars, SnapshotInv, UnderOne, FileUnder, CommandUnder
<1> QED  BY <1>4, <1>5, <1>6, <1>7, <1>8, <1>9, <1>10, <1>11, <1>12, <1>13, <1>14, <1>15, <1>16 DEF RagNext

LEMMA SnapshotAlways == RagSpec => [](TypeInv /\ SnapshotInv)
<1>1. RagInit => SnapshotInv
  <2> SUFFICES ASSUME RagInit PROVE SnapshotInv
    OBVIOUS
  <2>1. \A c \in Collects : collect[c].pc = "idle" /\ collect[c].queue = <<>>
    BY DEF RagInit, Idle
  <2>2. \A s \in STAGES : runJson[s] = NoConfig /\ file[s] = <<>>
    BY DEF RagInit
  <2>3. DOMAIN <<>> = {}
    OBVIOUS
  <2>4. \A s \in STAGES : UnderOne(s)
    BY <2>1, <2>2, <2>3 DEF UnderOne, FileUnder, CommandUnder, Looping
  <2> QED  BY <2>1, <2>2, <2>4 DEF SnapshotInv
<1> QED  BY <1>1, TypeInit, TypeStep, SnapshotStep, PTL DEF RagSpec

(* All that a stage's score reads was measured under the one set of         *)
(* settings its snapshot names, and both stages under one collection        *)
(* (rag_eval.py, open_stage): whatever overlaps, is killed or redeployed,   *)
(* but for a redeploy under a command at work and two that open at once.    *)
THEOREM OneConfigAlways == RagSpec => []OneConfigPerStage
<1>1. TypeInv /\ SnapshotInv => OneConfigPerStage
  <2> SUFFICES ASSUME TypeInv, SnapshotInv, ~raced, NEW s \in STAGES \ moved, NEW r \in Rows(s)
               PROVE  r.under = Header(s).config
    BY DEF OneConfigPerStage, SnapshotInv
  <2>1. PICK i \in Pairs : r = Latest(s, i) /\ ~Latest(s, i).error
    BY DEF Rows, Scored, Pairs
  <2>2. PICK n \in DOMAIN file[s] : r = file[s][n]
    BY <2>1, LatestOf DEF Fresh
  <2>3. FileUnder(s) /\ ~r.error
    BY <2>1 DEF SnapshotInv, UnderOne
  <2> QED  BY <2>2, <2>3 DEF FileUnder, Header
<1> QED  BY <1>1, SnapshotAlways, PTL
=============================================================================
