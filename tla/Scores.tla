------------------------------- MODULE Scores -------------------------------
(***************************************************************************)
(* What the evaluation computes from its records (metrics.py and the score   *)
(* halves of rag_eval.py and agent_eval.py).  A ratio is a pair of naturals, *)
(* None when its denominator is 0; a score is a natural, in the unit of the  *)
(* last decimal that matters, and Infinity the end of the refusal sweep.     *)
(***************************************************************************)
EXTENDS Integers, Sequences, SequencesExt, FiniteSets, FiniteSetsExt

None == <<>>
Ratio(num, den) == IF den = 0 THEN None ELSE <<num, den>>
AtMost(p, q) == p[1] * q[2] <= q[1] * p[2]
HowMany(s, Test(_)) == Len(SelectSeq(s, Test))

-----------------------------------------------------------------------------
(* Retrieval: a ranking is a sequence of sets of evidence items.            *)
FirstRanks(ranked, k) ==
  FoldLeft(LAMBDA found, rank :
             LET new == ranked[rank] \ found.seen
             IN  [seen |-> found.seen \cup new,
                  ranks |-> found.ranks \o [i \in 1..Cardinality(new) |-> rank]],
           [seen |-> {}, ranks |-> <<>>], [r \in 1..Min({k, Len(ranked)}) |-> r]).ranks

RecallAtK(ranked, items, k) == <<Len(FirstRanks(ranked, k)), items>>

MrrAtK(ranked, k) ==
  LET hits == {r \in 1..Min({k, Len(ranked)}) : ranked[r] # {}}
  IN  IF hits = {} THEN <<0, 1>> ELSE <<1, Min(hits)>>

Discount == <<1000000, 630930, 500000, 430677>>      \* 10^6 / log2(rank + 1)
Gain(places) == FoldLeft(LAMBDA sum, r : sum + Discount[r], 0, places)

(* Mutant: an item counts at its hit's rank, the second of a hit too. *)
GainAtRank(found) == Gain(found)

(* The j-th item found is credited at rank max(r_j, j). *)
CreditedGain(found) == Gain([j \in DOMAIN found |-> Max({found[j], j})])

NdcgAtK(ranked, items, k) ==
  LET creditable == Min({items, k})
      found == FirstRanks(ranked, k)
  IN  <<CreditedGain(SubSeq(found, 1, Min({creditable, Len(found)}))),
        Gain([j \in 1..creditable |-> j])>>

-----------------------------------------------------------------------------
(* Refusals: a question is a pair of its top score and whether it should be  *)
(* refused; the gate refuses what scores below the threshold.               *)
Infinity == 99
RefusalPrf(questions, threshold) ==
  LET tp == HowMany(questions, LAMBDA q : q.score < threshold /\ q.should)
      fp == HowMany(questions, LAMBDA q : q.score < threshold /\ ~q.should)
      fn == HowMany(questions, LAMBDA q : q.score >= threshold /\ q.should)
  IN  [tp |-> tp, fp |-> fp, fn |-> fn, tn |-> Len(questions) - tp - fp - fn,
       precision |-> Ratio(tp, tp + fp), recall |-> Ratio(tp, tp + fn),
       f1 |-> Ratio(2 * tp, 2 * tp + fp + fn)]

Thresholds(questions) == {q.score : q \in ToSet(questions)} \cup {Infinity}

(* The highest F1, the lowest of the thresholds that reach it; None (a        *)
(* ValueError) when there is nothing to refuse.                              *)
ChooseThreshold(questions) ==
  LET F1(t) == RefusalPrf(questions, t).f1
      best == {t \in Thresholds(questions) :
                 \A u \in Thresholds(questions) : AtMost(F1(u), F1(t))}
  IN  IF \E q \in ToSet(questions) : q.should THEN <<Min(best)>> ELSE None

(* The value for the settings, cut to 6, 9 or 12 decimals: the first cut     *)
(* that no recorded score lies between.  (Infinity cannot be cut: the code    *)
(* raises OverflowError there.)                                             *)
Grains == <<4, 2, 1>>
ConfigValue(threshold, scores) ==
  LET cuts == [n \in DOMAIN Grains |-> threshold - (threshold % Grains[n])]
      fit == {n \in DOMAIN Grains : ~\E s \in scores : cuts[n] <= s /\ s < threshold}
  IN  IF fit = {} THEN threshold ELSE cuts[Min(fit)]

(* _refusals_by_kind: of each kind of question that has no answer, how many   *)
(* of a split the threshold refuses.                                        *)
RefusedByKind(records, threshold) ==
  [kind \in {q.kind : q \in {q \in ToSet(records) : q.should}} |->
     [split \in {"dev", "test"} |->
        HowMany(records, LAMBDA q : q.should /\ q.kind = kind /\ q.split = split
                                      /\ q.score < threshold)]]

(* refusal_scores: the threshold is chosen on dev and measured on test.  None *)
(* if the best one refuses everything: the code raises OverflowError there.  *)
RefusalScores(records, configured) ==
  LET Of(split) == SelectSeq(records, LAMBDA q : q.split = split)
      chosen == ChooseThreshold(Of("dev"))
      scores == {q.score : q \in ToSet(records)}
  IN  IF chosen = <<Infinity>> THEN None
      ELSE <<[chosen |-> chosen,
              config |-> IF chosen = None THEN None ELSE <<ConfigValue(chosen[1], scores)>>,
              at |-> IF chosen = None THEN None
                     ELSE <<[s \in {"dev", "test"} |-> RefusalPrf(Of(s), chosen[1])]>>,
              configured |-> RefusalPrf(Of("test"), configured),
              kinds |-> IF chosen = None THEN None ELSE <<RefusedByKind(records, chosen[1])>>]>>

-----------------------------------------------------------------------------
(* Answers and tasks.                                                       *)
CohensKappa(a, b) ==
  LET n == Len(a)
      pa == HowMany(a, LAMBDA x : x)
      pb == HowMany(b, LAMBDA x : x)
      agree == Cardinality({i \in 1..n : a[i] = b[i]})
      chance == pa * pb + (n - pa) * (n - pb)       \* p_e, over n squared
  IN  Ratio(n * agree - chance, n * n - chance)

(* rag_eval.correct: end to end, None while the verdict is missing *)
Correct(row) == IF row.no_answer THEN <<row.refused>>
                ELSE IF row.refused THEN <<FALSE>>
                ELSE IF row.rating = None THEN None
                ELSE <<row.rating[1] >= 4>>          \* CORRECTNESS_PASS_RATING

(* The share of an answer's claims that the contexts support.                *)
Faithfulness(row) ==
  IF row.refused \/ row.supported = None THEN None
  ELSE Ratio(HowMany(row.supported[1], LAMBDA s : s), Len(row.supported[1]))

(* What is not known yet is left out, and a refusal is neither rated nor      *)
(* faithful.                                                                *)
AnswerScores(rows) ==
  LET faithful == SelectSeq(rows, LAMBDA r : Faithfulness(r) # None)
      known == SelectSeq(rows, LAMBDA r : Correct(r) # None)
  IN  [n |-> Len(rows),
       correct |-> <<HowMany(known, LAMBDA r : Correct(r)[1]), Len(known)>>,
       rated |-> HowMany(rows, LAMBDA r : r.rating # None /\ ~r.refused),
       fully_supported |-> <<HowMany(faithful, LAMBDA r : Faithfulness(r)[1] = Faithfulness(r)[2]),
                             Len(faithful)>>]

(* score_answers: the answers that both the judge and a person graded.       *)
Agreement(rows) ==
  LET graded == SelectSeq(rows, LAMBDA r : r.human # None /\ r.rating # None)
      judge == [i \in DOMAIN graded |-> Correct(graded[i])[1]]
      human == [i \in DOMAIN graded |-> graded[i].human[1]]
      same == {i \in DOMAIN graded : judge[i] = human[i]}
  IN  [n |-> Len(graded), raw |-> Ratio(Cardinality(same), Len(graded)),
       kappa |-> IF graded = <<>> THEN None ELSE CohensKappa(judge, human),
       disagreements |-> {graded[i] : i \in DOMAIN graded \ same}]

Percentile(values, p) ==
  LET ordered == SortSeq(values, LAMBDA x, y : x < y)
      rank == (p * Len(ordered) + 99) \div 100
  IN  IF ordered = <<>> THEN None ELSE ordered[Max({1, rank})]

(* The rubric: a criterion the verdict leaves out has failed, and one it     *)
(* lists twice passed only if it did both times.                            *)
CriteriaPassed(verdict, rubric) ==
  [c \in rubric |-> LET entries == {e \in ToSet(verdict) : e.id = c.id}
                    IN  entries # {} /\ \A e \in entries : e.passed]

TaskSuccess(verdict, rubric) ==
  \A c \in rubric : c.critical => CriteriaPassed(verdict, rubric)[c]

(* task_scores: a task succeeds only if it completed *)
Success(row) == IF row.outcome # "completed" THEN <<FALSE>>
                ELSE IF row.verdict = None THEN None
                ELSE <<TaskSuccess(row.verdict[1], row.rubric)>>

ToolCallScores(calls, task) ==
  LET named == UNION {e.tools : e \in task.must} \cup task.may
      met == {e \in task.must : \E c \in ToSet(calls) :
                c.status = "success" /\ c.tool \in e.tools /\ e.args \subseteq c.args}
  IN  [recall |-> Ratio(Cardinality(met), Cardinality(task.must)),
       precision |-> Ratio(HowMany(calls, LAMBDA c : c.tool \in named), Len(calls)),
       errors |-> Ratio(HowMany(calls, LAMBDA c : c.status # "success"), Len(calls)),
       forbidden |-> HowMany(calls, LAMBDA c : c.tool \in task.forbidden)]

(* paired: the tasks both labels judged *)
Paired(left, right) ==
  LET both == {i \in DOMAIN left \cap DOMAIN right : left[i] # None /\ right[i] # None}
  IN  [n |-> Cardinality(both),
       both |-> {i \in both : left[i][1] /\ right[i][1]},
       only_first |-> {i \in both : left[i][1] /\ ~right[i][1]},
       only_second |-> {i \in both : right[i][1] /\ ~left[i][1]},
       neither |-> {i \in both : ~left[i][1] /\ ~right[i][1]}]

(* Largest remainder: n over strata in proportion to their sizes.  A tie     *)
(* goes to the first name in grade.py, to the last in synthesize.py, which   *)
(* also shares out more than there is.                                      *)
LargestRemainder(sizes, n, rank) ==
  LET total == FoldLeft(LAMBDA sum, s : sum + s, 0, sizes)
      Rest(k) == (n * sizes[k]) % total
      floors == [k \in DOMAIN sizes |-> (n * sizes[k]) \div total]
      over == n - FoldLeft(LAMBDA sum, f : sum + f, 0, floors)
      Before(k) == {j \in DOMAIN sizes \ {k} :
                      Rest(j) > Rest(k) \/ (Rest(j) = Rest(k) /\ rank[j] < rank[k])}
  IN  [k \in DOMAIN sizes |-> floors[k] + (IF Cardinality(Before(k)) < over THEN 1 ELSE 0)]

GradeAllocate(sizes, n) ==
  IF n >= FoldLeft(LAMBDA sum, s : sum + s, 0, sizes) THEN sizes
  ELSE LargestRemainder(sizes, n, [k \in DOMAIN sizes |-> k])

SynthesizeAllocate(sizes, n) == LargestRemainder(sizes, n, [k \in DOMAIN sizes |-> -k])
=============================================================================
