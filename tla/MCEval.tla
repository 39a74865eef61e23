------------------------------- MODULE MCEval -------------------------------
(***************************************************************************)
(* The four groups of evaluation commands share no file, so each behaviour   *)
(* here is one of theirs: `group' says whose.                               *)
(***************************************************************************)
EXTENDS RagEval, AgentEval, GoldenSet, Grading, Scores, TLC

MCItems == << <<"q1", "dense">>, <<"q2", "dense">> >>
MCAnswerable == {<<"q1", "dense">>}
MCConfigs == {[collection |-> "k", llm |-> "openai"], [collection |-> "k", llm |-> "anthropic"],
              [collection |-> "l", llm |-> "openai"]}
MCAnswers == {[refused |-> TRUE, contexts |-> TRUE, cost |-> 0],
              [refused |-> FALSE, contexts |-> TRUE, cost |-> 2]}
MCStage == <<"answers", "answers", "retrieval">>
MCCap == <<5, 7, 0>>

MCEvalTasks == <<"t1", "t2">>
MCAgentConfigs ==
  {[mock |-> FALSE, reviewer |-> "cross", producers |-> {"openai"}],
   [mock |-> FALSE, reviewer |-> "same", producers |-> {"openai"}],
   [mock |-> FALSE, reviewer |-> "cross", producers |-> {"anthropic"}],
   [mock |-> TRUE, reviewer |-> "cross", producers |-> {"openai"}]}

VARIABLE group
Init == /\ group \in {"rag", "agent", "set", "grade"}
        /\ RagInit /\ AgentInit /\ SetInit /\ GradeInit
        /\ group # "rag" => config = CHOOSE c \in Configs : TRUE
        /\ group # "agent" => /\ label = "smoke"
                              /\ agentConfig = CHOOSE c \in AgentConfigs : TRUE
Next == \/ group = "rag" /\ RagNext /\ UNCHANGED <<group, agentVars, setVars, gradeVars>>
        \/ group = "agent" /\ AgentNext /\ UNCHANGED <<group, ragVars, setVars, gradeVars>>
        \/ group = "set" /\ SetNext /\ UNCHANGED <<group, ragVars, agentVars, gradeVars>>
        \/ group = "grade" /\ GradeNext /\ UNCHANGED <<group, ragVars, agentVars, setVars>>
Spec == Init /\ [][Next]_<<group, ragVars, agentVars, setVars, gradeVars>>

-----------------------------------------------------------------------------
(* Rankings of up to three hits over two items, and up to three questions.   *)
Rankings == UNION {[1..n -> SUBSET {0, 1}] : n \in 0..3}
QuestionSets == UNION {[1..n -> [score : {1, 4, 6}, should : BOOLEAN]] : n \in 0..3}
Ratings == UNION {[1..n -> BOOLEAN] : n \in 1..3}

RankingsAreScored ==
  \A ranked \in Rankings, k \in 1..3 :
    LET top == UNION {ranked[r] : r \in 1..Min({k, Len(ranked)})}
        ndcg == NdcgAtK(ranked, 2, k)
    IN  /\ RecallAtK(ranked, 2, k) = <<Cardinality(top), 2>>
        /\ (MrrAtK(ranked, k)[1] = 0) = (top = {})
        /\ AtMost(ndcg, <<1, 1>>)
        /\ ndcg[1] = ndcg[2] => Cardinality(top) >= Min({2, k})

ThresholdsAreBest ==
  \A qs \in QuestionSets : ChooseThreshold(qs) # None =>
    LET t == ChooseThreshold(qs)[1]
        scores == {q.score : q \in ToSet(qs)}
    IN  /\ \A u \in 0..7 : AtMost(RefusalPrf(qs, u).f1, RefusalPrf(qs, t).f1)
        /\ t # Infinity => \A s \in scores : (s < t) = (s < ConfigValue(t, scores))

AgreementIsMeasured ==
  \A a, b \in Ratings : Len(a) = Len(b) =>
    LET kappa == CohensKappa(a, b)
    IN  IF kappa = None THEN a = b /\ Cardinality(ToSet(a)) = 1
        ELSE AtMost(kappa, <<1, 1>>) /\ ((kappa[1] = kappa[2]) = (a = b))

RubricsFailClosed ==
  LET rubric == {[id |-> "a", critical |-> TRUE], [id |-> "b", critical |-> FALSE]}
      Entries == [id : {"a", "b", "c"}, passed : BOOLEAN]
  IN  \A verdict \in UNION {[1..n -> Entries] : n \in 0..3} :
        TaskSuccess(verdict, rubric) =
          (/\ [id |-> "a", passed |-> TRUE] \in ToSet(verdict)
           /\ [id |-> "a", passed |-> FALSE] \notin ToSet(verdict))

SharesAddUp ==
  \A sizes \in [1..3 -> 0..3], n \in 0..9 : (\E k \in 1..3 : sizes[k] > 0) =>
    LET Sum(s) == s[1] + s[2] + s[3]
    IN  /\ Sum(SynthesizeAllocate(sizes, n)) = n
        /\ Sum(GradeAllocate(sizes, n)) = Min({n, Sum(sizes)})
        /\ \A k2 \in 1..3 : GradeAllocate(sizes, n)[k2] <= sizes[k2]

Records == UNION {[1..n -> [score : {1, 4}, should : BOOLEAN, split : {"dev", "test"}, kind : {"near", "far"}]] : n \in 0..3}

RefusalsAreCounted ==
  \A qs \in Records : RefusalScores(qs, 4) # None =>
    LET scores == RefusalScores(qs, 4)[1]
        Dev == SelectSeq(qs, LAMBDA q : q.split = "dev")
    IN  /\ (scores.chosen = None) = (\A q \in ToSet(Dev) : ~q.should)
        /\ RefusalScores(Dev, 4)[1].chosen = scores.chosen
        /\ scores.chosen # None => \A split \in {"dev", "test"} :
             FoldFunction(+, 0, [k \in DOMAIN scores.kinds[1] |-> scores.kinds[1][k][split]]) = scores.at[1][split].tp

Claims == {None, << <<>> >>, << <<TRUE>> >>, << <<TRUE, FALSE>> >>}
Rows2 == {r \in [no_answer : BOOLEAN, refused : BOOLEAN, rating : {None, <<3>>, <<4>>},
                  supported : Claims, human : {None, <<TRUE>>, <<FALSE>>}] :
            r.rating # None => ~r.no_answer /\ ~r.refused}

AnswersAreScored ==
  \A rows \in UNION {[1..n -> Rows2] : n \in 0..2} :
    LET scores == AnswerScores(rows)
        agreement == Agreement(rows)
        Answered == SelectSeq(rows, LAMBDA r : ~r.refused)
    IN  /\ scores.n = scores.correct[2] + HowMany(rows, LAMBDA r : ~r.no_answer /\ ~r.refused /\ r.rating = None)
        /\ scores.fully_supported = AnswerScores(Answered).fully_supported
        /\ agreement.n <= scores.rated
        /\ agreement.n > 0 => (agreement.disagreements = {}) = (agreement.raw[1] = agreement.raw[2])

(* The numbers mean what metrics.py says of them, on every small input: nDCG *)
(* never passes 1 and reaches it only by finding all there is room for; no   *)
(* threshold refuses better than the chosen one, its value for the settings  *)
(* refuses the same questions, and no test question moves it; the refusals   *)
(* of each kind add up to those of the split; kappa is 1 for agreement only; *)
(* a refusal is never faithful, an unjudged answer neither right nor wrong;  *)
(* a criterion the judge leaves out or fails once has failed; a sample is as *)
(* large as it was asked for and takes no more from a stratum than it holds. *)
(* It is about no variable, so it is evaluated in a few states only.         *)
ScoresAreSound ==
  group = "set" /\ commands = 0 /\ golden # <<>> =>
    /\ RankingsAreScored /\ ThresholdsAreBest /\ AgreementIsMeasured
    /\ RubricsFailClosed /\ SharesAddUp /\ RefusalsAreCounted /\ AnswersAreScored

(* What people decide is kept: about drafts and about answers.               *)
HandworkIsKept == GoldenSetIsSound /\ GradesCount
=============================================================================
