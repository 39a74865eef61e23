------------------------------- MODULE Grading -------------------------------
(***************************************************************************)
(* How people grade the judge (eval/dataset/grade.py): a session samples the *)
(* answers of a run that the judge rated, leaves out those that have a grade *)
(* already, and appends one line per decision to human_grades.jsonl, which   *)
(* all runs share.  A text stands for its hash.                             *)
(***************************************************************************)
EXTENDS Integers, Sequences, SequencesExt, FiniteSets, FiniteSetsExt

CONSTANTS Asked,       \* the pairs of a question and a mode
          Texts,       \* the answers the service may give
          GradedRuns,  \* the runs people grade answers of
          Sessions,    \* grading sessions, each of one run
          SampleSize   \* --n
NoText == "none"

VARIABLES rated,     \* run -> pair -> the answer the judge rated, if it has
          grades,    \* human_grades.jsonl
          session,   \* the locals of each session
          crowded    \* history: two sessions were under way at the same time
gradeVars == <<rated, grades, session, crowded>>

NotBegun == [pc |-> "idle", run |-> NoText, sample |-> {}, todo |-> {}, skipped |-> {}]

GradeInit == /\ rated = [r \in GradedRuns |-> [p \in Asked |-> NoText]]
             /\ grades = <<>> /\ session = [s \in Sessions |-> NotBegun] /\ crowded = FALSE

(* Collecting goes on: an answer that was rated is never asked for again.    *)
Rate(r, p) ==
  /\ rated[r][p] = NoText
  /\ \E text \in Texts : rated' = [rated EXCEPT ![r][p] = text]
  /\ UNCHANGED <<grades, session, crowded>>

JudgedAnswers(r) == {[pair |-> p, text |-> rated[r][p]] : p \in {q \in Asked : rated[r][q] # NoText}}

(* n of them, whichever the seed picks of each stratum.                      *)
Samples(items) == kSubset(Min({SampleSize, Cardinality(items)}), items)

Ungraded(items) == {i \in items : \A g \in ToSet(grades) : <<g.pair, g.text>> # <<i.pair, i.text>>}

StartGrading(s, r) ==
  /\ session[s].pc = "idle" /\ JudgedAnswers(r) # {}
  /\ \E sample \in Samples(JudgedAnswers(r)) :
       session' = [session EXCEPT ![s] = [NotBegun EXCEPT !.pc = "ask", !.run = r,
                                            !.sample = sample, !.todo = Ungraded(sample)]]
  /\ crowded' = (crowded \/ \E o \in Sessions : session[o].pc = "ask")
  /\ UNCHANGED <<rated, grades>>

(* [p]ass or [f]ail: the line is on disk before the next answer is shown.    *)
Grade(s, i, pass) ==
  /\ session[s].pc = "ask" /\ i \in session[s].todo
  /\ grades' = Append(grades, [pair |-> i.pair, text |-> i.text, pass |-> pass])
  /\ session' = [session EXCEPT ![s].todo = @ \ {i}]
  /\ UNCHANGED <<rated, crowded>>

SkipAnswer(s, i) ==
  /\ session[s].pc = "ask" /\ i \in session[s].todo
  /\ session' = [session EXCEPT ![s].todo = @ \ {i}, ![s].skipped = @ \cup {i}]
  /\ UNCHANGED <<rated, grades, crowded>>

(* The end of the sample; [q]uit or a kill leaves some of it.                *)
EndSession(s) ==
  /\ session[s].pc = "ask"
  /\ session' = [session EXCEPT ![s].pc = IF session[s].todo = {} THEN "through" ELSE "quit"]
  /\ UNCHANGED <<rated, grades, crowded>>

GradeNext ==
  \/ \E r \in GradedRuns, p \in Asked : Rate(r, p)
  \/ \E s \in Sessions :
       \/ \E r \in GradedRuns : StartGrading(s, r)
       \/ \E i \in session[s].todo : SkipAnswer(s, i) \/ \E pass \in BOOLEAN : Grade(s, i, pass)
       \/ EndSession(s)

(* build_records: the last grade of exactly this answer, if there is one.    *)
HumanPass(r, p) ==
  LET lines == {n \in DOMAIN grades : <<grades[n].pair, grades[n].text>> = <<p, rated[r][p]>>}
  IN  IF lines = {} THEN <<>> ELSE <<grades[Max(lines)].pass>>

-----------------------------------------------------------------------------
(* Who went through a sample has decided about every answer of it that they  *)
(* did not skip, in whichever session and run that was; and nobody is asked  *)
(* twice about one answer, so no grade overrides another, unless two sessions *)
(* were under way at once (grade.py:95-96).                                 *)
GradesCount ==
  /\ \A s \in Sessions : session[s].pc = "through" =>
       \A i \in session[s].sample \ session[s].skipped : HumanPass(session[s].run, i.pair) # <<>>
  /\ ~crowded => \A m, n \in DOMAIN grades :
       <<grades[m].pair, grades[m].text>> = <<grades[n].pair, grades[n].text>> => m = n
=============================================================================
