----------------------------- MODULE GateProofs -----------------------------
(***************************************************************************)
(* Theorems about TaskGraph's gates, for every set of subtasks, every set  *)
(* of valid plans, every limit and every choice of notified triggers, when *)
(* no collaborator raises and LangGraph refuses a resume that does not say *)
(* which of several interrupts it answers.  With faults, or without that   *)
(* refusal, these properties do not hold.                                  *)
(***************************************************************************)
EXTENDS TaskGraphProofs

Calm == Faults = {} /\ RefuseMultiple

-----------------------------------------------------------------------------
(* The inductive invariant, on top of TaskGraph's own.                     *)

(* The nodes that ask a person, and the gate of each.                      *)
GateNode == {"escalate_plan", "escalate_subtask", "final_gate"}
OwnGate == IF node = "escalate_plan" THEN PlanGate
           ELSE IF node = "escalate_subtask" THEN EscalationGate ELSE FinalGate

(* The row of an approval nobody has answered, and the gates that have a   *)
(* row at all.                                                             *)
Row0(g) == [gate |-> g, status |-> "pending", action |-> "none"]
Has(g) == \E r \in approvals : r.gate = g

(* The gate can still be answered; the graph waits at the gate.            *)
Open(g) == Row0(g) \in approvals \/ \E j \in jobs : j.gate = g
Waits(g) ==
  \/ run = "paused" /\ node \in GateNode /\ g = OwnGate
  \/ \E s \in Paused : g = NextGate(s)

(* What can be answered is exactly what the graph waits at, one row each.  *)
OpenInv ==
  /\ \A q, r \in approvals : q.gate = r.gate => q = r
  /\ \A g \in Gate : Open(g) => Waits(g)
  /\ run # "over" => \A g \in Gate : Waits(g) => Open(g)

(* A paused graph waits somewhere, and shows it.                           *)
PauseInv ==
  /\ run = "paused" => node \in GateNode \/ (node = "execute" /\ Paused # {})
  /\ run = "paused" => \A s \in Sid : branch[s] # "ready"
  /\ run # "over" /\ (run = "paused" \/ Paused # {}) => status = "awaiting_approval"
  /\ Paused # {} => "sensitive_operation" \notin Notify
  /\ run = "over" /\ node # "end" => Ambiguous \/ Paused = {}
  /\ run = "queued" => node = "intake"
  /\ run = "active" /\ Paused # {} => steps < RecursionLimit
  /\ approvals # {} => 0 < RecursionLimit

(* An answer on its way into the graph finds it just resumed, with nothing *)
(* else open, and the gate it was made for next.                           *)
Only(s) == \A t \in Sid \ {s} : branch[t] \in {"idle", "done"}
ResumeInv ==
  \A j \in resume :
    /\ resume = {j} /\ run = "active" /\ steps = 0 /\ jobs = {}
    /\ \A g \in Gate : Row0(g) \notin approvals
    /\ \/ node \in GateNode /\ j.gate = OwnGate /\ status = "awaiting_approval"
       \/ /\ node = "execute" /\ "sensitive_operation" \notin Notify
          /\ \E s \in Sid : /\ Only(s) /\ branch[s] \in {"ready", "done"}
                            /\ branch[s] = "ready" => j.gate = NextGate(s)

(* A gate has a row only once the graph asked there: none of a later       *)
(* attempt of a subtask, of a later round of its escalation, of a gate not *)
(* reached yet.                                                            *)
Asked == run = "paused" \/ resume # {}
ToolAsked ==
  \A s \in Sid, n, k \in Nat : Has(ToolGate(s, n, k)) =>
    \/ n <= results[s].attempts
    \/ /\ n = Attempt(s) /\ branch[s] \in {"ready", "paused"}
       /\ \/ k < gates[s]
          \/ k = gates[s] /\ branch[s] = "paused"
          \/ k = gates[s] /\ \E j \in resume : j.gate = ToolGate(s, n, k)
SubtaskAsked ==
  \A s \in Sid, n \in Nat : Has(SubtaskGate(s, n)) =>
    /\ n <= results[s].attempts
    /\ n = results[s].attempts =>
         \/ ~Exhausted(results[s])
         \/ node = "end"
         \/ node = "escalate_subtask" /\ escalation = s /\ Asked
PlanAsked ==
  Has(PlanGate) => node \notin {"intake", "plan"} /\ (node = "escalate_plan" => Asked)
FinalAsked ==
  Has(FinalGate) => /\ review /\ node \in {"final_gate", "deliver", "cleanup", "end"}
                    /\ node = "final_gate" => Asked
NotifiedOnce ==
  node = "escalate_subtask" /\ SubtaskTrigger(escalation) \in Notify => ~Has(EscalationGate)
AskedInv == ToolAsked /\ SubtaskAsked /\ PlanAsked /\ FinalAsked /\ NotifiedOnce

(* A tool gate: the one kind at which a rejection does not end the task.   *)
IsToolGate(g) == \E s \in Sid, n, k \in Nat : g = ToolGate(s, n, k)

(* With a review, only what a person let through gets to deliver, and a    *)
(* final status is final.                                                  *)
VerdictInv ==
  /\ review /\ (node \in {"deliver", "cleanup"} \/ status = "completed") =>
       Chosen(FinalGate, LetThrough) \/ TakenOver
  /\ status = "completed" => node \in {"cleanup", "end"}
  /\ status = "rejected" => node = "end"

(* A rejection has ended the task, or is on its way to the gate.           *)
RejectInv ==
  \A r \in approvals : r.action = "reject" =>
    \/ status = "rejected"
    \/ IsToolGate(r.gate)
    \/ /\ node \in GateNode /\ r.gate = OwnGate /\ status = "awaiting_approval"
       /\ \E j \in jobs \cup resume : j.gate = r.gate /\ j.action = "reject"

(* The subtask rows tell the results.                                      *)
RowsTell ==
  /\ \A s \in Sid : rows[s] = "completed" <=> Completed(s)
  /\ node \in {"intake", "plan", "escalate_plan"} => \A s \in Sid : ~Completed(s)

CalmInv ==
  /\ OpenInv /\ PauseInv /\ ResumeInv /\ AskedInv
  /\ VerdictInv /\ RejectInv /\ RowsTell /\ DecisionReachesItsGate

-----------------------------------------------------------------------------
(* What the steps at the gates do.                                         *)

(* Gates are told apart by their kind and by all their numbers.            *)
LEMMA GateKeys ==
  /\ PlanGate # FinalGate
  /\ \A s, n : SubtaskGate(s, n) \notin {PlanGate, FinalGate}
  /\ \A s, n, k : ToolGate(s, n, k) \notin {PlanGate, FinalGate}
  /\ \A s, n, t, m : SubtaskGate(s, n) = SubtaskGate(t, m) => s = t /\ n = m
  /\ \A s, n, k, t, m, l : ToolGate(s, n, k) = ToolGate(t, m, l) => s = t /\ n = m /\ k = l
  /\ \A s, n, t, m, l : SubtaskGate(s, n) # ToolGate(t, m, l)
BY DEF PlanGate, FinalGate, SubtaskGate, ToolGate

(* A gate with a row adds none.                                            *)
LEMMA EnqueueDoes ==
  ASSUME NEW g, NEW st, Enqueue(g, st)
  PROVE  /\ Has(g) => approvals' = approvals
         /\ ~Has(g) => approvals' = approvals \cup {[gate |-> g, status |-> st, action |-> "none"]}
BY DEF Enqueue, Has

(* A gate that asks has no row yet.                                        *)
LEMMA AsksAnew ==
  ASSUME IInv, CalmInv, resume = {}, run = "active"
  PROVE  /\ node \in {"escalate_plan", "escalate_subtask"} => ~Has(OwnGate)
         /\ node = "final_gate" => ~Has(FinalGate)
         /\ \A s \in Sid : branch[s] = "ready" => ~Has(NextGate(s))
<1>1. TypeOK /\ NodeInv /\ AskedInv
  BY DEF IInv, CalmInv
<1>2. node = "escalate_plan" => ~Has(OwnGate)
  BY <1>1 DEF AskedInv, PlanAsked, Asked, OwnGate
<1>3. node = "escalate_subtask" => ~Has(OwnGate)
  <2> SUFFICES ASSUME node = "escalate_subtask" PROVE ~Has(OwnGate)
    OBVIOUS
  <2>1. escalation \in Sid /\ Exhausted(results[escalation]) /\ results[escalation].attempts \in Nat
    BY <1>1 DEF NodeInv, TypeOK, Entry
  <2> QED  BY <1>1, <2>1 DEF AskedInv, SubtaskAsked, Asked, OwnGate, EscalationGate
<1>4. node = "final_gate" => ~Has(FinalGate)
  BY <1>1 DEF AskedInv, FinalAsked, Asked
<1>5. ASSUME NEW s \in Sid, branch[s] = "ready" PROVE ~Has(NextGate(s))
  <2>1. results[s].attempts \in Nat /\ gates[s] \in Nat
    BY <1>1 DEF TypeOK, Entry
  <2> QED  BY <1>1, <1>5, <2>1 DEF AskedInv, ToolAsked, NextGate, Attempt
<1> QED  BY <1>2, <1>3, <1>4, <1>5

(* Without faults the collaborators raise nothing.                         *)
LEMMA CalmSteps ==
  ASSUME Calm, [Next]_vars
  PROVE  \/ StartRun \/ Intake \/ PlanTask \/ PlanInvalid
         \/ NotifyPlan \/ AskPlan \/ AnswerPlan \/ Schedule
         \/ \E s \in Sid : \/ NotifyTool(s) \/ AskTool(s) \/ AnswerTool(s)
                           \/ AttemptFails(s) \/ AttemptReworked(s) \/ AttemptPasses(s)
         \/ CommitWave \/ PauseWave \/ GatherEscalates \/ GatherClear
         \/ NotifySubtask \/ AskSubtask \/ AnswerSubtask
         \/ Synthesize \/ FinalGateSkipped \/ AskFinal \/ AnswerFinal
         \/ Deliver \/ Cleanup \/ OutOfSteps \/ Reviewer \/ Resuming
         \/ UNCHANGED vars
<1>1. ~NodeRaises /\ ~AnsweredGateRaises /\ \A s \in Sid : ~BranchRaises(s)
  BY DEF Calm, NodeRaises, FaultyNodes, AnsweredGateRaises, BranchRaises
<1>2. QED
  BY <1>1 DEF Next, Worker, Execute, Terminated

(* The gate that takes the reviewer's decision is the one it was made for, *)
(* nothing else is open, and the answer leaves the approvals as they are.  *)
LEMMA TakeDoes ==
  ASSUME IInv, CalmInv, NEW g \in Gate, NEW j \in resume, Take(g, j),
         \/ node \in GateNode /\ g = OwnGate
         \/ node = "execute" /\ \E s \in Sid : branch[s] = "ready" /\ g = NextGate(s)
  PROVE  /\ j.gate = g /\ resume = {j} /\ resume' = {} /\ jobs = {}
         /\ Has(g) /\ approvals' = approvals
         /\ applied' = applied \cup {<<g, g>>}
<1>1. j.gate = g /\ resume = {j} /\ jobs = {}
  <2>1. ResumeInv
    BY DEF CalmInv
  <2>2. CASE node \in GateNode /\ g = OwnGate
    BY <2>1, <2>2 DEF ResumeInv, GateNode
  <2>3. CASE node = "execute" /\ \E s \in Sid : branch[s] = "ready" /\ g = NextGate(s)
    <3>1. PICK s \in Sid : branch[s] = "ready" /\ g = NextGate(s)
      BY <2>3
    <3>2. PICK t \in Sid : Only(t) /\ (branch[t] = "ready" => j.gate = NextGate(t))
      BY <2>1, <2>3 DEF ResumeInv, GateNode
    <3>3. s = t
      BY <3>1, <3>2 DEF Only
    <3> QED  BY <2>1, <3>1, <3>2, <3>3 DEF ResumeInv
  <2> QED  BY <2>2, <2>3
<1>2. [gate |-> g, status |-> "resolved", action |-> j.action] \in approvals
  BY <1>1 DEF IInv, ApprovalInv
<1>3. Has(g)
  BY <1>2 DEF Has
<1>4. approvals' = approvals
  BY <1>3, EnqueueDoes DEF Take
<1> QED  BY <1>1, <1>3, <1>4 DEF Take

(* Only a paused graph waits, and only a graph that waits has anything     *)
(* open.                                                                   *)
LEMMA NothingWaits ==
  ASSUME IInv, CalmInv, run # "paused", Paused = {}
  PROVE  \A g \in Gate : ~Waits(g) /\ ~Open(g)
BY DEF CalmInv, OpenInv, Waits

(* Only the branches of the wave pause.                                    *)
LEMMA OnlyTheWavePauses ==
  ASSUME IInv, node # "execute"
  PROVE  Paused = {}
BY DEF IInv, WaveInv, Paused

(* A resume job that is not refused is the only one, and it answers what   *)
(* the graph waits at.                                                     *)
LEMMA ResumeIsAlone ==
  ASSUME Calm, IInv, CalmInv, NEW j \in jobs, run \in {"paused", "over"}, node # "end", ~Ambiguous
  PROVE  /\ jobs = {j} /\ resume = {} /\ run = "paused"
         /\ \A g \in Gate : Row0(g) \notin approvals
         /\ \/ node \in GateNode /\ j.gate = OwnGate /\ Paused = {}
            \/ node = "execute" /\ \E s \in Sid : Paused = {s} /\ j.gate = NextGate(s)
<1>0. /\ TypeOK /\ NodeInv /\ WaveInv /\ ApprovalInv
      /\ OpenInv /\ PauseInv /\ ResumeInv
  BY DEF IInv, CalmInv
<1>1. j.gate \in Gate
  BY <1>0 DEF TypeOK, Job
<1>2. Waits(j.gate)
  BY <1>0, <1>1 DEF OpenInv, Open
<1>3. resume = {}
  BY <1>0 DEF ResumeInv
<1>4. run = "paused"
  BY <1>0, <1>2 DEF PauseInv, Waits
<1>5. \/ node \in GateNode /\ j.gate = OwnGate /\ Paused = {}
      \/ node = "execute" /\ \E s \in Sid : Paused = {s} /\ j.gate = NextGate(s)
  <2>1. CASE node \in GateNode
    <3>1. Paused = {}
      BY <2>1, OnlyTheWavePauses DEF GateNode
    <3> QED  BY <2>1, <3>1, <1>2 DEF Waits
  <2>2. CASE node \notin GateNode
    <3>1. PICK s \in Paused : j.gate = NextGate(s)
      BY <1>2, <2>2 DEF Waits
    <3>2. s \in Sid /\ node = "execute"
      BY <1>0, <3>1 DEF Paused, WaveInv
    <3>3. Paused = {s}
      BY <3>1 DEF Ambiguous, Calm
    <3> QED  BY <3>1, <3>2, <3>3
  <2> QED  BY <2>1, <2>2
<1>6. \A g \in Gate : Waits(g) => g = j.gate
  BY <1>5 DEF Waits, GateNode
<1>7. ASSUME NEW g \in Gate PROVE Row0(g) \notin approvals
  <2>1. SUFFICES ASSUME Row0(g) \in approvals PROVE FALSE
    OBVIOUS
  <2>2. g = j.gate
    BY <2>1, <1>0, <1>6 DEF OpenInv, Open
  <2>3. [gate |-> j.gate, status |-> "resolved", action |-> j.action] \in approvals
    BY <1>0 DEF ApprovalInv
  <2> QED  BY <2>1, <2>2, <2>3, <1>0 DEF OpenInv, Row0
<1>8. ASSUME NEW k \in jobs PROVE k = j
  <2>1. k.gate \in Gate /\ k \in Job /\ j \in Job
    BY <1>0 DEF TypeOK, Job
  <2>2. k.gate = j.gate
    BY <2>1, <1>0, <1>6 DEF OpenInv, Open
  <2>3. /\ [gate |-> j.gate, status |-> "resolved", action |-> j.action] \in approvals
        /\ [gate |-> k.gate, status |-> "resolved", action |-> k.action] \in approvals
    BY <1>0 DEF ApprovalInv
  <2>4. k.action = j.action
    BY <2>2, <2>3, <1>0 DEF OpenInv
  <2> QED  BY <2>1, <2>2, <2>4 DEF Job
<1> QED  BY <1>3, <1>4, <1>5, <1>7, <1>8

(* A finished graph has no resume job.                                     *)
LEMMA NoLateJob ==
  ASSUME IInv, CalmInv, node = "end"
  PROVE  jobs = {}
<1>1. Paused = {}
  BY OnlyTheWavePauses
<1>2. run = "over"
  BY DEF IInv, NodeInv
<1>3. \A j \in jobs : j.gate \in Gate
  BY DEF IInv, TypeOK, Job
<1> QED  BY <1>1, <1>2, <1>3, NothingWaits DEF Open

-----------------------------------------------------------------------------
(* One lemma for each part of the invariant, one step for each action.     *)

(* The subtask rows keep telling the results.                              *)
LEMMA RowsTellStep ==
  ASSUME Calm, IInv, CalmInv, [Next]_vars
  PROVE  RowsTell'

<1>0. TypeOK /\ NodeInv /\ WaveInv /\ RowsTell
  BY DEF IInv, CalmInv
<1> USE <1>0 DEF TypeOK, Entry, NodeInv, WaveInv, RowsTell, Completed, At, Goto, Running,
     nodeVars, stateVars, waveVars, tableVars
<1>1. CASE StartRun
  BY <1>1 DEF StartRun
<1>2. CASE Intake
  BY <1>2 DEF Intake
<1>3. CASE PlanTask
  BY <1>3 DEF PlanTask, SavePlan, FreshRows
<1>4. CASE PlanInvalid
  BY <1>4 DEF PlanInvalid, End
<1>5. CASE NotifyPlan
  BY <1>5 DEF NotifyPlan
<1>6. CASE AskPlan
  BY <1>6 DEF AskPlan, Ask
<1>7. CASE AnswerPlan
  BY <1>7 DEF AnswerPlan, Take, ApplyPlanDecision, SavePlan, FreshRows
<1>8. CASE Schedule
  BY <1>8 DEF Schedule
<1>9. ASSUME NEW s \in Sid, NotifyTool(s) PROVE RowsTell'
  BY <1>9 DEF NotifyTool
<1>10. ASSUME NEW s \in Sid, AskTool(s) PROVE RowsTell'
  BY <1>10 DEF AskTool, Ask
<1>11. ASSUME NEW s \in Sid, AnswerTool(s) PROVE RowsTell'
  BY <1>11 DEF AnswerTool, Take
<1>12. ASSUME NEW s \in Sid, AttemptFails(s) PROVE RowsTell'
  BY <1>12 DEF AttemptFails, Finish, Failed, Result
<1>13. ASSUME NEW s \in Sid, AttemptReworked(s) PROVE RowsTell'
  BY <1>13 DEF AttemptReworked, Finish, Reworked, Result
<1>14. ASSUME NEW s \in Sid, AttemptPasses(s) PROVE RowsTell'
  BY <1>14 DEF AttemptPasses, Finish, Passed, Result
<1>15. CASE CommitWave
  BY <1>15 DEF CommitWave
<1>16. CASE PauseWave
  BY <1>16 DEF PauseWave
<1>17. CASE GatherEscalates
  BY <1>17 DEF GatherEscalates, ExhaustedSubtasks
<1>18. CASE GatherClear
  BY <1>18 DEF GatherClear
<1>19. CASE NotifySubtask
  BY <1>19 DEF NotifySubtask, Retried, Result, Exhausted
<1>20. CASE AskSubtask
  BY <1>20 DEF AskSubtask, Ask
<1>21. CASE AnswerSubtask
  BY <1>21 DEF AnswerSubtask, Take, ApplySubtaskDecision, Retried, Provided, Result, Exhausted
<1>22. CASE Synthesize
  BY <1>22 DEF Synthesize
<1>23. CASE FinalGateSkipped
  BY <1>23 DEF FinalGateSkipped, End, RoutesToEnd
<1>24. CASE AskFinal
  BY <1>24 DEF AskFinal, Ask
<1>25. CASE AnswerFinal
  BY <1>25 DEF AnswerFinal, Take, ApplyFinalDecision, RoutesToEnd
<1>26. CASE Deliver
  BY <1>26 DEF Deliver
<1>27. CASE Cleanup
  BY <1>27 DEF Cleanup, End
<1>28. CASE OutOfSteps
  BY <1>28 DEF OutOfSteps, Crash, Abort
<1>29. CASE Reviewer
  BY <1>29 DEF Reviewer, Resolve
<1>30. CASE Resuming
  BY <1>30 DEF Resuming, StartResume, Rerun
<1>31. CASE UNCHANGED vars
  BY <1>31 DEF vars
<1>32. QED
  BY CalmSteps, <1>1, <1>2, <1>3, <1>4, <1>5, <1>6, <1>7, <1>8, <1>9, <1>10, <1>11,
     <1>12, <1>13, <1>14, <1>15, <1>16, <1>17, <1>18, <1>19, <1>20, <1>21, <1>22,
     <1>23, <1>24, <1>25, <1>26, <1>27, <1>28, <1>29, <1>30, <1>31

(* A paused graph waits somewhere, and shows it.                           *)
LEMMA PauseStep ==
  ASSUME Calm, IInv, CalmInv, [Next]_vars
  PROVE  PauseInv'

<1>0. TypeOK /\ NodeInv /\ WaveInv /\ PauseInv /\ ResumeInv
  BY DEF IInv, CalmInv
<1>a. /\ steps < RecursionLimit => 0 < RecursionLimit
      /\ steps >= RecursionLimit <=> ~(steps < RecursionLimit)
  BY <1>0, BoundsAssumption DEF TypeOK
<1> USE <1>0, <1>a DEF TypeOK, NodeInv, WaveInv, PauseInv, Paused, Ambiguous, GateNode, Terminal,
     At, Goto, Running, nodeVars, stateVars, waveVars, tableVars
<1>1. CASE StartRun
  BY <1>1 DEF StartRun
<1>2. CASE Intake
  BY <1>2 DEF Intake
<1>3. CASE PlanTask
  BY <1>3 DEF PlanTask, SavePlan, FreshRows
<1>4. CASE PlanInvalid
  BY <1>4 DEF PlanInvalid, End
<1>5. CASE NotifyPlan
  BY <1>5 DEF NotifyPlan
<1>6. CASE AskPlan
  BY <1>6 DEF AskPlan, Ask
<1>7. CASE AnswerPlan
  <2>1. approvals' = approvals /\ resume' = {}
    BY <1>7, TakeDoes, GateTyping DEF AnswerPlan, OwnGate, GateNode
  <2> QED  BY <1>7, <2>1 DEF AnswerPlan, ApplyPlanDecision, SavePlan
<1>8. CASE Schedule
  BY <1>8 DEF Schedule
<1>9. ASSUME NEW s \in Sid, NotifyTool(s) PROVE PauseInv'
  BY <1>9 DEF NotifyTool
<1>10. ASSUME NEW s \in Sid, AskTool(s) PROVE PauseInv'
  BY <1>10 DEF AskTool, Ask
<1>11. ASSUME NEW s \in Sid, AnswerTool(s) PROVE PauseInv'
  <2>1. approvals' = approvals /\ resume' = {}
    BY <1>11, TakeDoes, StateGates DEF AnswerTool
  <2>2. \A t \in Sid : branch[t] # "paused"
    BY <1>11 DEF AnswerTool, Take, ResumeInv, Only
  <2> QED  BY <1>11, <2>1, <2>2 DEF AnswerTool
<1>12. ASSUME NEW s \in Sid, AttemptFails(s) PROVE PauseInv'
  BY <1>12 DEF AttemptFails, Finish, Failed, Result
<1>13. ASSUME NEW s \in Sid, AttemptReworked(s) PROVE PauseInv'
  BY <1>13 DEF AttemptReworked, Finish, Reworked, Result
<1>14. ASSUME NEW s \in Sid, AttemptPasses(s) PROVE PauseInv'
  BY <1>14 DEF AttemptPasses, Finish, Passed, Result
<1>15. CASE CommitWave
  BY <1>15 DEF CommitWave
<1>16. CASE PauseWave
  BY <1>16 DEF PauseWave
<1>17. CASE GatherEscalates
  BY <1>17 DEF GatherEscalates, ExhaustedSubtasks
<1>18. CASE GatherClear
  BY <1>18 DEF GatherClear
<1>19. CASE NotifySubtask
  BY <1>19 DEF NotifySubtask, Retried, Result
<1>20. CASE AskSubtask
  BY <1>20 DEF AskSubtask, Ask
<1>21. CASE AnswerSubtask
  <2>1. approvals' = approvals /\ resume' = {}
    BY <1>21, TakeDoes, StateGates DEF AnswerSubtask, OwnGate, GateNode, NodeInv, IInv
  <2> QED  BY <1>21, <2>1 DEF AnswerSubtask, ApplySubtaskDecision
<1>22. CASE Synthesize
  BY <1>22 DEF Synthesize
<1>23. CASE FinalGateSkipped
  BY <1>23 DEF FinalGateSkipped, End, RoutesToEnd
<1>24. CASE AskFinal
  BY <1>24 DEF AskFinal, Ask
<1>25. CASE AnswerFinal
  <2>1. approvals' = approvals /\ resume' = {}
    BY <1>25, TakeDoes, GateTyping DEF AnswerFinal, OwnGate, GateNode
  <2> QED  BY <1>25, <2>1 DEF AnswerFinal, ApplyFinalDecision, RoutesToEnd
<1>26. CASE Deliver
  BY <1>26 DEF Deliver
<1>27. CASE Cleanup
  BY <1>27 DEF Cleanup, End
<1>28. CASE OutOfSteps
  BY <1>28 DEF OutOfSteps, Crash, Abort
<1>29. CASE Reviewer
  BY <1>29 DEF Reviewer, Resolve
<1>30. CASE Resuming
  BY <1>30 DEF Resuming, StartResume, Rerun, Calm
<1>31. CASE UNCHANGED vars
  BY <1>31 DEF vars
<1>32. QED
  BY CalmSteps, <1>1, <1>2, <1>3, <1>4, <1>5, <1>6, <1>7, <1>8, <1>9, <1>10, <1>11,
     <1>12, <1>13, <1>14, <1>15, <1>16, <1>17, <1>18, <1>19, <1>20, <1>21, <1>22,
     <1>23, <1>24, <1>25, <1>26, <1>27, <1>28, <1>29, <1>30, <1>31

(* The resumed graph goes straight to the gate that was answered.          *)
LEMMA ResumeStep ==
  ASSUME Calm, IInv, CalmInv, [Next]_vars
  PROVE  ResumeInv'

<1>0. TypeOK /\ NodeInv /\ WaveInv /\ ApprovalInv /\ ResumeInv
  BY DEF IInv, CalmInv
<1> USE <1>0 DEF TypeOK, NodeInv, WaveInv, ResumeInv, Only, Row0, At, Goto, Running,
     nodeVars, stateVars, waveVars, tableVars
<1>1. CASE StartRun
  BY <1>1 DEF StartRun
<1>2. CASE Intake
  <2>1. resume' = {}
    BY <1>2 DEF Intake
  <2> QED  BY <2>1
<1>3. CASE PlanTask
  <2>1. resume' = {}
    BY <1>3 DEF PlanTask, SavePlan, FreshRows
  <2> QED  BY <2>1
<1>4. CASE PlanInvalid
  <2>1. resume' = {}
    BY <1>4 DEF PlanInvalid, End
  <2> QED  BY <2>1
<1>5. CASE NotifyPlan
  <2>1. resume' = {}
    BY <1>5 DEF NotifyPlan
  <2> QED  BY <2>1
<1>6. CASE AskPlan
  <2>1. resume' = {}
    BY <1>6 DEF AskPlan, Ask
  <2> QED  BY <2>1
<1>7. CASE AnswerPlan
  <2>1. resume' = {}
    BY <1>7, TakeDoes, GateTyping DEF AnswerPlan, OwnGate, GateNode
  <2> QED  BY <2>1
<1>8. CASE Schedule
  <2>1. resume' = {}
    BY <1>8 DEF Schedule
  <2> QED  BY <2>1
<1>9. ASSUME NEW s \in Sid, NotifyTool(s) PROVE ResumeInv'
  BY <1>9 DEF NotifyTool, GateNode
<1>10. ASSUME NEW s \in Sid, AskTool(s) PROVE ResumeInv'
  <2>1. resume' = {}
    BY <1>10 DEF AskTool, Ask
  <2> QED  BY <2>1
<1>11. ASSUME NEW s \in Sid, AnswerTool(s) PROVE ResumeInv'
  <2>1. resume' = {}
    BY <1>11, TakeDoes, StateGates DEF AnswerTool
  <2> QED  BY <2>1
<1>12. ASSUME NEW s \in Sid, AttemptFails(s) PROVE ResumeInv'
  BY <1>12 DEF AttemptFails, Finish, Failed, Result, NextGate, Attempt, GateNode,
      OwnGate, EscalationGate
<1>13. ASSUME NEW s \in Sid, AttemptReworked(s) PROVE ResumeInv'
  BY <1>13 DEF AttemptReworked, Finish, Reworked, Result, NextGate, Attempt, GateNode,
      OwnGate, EscalationGate
<1>14. ASSUME NEW s \in Sid, AttemptPasses(s) PROVE ResumeInv'
  BY <1>14 DEF AttemptPasses, Finish, Passed, Result, NextGate, Attempt, GateNode,
      OwnGate, EscalationGate
<1>15. CASE CommitWave
  <2>1. resume' = {}
    BY <1>15 DEF CommitWave
  <2> QED  BY <2>1
<1>16. CASE PauseWave
  <2>1. resume' = {}
    BY <1>16 DEF PauseWave
  <2> QED  BY <2>1
<1>17. CASE GatherEscalates
  <2>1. resume' = {}
    BY <1>17 DEF GatherEscalates, ExhaustedSubtasks
  <2> QED  BY <2>1
<1>18. CASE GatherClear
  <2>1. resume' = {}
    BY <1>18 DEF GatherClear
  <2> QED  BY <2>1
<1>19. CASE NotifySubtask
  <2>1. resume' = {}
    BY <1>19 DEF NotifySubtask, Retried, Result
  <2> QED  BY <2>1
<1>20. CASE AskSubtask
  <2>1. resume' = {}
    BY <1>20 DEF AskSubtask, Ask
  <2> QED  BY <2>1
<1>21. CASE AnswerSubtask
  <2>1. resume' = {}
    BY <1>21, TakeDoes, StateGates DEF AnswerSubtask, OwnGate, GateNode, NodeInv, IInv
  <2> QED  BY <2>1
<1>22. CASE Synthesize
  <2>1. resume' = {}
    BY <1>22 DEF Synthesize
  <2> QED  BY <2>1
<1>23. CASE FinalGateSkipped
  <2>1. resume' = {}
    BY <1>23 DEF FinalGateSkipped, End, RoutesToEnd
  <2> QED  BY <2>1
<1>24. CASE AskFinal
  <2>1. resume' = {}
    BY <1>24 DEF AskFinal, Ask
  <2> QED  BY <2>1
<1>25. CASE AnswerFinal
  <2>1. resume' = {}
    BY <1>25, TakeDoes, GateTyping DEF AnswerFinal, OwnGate, GateNode
  <2> QED  BY <2>1
<1>26. CASE Deliver
  BY <1>26 DEF Deliver, GateNode
<1>27. CASE Cleanup
  <2>1. resume' = {}
    BY <1>27 DEF Cleanup, End
  <2> QED  BY <2>1
<1>28. CASE OutOfSteps
  <2>1. resume' = {}
    BY <1>28 DEF OutOfSteps, Crash, Abort
  <2> QED  BY <2>1
<1>29. CASE Reviewer
  <2>1. PICK r \in approvals, a \in Action : Resolve(r, a)
    BY <1>29 DEF Reviewer
  <2>2. r = Row0(r.gate) /\ r.gate \in Gate
    BY <2>1 DEF Resolve, ApprovalInv, Row
  <2>3. resume = {}
    BY <2>2
  <2> QED  BY <2>1, <2>3 DEF Resolve
<1>30. CASE Resuming
  <2>1. PICK j \in jobs : StartResume(j)
    BY <1>30 DEF Resuming
  <2>2. node # "end"
    BY NoLateJob
  <2>3. CASE Ambiguous
    BY <2>1, <2>2, <2>3, <1>0 DEF StartResume
  <2>4. CASE ~Ambiguous
    <3>1. /\ jobs = {j} /\ run = "paused"
          /\ \A g \in Gate : Row0(g) \notin approvals
          /\ \/ node \in GateNode /\ j.gate = OwnGate /\ Paused = {}
             \/ node = "execute" /\ \E s \in Sid : Paused = {s} /\ j.gate = NextGate(s)
      BY <2>1, <2>2, <2>4, ResumeIsAlone DEF StartResume
    <3>2. /\ run' = "active" /\ steps' = 0 /\ resume' = {j} /\ jobs' = {} /\ branch' = Rerun
          /\ UNCHANGED <<node, status, results, gates, escalation, approvals>>
      BY <2>1, <2>2, <2>4, <3>1 DEF StartResume
    <3>3. PauseInv
      BY DEF CalmInv
    <3>4. CASE node \in GateNode /\ j.gate = OwnGate
      BY <3>1, <3>2, <3>3, <3>4 DEF PauseInv, OwnGate, EscalationGate
    <3>5. CASE node = "execute" /\ \E s \in Sid : Paused = {s} /\ j.gate = NextGate(s)
      <4>1. PICK s \in Sid : Paused = {s} /\ j.gate = NextGate(s)
        BY <3>5
      <4>2. branch'[s] = "ready" /\ Only(s)'
        BY <4>1, <3>1, <3>2, <3>3 DEF PauseInv, Rerun, Paused
      <4>3. j.gate = NextGate(s)'
        BY <4>1, <3>2 DEF NextGate, Attempt
      <4>4. "sensitive_operation" \notin Notify
        BY <4>1, <3>3 DEF PauseInv
      <4> QED  BY <3>1, <3>2, <3>5, <4>2, <4>3, <4>4
    <3> QED  BY <3>1, <3>4, <3>5
  <2> QED  BY <2>3, <2>4
<1>31. CASE UNCHANGED vars
  BY <1>31 DEF vars, OwnGate, NextGate, Attempt, EscalationGate
<1>32. QED
  BY CalmSteps, <1>1, <1>2, <1>3, <1>4, <1>5, <1>6, <1>7, <1>8, <1>9, <1>10, <1>11,
     <1>12, <1>13, <1>14, <1>15, <1>16, <1>17, <1>18, <1>19, <1>20, <1>21, <1>22,
     <1>23, <1>24, <1>25, <1>26, <1>27, <1>28, <1>29, <1>30, <1>31

(* A decision reaches the gate it was made for.                            *)
LEMMA DecisionStep ==
  ASSUME Calm, IInv, CalmInv, [Next]_vars
  PROVE  DecisionReachesItsGate'

<1>0. TypeOK /\ DecisionReachesItsGate
  BY DEF IInv, CalmInv
<1> USE <1>0 DEF DecisionReachesItsGate, At, Goto, Running,
     nodeVars, stateVars, waveVars, tableVars
<1>1. CASE StartRun
  BY <1>1 DEF StartRun
<1>2. CASE Intake
  BY <1>2 DEF Intake
<1>3. CASE PlanTask
  BY <1>3 DEF PlanTask, SavePlan, FreshRows
<1>4. CASE PlanInvalid
  BY <1>4 DEF PlanInvalid, End
<1>5. CASE NotifyPlan
  BY <1>5 DEF NotifyPlan
<1>6. CASE AskPlan
  BY <1>6 DEF AskPlan, Ask
<1>7. CASE AnswerPlan
  BY <1>7, TakeDoes, GateTyping DEF AnswerPlan, OwnGate, GateNode
<1>8. CASE Schedule
  BY <1>8 DEF Schedule
<1>9. ASSUME NEW s \in Sid, NotifyTool(s) PROVE DecisionReachesItsGate'
  BY <1>9 DEF NotifyTool
<1>10. ASSUME NEW s \in Sid, AskTool(s) PROVE DecisionReachesItsGate'
  BY <1>10 DEF AskTool, Ask
<1>11. ASSUME NEW s \in Sid, AnswerTool(s) PROVE DecisionReachesItsGate'
  BY <1>11, TakeDoes, StateGates DEF AnswerTool
<1>12. ASSUME NEW s \in Sid, AttemptFails(s) PROVE DecisionReachesItsGate'
  BY <1>12 DEF AttemptFails, Finish, Failed, Result
<1>13. ASSUME NEW s \in Sid, AttemptReworked(s) PROVE DecisionReachesItsGate'
  BY <1>13 DEF AttemptReworked, Finish, Reworked, Result
<1>14. ASSUME NEW s \in Sid, AttemptPasses(s) PROVE DecisionReachesItsGate'
  BY <1>14 DEF AttemptPasses, Finish, Passed, Result
<1>15. CASE CommitWave
  BY <1>15 DEF CommitWave
<1>16. CASE PauseWave
  BY <1>16 DEF PauseWave
<1>17. CASE GatherEscalates
  BY <1>17 DEF GatherEscalates, ExhaustedSubtasks
<1>18. CASE GatherClear
  BY <1>18 DEF GatherClear
<1>19. CASE NotifySubtask
  BY <1>19 DEF NotifySubtask, Retried, Result
<1>20. CASE AskSubtask
  BY <1>20 DEF AskSubtask, Ask
<1>21. CASE AnswerSubtask
  BY <1>21, TakeDoes, StateGates DEF AnswerSubtask, OwnGate, GateNode, NodeInv, IInv
<1>22. CASE Synthesize
  BY <1>22 DEF Synthesize
<1>23. CASE FinalGateSkipped
  BY <1>23 DEF FinalGateSkipped, End, RoutesToEnd
<1>24. CASE AskFinal
  BY <1>24 DEF AskFinal, Ask
<1>25. CASE AnswerFinal
  BY <1>25, TakeDoes, GateTyping DEF AnswerFinal, OwnGate, GateNode
<1>26. CASE Deliver
  BY <1>26 DEF Deliver
<1>27. CASE Cleanup
  BY <1>27 DEF Cleanup, End
<1>28. CASE OutOfSteps
  BY <1>28 DEF OutOfSteps, Crash, Abort
<1>29. CASE Reviewer
  BY <1>29 DEF Reviewer, Resolve
<1>30. CASE Resuming
  BY <1>30 DEF Resuming, StartResume, Rerun
<1>31. CASE UNCHANGED vars
  BY <1>31 DEF vars
<1>32. QED
  BY CalmSteps, <1>1, <1>2, <1>3, <1>4, <1>5, <1>6, <1>7, <1>8, <1>9, <1>10, <1>11,
     <1>12, <1>13, <1>14, <1>15, <1>16, <1>17, <1>18, <1>19, <1>20, <1>21, <1>22,
     <1>23, <1>24, <1>25, <1>26, <1>27, <1>28, <1>29, <1>30, <1>31

(* Outside the gates and the wave nothing is open, before or after.        *)
LEMMA QuietStep ==
  ASSUME IInv, CalmInv, IInv', run # "paused", Paused = {}, run' # "paused", Paused' = {},
         approvals' = approvals, jobs' = jobs
  PROVE  OpenInv'
<1>1. \A g \in Gate : ~Open(g)
  BY NothingWaits
<1>2. \A g \in Gate : ~Open(g)'
  BY <1>1 DEF Open
<1>3. \A g \in Gate : ~Waits(g)'
  BY DEF Waits
<1>4. \A q, r \in approvals : q.gate = r.gate => q = r
  BY DEF CalmInv, OpenInv
<1> QED  BY <1>2, <1>3, <1>4 DEF OpenInv

(* One row more, for a gate without one.                                   *)
LEMMA OneRowEach ==
  ASSUME OpenInv, NEW g, NEW st, ~Has(g),
         approvals' = approvals \cup {[gate |-> g, status |-> st, action |-> "none"]}
  PROVE  \A q, r \in approvals' : q.gate = r.gate => q = r
BY DEF OpenInv, Has

(* A gate that asks opens, and the graph waits at it.                      *)
LEMMA AskStep ==
  ASSUME IInv, CalmInv, NEW g \in Gate, ~Has(g), Ask(g), jobs' = jobs,
         \A h \in Gate : Waits(h)' <=> Waits(h) \/ h = g,
         run # "over"
  PROVE  OpenInv'
<1>0. OpenInv
  BY DEF CalmInv
<1>1. approvals' = approvals \cup {Row0(g)}
  BY EnqueueDoes DEF Ask, Row0
<1>2. \A q, r \in approvals' : q.gate = r.gate => q = r
  BY <1>0, <1>1, OneRowEach DEF Row0
<1>3. \A h \in Gate : Open(h)' <=> Open(h) \/ h = g
  <2>1. \A h \in Gate : Row0(h) \in approvals' <=> Row0(h) \in approvals \/ h = g
    BY <1>1 DEF Row0
  <2> QED  BY <2>1 DEF Open, Row0
<1> QED  BY <1>0, <1>2, <1>3 DEF OpenInv

(* A notification opens nothing.                                           *)
LEMMA NotifyStep ==
  ASSUME IInv, CalmInv, NEW g, Enqueue(g, "notified"), jobs' = jobs,
         run # "paused", Paused = {}, run' # "paused", Paused' = {}
  PROVE  OpenInv'
<1>0. OpenInv
  BY DEF CalmInv
<1>1. \A q, r \in approvals' : q.gate = r.gate => q = r
  BY <1>0, EnqueueDoes, OneRowEach DEF OpenInv
<1>2. \A h \in Gate : ~Open(h)
  BY NothingWaits
<1>3. \A h \in Gate : Row0(h) \in approvals' => Row0(h) \in approvals
  BY EnqueueDoes DEF Row0
<1>4. \A h \in Gate : ~Open(h)' /\ ~Waits(h)'
  BY <1>2, <1>3 DEF Open, Waits, Row0
<1> QED  BY <1>1, <1>4 DEF OpenInv

(* A step of a branch that is not paused, and stays so, opens nothing.     *)
LEMMA BranchStep ==
  ASSUME IInv, CalmInv, NEW s \in Sid, branch[s] # "paused", branch'[s] # "paused",
         run = "active", UNCHANGED <<run, node, jobs>>,
         \A t \in Sid \ {s} : branch'[t] = branch[t] /\ gates'[t] = gates[t] /\ results'[t] = results[t],
         \A h \in Gate : Row0(h) \in approvals' <=> Row0(h) \in approvals,
         \A q, r \in approvals' : q.gate = r.gate => q = r
  PROVE  OpenInv'
<1>1. Paused' = Paused
  BY DEF Paused
<1>2. \A t \in Paused : NextGate(t)' = NextGate(t)
  BY DEF Paused, NextGate, Attempt
<1>3. \A h \in Gate : Open(h)' <=> Open(h)
  BY DEF Open, Row0
<1>4. \A h \in Gate : Waits(h)' <=> Waits(h)
  BY <1>1, <1>2 DEF Waits
<1> QED  BY <1>3, <1>4 DEF CalmInv, OpenInv

(* What is open stays what the graph waits at.                             *)
LEMMA OpenStep ==
  ASSUME Calm, IInv, CalmInv, [Next]_vars
  PROVE  OpenInv'

<1>0. /\ TypeOK /\ NodeInv /\ WaveInv /\ ApprovalInv
      /\ OpenInv /\ PauseInv /\ ResumeInv
  BY DEF IInv, CalmInv
<1>a. IInv'
  BY NextHolds
<1> USE <1>0, <1>a DEF At, Goto, Running, nodeVars, stateVars, waveVars, tableVars
<1>1. CASE StartRun
  <2>1. /\ UNCHANGED <<approvals, jobs, branch, node>>
        /\ run = "queued" /\ run' = "active" /\ node # "execute"
    BY <1>1 DEF StartRun, PauseInv
  <2>2. Paused = {} /\ Paused' = {}
    BY <2>1, OnlyTheWavePauses DEF Paused
  <2> QED  BY <2>1, <2>2, QuietStep
<1>2. CASE Intake
  <2>1. /\ approvals' = approvals /\ jobs' = jobs
        /\ run # "paused" /\ run' # "paused" /\ node # "execute"
    BY <1>2 DEF Intake
  <2>2. Paused = {} /\ Paused' = {}
    BY <1>2, <2>1, OnlyTheWavePauses DEF Intake, Paused
  <2> QED  BY <2>1, <2>2, QuietStep
<1>3. CASE PlanTask
  <2>1. /\ approvals' = approvals /\ jobs' = jobs
        /\ run # "paused" /\ run' # "paused" /\ node # "execute"
    BY <1>3 DEF PlanTask, SavePlan, FreshRows
  <2>2. Paused = {} /\ Paused' = {}
    BY <1>3, <2>1, OnlyTheWavePauses DEF PlanTask, SavePlan, FreshRows, Paused
  <2> QED  BY <2>1, <2>2, QuietStep
<1>4. CASE PlanInvalid
  <2>1. /\ approvals' = approvals /\ jobs' = jobs
        /\ run # "paused" /\ run' # "paused" /\ node # "execute"
    BY <1>4 DEF PlanInvalid, End
  <2>2. Paused = {} /\ Paused' = {}
    BY <1>4, <2>1, OnlyTheWavePauses DEF PlanInvalid, End, Paused
  <2> QED  BY <2>1, <2>2, QuietStep
<1>5. CASE NotifyPlan
  <2>1. /\ Enqueue(PlanGate, "notified") /\ jobs' = jobs
        /\ run # "paused" /\ run' # "paused" /\ node # "execute" /\ branch' = branch
    BY <1>5 DEF NotifyPlan
  <2>2. Paused = {} /\ Paused' = {}
    BY <2>1, OnlyTheWavePauses DEF Paused
  <2> QED  BY <2>1, <2>2, NotifyStep
<1>6. CASE AskPlan
  <2>1. /\ Ask(PlanGate) /\ run = "active" /\ node \in GateNode /\ node # "execute" /\ PlanGate = OwnGate /\ PlanGate \in Gate
        /\ run' = "paused" /\ UNCHANGED <<node, jobs, branch, escalation, results>> /\ resume = {}
    BY <1>6, GateTyping DEF AskPlan, Ask, OwnGate, GateNode, NodeInv
  <2>2. ~Has(PlanGate)
    BY <2>1, AsksAnew DEF GateNode, OwnGate
  <2>3. Paused = {} /\ Paused' = {}
    BY <2>1, OnlyTheWavePauses DEF Paused
  <2>4. \A h \in Gate : Waits(h)' <=> Waits(h) \/ h = PlanGate
    BY <2>1, <2>3 DEF Waits, OwnGate, EscalationGate
  <2> QED  BY <2>1, <2>2, <2>4, AskStep
<1>7. CASE AnswerPlan
  <2>1. approvals' = approvals /\ jobs' = jobs
    BY <1>7, TakeDoes, GateTyping DEF AnswerPlan, OwnGate, GateNode
  <2>2. run = "active" /\ run' # "paused" /\ node # "execute" /\ branch' = branch
    BY <1>7 DEF AnswerPlan, Take, ApplyPlanDecision, SavePlan, FreshRows
  <2>3. Paused = {} /\ Paused' = {}
    BY <2>2, OnlyTheWavePauses DEF Paused
  <2> QED  BY <2>1, <2>2, <2>3, QuietStep
<1>8. CASE Schedule
  <2>1. /\ approvals' = approvals /\ jobs' = jobs
        /\ run # "paused" /\ run' # "paused" /\ node # "execute"
    BY <1>8 DEF Schedule
  <2>2. Paused = {} /\ Paused' = {}
    BY <1>8, <2>1, OnlyTheWavePauses DEF Schedule, Paused
  <2> QED  BY <2>1, <2>2, QuietStep
<1>9. ASSUME NEW s \in Sid, NotifyTool(s) PROVE OpenInv'
  <2>1. /\ Enqueue(NextGate(s), "notified") /\ run = "active" /\ branch[s] = "ready"
        /\ UNCHANGED <<run, node, jobs, branch, results>>
    BY <1>9 DEF NotifyTool
  <2>2. \A t \in Sid \ {s} : gates'[t] = gates[t]
    BY <1>9 DEF NotifyTool, TypeOK
  <2>3. \A h \in Gate : Row0(h) \in approvals' <=> Row0(h) \in approvals
    BY <2>1, EnqueueDoes DEF Row0
  <2>4. \A q, r \in approvals' : q.gate = r.gate => q = r
    BY <2>1, EnqueueDoes, OneRowEach DEF OpenInv
  <2> QED  BY <2>1, <2>2, <2>3, <2>4, BranchStep
<1>10. ASSUME NEW s \in Sid, AskTool(s) PROVE OpenInv'
  <2>1. /\ Ask(NextGate(s)) /\ run = "active" /\ node = "execute" /\ branch[s] = "ready"
        /\ UNCHANGED <<run, node, jobs, gates, results>> /\ resume = {}
        /\ branch' = [branch EXCEPT ![s] = "paused"] /\ NextGate(s) \in Gate
    BY <1>10, StateGates DEF AskTool, Ask
  <2>2. ~Has(NextGate(s))
    BY <2>1, AsksAnew
  <2>3. Paused' = Paused \cup {s}
    BY <2>1 DEF Paused, TypeOK
  <2>4. \A t \in Sid : NextGate(t)' = NextGate(t)
    BY <2>1 DEF NextGate, Attempt
  <2>5. \A h \in Gate : Waits(h)' <=> Waits(h) \/ h = NextGate(s)
    BY <2>1, <2>3, <2>4 DEF Waits, Paused
  <2> QED  BY <2>1, <2>2, <2>5, AskStep
<1>11. ASSUME NEW s \in Sid, AnswerTool(s) PROVE OpenInv'
  <2>1. approvals' = approvals
    BY <1>11, TakeDoes, StateGates DEF AnswerTool
  <2>2. /\ run = "active" /\ branch[s] = "ready"
        /\ UNCHANGED <<run, node, jobs, branch, results>>
        /\ \A t \in Sid \ {s} : gates'[t] = gates[t]
    BY <1>11 DEF AnswerTool, TypeOK
  <2>3. \A h \in Gate : Row0(h) \in approvals' <=> Row0(h) \in approvals
    BY <2>1 DEF Row0
  <2> QED  BY <2>1, <2>2, <2>3, BranchStep DEF OpenInv
<1>12. ASSUME NEW s \in Sid, AttemptFails(s) PROVE OpenInv'
  <2>1. /\ run = "active" /\ branch[s] = "ready"
        /\ UNCHANGED <<run, node, jobs, gates, approvals>>
        /\ branch' = [branch EXCEPT ![s] = "done"]
        /\ \A t \in Sid \ {s} : results'[t] = results[t]
    BY <1>12 DEF AttemptFails, Finish, TypeOK
  <2>2. branch'[s] = "done" /\ \A t \in Sid \ {s} : branch'[t] = branch[t]
    BY <2>1 DEF TypeOK
  <2>3. \A h \in Gate : Row0(h) \in approvals' <=> Row0(h) \in approvals
    BY <2>1 DEF Row0
  <2> QED  BY <2>1, <2>2, <2>3, BranchStep DEF OpenInv
<1>13. ASSUME NEW s \in Sid, AttemptReworked(s) PROVE OpenInv'
  <2>1. /\ run = "active" /\ branch[s] = "ready"
        /\ UNCHANGED <<run, node, jobs, gates, approvals>>
        /\ branch' = [branch EXCEPT ![s] = "done"]
        /\ \A t \in Sid \ {s} : results'[t] = results[t]
    BY <1>13 DEF AttemptReworked, Finish, TypeOK
  <2>2. branch'[s] = "done" /\ \A t \in Sid \ {s} : branch'[t] = branch[t]
    BY <2>1 DEF TypeOK
  <2>3. \A h \in Gate : Row0(h) \in approvals' <=> Row0(h) \in approvals
    BY <2>1 DEF Row0
  <2> QED  BY <2>1, <2>2, <2>3, BranchStep DEF OpenInv
<1>14. ASSUME NEW s \in Sid, AttemptPasses(s) PROVE OpenInv'
  <2>1. /\ run = "active" /\ branch[s] = "ready"
        /\ UNCHANGED <<run, node, jobs, gates, approvals>>
        /\ branch' = [branch EXCEPT ![s] = "done"]
        /\ \A t \in Sid \ {s} : results'[t] = results[t]
    BY <1>14 DEF AttemptPasses, Finish, TypeOK
  <2>2. branch'[s] = "done" /\ \A t \in Sid \ {s} : branch'[t] = branch[t]
    BY <2>1 DEF TypeOK
  <2>3. \A h \in Gate : Row0(h) \in approvals' <=> Row0(h) \in approvals
    BY <2>1 DEF Row0
  <2> QED  BY <2>1, <2>2, <2>3, BranchStep DEF OpenInv
<1>15. CASE CommitWave
  <2>1. /\ approvals' = approvals /\ jobs' = jobs /\ run = "active" /\ run' = "active"
        /\ Paused = {} /\ Paused' = {}
    BY <1>15 DEF CommitWave, Paused
  <2> QED  BY <2>1, QuietStep
<1>16. CASE PauseWave
  <2>1. /\ UNCHANGED <<approvals, jobs, branch, gates, results, escalation>>
        /\ run = "active" /\ (node' = node \/ Paused = {}) /\ run' \in {"paused", "over"}
    BY <1>16, OnlyTheWavePauses DEF PauseWave
  <2>2. \A h \in Gate : Open(h)' <=> Open(h)
    BY <2>1 DEF Open, Row0
  <2>3. Paused' = Paused /\ \A t \in Paused : NextGate(t)' = NextGate(t)
    BY <2>1 DEF Paused, NextGate, Attempt
  <2>4. \A h \in Gate : Waits(h)' <=> Waits(h)
    BY <1>16, <2>1, <2>3 DEF Waits, PauseWave, GateNode
  <2> QED  BY <2>1, <2>2, <2>4 DEF OpenInv
<1>17. CASE GatherEscalates
  <2>1. /\ approvals' = approvals /\ jobs' = jobs
        /\ run # "paused" /\ run' # "paused" /\ node # "execute"
    BY <1>17 DEF GatherEscalates, ExhaustedSubtasks
  <2>2. Paused = {} /\ Paused' = {}
    BY <1>17, <2>1, OnlyTheWavePauses DEF GatherEscalates, ExhaustedSubtasks, Paused
  <2> QED  BY <2>1, <2>2, QuietStep
<1>18. CASE GatherClear
  <2>1. /\ approvals' = approvals /\ jobs' = jobs
        /\ run # "paused" /\ run' # "paused" /\ node # "execute"
    BY <1>18 DEF GatherClear
  <2>2. Paused = {} /\ Paused' = {}
    BY <1>18, <2>1, OnlyTheWavePauses DEF GatherClear, Paused
  <2> QED  BY <2>1, <2>2, QuietStep
<1>19. CASE NotifySubtask
  <2>1. /\ Enqueue(EscalationGate, "notified") /\ jobs' = jobs
        /\ run # "paused" /\ run' # "paused" /\ node # "execute" /\ branch' = branch
    BY <1>19 DEF NotifySubtask
  <2>2. Paused = {} /\ Paused' = {}
    BY <2>1, OnlyTheWavePauses DEF Paused
  <2> QED  BY <2>1, <2>2, NotifyStep
<1>20. CASE AskSubtask
  <2>1. /\ Ask(EscalationGate) /\ run = "active" /\ node \in GateNode /\ node # "execute" /\ EscalationGate = OwnGate /\ EscalationGate \in Gate
        /\ run' = "paused" /\ UNCHANGED <<node, jobs, branch, escalation, results>> /\ resume = {}
    BY <1>20, StateGates DEF AskSubtask, Ask, OwnGate, GateNode, NodeInv
  <2>2. ~Has(EscalationGate)
    BY <2>1, AsksAnew DEF GateNode, OwnGate
  <2>3. Paused = {} /\ Paused' = {}
    BY <2>1, OnlyTheWavePauses DEF Paused
  <2>4. \A h \in Gate : Waits(h)' <=> Waits(h) \/ h = EscalationGate
    BY <2>1, <2>3 DEF Waits, OwnGate, EscalationGate
  <2> QED  BY <2>1, <2>2, <2>4, AskStep
<1>21. CASE AnswerSubtask
  <2>1. approvals' = approvals /\ jobs' = jobs
    BY <1>21, TakeDoes, StateGates DEF AnswerSubtask, OwnGate, GateNode, NodeInv
  <2>2. run = "active" /\ run' # "paused" /\ node # "execute" /\ branch' = branch
    BY <1>21 DEF AnswerSubtask, Take, ApplySubtaskDecision, Retried, Provided, Result
  <2>3. Paused = {} /\ Paused' = {}
    BY <2>2, OnlyTheWavePauses DEF Paused
  <2> QED  BY <2>1, <2>2, <2>3, QuietStep
<1>22. CASE Synthesize
  <2>1. /\ approvals' = approvals /\ jobs' = jobs
        /\ run # "paused" /\ run' # "paused" /\ node # "execute"
    BY <1>22 DEF Synthesize
  <2>2. Paused = {} /\ Paused' = {}
    BY <1>22, <2>1, OnlyTheWavePauses DEF Synthesize, Paused
  <2> QED  BY <2>1, <2>2, QuietStep
<1>23. CASE FinalGateSkipped
  <2>1. /\ approvals' = approvals /\ jobs' = jobs
        /\ run # "paused" /\ run' # "paused" /\ node # "execute"
    BY <1>23 DEF FinalGateSkipped, End, RoutesToEnd
  <2>2. Paused = {} /\ Paused' = {}
    BY <1>23, <2>1, OnlyTheWavePauses DEF FinalGateSkipped, End, RoutesToEnd, Paused
  <2> QED  BY <2>1, <2>2, QuietStep
<1>24. CASE AskFinal
  <2>1. /\ Ask(FinalGate) /\ run = "active" /\ node \in GateNode /\ node # "execute" /\ FinalGate = OwnGate /\ FinalGate \in Gate
        /\ run' = "paused" /\ UNCHANGED <<node, jobs, branch, escalation, results>> /\ resume = {}
    BY <1>24, GateTyping DEF AskFinal, Ask, OwnGate, GateNode, NodeInv
  <2>2. ~Has(FinalGate)
    BY <2>1, AsksAnew DEF GateNode, OwnGate
  <2>3. Paused = {} /\ Paused' = {}
    BY <2>1, OnlyTheWavePauses DEF Paused
  <2>4. \A h \in Gate : Waits(h)' <=> Waits(h) \/ h = FinalGate
    BY <2>1, <2>3 DEF Waits, OwnGate, EscalationGate
  <2> QED  BY <2>1, <2>2, <2>4, AskStep
<1>25. CASE AnswerFinal
  <2>1. approvals' = approvals /\ jobs' = jobs
    BY <1>25, TakeDoes, GateTyping DEF AnswerFinal, OwnGate, GateNode
  <2>2. run = "active" /\ run' # "paused" /\ node # "execute" /\ branch' = branch
    BY <1>25 DEF AnswerFinal, Take, ApplyFinalDecision, RoutesToEnd
  <2>3. Paused = {} /\ Paused' = {}
    BY <2>2, OnlyTheWavePauses DEF Paused
  <2> QED  BY <2>1, <2>2, <2>3, QuietStep
<1>26. CASE Deliver
  <2>1. /\ approvals' = approvals /\ jobs' = jobs
        /\ run # "paused" /\ run' # "paused" /\ node # "execute"
    BY <1>26 DEF Deliver
  <2>2. Paused = {} /\ Paused' = {}
    BY <1>26, <2>1, OnlyTheWavePauses DEF Deliver, Paused
  <2> QED  BY <2>1, <2>2, QuietStep
<1>27. CASE Cleanup
  <2>1. /\ approvals' = approvals /\ jobs' = jobs
        /\ run # "paused" /\ run' # "paused" /\ node # "execute"
    BY <1>27 DEF Cleanup, End
  <2>2. Paused = {} /\ Paused' = {}
    BY <1>27, <2>1, OnlyTheWavePauses DEF Cleanup, End, Paused
  <2> QED  BY <2>1, <2>2, QuietStep
<1>28. CASE OutOfSteps
  <2>1. /\ UNCHANGED <<approvals, jobs, branch, gates, results, escalation>>
        /\ run = "active" /\ (node' = node \/ Paused = {}) /\ run' \in {"paused", "over"}
    BY <1>28, OnlyTheWavePauses DEF OutOfSteps, Crash, Abort
  <2>2. \A h \in Gate : Open(h)' <=> Open(h)
    BY <2>1 DEF Open, Row0
  <2>3. Paused' = Paused /\ \A t \in Paused : NextGate(t)' = NextGate(t)
    BY <2>1 DEF Paused, NextGate, Attempt
  <2>4. \A h \in Gate : Waits(h)' <=> Waits(h)
    BY <1>28, <2>1, <2>3 DEF Waits, OutOfSteps, Crash, Abort, GateNode
  <2> QED  BY <2>1, <2>2, <2>4 DEF OpenInv
<1>29. CASE Reviewer
  <2>1. PICK r \in approvals, a \in Action : Resolve(r, a)
    BY <1>29 DEF Reviewer
  <2> DEFINE new == [gate |-> r.gate, status |-> "resolved", action |-> a]
  <2>2. r = Row0(r.gate) /\ r.gate \in Gate
    BY <2>1 DEF Resolve, ApprovalInv, Row, TypeOK, Row0
  <2>3. /\ approvals' = (approvals \ {r}) \cup {new}
        /\ jobs' = jobs \cup {[gate |-> r.gate, action |-> a]}
        /\ UNCHANGED <<run, node, branch, gates, results, escalation>>
    BY <2>1 DEF Resolve
  <2>4. new.gate = r.gate /\ new.status = "resolved"
    OBVIOUS
  <2> HIDE DEF new
  <2>5. \A p, q \in approvals' : p.gate = q.gate => p = q
    BY <2>3, <2>4 DEF OpenInv
  <2>6. \A h \in Gate : Row0(h) \in approvals' <=> Row0(h) \in approvals /\ h # r.gate
    BY <2>2, <2>3, <2>4 DEF Row0
  <2>7. \A h \in Gate : (\E j \in jobs' : j.gate = h) <=> (\E j \in jobs : j.gate = h) \/ h = r.gate
    <3> DEFINE job == [gate |-> r.gate, action |-> a]
    <3>1. jobs' = jobs \cup {job} /\ job.gate = r.gate
      BY <2>3
    <3> HIDE DEF job
    <3> QED  BY <3>1
  <2>8. \A h \in Gate : Open(h)' <=> Open(h)
    BY <2>2, <2>6, <2>7 DEF Open, Row0
  <2>9. Paused' = Paused /\ \A t \in Paused : NextGate(t)' = NextGate(t)
    BY <2>3 DEF Paused, NextGate, Attempt
  <2>10. OwnGate' = OwnGate
    BY <2>3 DEF OwnGate, EscalationGate
  <2>11. \A h \in Gate : Waits(h)' <=> Waits(h)
    BY <2>3, <2>9, <2>10 DEF Waits
  <2> QED  BY <2>3, <2>5, <2>8, <2>11 DEF OpenInv
<1>30. CASE Resuming
  <2>1. PICK j \in jobs : StartResume(j)
    BY <1>30 DEF Resuming
  <2>2. node # "end" /\ j.gate \in Gate
    BY NoLateJob DEF TypeOK, Job
  <2>3. approvals' = approvals /\ jobs' = jobs \ {j}
    BY <2>1 DEF StartResume
  <2>4. CASE Ambiguous
    <3>1. UNCHANGED <<node, branch, gates, results, escalation>> /\ run' = "over"
      BY <2>1, <2>2, <2>4 DEF StartResume
    <3>2. Paused' = Paused /\ \A t \in Paused : NextGate(t)' = NextGate(t)
      BY <3>1 DEF Paused, NextGate, Attempt
    <3>3. node = "execute"
      BY <2>4 DEF Ambiguous, Paused, WaveInv
    <3>4. \A h \in Gate : Waits(h) => Waits(h)'
      BY <3>1, <3>2, <3>3 DEF Waits, GateNode
    <3>5. \A h \in Gate : Open(h)' => Open(h)
      BY <2>3 DEF Open, Row0
    <3> QED  BY <2>3, <3>1, <3>4, <3>5 DEF OpenInv
  <2>5. CASE ~Ambiguous
    <3>1. jobs = {j} /\ \A g \in Gate : Row0(g) \notin approvals
      BY <2>1, <2>2, <2>5, ResumeIsAlone DEF StartResume
    <3>2. run' = "active" /\ branch' = Rerun
      BY <2>1, <2>2, <2>5 DEF StartResume
    <3>3. \A h \in Gate : ~Open(h)'
      BY <2>3, <3>1 DEF Open, Row0
    <3>4. Paused' = {}
      BY <3>2 DEF Rerun, Paused
    <3>5. \A h \in Gate : ~Waits(h)'
      BY <3>2, <3>4 DEF Waits
    <3> QED  BY <2>3, <3>3, <3>5 DEF OpenInv
  <2> QED  BY <2>4, <2>5
<1>31. CASE UNCHANGED vars
  BY <1>31 DEF vars, OpenInv, Open, Row0, Waits, OwnGate, EscalationGate, Paused,
      NextGate, Attempt
<1>32. QED
  BY CalmSteps, <1>1, <1>2, <1>3, <1>4, <1>5, <1>6, <1>7, <1>8, <1>9, <1>10, <1>11,
     <1>12, <1>13, <1>14, <1>15, <1>16, <1>17, <1>18, <1>19, <1>20, <1>21, <1>22,
     <1>23, <1>24, <1>25, <1>26, <1>27, <1>28, <1>29, <1>30, <1>31

(* Outside the wave no gate of the attempt at hand has a row.              *)
LEMMA OffTheWave ==
  ASSUME IInv, CalmInv, node # "execute",
         \A s \in Sid, n, k \in Nat : Has(ToolGate(s, n, k))' => Has(ToolGate(s, n, k)),
         \A s \in Sid : results'[s].attempts = results[s].attempts
  PROVE  ToolAsked'
<1>1. \A s \in Sid : branch[s] = "idle"
  BY DEF IInv, WaveInv
<1>2. \A s \in Sid, n, k \in Nat : Has(ToolGate(s, n, k)) => n <= results[s].attempts
  BY <1>1 DEF CalmInv, AskedInv, ToolAsked
<1> QED  BY <1>2 DEF ToolAsked

(* An invocation with an answer to deliver has a superstep left for it.    *)
LEMMA AnswerInTime ==
  ASSUME IInv, CalmInv, resume # {}
  PROVE  steps < RecursionLimit
<1>1. PICK j \in resume : [gate |-> j.gate, status |-> "resolved", action |-> j.action] \in approvals
  BY DEF IInv, ApprovalInv
<1>2. 0 < RecursionLimit
  BY <1>1 DEF CalmInv, PauseInv
<1> QED  BY <1>2 DEF CalmInv, ResumeInv

(* Answering an approval leaves the gates that have a row as they are.     *)
LEMMA ResolveKeeps ==
  ASSUME NEW r, NEW a, Resolve(r, a), NEW g
  PROVE  Has(g)' <=> Has(g)
<1> DEFINE new == [gate |-> r.gate, status |-> "resolved", action |-> a]
<1>1. approvals' = (approvals \ {r}) \cup {new} /\ new.gate = r.gate /\ r \in approvals
  BY DEF Resolve
<1> HIDE DEF new
<1> QED  BY <1>1 DEF Has

LEMMA EnqueueAdds ==
  ASSUME NEW g, NEW st, Enqueue(g, st), NEW h
  PROVE  Has(h)' <=> Has(h) \/ h = g
<1> DEFINE new == [gate |-> g, status |-> st, action |-> "none"]
<1>1. new.gate = g
  OBVIOUS
<1>2. IF Has(g) THEN approvals' = approvals ELSE approvals' = approvals \cup {new}
  BY EnqueueDoes
<1> HIDE DEF new
<1> QED  BY <1>1, <1>2 DEF Has

(* A tool gate of a later attempt has no row.                              *)
LEMMA ToolAskedStep ==
  ASSUME Calm, IInv, CalmInv, [Next]_vars
  PROVE  ToolAsked'

<1>0. TypeOK /\ NodeInv /\ WaveInv /\ PauseInv /\ ResumeInv /\ ToolAsked
  BY DEF IInv, CalmInv, AskedInv
<1>a. \A s \in Sid : results[s].attempts \in Nat /\ gates[s] \in Nat
  BY <1>0 DEF TypeOK, Entry
<1> USE <1>0, <1>a DEF At, Goto, Running, nodeVars, stateVars, waveVars, tableVars
<1>1. CASE StartRun
  <2>1. approvals' = approvals /\ results' = results /\ node # "execute"
    BY <1>1 DEF StartRun, PauseInv
  <2> QED  BY <2>1, OffTheWave DEF Has
<1>2. CASE Intake
  <2>1. approvals' = approvals /\ results' = results /\ node # "execute"
    BY <1>2 DEF Intake
  <2> QED  BY <2>1, OffTheWave DEF Has
<1>3. CASE PlanTask
  <2>1. approvals' = approvals /\ results' = results /\ node # "execute"
    BY <1>3 DEF PlanTask, SavePlan, FreshRows
  <2> QED  BY <2>1, OffTheWave DEF Has
<1>4. CASE PlanInvalid
  <2>1. approvals' = approvals /\ results' = results /\ node # "execute"
    BY <1>4 DEF PlanInvalid, End
  <2> QED  BY <2>1, OffTheWave DEF Has
<1>5. CASE NotifyPlan
  <2>1. (\E st \in {"pending", "notified"} : Enqueue(PlanGate, st)) /\ node # "execute"
    BY <1>5 DEF NotifyPlan, Ask, Take
  <2>2. \A u \in Sid : results'[u].attempts = results[u].attempts
    BY <1>5 DEF NotifyPlan
  <2>3. \A u \in Sid, n, k \in Nat : Has(ToolGate(u, n, k))' => Has(ToolGate(u, n, k))
    BY <2>1, EnqueueAdds, GateKeys
  <2> QED  BY <2>1, <2>2, <2>3, OffTheWave
<1>6. CASE AskPlan
  <2>1. (\E st \in {"pending", "notified"} : Enqueue(PlanGate, st)) /\ node # "execute"
    BY <1>6 DEF AskPlan, Ask, Take
  <2>2. \A u \in Sid : results'[u].attempts = results[u].attempts
    BY <1>6 DEF AskPlan
  <2>3. \A u \in Sid, n, k \in Nat : Has(ToolGate(u, n, k))' => Has(ToolGate(u, n, k))
    BY <2>1, EnqueueAdds, GateKeys
  <2> QED  BY <2>1, <2>2, <2>3, OffTheWave
<1>7. CASE AnswerPlan
  <2>1. (\E st \in {"pending", "notified"} : Enqueue(PlanGate, st)) /\ node # "execute"
    BY <1>7 DEF AnswerPlan, Ask, Take
  <2>2. \A u \in Sid : results'[u].attempts = results[u].attempts
    BY <1>7 DEF AnswerPlan
  <2>3. \A u \in Sid, n, k \in Nat : Has(ToolGate(u, n, k))' => Has(ToolGate(u, n, k))
    BY <2>1, EnqueueAdds, GateKeys
  <2> QED  BY <2>1, <2>2, <2>3, OffTheWave
<1>8. CASE Schedule
  <2>1. approvals' = approvals /\ results' = results /\ node # "execute"
    BY <1>8 DEF Schedule
  <2> QED  BY <2>1, OffTheWave DEF Has
<1>9. ASSUME NEW s \in Sid, NotifyTool(s) PROVE ToolAsked'
  <2>1. /\ \E st \in {"pending", "notified"} : Enqueue(NextGate(s), st)
        /\ results' = results /\ branch[s] = "ready"
    BY <1>9 DEF NotifyTool, Ask, Take
  <2>2. \A u \in Sid, n, k \in Nat : Has(ToolGate(u, n, k))' =>
          Has(ToolGate(u, n, k)) \/ (u = s /\ n = Attempt(s) /\ k = gates[s])
    BY <2>1, EnqueueAdds, GateKeys DEF NextGate
  <2>3. /\ branch' = branch /\ resume' = resume
        /\ \A u \in Sid : gates'[u] = (IF u = s THEN gates[s] + 1 ELSE gates[u])
    BY <1>9 DEF NotifyTool, TypeOK
  <2> QED  BY <2>1, <2>2, <2>3 DEF ToolAsked, Attempt
<1>10. ASSUME NEW s \in Sid, AskTool(s) PROVE ToolAsked'
  <2>1. /\ \E st \in {"pending", "notified"} : Enqueue(NextGate(s), st)
        /\ results' = results /\ branch[s] = "ready"
    BY <1>10 DEF AskTool, Ask, Take
  <2>2. \A u \in Sid, n, k \in Nat : Has(ToolGate(u, n, k))' =>
          Has(ToolGate(u, n, k)) \/ (u = s /\ n = Attempt(s) /\ k = gates[s])
    BY <2>1, EnqueueAdds, GateKeys DEF NextGate
  <2>3. /\ gates' = gates /\ resume' = resume /\ resume = {}
        /\ \A u \in Sid : branch'[u] = (IF u = s THEN "paused" ELSE branch[u])
    BY <1>10 DEF AskTool, Ask, TypeOK
  <2> QED  BY <2>1, <2>2, <2>3 DEF ToolAsked, Attempt
<1>11. ASSUME NEW s \in Sid, AnswerTool(s) PROVE ToolAsked'
  <2>1. /\ \E st \in {"pending", "notified"} : Enqueue(NextGate(s), st)
        /\ results' = results /\ branch[s] = "ready"
    BY <1>11 DEF AnswerTool, Ask, Take
  <2>2. \A u \in Sid, n, k \in Nat : Has(ToolGate(u, n, k))' =>
          Has(ToolGate(u, n, k)) \/ (u = s /\ n = Attempt(s) /\ k = gates[s])
    BY <2>1, EnqueueAdds, GateKeys DEF NextGate
  <2>3. /\ branch' = branch /\ resume' = {}
        /\ \A u \in Sid : gates'[u] = (IF u = s THEN gates[s] + 1 ELSE gates[u])
    BY <1>11, TakeDoes, StateGates DEF AnswerTool, TypeOK
  <2>4. \A j \in resume : j.gate = NextGate(s)
    BY <1>11, TakeDoes, StateGates DEF AnswerTool
  <2>5. \A u \in Sid, n, k \in Nat : (\E j \in resume : j.gate = ToolGate(u, n, k)) => u = s /\ k = gates[s]
    BY <2>4, GateKeys DEF NextGate
  <2> QED  BY <2>1, <2>2, <2>3, <2>5 DEF ToolAsked, Attempt
<1>12. ASSUME NEW s \in Sid, AttemptFails(s) PROVE ToolAsked'
  <2>1. /\ approvals' = approvals /\ gates' = gates /\ resume' = resume
        /\ \A u \in Sid : /\ branch'[u] = (IF u = s THEN "done" ELSE branch[u])
                          /\ results'[u].attempts = results[u].attempts + (IF u = s THEN 1 ELSE 0)
    BY <1>12 DEF AttemptFails, Finish, Failed, Result, TypeOK, Entry
  <2> QED  BY <2>1 DEF ToolAsked, Attempt, Has
<1>13. ASSUME NEW s \in Sid, AttemptReworked(s) PROVE ToolAsked'
  <2>1. /\ approvals' = approvals /\ gates' = gates /\ resume' = resume
        /\ \A u \in Sid : /\ branch'[u] = (IF u = s THEN "done" ELSE branch[u])
                          /\ results'[u].attempts = results[u].attempts + (IF u = s THEN 1 ELSE 0)
    BY <1>13 DEF AttemptReworked, Finish, Reworked, Result, TypeOK, Entry
  <2> QED  BY <2>1 DEF ToolAsked, Attempt, Has
<1>14. ASSUME NEW s \in Sid, AttemptPasses(s) PROVE ToolAsked'
  <2>1. /\ approvals' = approvals /\ gates' = gates /\ resume' = resume
        /\ \A u \in Sid : /\ branch'[u] = (IF u = s THEN "done" ELSE branch[u])
                          /\ results'[u].attempts = results[u].attempts + (IF u = s THEN 1 ELSE 0)
    BY <1>14 DEF AttemptPasses, Finish, Passed, Result, TypeOK, Entry
  <2> QED  BY <2>1 DEF ToolAsked, Attempt, Has
<1>15. CASE CommitWave
  <2>1. /\ approvals' = approvals /\ results' = results
        /\ \A u \in Sid : branch[u] \in {"idle", "done"}
    BY <1>15 DEF CommitWave
  <2> QED  BY <2>1 DEF ToolAsked, Has
<1>16. CASE PauseWave
  <2>1. /\ approvals' = approvals /\ results' = results /\ branch' = branch /\ gates' = gates
        /\ \A u \in Sid : branch[u] # "ready"
    BY <1>16 DEF PauseWave
  <2> QED  BY <2>1 DEF ToolAsked, Has, Attempt
<1>17. CASE GatherEscalates
  <2>1. approvals' = approvals /\ results' = results /\ node # "execute"
    BY <1>17 DEF GatherEscalates, ExhaustedSubtasks
  <2> QED  BY <2>1, OffTheWave DEF Has
<1>18. CASE GatherClear
  <2>1. approvals' = approvals /\ results' = results /\ node # "execute"
    BY <1>18 DEF GatherClear
  <2> QED  BY <2>1, OffTheWave DEF Has
<1>19. CASE NotifySubtask
  <2>1. (\E st \in {"pending", "notified"} : Enqueue(EscalationGate, st)) /\ node # "execute"
    BY <1>19 DEF NotifySubtask, Ask, Take
  <2>2. \A u \in Sid : results'[u].attempts = results[u].attempts
    BY <1>19 DEF NotifySubtask, TypeOK, ApplySubtaskDecision, Retried, Provided,
      Result, NodeInv, Entry
  <2>3. \A u \in Sid, n, k \in Nat : Has(ToolGate(u, n, k))' => Has(ToolGate(u, n, k))
    BY <2>1, EnqueueAdds, GateKeys DEF EscalationGate
  <2> QED  BY <2>1, <2>2, <2>3, OffTheWave
<1>20. CASE AskSubtask
  <2>1. (\E st \in {"pending", "notified"} : Enqueue(EscalationGate, st)) /\ node # "execute"
    BY <1>20 DEF AskSubtask, Ask, Take
  <2>2. \A u \in Sid : results'[u].attempts = results[u].attempts
    BY <1>20 DEF AskSubtask, TypeOK, ApplySubtaskDecision, Retried, Provided, Result,
      NodeInv, Entry
  <2>3. \A u \in Sid, n, k \in Nat : Has(ToolGate(u, n, k))' => Has(ToolGate(u, n, k))
    BY <2>1, EnqueueAdds, GateKeys DEF EscalationGate
  <2> QED  BY <2>1, <2>2, <2>3, OffTheWave
<1>21. CASE AnswerSubtask
  <2>1. (\E st \in {"pending", "notified"} : Enqueue(EscalationGate, st)) /\ node # "execute"
    BY <1>21 DEF AnswerSubtask, Ask, Take
  <2>2. \A u \in Sid : results'[u].attempts = results[u].attempts
    BY <1>21 DEF AnswerSubtask, TypeOK, ApplySubtaskDecision, Retried, Provided,
      Result, NodeInv, Entry
  <2>3. \A u \in Sid, n, k \in Nat : Has(ToolGate(u, n, k))' => Has(ToolGate(u, n, k))
    BY <2>1, EnqueueAdds, GateKeys DEF EscalationGate
  <2> QED  BY <2>1, <2>2, <2>3, OffTheWave
<1>22. CASE Synthesize
  <2>1. approvals' = approvals /\ results' = results /\ node # "execute"
    BY <1>22 DEF Synthesize
  <2> QED  BY <2>1, OffTheWave DEF Has
<1>23. CASE FinalGateSkipped
  <2>1. approvals' = approvals /\ results' = results /\ node # "execute"
    BY <1>23 DEF FinalGateSkipped, End, RoutesToEnd
  <2> QED  BY <2>1, OffTheWave DEF Has
<1>24. CASE AskFinal
  <2>1. (\E st \in {"pending", "notified"} : Enqueue(FinalGate, st)) /\ node # "execute"
    BY <1>24 DEF AskFinal, Ask, Take
  <2>2. \A u \in Sid : results'[u].attempts = results[u].attempts
    BY <1>24 DEF AskFinal
  <2>3. \A u \in Sid, n, k \in Nat : Has(ToolGate(u, n, k))' => Has(ToolGate(u, n, k))
    BY <2>1, EnqueueAdds, GateKeys
  <2> QED  BY <2>1, <2>2, <2>3, OffTheWave
<1>25. CASE AnswerFinal
  <2>1. (\E st \in {"pending", "notified"} : Enqueue(FinalGate, st)) /\ node # "execute"
    BY <1>25 DEF AnswerFinal, Ask, Take
  <2>2. \A u \in Sid : results'[u].attempts = results[u].attempts
    BY <1>25 DEF AnswerFinal
  <2>3. \A u \in Sid, n, k \in Nat : Has(ToolGate(u, n, k))' => Has(ToolGate(u, n, k))
    BY <2>1, EnqueueAdds, GateKeys
  <2> QED  BY <2>1, <2>2, <2>3, OffTheWave
<1>26. CASE Deliver
  <2>1. approvals' = approvals /\ results' = results /\ node # "execute"
    BY <1>26 DEF Deliver
  <2> QED  BY <2>1, OffTheWave DEF Has
<1>27. CASE Cleanup
  <2>1. approvals' = approvals /\ results' = results /\ node # "execute"
    BY <1>27 DEF Cleanup, End
  <2> QED  BY <2>1, OffTheWave DEF Has
<1>28. CASE OutOfSteps
  <2>1. /\ approvals' = approvals /\ results' = results /\ branch' = branch /\ gates' = gates
        /\ ~(steps < RecursionLimit)
    BY <1>28, BoundsAssumption DEF OutOfSteps, Crash, Abort, TypeOK
  <2>2. resume = {}
    BY <2>1, AnswerInTime
  <2> QED  BY <2>1, <2>2 DEF ToolAsked, Has, Attempt
<1>29. CASE Reviewer
  <2>1. PICK r \in approvals, a \in Action : Resolve(r, a)
    BY <1>29 DEF Reviewer
  <2>2. UNCHANGED <<results, branch, gates, resume>>
    BY <2>1 DEF Resolve
  <2>3. \A u \in Sid, n, k \in Nat : Has(ToolGate(u, n, k))' => Has(ToolGate(u, n, k))
    BY <2>1, ResolveKeeps
  <2> QED  BY <2>2, <2>3 DEF ToolAsked, Attempt
<1>30. CASE Resuming
  <2>1. PICK j \in jobs : StartResume(j)
    BY <1>30 DEF Resuming
  <2>2. approvals' = approvals /\ results' = results /\ gates' = gates
    BY <2>1 DEF StartResume
  <2>3. node # "end"
    BY NoLateJob
  <2>4. CASE Ambiguous
    BY <2>1, <2>2, <2>3, <2>4 DEF StartResume, ToolAsked, Has, Attempt
  <2>5. CASE ~Ambiguous
    <3>1. /\ resume = {} /\ run = "paused"
          /\ \/ Paused = {}
             \/ \E s \in Sid : Paused = {s} /\ j.gate = NextGate(s)
      BY <2>1, <2>3, <2>5, ResumeIsAlone DEF StartResume
    <3>2. branch' = Rerun /\ resume' = {j}
      BY <2>1, <2>3, <2>5 DEF StartResume
    <3>3. \A u \in Sid : branch[u] # "ready"
      BY <3>1 DEF PauseInv
    <3>4. \A u \in Sid : branch[u] = "paused" => branch'[u] = "ready" /\ j.gate = NextGate(u)
      BY <3>1, <3>2 DEF Rerun, Paused
    <3> QED  BY <2>2, <3>1, <3>2, <3>3, <3>4 DEF ToolAsked, Has, Attempt, NextGate
  <2> QED  BY <2>4, <2>5
<1>31. CASE UNCHANGED vars
  BY <1>31 DEF vars, ToolAsked, Has, Attempt
<1>32. QED
  BY CalmSteps, <1>1, <1>2, <1>3, <1>4, <1>5, <1>6, <1>7, <1>8, <1>9, <1>10, <1>11,
     <1>12, <1>13, <1>14, <1>15, <1>16, <1>17, <1>18, <1>19, <1>20, <1>21, <1>22,
     <1>23, <1>24, <1>25, <1>26, <1>27, <1>28, <1>29, <1>30, <1>31

(* A subtask sent back for another round, or provided for, is not          *)
(* exhausted.                                                              *)
LEMMA RetriedIsFresh ==
  ASSUME NEW r
  PROVE  /\ ~Exhausted(Retried(r)) /\ Retried(r).attempts = r.attempts
         /\ ~Exhausted(Provided(r)) /\ Provided(r).attempts = r.attempts
BY BoundsAssumption DEF Exhausted, Retried, Provided, Result

(* A gate of the graph has a row only once the graph asked at it.          *)
LEMMA GateAskedStep ==
  ASSUME Calm, IInv, CalmInv, [Next]_vars
  PROVE  SubtaskAsked' /\ PlanAsked' /\ FinalAsked' /\ NotifiedOnce'

<1>0. /\ TypeOK /\ NodeInv /\ WaveInv /\ ReviewInv /\ ResumeInv /\ PauseInv
      /\ SubtaskAsked /\ PlanAsked /\ FinalAsked /\ NotifiedOnce
  BY DEF IInv, CalmInv, AskedInv
<1>a. \A u \in Sid : results[u].attempts \in Nat
  BY <1>0 DEF TypeOK, Entry
<1> USE <1>0, <1>a DEF SubtaskAsked, PlanAsked, FinalAsked, NotifiedOnce, Asked, At, Goto, Running,
     nodeVars, stateVars, waveVars, tableVars
<1>1. CASE StartRun
  <2>1. \A g : ~Has(g) /\ ~Has(g)'
    BY <1>1 DEF StartRun, Has, ReviewInv, PauseInv
  <2> QED  BY <2>1
<1>2. CASE Intake
  <2>1. \A g : ~Has(g) /\ ~Has(g)'
    BY <1>2 DEF Intake, Has, ReviewInv
  <2> QED  BY <2>1, <1>2 DEF Intake
<1>3. CASE PlanTask
  <2>1. \A g : ~Has(g) /\ ~Has(g)'
    BY <1>3 DEF PlanTask, SavePlan, FreshRows, Has, ReviewInv
  <2> QED  BY <2>1, <1>3 DEF PlanTask, SavePlan, FreshRows
<1>4. CASE PlanInvalid
  <2>1. \A g : Has(g)' <=> Has(g)
    BY <1>4 DEF PlanInvalid, End, Has
  <2> QED  BY <1>4, <2>1 DEF PlanInvalid, End
<1>5. CASE NotifyPlan
  <2>1. \A g : Has(g)' <=> Has(g) \/ g = PlanGate
    BY <1>5, EnqueueAdds DEF NotifyPlan
  <2>2. node = "escalate_plan" /\ node' = "schedule" /\ UNCHANGED <<results, review>>
    BY <1>5 DEF NotifyPlan
  <2> QED  BY <2>1, <2>2, GateKeys
<1>6. CASE AskPlan
  <2>1. \A g : Has(g)' <=> Has(g) \/ g = PlanGate
    BY <1>6, EnqueueAdds DEF AskPlan, Ask
  <2>2. node = "escalate_plan" /\ run' = "paused" /\ UNCHANGED <<node, results, review>>
    BY <1>6 DEF AskPlan
  <2> QED  BY <2>1, <2>2, GateKeys
<1>7. CASE AnswerPlan
  <2>1. \A g : Has(g)' <=> Has(g)
    BY <1>7, TakeDoes, GateTyping DEF AnswerPlan, OwnGate, GateNode, Has
  <2>2. /\ node = "escalate_plan" /\ node' \in {"schedule", "deliver", "end"}
        /\ UNCHANGED <<results, review>>
    BY <1>7 DEF AnswerPlan, ApplyPlanDecision
  <2> QED  BY <2>1, <2>2
<1>8. CASE Schedule
  <2>1. \A g : Has(g)' <=> Has(g)
    BY <1>8 DEF Schedule, Has
  <2> QED  BY <1>8, <2>1 DEF Schedule
<1>9. ASSUME NEW s \in Sid, NotifyTool(s)
      PROVE SubtaskAsked' /\ PlanAsked' /\ FinalAsked' /\ NotifiedOnce'
  <2>1. /\ \E st \in {"pending", "notified"} : Enqueue(NextGate(s), st)
        /\ UNCHANGED <<node, results, review>> /\ node = "execute"
    BY <1>9 DEF NotifyTool, Ask, Take
  <2>2. /\ \A u \in Sid, n \in Nat : Has(SubtaskGate(u, n))' => Has(SubtaskGate(u, n))
        /\ Has(PlanGate)' => Has(PlanGate)
        /\ Has(FinalGate)' => Has(FinalGate)
    BY <2>1, EnqueueAdds, GateKeys DEF NextGate
  <2> QED  BY <2>1, <2>2
<1>10. ASSUME NEW s \in Sid, AskTool(s)
       PROVE SubtaskAsked' /\ PlanAsked' /\ FinalAsked' /\ NotifiedOnce'
  <2>1. /\ \E st \in {"pending", "notified"} : Enqueue(NextGate(s), st)
        /\ UNCHANGED <<node, results, review>> /\ node = "execute"
    BY <1>10 DEF AskTool, Ask, Take
  <2>2. /\ \A u \in Sid, n \in Nat : Has(SubtaskGate(u, n))' => Has(SubtaskGate(u, n))
        /\ Has(PlanGate)' => Has(PlanGate)
        /\ Has(FinalGate)' => Has(FinalGate)
    BY <2>1, EnqueueAdds, GateKeys DEF NextGate
  <2> QED  BY <2>1, <2>2
<1>11. ASSUME NEW s \in Sid, AnswerTool(s)
       PROVE SubtaskAsked' /\ PlanAsked' /\ FinalAsked' /\ NotifiedOnce'
  <2>1. /\ \E st \in {"pending", "notified"} : Enqueue(NextGate(s), st)
        /\ UNCHANGED <<node, results, review>> /\ node = "execute"
    BY <1>11 DEF AnswerTool, Ask, Take
  <2>2. /\ \A u \in Sid, n \in Nat : Has(SubtaskGate(u, n))' => Has(SubtaskGate(u, n))
        /\ Has(PlanGate)' => Has(PlanGate)
        /\ Has(FinalGate)' => Has(FinalGate)
    BY <2>1, EnqueueAdds, GateKeys DEF NextGate
  <2> QED  BY <2>1, <2>2
<1>12. ASSUME NEW s \in Sid, AttemptFails(s)
       PROVE SubtaskAsked' /\ PlanAsked' /\ FinalAsked' /\ NotifiedOnce'
  <2>1. \A g : Has(g)' <=> Has(g)
    BY <1>12 DEF AttemptFails, Finish, Failed, Result, Has
  <2>2. /\ UNCHANGED <<node, review>> /\ node = "execute"
        /\ \A u \in Sid \ {s} : results'[u] = results[u]
        /\ results'[s].attempts = results[s].attempts + 1
    BY <1>12 DEF AttemptFails, Finish, Failed, Result, TypeOK, Entry
  <2>3. \A u \in Sid, n \in Nat : Has(SubtaskGate(u, n))' =>
          /\ n <= results'[u].attempts
          /\ n = results'[u].attempts => u # s /\ ~Exhausted(results'[u])
    BY <2>1, <2>2
  <2> QED  BY <2>1, <2>2, <2>3
<1>13. ASSUME NEW s \in Sid, AttemptReworked(s)
       PROVE SubtaskAsked' /\ PlanAsked' /\ FinalAsked' /\ NotifiedOnce'
  <2>1. \A g : Has(g)' <=> Has(g)
    BY <1>13 DEF AttemptReworked, Finish, Reworked, Result, Has
  <2>2. /\ UNCHANGED <<node, review>> /\ node = "execute"
        /\ \A u \in Sid \ {s} : results'[u] = results[u]
        /\ results'[s].attempts = results[s].attempts + 1
    BY <1>13 DEF AttemptReworked, Finish, Reworked, Result, TypeOK, Entry
  <2>3. \A u \in Sid, n \in Nat : Has(SubtaskGate(u, n))' =>
          /\ n <= results'[u].attempts
          /\ n = results'[u].attempts => u # s /\ ~Exhausted(results'[u])
    BY <2>1, <2>2
  <2> QED  BY <2>1, <2>2, <2>3
<1>14. ASSUME NEW s \in Sid, AttemptPasses(s)
       PROVE SubtaskAsked' /\ PlanAsked' /\ FinalAsked' /\ NotifiedOnce'
  <2>1. \A g : Has(g)' <=> Has(g)
    BY <1>14 DEF AttemptPasses, Finish, Passed, Result, Has
  <2>2. /\ UNCHANGED <<node, review>> /\ node = "execute"
        /\ \A u \in Sid \ {s} : results'[u] = results[u]
        /\ results'[s].attempts = results[s].attempts + 1
    BY <1>14 DEF AttemptPasses, Finish, Passed, Result, TypeOK, Entry
  <2>3. \A u \in Sid, n \in Nat : Has(SubtaskGate(u, n))' =>
          /\ n <= results'[u].attempts
          /\ n = results'[u].attempts => u # s /\ ~Exhausted(results'[u])
    BY <2>1, <2>2
  <2> QED  BY <2>1, <2>2, <2>3
<1>15. CASE CommitWave
  <2>1. \A g : Has(g)' <=> Has(g)
    BY <1>15 DEF CommitWave, Has
  <2> QED  BY <1>15, <2>1 DEF CommitWave, NodeInv
<1>16. CASE PauseWave
  <2>1. \A g : Has(g)' <=> Has(g)
    BY <1>16 DEF PauseWave, Has
  <2> QED  BY <1>16, <2>1 DEF PauseWave, NodeInv
<1>17. CASE GatherEscalates
  <2>1. \A g : Has(g)' <=> Has(g)
    BY <1>17 DEF GatherEscalates, Has
  <2>2. /\ node = "gather" /\ node' = "escalate_subtask" /\ results' = results /\ review' = review
        /\ escalation' \in Sid /\ Exhausted(results[escalation'])
    BY <1>17 DEF GatherEscalates, ExhaustedSubtasks
  <2>3. ~Has(SubtaskGate(escalation', results[escalation'].attempts))
    BY <2>2
  <2>4. ~Has(EscalationGate)'
    BY <2>1, <2>2, <2>3 DEF EscalationGate
  <2> QED  BY <2>1, <2>2, <2>4
<1>18. CASE GatherClear
  <2>1. \A g : Has(g)' <=> Has(g)
    BY <1>18 DEF GatherClear, Has
  <2> QED  BY <1>18, <2>1 DEF GatherClear
<1>19. CASE NotifySubtask
  <2>1. \A g : Has(g)' <=> Has(g) \/ g = EscalationGate
    BY <1>19, EnqueueAdds DEF NotifySubtask
  <2>2. /\ node = "escalate_subtask" /\ node' = "schedule" /\ review' = review /\ escalation \in Sid
        /\ \A u \in Sid \ {escalation} : results'[u] = results[u]
        /\ results'[escalation] = Retried(results[escalation])
    BY <1>19 DEF NotifySubtask, NodeInv, TypeOK
  <2>3. /\ results'[escalation].attempts = results[escalation].attempts
        /\ ~Exhausted(results'[escalation])
    BY <2>2, RetriedIsFresh
  <2>4. \A u \in Sid, n \in Nat : Has(SubtaskGate(u, n))' =>
          Has(SubtaskGate(u, n)) \/ (u = escalation /\ n = results[u].attempts)
    BY <2>1, GateKeys DEF EscalationGate
  <2>5. ~Has(FinalGate)' /\ (Has(PlanGate)' => Has(PlanGate))
    BY <2>1, <2>2, GateKeys DEF EscalationGate
  <2> QED  BY <2>2, <2>3, <2>4, <2>5
<1>20. CASE AskSubtask
  <2>1. \A g : Has(g)' <=> Has(g) \/ g = EscalationGate
    BY <1>20, EnqueueAdds DEF AskSubtask, Ask
  <2>2. /\ node = "escalate_subtask" /\ run' = "paused" /\ escalation \in Sid
        /\ UNCHANGED <<node, results, review, escalation>>
        /\ SubtaskTrigger(escalation) \notin Notify
    BY <1>20 DEF AskSubtask, NodeInv
  <2>3. \A u \in Sid, n \in Nat : Has(SubtaskGate(u, n))' =>
          Has(SubtaskGate(u, n)) \/ (u = escalation /\ n = results[u].attempts)
    BY <2>1, GateKeys DEF EscalationGate
  <2>4. ~Has(FinalGate)' /\ (Has(PlanGate)' => Has(PlanGate))
    BY <2>1, <2>2, GateKeys DEF EscalationGate
  <2>5. NotifiedOnce'
    BY <2>2 DEF SubtaskTrigger
  <2> QED  BY <2>2, <2>3, <2>4, <2>5
<1>21. CASE AnswerSubtask
  <2>1. \A g : Has(g)' <=> Has(g)
    BY <1>21, TakeDoes, StateGates DEF AnswerSubtask, OwnGate, GateNode, NodeInv, Has
  <2>2. PICK a \in Action : ApplySubtaskDecision(escalation, a)
    BY <1>21 DEF AnswerSubtask, TypeOK, Job
  <2>3. node = "escalate_subtask" /\ review' = review /\ escalation \in Sid /\ ~Has(FinalGate)
    BY <1>21 DEF AnswerSubtask, NodeInv
  <2>4. CASE node' = "end"
    <3>1. results' = results
      BY <2>2, <2>4 DEF ApplySubtaskDecision
    <3> QED  BY <2>1, <2>3, <2>4, <3>1
  <2>5. CASE node' # "end"
    <3>1. /\ node' = "schedule"
          /\ \A u \in Sid \ {escalation} : results'[u] = results[u]
          /\ results'[escalation] \in {Retried(results[escalation]), Provided(results[escalation])}
      BY <2>2, <2>3, <2>5 DEF ApplySubtaskDecision, TypeOK
    <3>2. /\ results'[escalation].attempts = results[escalation].attempts
          /\ ~Exhausted(results'[escalation])
      BY <3>1, RetriedIsFresh
    <3> QED  BY <2>1, <2>3, <3>1, <3>2
  <2> QED  BY <2>4, <2>5
<1>22. CASE Synthesize
  <2>1. \A g : Has(g)' <=> Has(g)
    BY <1>22 DEF Synthesize, Has
  <2> QED  BY <1>22, <2>1 DEF Synthesize
<1>23. CASE FinalGateSkipped
  <2>1. \A g : Has(g)' <=> Has(g)
    BY <1>23 DEF FinalGateSkipped, End, RoutesToEnd, Has
  <2> QED  BY <1>23, <2>1 DEF FinalGateSkipped, End, RoutesToEnd
<1>24. CASE AskFinal
  <2>1. \A g : Has(g)' <=> Has(g) \/ g = FinalGate
    BY <1>24, EnqueueAdds DEF AskFinal, Ask
  <2>2. node = "final_gate" /\ run' = "paused" /\ review /\ UNCHANGED <<node, results, review>>
    BY <1>24 DEF AskFinal
  <2> QED  BY <2>1, <2>2, GateKeys
<1>25. CASE AnswerFinal
  <2>1. \A g : Has(g)' <=> Has(g)
    BY <1>25, TakeDoes, GateTyping DEF AnswerFinal, OwnGate, GateNode, Has
  <2>2. /\ node = "final_gate" /\ node' \in {"deliver", "end"}
        /\ UNCHANGED <<results, review>>
    BY <1>25 DEF AnswerFinal, ApplyFinalDecision
  <2> QED  BY <2>1, <2>2
<1>26. CASE Deliver
  <2>1. \A g : Has(g)' <=> Has(g)
    BY <1>26 DEF Deliver, Has
  <2> QED  BY <1>26, <2>1 DEF Deliver, NodeInv
<1>27. CASE Cleanup
  <2>1. \A g : Has(g)' <=> Has(g)
    BY <1>27 DEF Cleanup, End, Has
  <2> QED  BY <1>27, <2>1 DEF Cleanup, End, NodeInv
<1>28. CASE OutOfSteps
  <2>1. /\ UNCHANGED <<approvals, results, review, escalation>> /\ run = "active" /\ run' = "over"
        /\ node' = (IF node = "cleanup" THEN "deliver" ELSE node) /\ ~(steps < RecursionLimit)
    BY <1>28, BoundsAssumption DEF OutOfSteps, Crash, Abort, TypeOK
  <2>2. resume = {}
    BY <2>1, AnswerInTime
  <2>3. \A g : Has(g)' <=> Has(g)
    BY <2>1 DEF Has
  <2>4. (Has(EscalationGate)' <=> Has(EscalationGate)) /\ (SubtaskTrigger(escalation)' = SubtaskTrigger(escalation))
    BY <2>1 DEF EscalationGate, SubtaskTrigger, Has
  <2> QED  BY <2>1, <2>2, <2>3, <2>4
<1>29. CASE Reviewer
  <2>1. PICK r \in approvals, a \in Action : Resolve(r, a)
    BY <1>29 DEF Reviewer
  <2>2. UNCHANGED <<node, run, results, review, escalation, resume>>
    BY <2>1 DEF Resolve
  <2>3. \A g : Has(g)' <=> Has(g)
    BY <2>1, ResolveKeeps
  <2>4. EscalationGate' = EscalationGate /\ SubtaskTrigger(escalation)' = SubtaskTrigger(escalation)
    BY <2>2 DEF EscalationGate, SubtaskTrigger
  <2>5. Has(EscalationGate)' <=> Has(EscalationGate)
    BY <2>3, <2>4 DEF Has
  <2> QED  BY <2>2, <2>3, <2>4, <2>5
<1>30. CASE Resuming
  <2>1. PICK j \in jobs : StartResume(j)
    BY <1>30 DEF Resuming
  <2>2. UNCHANGED <<node, approvals, results, review, escalation>> /\ node # "end"
    BY <2>1, NoLateJob DEF StartResume
  <2>3. node \in GateNode => resume' # {}
    BY <2>1, <2>2 DEF StartResume, Ambiguous, Paused, GateNode, WaveInv
  <2>4. \A g : Has(g)' <=> Has(g)
    BY <2>2 DEF Has
  <2>5. (Has(EscalationGate)' <=> Has(EscalationGate)) /\ SubtaskTrigger(escalation)' = SubtaskTrigger(escalation)
    BY <2>2 DEF EscalationGate, SubtaskTrigger, Has
  <2> QED  BY <2>2, <2>3, <2>4, <2>5 DEF GateNode
<1>31. CASE UNCHANGED vars
  <2>1. \A g : Has(g)' <=> Has(g)
    BY <1>31 DEF vars, Has
  <2>2. (Has(EscalationGate)' <=> Has(EscalationGate)) /\ SubtaskTrigger(escalation)' = SubtaskTrigger(escalation)
    BY <1>31 DEF vars, EscalationGate, SubtaskTrigger, Has
  <2> QED  BY <1>31, <2>1, <2>2 DEF vars
<1>32. QED
  BY CalmSteps, <1>1, <1>2, <1>3, <1>4, <1>5, <1>6, <1>7, <1>8, <1>9, <1>10, <1>11,
     <1>12, <1>13, <1>14, <1>15, <1>16, <1>17, <1>18, <1>19, <1>20, <1>21, <1>22,
     <1>23, <1>24, <1>25, <1>26, <1>27, <1>28, <1>29, <1>30, <1>31

(* The reviewer's word on the deliverable stands.                          *)
LEMMA FinalVerdictStays ==
  ASSUME IInv, [Next]_vars, Chosen(FinalGate, LetThrough)
  PROVE  Chosen(FinalGate, LetThrough)'
<1>1. PICK r \in approvals : r.gate = FinalGate /\ r.action \in LetThrough
  BY DEF Chosen, RowOf
<1>2. r.status # "pending"
  BY <1>1 DEF IInv, ApprovalInv, LetThrough, Action
<1>3. r \in approvals'
  BY <1>2, RowsStep
<1> QED  BY <1>1, <1>3 DEF Chosen, RowOf

(* With a review, only what a person let through is delivered.             *)
LEMMA VerdictStep ==
  ASSUME Calm, IInv, CalmInv, [Next]_vars
  PROVE  VerdictInv'

<1>0. /\ TypeOK /\ NodeInv /\ WaveInv /\ ApprovalInv /\ VerdictInv /\ PauseInv
  BY DEF IInv, CalmInv
<1>a. Chosen(FinalGate, LetThrough) => Chosen(FinalGate, LetThrough)'
  BY FinalVerdictStays
<1>b. TakenOver => TakenOver'
  BY TakenOverStep
<1> USE <1>0, <1>a, <1>b DEF VerdictInv, At, Goto, Running,
     nodeVars, stateVars, waveVars, tableVars
<1>1. CASE StartRun
  BY <1>1 DEF StartRun
<1>2. CASE Intake
  BY <1>2 DEF Intake
<1>3. CASE PlanTask
  BY <1>3 DEF PlanTask, SavePlan, FreshRows
<1>4. CASE PlanInvalid
  BY <1>4 DEF PlanInvalid, End
<1>5. CASE NotifyPlan
  BY <1>5 DEF NotifyPlan
<1>6. CASE AskPlan
  BY <1>6 DEF AskPlan, Ask
<1>7. CASE AnswerPlan
  <2>1. node = "escalate_plan" /\ review' = review
    BY <1>7 DEF AnswerPlan
  <2>2. /\ node' = "deliver" => TakenOver /\ status' = "executing"
        /\ node' \in {"schedule", "deliver", "end"}
        /\ status' \in {"rejected", "executing"} /\ (status' = "rejected" => node' = "end")
    BY <1>7, TakeOverIsChosen DEF AnswerPlan, ApplyPlanDecision
  <2> QED  BY <2>1, <2>2
<1>8. CASE Schedule
  BY <1>8 DEF Schedule
<1>9. ASSUME NEW s \in Sid, NotifyTool(s) PROVE VerdictInv'
  BY <1>9 DEF NotifyTool
<1>10. ASSUME NEW s \in Sid, AskTool(s) PROVE VerdictInv'
  BY <1>10 DEF AskTool, Ask
<1>11. ASSUME NEW s \in Sid, AnswerTool(s) PROVE VerdictInv'
  BY <1>11 DEF AnswerTool
<1>12. ASSUME NEW s \in Sid, AttemptFails(s) PROVE VerdictInv'
  BY <1>12 DEF AttemptFails, Finish, Failed, Result
<1>13. ASSUME NEW s \in Sid, AttemptReworked(s) PROVE VerdictInv'
  BY <1>13 DEF AttemptReworked, Finish, Reworked, Result
<1>14. ASSUME NEW s \in Sid, AttemptPasses(s) PROVE VerdictInv'
  BY <1>14 DEF AttemptPasses, Finish, Passed, Result
<1>15. CASE CommitWave
  BY <1>15 DEF CommitWave
<1>16. CASE PauseWave
  BY <1>16 DEF PauseWave
<1>17. CASE GatherEscalates
  BY <1>17 DEF GatherEscalates, ExhaustedSubtasks
<1>18. CASE GatherClear
  BY <1>18 DEF GatherClear
<1>19. CASE NotifySubtask
  BY <1>19 DEF NotifySubtask, Retried, Result
<1>20. CASE AskSubtask
  BY <1>20 DEF AskSubtask, Ask
<1>21. CASE AnswerSubtask
  BY <1>21 DEF AnswerSubtask, ApplySubtaskDecision
<1>22. CASE Synthesize
  BY <1>22 DEF Synthesize
<1>23. CASE FinalGateSkipped
  BY <1>23 DEF FinalGateSkipped, End, RoutesToEnd
<1>24. CASE AskFinal
  BY <1>24 DEF AskFinal, Ask
<1>25. CASE AnswerFinal
  <2>1. PICK j \in resume : Take(FinalGate, j) /\ ApplyFinalDecision(j.action)
    BY <1>25 DEF AnswerFinal
  <2>2. node = "final_gate" /\ review' = review
    BY <1>25 DEF AnswerFinal
  <2>3. CASE j.action = "reject"
    BY <2>1, <2>2, <2>3 DEF ApplyFinalDecision, RoutesToEnd
  <2>4. CASE j.action # "reject"
    <3>1. j.gate = FinalGate
      BY <2>1, <2>2, TakeDoes, GateTyping DEF GateNode, OwnGate
    <3>2. [gate |-> FinalGate, status |-> "resolved", action |-> j.action] \in approvals /\ j.action \in LetThrough
      BY <2>1, <2>4, <3>1 DEF ApprovalInv, TypeOK, Job, LetThrough
    <3>3. Chosen(FinalGate, LetThrough)
      BY <3>2 DEF Chosen, RowOf
    <3> QED  BY <2>1, <2>2, <2>4, <3>3 DEF ApplyFinalDecision, RoutesToEnd
  <2> QED  BY <2>3, <2>4
<1>26. CASE Deliver
  BY <1>26 DEF Deliver
<1>27. CASE Cleanup
  BY <1>27 DEF Cleanup, End
<1>28. CASE OutOfSteps
  BY <1>28 DEF OutOfSteps, Crash, Abort
<1>29. CASE Reviewer
  BY <1>29 DEF Reviewer, Resolve
<1>30. CASE Resuming
  <2>1. PICK j \in jobs : StartResume(j)
    BY <1>30 DEF Resuming
  <2>2. node' = node /\ review' = review /\ status' \in {status, "failed"} /\ node # "end"
    BY <2>1, NoLateJob DEF StartResume
  <2> QED  BY <2>2
<1>31. CASE UNCHANGED vars
  BY <1>31 DEF vars
<1>32. QED
  BY CalmSteps, <1>1, <1>2, <1>3, <1>4, <1>5, <1>6, <1>7, <1>8, <1>9, <1>10, <1>11,
     <1>12, <1>13, <1>14, <1>15, <1>16, <1>17, <1>18, <1>19, <1>20, <1>21, <1>22,
     <1>23, <1>24, <1>25, <1>26, <1>27, <1>28, <1>29, <1>30, <1>31

(* Away from the gates of the graph every rejection is one of a tool call. *)
LEMMA OnlyToolsRejected ==
  ASSUME IInv, CalmInv, node # "end", node \notin GateNode \/ ~Has(OwnGate),
         \A r \in approvals' : r.action = "reject" => r \in approvals
  PROVE  RejectInv'
<1>1. status # "rejected"
  BY DEF CalmInv, VerdictInv
<1>2. \A r \in approvals : r.action = "reject" => IsToolGate(r.gate)
  BY <1>1 DEF CalmInv, RejectInv, Has
<1> QED  BY <1>2 DEF RejectInv, IsToolGate

(* The row a gate adds is not a rejection.                                 *)
LEMMA NoRejectAdded ==
  ASSUME NEW g, NEW st, Enqueue(g, st)
  PROVE  \A r \in approvals' : r.action = "reject" => r \in approvals
BY DEF Enqueue

(* A rejection ends the task, or is on its way to its gate.                *)
LEMMA RejectStep ==
  ASSUME Calm, IInv, CalmInv, [Next]_vars
  PROVE  RejectInv'

<1>0. /\ TypeOK /\ NodeInv /\ WaveInv /\ ApprovalInv /\ ReviewInv
      /\ OpenInv /\ PauseInv /\ ResumeInv /\ AskedInv /\ VerdictInv /\ RejectInv
  BY DEF IInv, CalmInv
<1> USE <1>0 DEF At, Goto, Running, nodeVars, stateVars, waveVars, tableVars
<1>1. CASE StartRun
  <2>1. approvals' = approvals /\ node # "end" /\ node \notin GateNode
    BY <1>1 DEF StartRun, GateNode, PauseInv
  <2> QED  BY <2>1, OnlyToolsRejected
<1>2. CASE Intake
  <2>1. approvals' = approvals /\ node # "end" /\ node \notin GateNode
    BY <1>2 DEF Intake, GateNode
  <2> QED  BY <2>1, OnlyToolsRejected
<1>3. CASE PlanTask
  <2>1. approvals' = approvals /\ node # "end" /\ node \notin GateNode
    BY <1>3 DEF PlanTask, SavePlan, FreshRows, GateNode
  <2> QED  BY <2>1, OnlyToolsRejected
<1>4. CASE PlanInvalid
  <2>1. approvals' = approvals /\ node # "end" /\ node \notin GateNode
    BY <1>4 DEF PlanInvalid, End, GateNode
  <2> QED  BY <2>1, OnlyToolsRejected
<1>5. CASE NotifyPlan
  <2>1. Enqueue(PlanGate, "notified") /\ node = "escalate_plan" /\ approvals = {}
    BY <1>5 DEF NotifyPlan, ReviewInv
  <2> QED  BY <2>1, NoRejectAdded, OnlyToolsRejected DEF Has
<1>6. CASE AskPlan
  <2>1. Enqueue(PlanGate, "pending") /\ node \in GateNode /\ PlanGate = OwnGate /\ resume = {} /\ run = "active"
    BY <1>6 DEF AskPlan, Ask, OwnGate, GateNode
  <2>2. ~Has(OwnGate)
    BY <2>1, AsksAnew DEF OwnGate, GateNode
  <2> QED  BY <2>1, <2>2, NoRejectAdded, OnlyToolsRejected DEF GateNode
<1>7. CASE AnswerPlan
  <2>1. /\ node \in GateNode /\ PlanGate = OwnGate /\ PlanGate \in Gate /\ jobs' = jobs
    BY <1>7, GateTyping DEF AnswerPlan, OwnGate, GateNode, NodeInv
  <2>2. PICK j \in resume : Take(PlanGate, j) /\ ApplyPlanDecision(j.action)
    BY <1>7 DEF AnswerPlan
  <2>3. approvals' = approvals /\ resume = {j} /\ jobs = {} /\ j.gate = OwnGate
    BY <2>1, <2>2, TakeDoes
  <2>4. j.action = "reject" => status' = "rejected"
    BY <2>2 DEF ApplyPlanDecision, RoutesToEnd
  <2>5. \A r \in approvals : r.action = "reject" =>
          IsToolGate(r.gate) \/ j.action = "reject"
    BY <2>1, <2>3 DEF RejectInv, VerdictInv, GateNode
  <2> QED  BY <2>3, <2>4, <2>5 DEF RejectInv, IsToolGate
<1>8. CASE Schedule
  <2>1. approvals' = approvals /\ node # "end" /\ node \notin GateNode
    BY <1>8 DEF Schedule, GateNode
  <2> QED  BY <2>1, OnlyToolsRejected
<1>9. ASSUME NEW s \in Sid, NotifyTool(s) PROVE RejectInv'
  <2>1. (\E st \in {"pending", "notified"} : Enqueue(NextGate(s), st)) /\ node = "execute"
    BY <1>9 DEF NotifyTool, Ask, Take
  <2> QED  BY <2>1, NoRejectAdded, OnlyToolsRejected DEF GateNode
<1>10. ASSUME NEW s \in Sid, AskTool(s) PROVE RejectInv'
  <2>1. (\E st \in {"pending", "notified"} : Enqueue(NextGate(s), st)) /\ node = "execute"
    BY <1>10 DEF AskTool, Ask, Take
  <2> QED  BY <2>1, NoRejectAdded, OnlyToolsRejected DEF GateNode
<1>11. ASSUME NEW s \in Sid, AnswerTool(s) PROVE RejectInv'
  <2>1. (\E st \in {"pending", "notified"} : Enqueue(NextGate(s), st)) /\ node = "execute"
    BY <1>11 DEF AnswerTool, Ask, Take
  <2> QED  BY <2>1, NoRejectAdded, OnlyToolsRejected DEF GateNode
<1>12. ASSUME NEW s \in Sid, AttemptFails(s) PROVE RejectInv'
  <2>1. approvals' = approvals /\ node # "end" /\ node \notin GateNode
    BY <1>12 DEF AttemptFails, Finish, Failed, Result, GateNode
  <2> QED  BY <2>1, OnlyToolsRejected
<1>13. ASSUME NEW s \in Sid, AttemptReworked(s) PROVE RejectInv'
  <2>1. approvals' = approvals /\ node # "end" /\ node \notin GateNode
    BY <1>13 DEF AttemptReworked, Finish, Reworked, Result, GateNode
  <2> QED  BY <2>1, OnlyToolsRejected
<1>14. ASSUME NEW s \in Sid, AttemptPasses(s) PROVE RejectInv'
  <2>1. approvals' = approvals /\ node # "end" /\ node \notin GateNode
    BY <1>14 DEF AttemptPasses, Finish, Passed, Result, GateNode
  <2> QED  BY <2>1, OnlyToolsRejected
<1>15. CASE CommitWave
  <2>1. approvals' = approvals /\ node # "end" /\ node \notin GateNode
    BY <1>15 DEF CommitWave, GateNode
  <2> QED  BY <2>1, OnlyToolsRejected
<1>16. CASE PauseWave
  <2>1. approvals' = approvals /\ node # "end" /\ node \notin GateNode
    BY <1>16 DEF PauseWave, GateNode
  <2> QED  BY <2>1, OnlyToolsRejected
<1>17. CASE GatherEscalates
  <2>1. approvals' = approvals /\ node # "end" /\ node \notin GateNode
    BY <1>17 DEF GatherEscalates, ExhaustedSubtasks, GateNode
  <2> QED  BY <2>1, OnlyToolsRejected
<1>18. CASE GatherClear
  <2>1. approvals' = approvals /\ node # "end" /\ node \notin GateNode
    BY <1>18 DEF GatherClear, GateNode
  <2> QED  BY <2>1, OnlyToolsRejected
<1>19. CASE NotifySubtask
  <2>1. Enqueue(EscalationGate, "notified") /\ node = "escalate_subtask" /\ ~Has(EscalationGate)
    BY <1>19 DEF NotifySubtask, AskedInv, NotifiedOnce
  <2>2. OwnGate = EscalationGate
    BY <2>1 DEF OwnGate
  <2> QED  BY <2>1, <2>2, NoRejectAdded, OnlyToolsRejected
<1>20. CASE AskSubtask
  <2>1. Enqueue(EscalationGate, "pending") /\ node \in GateNode /\ EscalationGate = OwnGate /\ resume = {} /\ run = "active"
    BY <1>20 DEF AskSubtask, Ask, OwnGate, GateNode
  <2>2. ~Has(OwnGate)
    BY <2>1, AsksAnew DEF OwnGate, GateNode
  <2> QED  BY <2>1, <2>2, NoRejectAdded, OnlyToolsRejected DEF GateNode
<1>21. CASE AnswerSubtask
  <2>1. /\ node \in GateNode /\ EscalationGate = OwnGate /\ EscalationGate \in Gate /\ jobs' = jobs
    BY <1>21, StateGates DEF AnswerSubtask, OwnGate, GateNode, NodeInv
  <2>2. PICK j \in resume : Take(EscalationGate, j) /\ ApplySubtaskDecision(escalation, j.action)
    BY <1>21 DEF AnswerSubtask
  <2>3. approvals' = approvals /\ resume = {j} /\ jobs = {} /\ j.gate = OwnGate
    BY <2>1, <2>2, TakeDoes
  <2>4. j.action = "reject" => status' = "rejected"
    BY <2>2 DEF ApplySubtaskDecision, RoutesToEnd
  <2>5. \A r \in approvals : r.action = "reject" =>
          IsToolGate(r.gate) \/ j.action = "reject"
    BY <2>1, <2>3 DEF RejectInv, VerdictInv, GateNode
  <2> QED  BY <2>3, <2>4, <2>5 DEF RejectInv, IsToolGate
<1>22. CASE Synthesize
  <2>1. approvals' = approvals /\ node # "end" /\ node \notin GateNode
    BY <1>22 DEF Synthesize, GateNode
  <2> QED  BY <2>1, OnlyToolsRejected
<1>23. CASE FinalGateSkipped
  <2>1. approvals' = approvals /\ node = "final_gate" /\ ~Has(FinalGate)
    BY <1>23 DEF FinalGateSkipped, End, AskedInv, FinalAsked
  <2>2. OwnGate = FinalGate
    BY <2>1 DEF OwnGate
  <2> QED  BY <2>1, <2>2, OnlyToolsRejected
<1>24. CASE AskFinal
  <2>1. Enqueue(FinalGate, "pending") /\ node \in GateNode /\ FinalGate = OwnGate /\ resume = {} /\ run = "active"
    BY <1>24 DEF AskFinal, Ask, OwnGate, GateNode
  <2>2. ~Has(OwnGate)
    BY <2>1, AsksAnew DEF OwnGate, GateNode
  <2> QED  BY <2>1, <2>2, NoRejectAdded, OnlyToolsRejected DEF GateNode
<1>25. CASE AnswerFinal
  <2>1. /\ node \in GateNode /\ FinalGate = OwnGate /\ FinalGate \in Gate /\ jobs' = jobs
    BY <1>25, GateTyping DEF AnswerFinal, OwnGate, GateNode, NodeInv
  <2>2. PICK j \in resume : Take(FinalGate, j) /\ ApplyFinalDecision(j.action)
    BY <1>25 DEF AnswerFinal
  <2>3. approvals' = approvals /\ resume = {j} /\ jobs = {} /\ j.gate = OwnGate
    BY <2>1, <2>2, TakeDoes
  <2>4. j.action = "reject" => status' = "rejected"
    BY <2>2 DEF ApplyFinalDecision, RoutesToEnd
  <2>5. \A r \in approvals : r.action = "reject" =>
          IsToolGate(r.gate) \/ j.action = "reject"
    BY <2>1, <2>3 DEF RejectInv, VerdictInv, GateNode
  <2> QED  BY <2>3, <2>4, <2>5 DEF RejectInv, IsToolGate
<1>26. CASE Deliver
  <2>1. approvals' = approvals /\ node # "end" /\ node \notin GateNode
    BY <1>26 DEF Deliver, GateNode
  <2> QED  BY <2>1, OnlyToolsRejected
<1>27. CASE Cleanup
  <2>1. approvals' = approvals /\ node # "end" /\ node \notin GateNode
    BY <1>27 DEF Cleanup, End, GateNode
  <2> QED  BY <2>1, OnlyToolsRejected
<1>28. CASE OutOfSteps
  <2>1. /\ approvals' = approvals /\ node # "end" /\ run = "active" /\ ~(steps < RecursionLimit)
    BY <1>28, BoundsAssumption DEF OutOfSteps, Crash, Abort, TypeOK
  <2>2. resume = {} /\ status # "rejected"
    BY <2>1, AnswerInTime DEF VerdictInv
  <2>3. node \in GateNode => \A g \in Gate : ~Open(g)
    BY <2>1, OnlyTheWavePauses, NothingWaits DEF GateNode
  <2>4. node \in GateNode => jobs = {}
    BY <2>3 DEF Open, TypeOK, Job
  <2>5. \A r \in approvals : r.action = "reject" => IsToolGate(r.gate)
    BY <2>2, <2>4 DEF RejectInv
  <2> QED  BY <2>1, <2>5 DEF RejectInv, IsToolGate
<1>29. CASE Reviewer
  <2>1. PICK r \in approvals, a \in Action : Resolve(r, a)
    BY <1>29 DEF Reviewer
  <2> DEFINE new == [gate |-> r.gate, status |-> "resolved", action |-> a]
             job == [gate |-> r.gate, action |-> a]
  <2>2. r = Row0(r.gate) /\ r.gate \in Gate
    BY <2>1 DEF Resolve, ApprovalInv, Row, TypeOK, Row0
  <2>3. /\ approvals' = (approvals \ {r}) \cup {new} /\ jobs' = jobs \cup {job}
        /\ UNCHANGED <<run, node, status, resume, escalation, results>>
    BY <2>1 DEF Resolve
  <2>4. new.gate = r.gate /\ job.gate = r.gate /\ job.action = new.action
    OBVIOUS
  <2>5. OwnGate' = OwnGate
    BY <2>3 DEF OwnGate, EscalationGate
  <2>6. Waits(r.gate)
    BY <2>2 DEF OpenInv, Open
  <2>7. \/ IsToolGate(r.gate)
        \/ node \in GateNode /\ r.gate = OwnGate /\ status = "awaiting_approval"
    <3>1. ASSUME NEW t \in Paused, r.gate = NextGate(t) PROVE IsToolGate(r.gate)
      BY <3>1 DEF IsToolGate, NextGate, Attempt, Paused, TypeOK, Entry
    <3>2. CASE run = "paused" /\ node \in GateNode /\ r.gate = OwnGate
      BY <3>2 DEF PauseInv
    <3> QED  BY <2>6, <3>1, <3>2 DEF Waits
  <2> HIDE DEF new, job
  <2>8. ASSUME NEW q \in approvals', q.action = "reject"
        PROVE  \/ status = "rejected" \/ IsToolGate(q.gate)
               \/ /\ node \in GateNode /\ q.gate = OwnGate /\ status = "awaiting_approval"
                  /\ \E j \in jobs' \cup resume : j.gate = q.gate /\ j.action = "reject"
    <3>1. CASE q = new
      BY <3>1, <2>8, <2>3, <2>4, <2>7
    <3>2. CASE q \in approvals
      BY <3>2, <2>8, <2>3 DEF RejectInv
    <3> QED  BY <3>1, <3>2, <2>3
  <2> QED  BY <2>3, <2>5, <2>8 DEF RejectInv, IsToolGate
<1>30. CASE Resuming
  <2>1. PICK j \in jobs : StartResume(j)
    BY <1>30 DEF Resuming
  <2>2. approvals' = approvals /\ node' = node /\ node # "end" /\ OwnGate' = OwnGate
    BY <2>1, NoLateJob DEF StartResume, OwnGate, EscalationGate
  <2>3. CASE Ambiguous
    <3>1. node \notin GateNode
      BY <2>3 DEF Ambiguous, Paused, WaveInv, GateNode
    <3> QED  BY <2>2, <3>1, OnlyToolsRejected
  <2>4. CASE ~Ambiguous
    <3>1. status' = status /\ resume' = {j}
      BY <2>1, <2>2, <2>4 DEF StartResume
    <3>2. jobs = {j} /\ resume = {}
      BY <2>1, <2>2, <2>4, ResumeIsAlone DEF StartResume
    <3>3. \A k \in jobs \cup resume : k \in jobs' \cup resume'
      BY <3>1, <3>2
    <3> QED  BY <2>2, <3>1, <3>3 DEF RejectInv, IsToolGate
  <2> QED  BY <2>3, <2>4
<1>31. CASE UNCHANGED vars
  BY <1>31 DEF vars, RejectInv, IsToolGate, OwnGate, EscalationGate
<1>32. QED
  BY CalmSteps, <1>1, <1>2, <1>3, <1>4, <1>5, <1>6, <1>7, <1>8, <1>9, <1>10, <1>11,
     <1>12, <1>13, <1>14, <1>15, <1>16, <1>17, <1>18, <1>19, <1>20, <1>21, <1>22,
     <1>23, <1>24, <1>25, <1>26, <1>27, <1>28, <1>29, <1>30, <1>31

-----------------------------------------------------------------------------
(* The invariant, and what follows from it.                                *)

LEMMA CalmInit == Init => CalmInv
<1>1. Init => OpenInv
  BY DEF Init, OpenInv, Open, Waits, Paused
<1>2. Init => PauseInv /\ ResumeInv
  BY DEF Init, PauseInv, ResumeInv, Paused
<1>3. Init => AskedInv
  BY DEF Init, AskedInv, ToolAsked, SubtaskAsked, PlanAsked, FinalAsked, NotifiedOnce, Has
<1>4. Init => VerdictInv /\ RejectInv /\ RowsTell /\ DecisionReachesItsGate
  BY DEF Init, VerdictInv, RejectInv, RowsTell, DecisionReachesItsGate, Completed, NoEntry, Result
<1>5. QED
  BY <1>1, <1>2, <1>3, <1>4 DEF CalmInv

LEMMA CalmNext == ASSUME Calm PROVE IInv /\ CalmInv /\ [Next]_vars => CalmInv'
BY OpenStep, PauseStep, ResumeStep, ToolAskedStep, GateAskedStep, VerdictStep,
   RejectStep, RowsTellStep, DecisionStep DEF CalmInv, AskedInv

(* The inductive invariant holds in every reachable state.                 *)
THEOREM CalmInvariance == ASSUME Calm PROVE Spec => [](IInv /\ CalmInv)
BY CalmInit, CalmNext, Invariance, PTL DEF Spec

(* A graph that waits for the reviewer can be resumed: one of its gates    *)
(* has an open approval or an answer on its way.                           *)
THEOREM PausedIsResumableAlways == ASSUME Calm PROVE Spec => []PausedIsResumable
<1>1. ASSUME IInv, CalmInv, run = "paused" PROVE jobs # {} \/ Pending # {}
  <2>1. PICK g \in Gate : Waits(g)
    <3>1. CASE node \in GateNode
      <4>1. OwnGate \in Gate
        BY <1>1, <3>1, GateTyping, StateGates DEF IInv, NodeInv, OwnGate, GateNode
      <4> QED  BY <1>1, <3>1, <4>1 DEF Waits
    <3>2. CASE node \notin GateNode
      <4>1. PICK s \in Paused : TRUE
        BY <1>1, <3>2 DEF CalmInv, PauseInv
      <4>2. NextGate(s) \in Gate
        BY <1>1, StateGates DEF IInv, Paused
      <4> QED  BY <4>1, <4>2 DEF Waits
    <3> QED  BY <3>1, <3>2
  <2>2. Open(g)
    BY <1>1, <2>1 DEF CalmInv, OpenInv
  <2> QED  BY <2>2 DEF Open, Pending, Row0
<1>2. IInv /\ CalmInv => PausedIsResumable
  BY <1>1 DEF PausedIsResumable
<1>3. QED
  BY <1>2, CalmInvariance, PTL

(* What people see agrees with the graph: the status while it waits, no    *)
(* approval left in the queue of a task that is over, the subtask rows.    *)
THEOREM TablesTellAlways == ASSUME Calm PROVE Spec => []TablesTellTheState
<1>1. ASSUME IInv, CalmInv, status \in {"completed", "rejected"}
      PROVE Pending = {}
  <2>1. node \in {"cleanup", "end"}
    BY <1>1 DEF CalmInv, VerdictInv
  <2>2. run # "paused" /\ Paused = {}
    BY <1>1, <2>1, OnlyTheWavePauses DEF IInv, NodeInv
  <2>3. \A g \in Gate : Row0(g) \notin approvals
    BY <1>1, <2>2, NothingWaits DEF Open
  <2>4. \A r \in Pending : r = Row0(r.gate) /\ r.gate \in Gate
    BY <1>1 DEF IInv, ApprovalInv, TypeOK, Row, Pending, Row0
  <2> QED  BY <2>3, <2>4 DEF Pending
<1>2. IInv /\ CalmInv => TablesTellTheState
  BY <1>1 DEF TablesTellTheState, CalmInv, PauseInv, RowsTell
<1>3. QED
  BY <1>2, CalmInvariance, PTL

(* The reviewer has the last word: nothing is delivered that a person did  *)
(* not let through, and a rejected task does no more work.                 *)
THEOREM ReviewerDecidesAlways == ASSUME Calm PROVE Spec => []ReviewerDecides
<1>1. \A g : IsToolGate(g) => g[1] = "tool"
  BY DEF IsToolGate, ToolGate
<1>2. IInv /\ CalmInv => ReviewerDecides
  BY <1>1 DEF ReviewerDecides, CalmInv, VerdictInv, RejectInv, TakenOver
<1>3. QED
  BY <1>2, CalmInvariance, PTL

(* A gate is given the decision made on its own approval, also when the    *)
(* node or the branch that asked runs again after the answer.              *)
THEOREM DecisionReachesAlways == ASSUME Calm PROVE Spec => []DecisionReachesItsGate
<1>1. IInv /\ CalmInv => DecisionReachesItsGate
  BY DEF CalmInv
<1>2. QED
  BY <1>1, CalmInvariance, PTL
=============================================================================
