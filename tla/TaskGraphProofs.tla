-------------------------- MODULE TaskGraphProofs --------------------------
(***************************************************************************)
(* Theorems about TaskGraph, for every set of subtasks, every set of valid *)
(* plans, every limit and every choice of faults and settings.             *)
(***************************************************************************)
EXTENDS TaskGraph, TLAPS

-----------------------------------------------------------------------------
(* Typing of the operators the actions are built from.                     *)

(* Every gate key the graph computes is a key of the approvals table.      *)
LEMMA GateTyping ==
  /\ PlanGate \in Gate
  /\ FinalGate \in Gate
  /\ \A s \in Sid, n \in Nat : SubtaskGate(s, n) \in Gate
  /\ \A s \in Sid, n \in Nat, k \in Nat : ToolGate(s, n, k) \in Gate
BY DEF PlanGate, FinalGate, SubtaskGate, ToolGate, Gate

(* What an attempt, a retry or a reviewer writes is a result entry.        *)
LEMMA EntryTyping ==
  ASSUME NEW r \in Entry
  PROVE  /\ Failed(r) \in Entry
         /\ Reworked(r) \in Entry
         /\ Passed(r) \in Entry
         /\ Retried(r) \in Entry
         /\ Provided(r) \in Entry
BY DEF Result, Failed, Reworked, Passed, Retried, Provided, Entry

(* A gate adds well-formed rows only: NOTIFY, a pause, and an answer.      *)
LEMMA EnqueueTyping ==
  ASSUME TypeOK, NEW g \in Gate, NEW st \in {"pending", "notified"}, Enqueue(g, st)
  PROVE  approvals' \in SUBSET Row
BY DEF TypeOK, Enqueue, Row

LEMMA AskTyping ==
  ASSUME TypeOK, NEW g \in Gate, Ask(g)
  PROVE  approvals' \in SUBSET Row
BY EnqueueTyping DEF Ask

(* An answer is a decision, and the history records two gates.             *)
LEMMA TakeTyping ==
  ASSUME TypeOK, NEW g \in Gate, NEW j \in resume, Take(g, j)
  PROVE  /\ approvals' \in SUBSET Row
         /\ resume' \in SUBSET Job
         /\ applied' \in SUBSET (Gate \X Gate)
         /\ j.action \in Action
<1>1. approvals' \in SUBSET Row
  BY EnqueueTyping DEF Take
<1>2. j.gate \in Gate /\ j.action \in Action
  BY DEF TypeOK, Job
<1>3. QED
  BY <1>1, <1>2 DEF TypeOK, Take

(* The gates of the running branches and of the escalation are gates.      *)
LEMMA StateGates ==
  ASSUME TypeOK
  PROVE  /\ \A s \in Sid : NextGate(s) \in Gate
         /\ escalation \in Sid => EscalationGate \in Gate
<1>1. \A s \in Sid : results[s].attempts \in Nat /\ gates[s] \in Nat
  BY DEF TypeOK, Entry
<1>2. QED
  BY <1>1, GateTyping DEF NextGate, EscalationGate, Attempt

(* Every step keeps the types.                                             *)
LEMMA TypeStep ==
  ASSUME IInv, [Next]_vars
  PROVE  TypeOK'
<1> USE DEF Node, Terminal, Action
<1>0. TypeOK /\ NodeInv /\ WaveInv /\ ApprovalInv
  BY DEF IInv
<1> USE <1>0 DEF TypeOK, At, Goto, Running, nodeVars, stateVars, waveVars, tableVars
<1>1. CASE StartRun
  BY <1>1 DEF StartRun
<1>2. CASE Intake
  BY <1>2 DEF Intake
<1>3. CASE PlanTask
  BY <1>3 DEF PlanTask, SavePlan, FreshRows
<1>4. CASE PlanInvalid
  BY <1>4 DEF PlanInvalid, End
<1>5. CASE NotifyPlan
  <2>1. approvals' \in SUBSET Row
    BY <1>5, EnqueueTyping, GateTyping DEF NotifyPlan
  <2>2. QED
    BY <1>5, <2>1 DEF NotifyPlan
<1>6. CASE AskPlan
  <2>1. approvals' \in SUBSET Row
    BY <1>6, AskTyping, GateTyping DEF AskPlan
  <2>2. QED
    BY <1>6, <2>1 DEF AskPlan, Ask
<1>7. CASE AnswerPlan
  <2>1. /\ approvals' \in SUBSET Row
        /\ resume' \in SUBSET Job
        /\ applied' \in SUBSET (Gate \X Gate)
        /\ decision' \in Action
    BY <1>7, TakeTyping, GateTyping DEF AnswerPlan
  <2>2. QED
    BY <1>7, <2>1 DEF AnswerPlan, ApplyPlanDecision, SavePlan, FreshRows
<1>8. CASE Schedule
  BY <1>8 DEF Schedule
<1>9. ASSUME NEW s \in Sid, NotifyTool(s) PROVE TypeOK'
  <2>1. approvals' \in SUBSET Row
    BY <1>9, EnqueueTyping, StateGates DEF NotifyTool
  <2>2. QED
    BY <1>9, <2>1 DEF NotifyTool
<1>10. ASSUME NEW s \in Sid, AskTool(s) PROVE TypeOK'
  <2>1. approvals' \in SUBSET Row
    BY <1>10, AskTyping, StateGates DEF AskTool
  <2>2. QED
    BY <1>10, <2>1 DEF AskTool, Ask
<1>11. ASSUME NEW s \in Sid, AnswerTool(s) PROVE TypeOK'
  <2>1. /\ approvals' \in SUBSET Row
        /\ resume' \in SUBSET Job
        /\ applied' \in SUBSET (Gate \X Gate)
    BY <1>11, TakeTyping, StateGates DEF AnswerTool
  <2>2. QED
    BY <1>11, <2>1 DEF AnswerTool
<1>12. ASSUME NEW s \in Sid, AttemptFails(s) PROVE TypeOK'
  <2>1. results' \in [Sid -> Entry]
    BY <1>12, EntryTyping DEF AttemptFails, Finish
  <2>2. QED
    BY <1>12, <2>1 DEF AttemptFails, Finish
<1>13. ASSUME NEW s \in Sid, AttemptReworked(s) PROVE TypeOK'
  <2>1. results' \in [Sid -> Entry]
    BY <1>13, EntryTyping DEF AttemptReworked, Finish
  <2>2. QED
    BY <1>13, <2>1 DEF AttemptReworked, Finish
<1>14. ASSUME NEW s \in Sid, AttemptPasses(s) PROVE TypeOK'
  <2>1. results' \in [Sid -> Entry]
    BY <1>14, EntryTyping DEF AttemptPasses, Finish
  <2>2. QED
    BY <1>14, <2>1 DEF AttemptPasses, Finish
<1>15. ASSUME NEW s \in Sid, BranchRaises(s) PROVE TypeOK'
  <2>1. \A t \in Sid : t = taker => gates[t] > 0
    BY <1>15, SidAssumption DEF BranchRaises, WaveInv
  <2>2. gates' \in [Sid -> Nat]
    BY <1>15, <2>1 DEF BranchRaises
  <2>3. QED
    BY <1>15, <2>1, <2>2 DEF BranchRaises, Crash, Abort
<1>16. CASE CommitWave
  BY <1>16 DEF CommitWave
<1>17. CASE PauseWave
  BY <1>17 DEF PauseWave
<1>18. CASE GatherEscalates
  BY <1>18 DEF GatherEscalates, ExhaustedSubtasks
<1>19. CASE GatherClear
  BY <1>19 DEF GatherClear
<1>20. CASE NotifySubtask
  <2>1. escalation \in Sid
    BY <1>20 DEF NotifySubtask, NodeInv
  <2>2. approvals' \in SUBSET Row
    BY <1>20, <2>1, EnqueueTyping, StateGates DEF NotifySubtask
  <2>3. results' \in [Sid -> Entry]
    BY <1>20, <2>1, EntryTyping DEF NotifySubtask
  <2>4. QED
    BY <1>20, <2>1, <2>2, <2>3 DEF NotifySubtask
<1>21. CASE AskSubtask
  <2>1. escalation \in Sid
    BY <1>21 DEF AskSubtask, NodeInv
  <2>2. approvals' \in SUBSET Row
    BY <1>21, <2>1, AskTyping, StateGates DEF AskSubtask
  <2>3. QED
    BY <1>21, <2>1, <2>2 DEF AskSubtask, Ask
<1>22. CASE AnswerSubtask
  <2>1. escalation \in Sid
    BY <1>22 DEF AnswerSubtask, NodeInv
  <2>2. /\ approvals' \in SUBSET Row
        /\ resume' \in SUBSET Job
        /\ applied' \in SUBSET (Gate \X Gate)
        /\ decision' \in Action
    BY <1>22, <2>1, TakeTyping, StateGates DEF AnswerSubtask
  <2>3. results' \in [Sid -> Entry]
    BY <1>22, <2>1, EntryTyping DEF AnswerSubtask, ApplySubtaskDecision
  <2>4. QED
    BY <1>22, <2>1, <2>2, <2>3 DEF AnswerSubtask, EscalationGate, ApplySubtaskDecision
<1>23. CASE Synthesize
  BY <1>23 DEF Synthesize
<1>24. CASE FinalGateSkipped
  BY <1>24 DEF FinalGateSkipped, End, RoutesToEnd
<1>25. CASE AskFinal
  <2>1. approvals' \in SUBSET Row
    BY <1>25, AskTyping, GateTyping DEF AskFinal
  <2>2. QED
    BY <1>25, <2>1 DEF AskFinal, Ask
<1>26. CASE AnswerFinal
  <2>1. /\ approvals' \in SUBSET Row
        /\ resume' \in SUBSET Job
        /\ applied' \in SUBSET (Gate \X Gate)
        /\ decision' \in Action
    BY <1>26, TakeTyping, GateTyping DEF AnswerFinal
  <2>2. QED
    BY <1>26, <2>1 DEF AnswerFinal, ApplyFinalDecision, RoutesToEnd
<1>27. CASE Deliver
  BY <1>27 DEF Deliver
<1>28. CASE Cleanup
  BY <1>28 DEF Cleanup, End
<1>29. CASE NodeRaises
  BY <1>29 DEF NodeRaises, Crash, Abort, FreshRows
<1>30. CASE AnsweredGateRaises
  <2>1. applied' \in SUBSET (Gate \X Gate)
    BY <1>30, GateTyping, StateGates DEF AnsweredGateRaises, NodeInv, Job
  <2>2. QED
    BY <1>30, <2>1 DEF AnsweredGateRaises, Crash, Abort, FreshRows, EscalationGate
<1>31. CASE OutOfSteps
  BY <1>31 DEF OutOfSteps, Crash, Abort
<1>32. CASE Reviewer
  BY <1>32 DEF Reviewer, Resolve, Row, Job
<1>33. CASE Resuming
  BY <1>33 DEF Resuming, StartResume, Rerun
<1>34. CASE UNCHANGED vars
  BY <1>34 DEF vars
<1>35. QED
  BY <1>1, <1>2, <1>3, <1>4, <1>5, <1>6, <1>7, <1>8, <1>9, <1>10, <1>11, <1>12,
       <1>13, <1>14, <1>15, <1>16, <1>17, <1>18, <1>19, <1>20, <1>21, <1>22,
       <1>23, <1>24, <1>25, <1>26, <1>27, <1>28, <1>29, <1>30, <1>31, <1>32,
       <1>33, <1>34 DEF Next, Worker, Execute, Terminated

(* The graph's position keeps its meaning, and a finished invocation its   *)
(* verdict.                                                                *)
LEMMA NodeStep ==
  ASSUME IInv, [Next]_vars
  PROVE  NodeInv' /\ VerdictWhenOver'
<1>0. TypeOK /\ NodeInv /\ VerdictWhenOver
  BY DEF IInv
<1> USE <1>0 DEF TypeOK, NodeInv, VerdictWhenOver, Terminal, Action, At, Goto,
     Running, nodeVars, stateVars, waveVars, tableVars
<1>1. CASE StartRun
  BY <1>1 DEF StartRun
<1>2. CASE Intake
  BY <1>2 DEF Intake
<1>3. CASE PlanTask
  BY <1>3 DEF PlanTask, SavePlan, FreshRows
<1>4. CASE PlanInvalid
  BY <1>4 DEF PlanInvalid, End
<1>5. CASE NotifyPlan
  BY <1>5 DEF NotifyPlan
<1>6. CASE AskPlan
  BY <1>6 DEF AskPlan, Ask
<1>7. CASE AnswerPlan
  BY <1>7 DEF AnswerPlan, Take, ApplyPlanDecision, SavePlan, FreshRows
<1>8. CASE Schedule
  BY <1>8 DEF Schedule
<1>9. ASSUME NEW s \in Sid, NotifyTool(s) PROVE NodeInv' /\ VerdictWhenOver'
  BY <1>9 DEF NotifyTool, NextGate, Attempt
<1>10. ASSUME NEW s \in Sid, AskTool(s) PROVE NodeInv' /\ VerdictWhenOver'
  BY <1>10 DEF AskTool, Ask, NextGate, Attempt
<1>11. ASSUME NEW s \in Sid, AnswerTool(s) PROVE NodeInv' /\ VerdictWhenOver'
  BY <1>11 DEF AnswerTool, Take, NextGate, Attempt
<1>12. ASSUME NEW s \in Sid, AttemptFails(s) PROVE NodeInv' /\ VerdictWhenOver'
  BY <1>12 DEF AttemptFails, Finish
<1>13. ASSUME NEW s \in Sid, AttemptReworked(s) PROVE NodeInv' /\ VerdictWhenOver'
  BY <1>13 DEF AttemptReworked, Finish
<1>14. ASSUME NEW s \in Sid, AttemptPasses(s) PROVE NodeInv' /\ VerdictWhenOver'
  BY <1>14 DEF AttemptPasses, Finish
<1>15. ASSUME NEW s \in Sid, BranchRaises(s) PROVE NodeInv' /\ VerdictWhenOver'
  BY <1>15 DEF BranchRaises, Crash, Abort
<1>16. CASE CommitWave
  BY <1>16 DEF CommitWave
<1>17. CASE PauseWave
  BY <1>17 DEF PauseWave
<1>18. CASE GatherEscalates
  BY <1>18 DEF GatherEscalates, ExhaustedSubtasks
<1>19. CASE GatherClear
  BY <1>19 DEF GatherClear
<1>20. CASE NotifySubtask
  BY <1>20 DEF NotifySubtask, EscalationGate
<1>21. CASE AskSubtask
  BY <1>21 DEF AskSubtask, Ask, EscalationGate
<1>22. CASE AnswerSubtask
  BY <1>22 DEF AnswerSubtask, Take, EscalationGate, ApplySubtaskDecision
<1>23. CASE Synthesize
  BY <1>23 DEF Synthesize
<1>24. CASE FinalGateSkipped
  BY <1>24 DEF FinalGateSkipped, End, RoutesToEnd
<1>25. CASE AskFinal
  BY <1>25 DEF AskFinal, Ask
<1>26. CASE AnswerFinal
  BY <1>26 DEF AnswerFinal, Take, ApplyFinalDecision, RoutesToEnd
<1>27. CASE Deliver
  BY <1>27 DEF Deliver
<1>28. CASE Cleanup
  BY <1>28 DEF Cleanup, End
<1>29. CASE NodeRaises
  BY <1>29 DEF NodeRaises, Crash, Abort, FreshRows
<1>30. CASE AnsweredGateRaises
  BY <1>30 DEF AnsweredGateRaises, Crash, Abort, FreshRows, EscalationGate
<1>31. CASE OutOfSteps
  BY <1>31 DEF OutOfSteps, Crash, Abort
<1>32. CASE Reviewer
  BY <1>32 DEF Reviewer, Resolve
<1>33. CASE Resuming
  BY <1>33 DEF Resuming, StartResume, Rerun
<1>34. CASE UNCHANGED vars
  BY <1>34 DEF vars
<1>35. QED
  BY <1>1, <1>2, <1>3, <1>4, <1>5, <1>6, <1>7, <1>8, <1>9, <1>10, <1>11, <1>12,
       <1>13, <1>14, <1>15, <1>16, <1>17, <1>18, <1>19, <1>20, <1>21, <1>22,
       <1>23, <1>24, <1>25, <1>26, <1>27, <1>28, <1>29, <1>30, <1>31, <1>32,
       <1>33, <1>34 DEF Next, Worker, Execute, Terminated

(* The wave keeps to ready subtasks.                                       *)
LEMMA WaveStep ==
  ASSUME IInv, [Next]_vars
  PROVE  WaveInv' /\ DispatchRespectsDependencies'
<1>0. TypeOK /\ NodeInv /\ WaveInv /\ DispatchRespectsDependencies
  BY DEF IInv
<1> USE <1>0 DEF TypeOK, NodeInv, WaveInv, DispatchRespectsDependencies, Completed,
     At, Goto, Running, nodeVars, stateVars, waveVars, tableVars
<1>1. CASE StartRun
  BY <1>1 DEF StartRun
<1>2. CASE Intake
  BY <1>2 DEF Intake
<1>3. CASE PlanTask
  BY <1>3 DEF PlanTask, SavePlan, FreshRows
<1>4. CASE PlanInvalid
  BY <1>4 DEF PlanInvalid, End
<1>5. CASE NotifyPlan
  BY <1>5 DEF NotifyPlan
<1>6. CASE AskPlan
  BY <1>6 DEF AskPlan, Ask
<1>7. CASE AnswerPlan
  BY <1>7 DEF AnswerPlan, Take, ApplyPlanDecision, SavePlan, FreshRows
<1>8. CASE Schedule
  BY <1>8 DEF Schedule, Ready
<1>9. ASSUME NEW s \in Sid, NotifyTool(s)
      PROVE WaveInv' /\ DispatchRespectsDependencies'
  BY <1>9 DEF NotifyTool, NextGate, Attempt
<1>10. ASSUME NEW s \in Sid, AskTool(s) PROVE WaveInv' /\ DispatchRespectsDependencies'
  BY <1>10 DEF AskTool, Ask, NextGate, Attempt
<1>11. ASSUME NEW s \in Sid, AnswerTool(s)
       PROVE WaveInv' /\ DispatchRespectsDependencies'
  BY <1>11 DEF AnswerTool, Take, NextGate, Attempt
<1>12. ASSUME NEW s \in Sid, AttemptFails(s)
       PROVE WaveInv' /\ DispatchRespectsDependencies'
  BY <1>12 DEF AttemptFails, Finish
<1>13. ASSUME NEW s \in Sid, AttemptReworked(s)
       PROVE WaveInv' /\ DispatchRespectsDependencies'
  BY <1>13 DEF AttemptReworked, Finish
<1>14. ASSUME NEW s \in Sid, AttemptPasses(s)
       PROVE WaveInv' /\ DispatchRespectsDependencies'
  BY <1>14 DEF AttemptPasses, Finish
<1>15. ASSUME NEW s \in Sid, BranchRaises(s)
       PROVE WaveInv' /\ DispatchRespectsDependencies'
  BY <1>15 DEF BranchRaises, Crash, Abort
<1>16. CASE CommitWave
  BY <1>16 DEF CommitWave
<1>17. CASE PauseWave
  BY <1>17 DEF PauseWave
<1>18. CASE GatherEscalates
  BY <1>18 DEF GatherEscalates, ExhaustedSubtasks
<1>19. CASE GatherClear
  BY <1>19 DEF GatherClear
<1>20. CASE NotifySubtask
  BY <1>20 DEF NotifySubtask, EscalationGate
<1>21. CASE AskSubtask
  BY <1>21 DEF AskSubtask, Ask, EscalationGate
<1>22. CASE AnswerSubtask
  BY <1>22 DEF AnswerSubtask, Take, EscalationGate, ApplySubtaskDecision
<1>23. CASE Synthesize
  BY <1>23 DEF Synthesize
<1>24. CASE FinalGateSkipped
  BY <1>24 DEF FinalGateSkipped, End, RoutesToEnd
<1>25. CASE AskFinal
  BY <1>25 DEF AskFinal, Ask
<1>26. CASE AnswerFinal
  BY <1>26 DEF AnswerFinal, Take, ApplyFinalDecision, RoutesToEnd
<1>27. CASE Deliver
  BY <1>27 DEF Deliver
<1>28. CASE Cleanup
  BY <1>28 DEF Cleanup, End
<1>29. CASE NodeRaises
  BY <1>29 DEF NodeRaises, Crash, Abort, FreshRows
<1>30. CASE AnsweredGateRaises
  BY <1>30 DEF AnsweredGateRaises, Crash, Abort, FreshRows, EscalationGate
<1>31. CASE OutOfSteps
  BY <1>31 DEF OutOfSteps, Crash, Abort
<1>32. CASE Reviewer
  BY <1>32 DEF Reviewer, Resolve
<1>33. CASE Resuming
  BY <1>33 DEF Resuming, StartResume, Rerun
<1>34. CASE UNCHANGED vars
  BY <1>34 DEF vars
<1>35. QED
  BY <1>1, <1>2, <1>3, <1>4, <1>5, <1>6, <1>7, <1>8, <1>9, <1>10, <1>11, <1>12,
       <1>13, <1>14, <1>15, <1>16, <1>17, <1>18, <1>19, <1>20, <1>21, <1>22,
       <1>23, <1>24, <1>25, <1>26, <1>27, <1>28, <1>29, <1>30, <1>31, <1>32,
       <1>33, <1>34 DEF Next, Worker, Execute, Terminated

(* Decisions on their way stay backed by resolved rows.                    *)
LEMMA ApprovalStep ==
  ASSUME IInv, [Next]_vars
  PROVE  ApprovalInv'
<1>0. TypeOK /\ ApprovalInv
  BY DEF IInv
<1> USE <1>0 DEF TypeOK, ApprovalInv, Enqueue, Ask, Take, Row, Job, At, Goto,
     Running, nodeVars, stateVars, waveVars, tableVars
<1>1. CASE StartRun
  BY <1>1 DEF StartRun
<1>2. CASE Intake
  BY <1>2 DEF Intake
<1>3. CASE PlanTask
  BY <1>3 DEF PlanTask, SavePlan, FreshRows
<1>4. CASE PlanInvalid
  BY <1>4 DEF PlanInvalid, End
<1>5. CASE NotifyPlan
  BY <1>5 DEF NotifyPlan
<1>6. CASE AskPlan
  BY <1>6 DEF AskPlan
<1>7. CASE AnswerPlan
  BY <1>7 DEF AnswerPlan, ApplyPlanDecision, SavePlan, FreshRows
<1>8. CASE Schedule
  BY <1>8 DEF Schedule
<1>9. ASSUME NEW s \in Sid, NotifyTool(s) PROVE ApprovalInv'
  BY <1>9 DEF NotifyTool, NextGate, Attempt
<1>10. ASSUME NEW s \in Sid, AskTool(s) PROVE ApprovalInv'
  BY <1>10 DEF AskTool, NextGate, Attempt
<1>11. ASSUME NEW s \in Sid, AnswerTool(s) PROVE ApprovalInv'
  BY <1>11 DEF AnswerTool, NextGate, Attempt
<1>12. ASSUME NEW s \in Sid, AttemptFails(s) PROVE ApprovalInv'
  BY <1>12 DEF AttemptFails, Finish
<1>13. ASSUME NEW s \in Sid, AttemptReworked(s) PROVE ApprovalInv'
  BY <1>13 DEF AttemptReworked, Finish
<1>14. ASSUME NEW s \in Sid, AttemptPasses(s) PROVE ApprovalInv'
  BY <1>14 DEF AttemptPasses, Finish
<1>15. ASSUME NEW s \in Sid, BranchRaises(s) PROVE ApprovalInv'
  BY <1>15 DEF BranchRaises, Crash, Abort
<1>16. CASE CommitWave
  BY <1>16 DEF CommitWave
<1>17. CASE PauseWave
  BY <1>17 DEF PauseWave
<1>18. CASE GatherEscalates
  BY <1>18 DEF GatherEscalates, ExhaustedSubtasks
<1>19. CASE GatherClear
  BY <1>19 DEF GatherClear
<1>20. CASE NotifySubtask
  BY <1>20 DEF NotifySubtask, EscalationGate
<1>21. CASE AskSubtask
  BY <1>21 DEF AskSubtask, EscalationGate
<1>22. CASE AnswerSubtask
  BY <1>22 DEF AnswerSubtask, EscalationGate, ApplySubtaskDecision
<1>23. CASE Synthesize
  BY <1>23 DEF Synthesize
<1>24. CASE FinalGateSkipped
  BY <1>24 DEF FinalGateSkipped, End, RoutesToEnd
<1>25. CASE AskFinal
  BY <1>25 DEF AskFinal
<1>26. CASE AnswerFinal
  BY <1>26 DEF AnswerFinal, ApplyFinalDecision, RoutesToEnd
<1>27. CASE Deliver
  BY <1>27 DEF Deliver
<1>28. CASE Cleanup
  BY <1>28 DEF Cleanup, End
<1>29. CASE NodeRaises
  BY <1>29 DEF NodeRaises, Crash, Abort, FreshRows
<1>30. CASE AnsweredGateRaises
  BY <1>30 DEF AnsweredGateRaises, Crash, Abort, FreshRows, EscalationGate
<1>31. CASE OutOfSteps
  BY <1>31 DEF OutOfSteps, Crash, Abort
<1>32. CASE Reviewer
  BY <1>32 DEF Reviewer, Resolve
<1>33. CASE Resuming
  BY <1>33 DEF Resuming, StartResume, Rerun
<1>34. CASE UNCHANGED vars
  BY <1>34 DEF vars
<1>35. QED
  BY <1>1, <1>2, <1>3, <1>4, <1>5, <1>6, <1>7, <1>8, <1>9, <1>10, <1>11, <1>12,
       <1>13, <1>14, <1>15, <1>16, <1>17, <1>18, <1>19, <1>20, <1>21, <1>22,
       <1>23, <1>24, <1>25, <1>26, <1>27, <1>28, <1>29, <1>30, <1>31, <1>32,
       <1>33, <1>34 DEF Next, Worker, Execute, Terminated

(* A notified or resolved approval stays as it is.                         *)
LEMMA RowsStep ==
  ASSUME IInv, [Next]_vars
  PROVE  \A r \in approvals : r.status # "pending" => r \in approvals'
<1>0. TypeOK
  BY DEF IInv
<1> USE <1>0 DEF Enqueue, Ask, Take, At, Goto, Running, nodeVars, stateVars,
     waveVars, tableVars
<1>1. CASE StartRun
  BY <1>1 DEF StartRun
<1>2. CASE Intake
  BY <1>2 DEF Intake
<1>3. CASE PlanTask
  BY <1>3 DEF PlanTask, SavePlan, FreshRows
<1>4. CASE PlanInvalid
  BY <1>4 DEF PlanInvalid, End
<1>5. CASE NotifyPlan
  BY <1>5 DEF NotifyPlan
<1>6. CASE AskPlan
  BY <1>6 DEF AskPlan
<1>7. CASE AnswerPlan
  BY <1>7 DEF AnswerPlan, ApplyPlanDecision, SavePlan, FreshRows
<1>8. CASE Schedule
  BY <1>8 DEF Schedule
<1>9. ASSUME NEW s \in Sid, NotifyTool(s)
      PROVE \A r \in approvals : r.status # "pending" => r \in approvals'
  BY <1>9 DEF NotifyTool, NextGate, Attempt
<1>10. ASSUME NEW s \in Sid, AskTool(s)
       PROVE \A r \in approvals : r.status # "pending" => r \in approvals'
  BY <1>10 DEF AskTool, NextGate, Attempt
<1>11. ASSUME NEW s \in Sid, AnswerTool(s)
       PROVE \A r \in approvals : r.status # "pending" => r \in approvals'
  BY <1>11 DEF AnswerTool, NextGate, Attempt
<1>12. ASSUME NEW s \in Sid, AttemptFails(s)
       PROVE \A r \in approvals : r.status # "pending" => r \in approvals'
  BY <1>12 DEF AttemptFails, Finish
<1>13. ASSUME NEW s \in Sid, AttemptReworked(s)
       PROVE \A r \in approvals : r.status # "pending" => r \in approvals'
  BY <1>13 DEF AttemptReworked, Finish
<1>14. ASSUME NEW s \in Sid, AttemptPasses(s)
       PROVE \A r \in approvals : r.status # "pending" => r \in approvals'
  BY <1>14 DEF AttemptPasses, Finish
<1>15. ASSUME NEW s \in Sid, BranchRaises(s)
       PROVE \A r \in approvals : r.status # "pending" => r \in approvals'
  BY <1>15 DEF BranchRaises, Crash, Abort
<1>16. CASE CommitWave
  BY <1>16 DEF CommitWave
<1>17. CASE PauseWave
  BY <1>17 DEF PauseWave
<1>18. CASE GatherEscalates
  BY <1>18 DEF GatherEscalates, ExhaustedSubtasks
<1>19. CASE GatherClear
  BY <1>19 DEF GatherClear
<1>20. CASE NotifySubtask
  BY <1>20 DEF NotifySubtask, EscalationGate
<1>21. CASE AskSubtask
  BY <1>21 DEF AskSubtask, EscalationGate
<1>22. CASE AnswerSubtask
  BY <1>22 DEF AnswerSubtask, EscalationGate, ApplySubtaskDecision
<1>23. CASE Synthesize
  BY <1>23 DEF Synthesize
<1>24. CASE FinalGateSkipped
  BY <1>24 DEF FinalGateSkipped, End, RoutesToEnd
<1>25. CASE AskFinal
  BY <1>25 DEF AskFinal
<1>26. CASE AnswerFinal
  BY <1>26 DEF AnswerFinal, ApplyFinalDecision, RoutesToEnd
<1>27. CASE Deliver
  BY <1>27 DEF Deliver
<1>28. CASE Cleanup
  BY <1>28 DEF Cleanup, End
<1>29. CASE NodeRaises
  BY <1>29 DEF NodeRaises, Crash, Abort, FreshRows
<1>30. CASE AnsweredGateRaises
  BY <1>30 DEF AnsweredGateRaises, Crash, Abort, FreshRows, EscalationGate
<1>31. CASE OutOfSteps
  BY <1>31 DEF OutOfSteps, Crash, Abort
<1>32. CASE Reviewer
  BY <1>32 DEF Reviewer, Resolve
<1>33. CASE Resuming
  BY <1>33 DEF Resuming, StartResume, Rerun
<1>34. CASE UNCHANGED vars
  BY <1>34 DEF vars
<1>35. QED
  BY <1>1, <1>2, <1>3, <1>4, <1>5, <1>6, <1>7, <1>8, <1>9, <1>10, <1>11, <1>12,
       <1>13, <1>14, <1>15, <1>16, <1>17, <1>18, <1>19, <1>20, <1>21, <1>22,
       <1>23, <1>24, <1>25, <1>26, <1>27, <1>28, <1>29, <1>30, <1>31, <1>32,
       <1>33, <1>34 DEF Next, Worker, Execute, Terminated

(* A plan the reviewer has taken over stays taken over.                    *)
LEMMA TakenOverStep ==
  ASSUME IInv, [Next]_vars, TakenOver
  PROVE  TakenOver'
<1>1. PICK r \in approvals : r.gate = PlanGate /\ r.action = "take_over"
  BY DEF TakenOver, Chosen, RowOf
<1>2. r.status = "resolved"
  BY <1>1 DEF IInv, ApprovalInv
<1>3. r \in approvals'
  BY <1>2, RowsStep
<1>4. QED
  BY <1>1, <1>3 DEF TakenOver, Chosen, RowOf

(* An empty wave means a complete plan: among the subtasks that are not    *)
(* completed, if there are any, one depends on none of them and is ready.  *)
LEMMA EmptyWaveIsComplete ==
  ASSUME plan \in Plans, Ready = {}
  PROVE  PlanComplete
<1> DEFINE Open == {s \in plan.subtasks : ~Completed(s)}
<1>1. ValidPlan(plan)
  BY PlansAssumption
<1>2. SUFFICES ASSUME Open # {} PROVE FALSE
  BY DEF PlanComplete
<1>3. PICK s \in Open : plan.deps[s] \cap Open = {}
  BY <1>1, <1>2 DEF ValidPlan
<1>4. \A d \in plan.deps[s] : Completed(d)
  BY <1>1, <1>3 DEF ValidPlan
<1>5. s \in Ready
  BY <1>3, <1>4 DEF Ready
<1>6. QED
  BY <1>5

(* A take-over the plan gate is about to apply is on the plan gate's row.  *)
LEMMA TakeOverIsChosen ==
  ASSUME IInv, node = "escalate_plan", NEW k \in resume, k.action = "take_over"
  PROVE  TakenOver
<1> DEFINE r == [gate |-> k.gate, status |-> "resolved", action |-> k.action]
<1>1. r \in approvals /\ r.gate = PlanGate
  BY DEF IInv, ApprovalInv
<1>2. QED
  BY <1>1 DEF TakenOver, Chosen, RowOf

(* The work stays complete from synthesize on.                             *)
LEMMA SynthesisStep ==
  ASSUME IInv, [Next]_vars
  PROVE  SynthesisInv'
<1>0. TypeOK /\ NodeInv /\ SynthesisInv
  BY DEF IInv
<1> USE <1>0, TakenOverStep DEF NodeInv, SynthesisInv, PlanComplete, Completed, At,
     Goto, Running, nodeVars, stateVars, waveVars, tableVars
<1>1. CASE StartRun
  BY <1>1 DEF StartRun
<1>2. CASE Intake
  BY <1>2 DEF Intake
<1>3. CASE PlanTask
  BY <1>3 DEF PlanTask, SavePlan, FreshRows
<1>4. CASE PlanInvalid
  BY <1>4 DEF PlanInvalid, End
<1>5. CASE NotifyPlan
  BY <1>5 DEF NotifyPlan
<1>6. CASE AskPlan
  BY <1>6 DEF AskPlan, Ask
<1>7. CASE AnswerPlan
  <2>1. decision' = "take_over" => TakenOver'
    BY <1>7, TakeOverIsChosen DEF AnswerPlan
  <2>2. QED
    BY <1>7, <2>1 DEF TypeOK, AnswerPlan, Take, ApplyPlanDecision, SavePlan, FreshRows
<1>8. CASE Schedule
  <2>1. node' = "synthesize" => PlanComplete
    BY <1>8, EmptyWaveIsComplete DEF Schedule
  <2>2. QED
    BY <1>8, <2>1 DEF TypeOK, Schedule
<1>9. ASSUME NEW s \in Sid, NotifyTool(s) PROVE SynthesisInv'
  BY <1>9 DEF NotifyTool, NextGate, Attempt
<1>10. ASSUME NEW s \in Sid, AskTool(s) PROVE SynthesisInv'
  BY <1>10 DEF AskTool, Ask, NextGate, Attempt
<1>11. ASSUME NEW s \in Sid, AnswerTool(s) PROVE SynthesisInv'
  BY <1>11 DEF AnswerTool, Take, NextGate, Attempt
<1>12. ASSUME NEW s \in Sid, AttemptFails(s) PROVE SynthesisInv'
  BY <1>12 DEF AttemptFails, Finish
<1>13. ASSUME NEW s \in Sid, AttemptReworked(s) PROVE SynthesisInv'
  BY <1>13 DEF AttemptReworked, Finish
<1>14. ASSUME NEW s \in Sid, AttemptPasses(s) PROVE SynthesisInv'
  BY <1>14 DEF AttemptPasses, Finish
<1>15. ASSUME NEW s \in Sid, BranchRaises(s) PROVE SynthesisInv'
  BY <1>15 DEF BranchRaises, Crash, Abort
<1>16. CASE CommitWave
  BY <1>16 DEF CommitWave
<1>17. CASE PauseWave
  BY <1>17 DEF PauseWave
<1>18. CASE GatherEscalates
  BY <1>18 DEF GatherEscalates, ExhaustedSubtasks
<1>19. CASE GatherClear
  BY <1>19 DEF GatherClear
<1>20. CASE NotifySubtask
  BY <1>20 DEF NotifySubtask, EscalationGate
<1>21. CASE AskSubtask
  BY <1>21 DEF AskSubtask, Ask, EscalationGate
<1>22. CASE AnswerSubtask
  BY <1>22 DEF AnswerSubtask, Take, EscalationGate, ApplySubtaskDecision
<1>23. CASE Synthesize
  BY <1>23 DEF Synthesize
<1>24. CASE FinalGateSkipped
  BY <1>24 DEF FinalGateSkipped, End, RoutesToEnd
<1>25. CASE AskFinal
  BY <1>25 DEF AskFinal, Ask
<1>26. CASE AnswerFinal
  BY <1>26 DEF AnswerFinal, Take, ApplyFinalDecision, RoutesToEnd
<1>27. CASE Deliver
  BY <1>27 DEF Deliver
<1>28. CASE Cleanup
  BY <1>28 DEF Cleanup, End
<1>29. CASE NodeRaises
  BY <1>29 DEF NodeRaises, Crash, Abort, FreshRows
<1>30. CASE AnsweredGateRaises
  BY <1>30 DEF AnsweredGateRaises, Crash, Abort, FreshRows, EscalationGate
<1>31. CASE OutOfSteps
  BY <1>31 DEF OutOfSteps, Crash, Abort
<1>32. CASE Reviewer
  BY <1>32 DEF Reviewer, Resolve
<1>33. CASE Resuming
  BY <1>33 DEF Resuming, StartResume, Rerun
<1>34. CASE UNCHANGED vars
  BY <1>34 DEF vars
<1>35. QED
  BY <1>1, <1>2, <1>3, <1>4, <1>5, <1>6, <1>7, <1>8, <1>9, <1>10, <1>11, <1>12,
       <1>13, <1>14, <1>15, <1>16, <1>17, <1>18, <1>19, <1>20, <1>21, <1>22,
       <1>23, <1>24, <1>25, <1>26, <1>27, <1>28, <1>29, <1>30, <1>31, <1>32,
       <1>33, <1>34 DEF Next, Worker, Execute, Terminated

(* A plan the reviewer has let through stays let through.                  *)
LEMMA LetThroughStep ==
  ASSUME IInv, [Next]_vars, PlanLetThrough
  PROVE  PlanLetThrough'
<1>1. PICK r \in RowOf(PlanGate) : r.status = "notified" \/ r.action \in LetThrough
  BY DEF PlanLetThrough
<1>2. r.status # "pending"
  BY <1>1 DEF IInv, ApprovalInv, RowOf, LetThrough, Action
<1>3. r \in approvals' /\ r.gate = PlanGate
  BY <1>1, <1>2, RowsStep DEF RowOf
<1>4. QED
  BY <1>1, <1>3 DEF PlanLetThrough, RowOf

(* What the plan gate takes was decided on the plan gate's row.            *)
LEMMA PlanDecisionIsChosen ==
  ASSUME IInv, node = "escalate_plan", NEW k \in resume, k.action # "reject"
  PROVE  PlanLetThrough
<1> DEFINE r == [gate |-> k.gate, status |-> "resolved", action |-> k.action]
<1>1. r \in approvals /\ r.gate = PlanGate
  BY DEF IInv, ApprovalInv
<1>2. k.action \in LetThrough
  BY DEF IInv, TypeOK, Job, LetThrough
<1>3. QED
  BY <1>1, <1>2 DEF PlanLetThrough, RowOf

(* A requested review of the plan comes before any work.                   *)
LEMMA ReviewStep ==
  ASSUME IInv, [Next]_vars
  PROVE  ReviewInv'
<1>0. TypeOK /\ NodeInv /\ ReviewInv
  BY DEF IInv
<1> USE <1>0, LetThroughStep DEF NodeInv, ReviewInv, PlanTrigger, At, Goto, Running,
     nodeVars, stateVars, waveVars, tableVars
<1>1. CASE StartRun
  BY <1>1 DEF StartRun
<1>2. CASE Intake
  BY <1>2 DEF Intake
<1>3. CASE PlanTask
  BY <1>3 DEF PlanTask, SavePlan, FreshRows, NeedsPlanReview
<1>4. CASE PlanInvalid
  BY <1>4 DEF PlanInvalid, End
<1>5. CASE NotifyPlan
  <2>1. approvals' = {[gate |-> PlanGate, status |-> "notified", action |-> "none"]}
    BY <1>5 DEF NotifyPlan, Enqueue
  <2>2. [gate |-> PlanGate, status |-> "notified", action |-> "none"] \in RowOf(PlanGate)'
    BY <2>1 DEF RowOf
  <2>3. PlanLetThrough'
    BY <2>2 DEF PlanLetThrough
  <2>4. node' = "schedule"
    BY <1>5 DEF NotifyPlan
  <2>5. QED
    BY <2>3, <2>4
<1>6. CASE AskPlan
  BY <1>6 DEF AskPlan, Ask
<1>7. CASE AnswerPlan
  <2>1. node' # "end" => PlanLetThrough
    BY <1>7, PlanDecisionIsChosen DEF AnswerPlan, ApplyPlanDecision
  <2>2. QED
    BY <1>7, <2>1 DEF AnswerPlan, Take, ApplyPlanDecision, SavePlan
<1>8. CASE Schedule
  BY <1>8 DEF Schedule
<1>9. ASSUME NEW s \in Sid, NotifyTool(s) PROVE ReviewInv'
  BY <1>9 DEF NotifyTool, NextGate, Attempt
<1>10. ASSUME NEW s \in Sid, AskTool(s) PROVE ReviewInv'
  BY <1>10 DEF AskTool, Ask, NextGate, Attempt
<1>11. ASSUME NEW s \in Sid, AnswerTool(s) PROVE ReviewInv'
  BY <1>11 DEF AnswerTool, Take, NextGate, Attempt
<1>12. ASSUME NEW s \in Sid, AttemptFails(s) PROVE ReviewInv'
  BY <1>12 DEF AttemptFails, Finish
<1>13. ASSUME NEW s \in Sid, AttemptReworked(s) PROVE ReviewInv'
  BY <1>13 DEF AttemptReworked, Finish
<1>14. ASSUME NEW s \in Sid, AttemptPasses(s) PROVE ReviewInv'
  BY <1>14 DEF AttemptPasses, Finish
<1>15. ASSUME NEW s \in Sid, BranchRaises(s) PROVE ReviewInv'
  BY <1>15 DEF BranchRaises, Crash, Abort
<1>16. CASE CommitWave
  BY <1>16 DEF CommitWave
<1>17. CASE PauseWave
  BY <1>17 DEF PauseWave
<1>18. CASE GatherEscalates
  BY <1>18 DEF GatherEscalates, ExhaustedSubtasks
<1>19. CASE GatherClear
  BY <1>19 DEF GatherClear
<1>20. CASE NotifySubtask
  BY <1>20 DEF NotifySubtask, EscalationGate
<1>21. CASE AskSubtask
  BY <1>21 DEF AskSubtask, Ask, EscalationGate
<1>22. CASE AnswerSubtask
  BY <1>22 DEF AnswerSubtask, Take, EscalationGate, ApplySubtaskDecision
<1>23. CASE Synthesize
  BY <1>23 DEF Synthesize
<1>24. CASE FinalGateSkipped
  BY <1>24 DEF FinalGateSkipped, End, RoutesToEnd
<1>25. CASE AskFinal
  BY <1>25 DEF AskFinal, Ask
<1>26. CASE AnswerFinal
  BY <1>26 DEF AnswerFinal, Take, ApplyFinalDecision, RoutesToEnd
<1>27. CASE Deliver
  BY <1>27 DEF Deliver
<1>28. CASE Cleanup
  BY <1>28 DEF Cleanup, End
<1>29. CASE NodeRaises
  BY <1>29 DEF NodeRaises, Crash, Abort, FreshRows
<1>30. CASE AnsweredGateRaises
  BY <1>30 DEF AnsweredGateRaises, Crash, Abort, FreshRows, EscalationGate
<1>31. CASE OutOfSteps
  BY <1>31 DEF OutOfSteps, Crash, Abort
<1>32. CASE Reviewer
  BY <1>32 DEF Reviewer, Resolve
<1>33. CASE Resuming
  BY <1>33 DEF Resuming, StartResume, Rerun
<1>34. CASE UNCHANGED vars
  BY <1>34 DEF vars
<1>35. QED
  BY <1>1, <1>2, <1>3, <1>4, <1>5, <1>6, <1>7, <1>8, <1>9, <1>10, <1>11, <1>12,
       <1>13, <1>14, <1>15, <1>16, <1>17, <1>18, <1>19, <1>20, <1>21, <1>22,
       <1>23, <1>24, <1>25, <1>26, <1>27, <1>28, <1>29, <1>30, <1>31, <1>32,
       <1>33, <1>34 DEF Next, Worker, Execute, Terminated

(* No step replaces the result of a completed subtask.                     *)
LEMMA FrozenStep ==
  ASSUME IInv, [Next]_vars
  PROVE  \A t \in Sid : Completed(t) => results'[t] = results[t]
<1>0. TypeOK /\ NodeInv /\ WaveInv
  BY DEF IInv
<1> USE <1>0 DEF TypeOK, NodeInv, WaveInv, Completed, Exhausted, At, Goto, Running,
     nodeVars, stateVars, waveVars, tableVars
<1>1. CASE StartRun
  BY <1>1 DEF StartRun
<1>2. CASE Intake
  BY <1>2 DEF Intake
<1>3. CASE PlanTask
  BY <1>3 DEF PlanTask, SavePlan, FreshRows
<1>4. CASE PlanInvalid
  BY <1>4 DEF PlanInvalid, End
<1>5. CASE NotifyPlan
  BY <1>5 DEF NotifyPlan
<1>6. CASE AskPlan
  BY <1>6 DEF AskPlan, Ask
<1>7. CASE AnswerPlan
  BY <1>7 DEF AnswerPlan, Take, ApplyPlanDecision, SavePlan, FreshRows
<1>8. CASE Schedule
  BY <1>8 DEF Schedule
<1>9. ASSUME NEW s \in Sid, NotifyTool(s)
      PROVE \A t \in Sid : Completed(t) => results'[t] = results[t]
  BY <1>9 DEF NotifyTool, NextGate, Attempt
<1>10. ASSUME NEW s \in Sid, AskTool(s)
       PROVE \A t \in Sid : Completed(t) => results'[t] = results[t]
  BY <1>10 DEF AskTool, Ask, NextGate, Attempt
<1>11. ASSUME NEW s \in Sid, AnswerTool(s)
       PROVE \A t \in Sid : Completed(t) => results'[t] = results[t]
  BY <1>11 DEF AnswerTool, Take, NextGate, Attempt
<1>12. ASSUME NEW s \in Sid, AttemptFails(s)
       PROVE \A t \in Sid : Completed(t) => results'[t] = results[t]
  BY <1>12 DEF AttemptFails, Finish
<1>13. ASSUME NEW s \in Sid, AttemptReworked(s)
       PROVE \A t \in Sid : Completed(t) => results'[t] = results[t]
  BY <1>13 DEF AttemptReworked, Finish
<1>14. ASSUME NEW s \in Sid, AttemptPasses(s)
       PROVE \A t \in Sid : Completed(t) => results'[t] = results[t]
  BY <1>14 DEF AttemptPasses, Finish
<1>15. ASSUME NEW s \in Sid, BranchRaises(s)
       PROVE \A t \in Sid : Completed(t) => results'[t] = results[t]
  BY <1>15 DEF BranchRaises, Crash, Abort
<1>16. CASE CommitWave
  BY <1>16 DEF CommitWave
<1>17. CASE PauseWave
  BY <1>17 DEF PauseWave
<1>18. CASE GatherEscalates
  BY <1>18 DEF GatherEscalates, ExhaustedSubtasks
<1>19. CASE GatherClear
  BY <1>19 DEF GatherClear
<1>20. CASE NotifySubtask
  BY <1>20 DEF NotifySubtask, EscalationGate
<1>21. CASE AskSubtask
  BY <1>21 DEF AskSubtask, Ask, EscalationGate
<1>22. CASE AnswerSubtask
  BY <1>22 DEF AnswerSubtask, Take, EscalationGate, ApplySubtaskDecision
<1>23. CASE Synthesize
  BY <1>23 DEF Synthesize
<1>24. CASE FinalGateSkipped
  BY <1>24 DEF FinalGateSkipped, End, RoutesToEnd
<1>25. CASE AskFinal
  BY <1>25 DEF AskFinal, Ask
<1>26. CASE AnswerFinal
  BY <1>26 DEF AnswerFinal, Take, ApplyFinalDecision, RoutesToEnd
<1>27. CASE Deliver
  BY <1>27 DEF Deliver
<1>28. CASE Cleanup
  BY <1>28 DEF Cleanup, End
<1>29. CASE NodeRaises
  BY <1>29 DEF NodeRaises, Crash, Abort, FreshRows
<1>30. CASE AnsweredGateRaises
  BY <1>30 DEF AnsweredGateRaises, Crash, Abort, FreshRows, EscalationGate
<1>31. CASE OutOfSteps
  BY <1>31 DEF OutOfSteps, Crash, Abort
<1>32. CASE Reviewer
  BY <1>32 DEF Reviewer, Resolve
<1>33. CASE Resuming
  BY <1>33 DEF Resuming, StartResume, Rerun
<1>34. CASE UNCHANGED vars
  BY <1>34 DEF vars
<1>35. QED
  BY <1>1, <1>2, <1>3, <1>4, <1>5, <1>6, <1>7, <1>8, <1>9, <1>10, <1>11, <1>12,
       <1>13, <1>14, <1>15, <1>16, <1>17, <1>18, <1>19, <1>20, <1>21, <1>22,
       <1>23, <1>24, <1>25, <1>26, <1>27, <1>28, <1>29, <1>30, <1>31, <1>32,
       <1>33, <1>34 DEF Next, Worker, Execute, Terminated

-----------------------------------------------------------------------------
(* The invariant, and what follows from it.                                *)

LEMMA InitHolds == Init => IInv
<1>1. Init => TypeOK
  BY DEF Init, TypeOK, Node, Terminal, Action, Entry, NoEntry, Result
<1>2. Init => VerdictWhenOver /\ DispatchRespectsDependencies
  BY DEF Init, VerdictWhenOver, DispatchRespectsDependencies
<1>3. Init => NodeInv /\ WaveInv
  BY DEF Init, NodeInv, WaveInv
<1>4. Init => ApprovalInv /\ SynthesisInv /\ ReviewInv
  BY DEF Init, ApprovalInv, SynthesisInv, ReviewInv
<1>5. QED
  BY <1>1, <1>2, <1>3, <1>4 DEF IInv

LEMMA NextHolds == IInv /\ [Next]_vars => IInv'
BY TypeStep, NodeStep, WaveStep, ApprovalStep, SynthesisStep, ReviewStep DEF IInv

(* The inductive invariant holds in every reachable state.                 *)
THEOREM Invariance == Spec => []IInv
BY InitHolds, NextHolds, PTL DEF Spec

(* The state keeps its types, whatever the plans, settings and faults.     *)
THEOREM TypeCorrect == Spec => []TypeOK
<1>1. IInv => TypeOK
  BY DEF IInv
<1>2. QED
  BY <1>1, Invariance, PTL

(* No invocation ends without a final status on its task, even one that    *)
(* dies of a fault or runs out of supersteps.                              *)
THEOREM VerdictAlways == Spec => []VerdictWhenOver
<1>1. IInv => VerdictWhenOver
  BY DEF IInv
<1>2. QED
  BY <1>1, Invariance, PTL

(* No subtask is in the wave before its dependencies are completed.        *)
THEOREM DispatchOrder == Spec => []DispatchRespectsDependencies
<1>1. IInv => DispatchRespectsDependencies
  BY DEF IInv
<1>2. QED
  BY <1>1, Invariance, PTL

(* What is delivered was synthesized from the whole plan, unless a person  *)
(* took the plan over.                                                     *)
THEOREM CompleteDeliverable == Spec => []DeliverableIsComplete
<1>1. IInv => DeliverableIsComplete
  BY DEF IInv, SynthesisInv, DeliverableIsComplete, PlanComplete, TakenOver
<1>2. QED
  BY <1>1, Invariance, PTL

(* A requested review of the plan comes before any work on it.             *)
THEOREM ReviewFirst == Spec => []ReviewedBeforeWork
<1>1. IInv => ReviewedBeforeWork
  BY DEF IInv, ReviewInv, WaveInv, ReviewedBeforeWork
<1>2. QED
  BY <1>1, Invariance, PTL

(* The result of a completed subtask is never replaced.                    *)
THEOREM FrozenResults == Spec => CompletedIsFrozen
<1>1. IInv /\ [Next]_vars => [\A s \in Sid : Completed(s) => results'[s] = results[s]]_vars
  BY FrozenStep
<1>2. QED
  BY <1>1, Invariance, PTL DEF Spec, CompletedIsFrozen
=============================================================================
