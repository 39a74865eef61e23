----------------------------- MODULE TaskGraph -----------------------------
(***************************************************************************)
(* One task of the agent service on its LangGraph state machine:           *)
(*                                                                         *)
(*   intake -> plan -> (escalate_plan) -> schedule -> execute -> gather    *)
(*   -> (escalate_subtask) -> schedule ... -> synthesize -> final_gate     *)
(*   -> deliver                                                            *)
(*                                                                         *)
(* together with everything that moves it: the invocation that drives the  *)
(* graph (graph/runner.py), the approval rows and their resolution         *)
(* (hitl/queue.py, api/routes/approvals.py), the task and subtask rows     *)
(* (db/repo.py), and LangGraph's interrupt and resume rules.               *)
(*                                                                         *)
(* A node is one action.  The parallel execute branches of a superstep     *)
(* interleave, and pause one by one at their sensitive-tool gates.         *)
(* Invocations of one task are serialised here (a resume job starts when   *)
(* no invocation is running).                                              *)
(***************************************************************************)
EXTENDS Integers

CONSTANTS
  Sid,            \* subtask ids
  NoSid,          \* no subtask is being escalated
  Rank,           \* position of a subtask id in sorted order
  Plans,          \* the plans the supervisor or a reviewer may submit
  NoPlan,         \* state["plan"] before the plan node
  MaxFailures,    \* failed attempts before a subtask escalates
  MaxRetries,     \* settings.max_specialist_retries
  MaxGates,       \* bound: sensitive tool calls of one attempt of a subtask
  MaxAttempts,    \* bound: attempts of a subtask that may go wrong
  RecursionLimit, \* supersteps LangGraph allows one invocation
  Notify,         \* triggers overridden to the NOTIFY level
  Faults,         \* which collaborators may raise: "llm", "working"
  RefuseMultiple  \* LangGraph refuses a plain resume with several interrupts

Trigger == {"low_plan_confidence", "user_requested", "sensitive_operation",
            "specialist_double_failure", "low_review_score"}

(* A validated plan: known dependencies, and no cycle.  Kahn's algorithm   *)
(* accepts exactly the dependency relations in which every nonempty set of *)
(* subtasks has one that depends on none of them.                          *)
ValidPlan(p) ==
  /\ p.subtasks \in (SUBSET Sid) \ {{}}
  /\ p.deps \in [Sid -> SUBSET Sid]
  /\ \A s \in p.subtasks : p.deps[s] \subseteq p.subtasks
  /\ \A U \in (SUBSET p.subtasks) \ {{}} :
       \E s \in U : p.deps[s] \cap U = {}
  /\ p.low \in BOOLEAN

ASSUME PlansAssumption == (\A p \in Plans : ValidPlan(p)) /\ NoPlan \notin Plans
ASSUME SidAssumption ==
  /\ NoSid \notin Sid
  /\ Rank \in [Sid -> Nat]
  /\ \A s, t \in Sid : Rank[s] = Rank[t] => s = t
ASSUME BoundsAssumption ==
  /\ MaxFailures \in Nat \ {0}
  /\ MaxRetries \in Nat \ {0}
  /\ MaxGates \in [Sid -> Nat]
  /\ MaxAttempts \in Nat
  /\ RecursionLimit \in Nat
ASSUME SettingsAssumption ==
  /\ Notify \subseteq Trigger
  /\ Faults \subseteq {"llm", "working"}
  /\ RefuseMultiple \in BOOLEAN

VARIABLES
  node,       \* the node the checkpoint would run next
  run,        \* the invocation driving the graph
  steps,      \* supersteps it has completed
  resume,     \* its Command(resume=...), until a gate takes it
  plan,       \* state["plan"]
  results,    \* state["subtask_results"]
  escalation, \* state["escalation"]["sid"] while needs_escalation
  decision,   \* state["hitl_decision"]["action"]
  final,      \* who wrote state["final_output"]
  branch,     \* the execute branches of the superstep
  gates,      \* gates a branch has been answered in this attempt
  taker,      \* the branch that took this invocation's resume value
  review,     \* tasks.require_human_review
  status,     \* tasks.status
  rows,       \* subtasks.status of the latest plan
  approvals,  \* the approvals table
  jobs,       \* resume jobs handed to the worker, not started
  applied     \* history: <<gate, gate whose decision it was given>>

nodeVars == <<node, run, steps>>
stateVars == <<plan, results, escalation, decision, final>>
waveVars == <<branch, gates, taker>>
tableVars == <<status, rows, approvals>>
vars == <<nodeVars, resume, stateVars, waveVars, review, tableVars, jobs, applied>>

Node == {"intake", "plan", "escalate_plan", "schedule", "execute", "gather",
         "escalate_subtask", "synthesize", "final_gate", "deliver", "cleanup", "end"}
Action == {"approve", "modify", "reject", "take_over"}

(* approvals.gate_key: one row per gate and task.                          *)
PlanGate == <<"plan">>
FinalGate == <<"final">>
SubtaskGateNoRound(s, attempts) == <<"subtask", s, 0>>  \* variant: no attempt in the key
SubtaskGate(s, attempts) == <<"subtask", s, attempts>>
ToolGateNoAttempt(s, attempt, position) == <<"tool", s, 0, position>>  \* variant: likewise
ToolGate(s, attempt, position) == <<"tool", s, attempt, position>>
Gate == {PlanGate, FinalGate} \cup ({"subtask"} \X Sid \X Nat)
          \cup ({"tool"} \X Sid \X Nat \X Nat)

Entry == [status : {"none", "completed", "rework", "failed_attempt"},
          attempts : Nat, error_count : Nat, rework_count : Nat]
Result(st, attempts, errors, reworks) ==
  [status |-> st, attempts |-> attempts, error_count |-> errors, rework_count |-> reworks]
NoEntry == Result("none", 0, 0, 0)

Row == [gate : Gate, status : {"pending", "resolved", "notified"},
        action : Action \cup {"none"}]
Job == [gate : Gate, action : Action]

Terminal == {"completed", "rejected", "failed"}

TypeOK ==
  /\ node \in Node
  /\ run \in {"queued", "active", "paused", "over"}
  /\ steps \in Nat
  /\ resume \in SUBSET Job
  /\ plan \in Plans \cup {NoPlan}
  /\ results \in [Sid -> Entry]
  /\ escalation \in Sid \cup {NoSid}
  /\ decision \in Action \cup {"none", "notified"}
  /\ final \in {"none", "synthesized", "human"}
  /\ branch \in [Sid -> {"idle", "ready", "paused", "done"}]
  /\ gates \in [Sid -> Nat]
  /\ taker \in Sid \cup {NoSid}
  /\ review \in BOOLEAN
  /\ status \in Terminal \cup {"pending", "planning", "executing", "awaiting_approval"}
  /\ rows \in [Sid -> {"none", "pending", "running", "failed", "rework", "completed"}]
  /\ approvals \in SUBSET Row
  /\ jobs \in SUBSET Job
  /\ applied \in SUBSET (Gate \X Gate)

Init ==
  /\ node = "intake" /\ run = "queued" /\ steps = 0 /\ resume = {}
  /\ plan = NoPlan
  /\ results = [s \in Sid |-> NoEntry]
  /\ escalation = NoSid /\ decision = "none" /\ final = "none"
  /\ branch = [s \in Sid |-> "idle"]
  /\ gates = [s \in Sid |-> 0]
  /\ taker = NoSid
  /\ review \in BOOLEAN
  /\ status = "pending"
  /\ rows = [s \in Sid |-> "none"]
  /\ approvals = {} /\ jobs = {} /\ applied = {}

-----------------------------------------------------------------------------
(* Graph plumbing (LangGraph).                                             *)

(* The invocation is about to run node n in a superstep it may still make. *)
At(n) == run = "active" /\ node = n /\ steps < RecursionLimit

(* The superstep commits and the next node is n.  A resume value that no   *)
(* gate took does not outlive the superstep it was written in.             *)
Goto(n) ==
  /\ node' = n
  /\ steps' = steps + 1
  /\ resume' = {}
  /\ UNCHANGED run

End ==
  /\ node' = "end"
  /\ run' = "over"
  /\ resume' = {}
  /\ UNCHANGED steps

(* An exception leaves ainvoke: run_task and resume_task mark the task     *)
(* failed.  The checkpoint stays where it was: before the node that raised. *)
Abort ==
  /\ run' = "over"
  /\ resume' = {}
  /\ node' = IF node = "cleanup" THEN "deliver" ELSE node
  /\ UNCHANGED steps
CrashUnrecorded == Abort /\ UNCHANGED status  \* variant: the failure is only logged
Crash == Abort /\ status' = "failed"

-----------------------------------------------------------------------------
(* Approval rows (hitl/queue.py).                                          *)

(* ApprovalQueue.ensure and record_notify: one row per gate; a second call *)
(* finds the first one's row.                                              *)
Enqueue(g, s) ==
  approvals' = IF \E r \in approvals : r.gate = g THEN approvals
               ELSE approvals \cup {[gate |-> g, status |-> s, action |-> "none"]}

(* interrupt() finds no resume value: the node stops after enqueueing.     *)
Ask(g) ==
  /\ resume = {}
  /\ status' = "awaiting_approval"
  /\ Enqueue(g, "pending")

(* interrupt() returns the resume value j.  The re-executed node finds its *)
(* row again.                                                              *)
Take(g, j) ==
  /\ j \in resume
  /\ resume' = resume \ {j}
  /\ Enqueue(g, "pending")
  /\ applied' = applied \cup {<<g, j.gate>>}

-----------------------------------------------------------------------------
(* Intake and planning.                                                    *)

(* run_task: the first invocation of the task.                             *)
StartRun ==
  /\ run = "queued"
  /\ run' = "active"
  /\ UNCHANGED <<node, steps, resume, stateVars, waveVars, review, tableVars, jobs, applied>>

Intake ==
  /\ At("intake")
  /\ status' = "planning"
  /\ Goto("plan")
  /\ UNCHANGED <<stateVars, waveVars, review, rows, approvals, jobs, applied>>

(* repo.save_plan: a new plan version, with fresh subtask rows.            *)
FreshRows(p) == [s \in Sid |-> IF s \in p.subtasks THEN "pending" ELSE "none"]
SavePlan(p) == plan' = p /\ rows' = FreshRows(p)

(* plan_gate                                                               *)
NeedsPlanReviewWhenUnsure(p) == p.low  \* variant: forgets the user's request
NeedsPlanReview(p) == p.low \/ review

PlanTask ==
  /\ At("plan")
  /\ \E p \in Plans :
       /\ SavePlan(p)
       /\ Goto(IF NeedsPlanReview(p) THEN "escalate_plan" ELSE "schedule")
  /\ UNCHANGED <<results, escalation, decision, final, waveVars, review,
                 status, approvals, jobs, applied>>

(* PlanValidationError: the retry failed too.                              *)
PlanInvalid ==
  /\ At("plan")
  /\ status' = "failed"
  /\ End
  /\ UNCHANGED <<stateVars, waveVars, review, rows, approvals, jobs, applied>>

-----------------------------------------------------------------------------
(* escalate_plan                                                           *)

PlanTrigger == IF plan.low THEN "low_plan_confidence" ELSE "user_requested"

NotifyPlan ==
  /\ At("escalate_plan")
  /\ PlanTrigger \in Notify
  /\ Enqueue(PlanGate, "notified")
  /\ decision' = "notified"
  /\ Goto("schedule")
  /\ UNCHANGED <<plan, results, escalation, final, waveVars, review,
                 status, rows, jobs, applied>>

AskPlan ==
  /\ At("escalate_plan")
  /\ PlanTrigger \notin Notify
  /\ Ask(PlanGate)
  /\ run' = "paused"
  /\ UNCHANGED <<node, steps, resume, stateVars, waveVars, review, rows, jobs, applied>>

(* route_after_plan_escalation on the reviewer's action.                   *)
ApplyPlanDecision(action) ==
  \/ /\ action = "reject"
     /\ status' = "rejected"
     /\ node' = "end" /\ run' = "over"
     /\ UNCHANGED <<steps, plan, rows, final>>
  \/ /\ action = "take_over"
     /\ status' = "executing"
     /\ final' = "human"
     /\ node' = "deliver" /\ steps' = steps + 1
     /\ UNCHANGED <<run, plan, rows>>
  \/ /\ action = "modify"
     /\ \E p \in Plans : SavePlan(p)
     /\ status' = "executing"
     /\ node' = "schedule" /\ steps' = steps + 1
     /\ UNCHANGED <<run, final>>
  \/ /\ action = "approve"
     /\ status' = "executing"
     /\ node' = "schedule" /\ steps' = steps + 1
     /\ UNCHANGED <<run, plan, rows, final>>

AnswerPlan ==
  /\ At("escalate_plan")
  /\ PlanTrigger \notin Notify
  /\ \E j \in resume :
       /\ Take(PlanGate, j)
       /\ decision' = j.action
       /\ ApplyPlanDecision(j.action)
  /\ UNCHANGED <<results, escalation, waveVars, review, jobs>>

-----------------------------------------------------------------------------
(* schedule and the execute branches.                                      *)

Completed(s) == results[s].status = "completed"

(* compute_wave: everything not completed whose dependencies all are.      *)
ReadyAnyResult ==  \* variant: any result of a dependency will do
  {s \in plan.subtasks : ~Completed(s) /\ \A d \in plan.deps[s] : results[d].status # "none"}
ReadyOnce ==  \* variant: attempts that went wrong are not dispatched again
  {s \in plan.subtasks : results[s].status = "none" /\ \A d \in plan.deps[s] : Completed(d)}
ReadyAgain ==  \* variant: completed subtasks are not left out
  {s \in plan.subtasks : \A d \in plan.deps[s] : Completed(d)}
Ready ==
  {s \in plan.subtasks : ~Completed(s) /\ \A d \in plan.deps[s] : Completed(d)}

Schedule ==
  /\ At("schedule")
  /\ status' = "executing"
  /\ branch' = [s \in Sid |-> IF s \in Ready THEN "ready" ELSE "idle"]
  /\ gates' = [s \in Sid |-> 0]
  /\ taker' = NoSid
  /\ Goto(IF Ready = {} THEN "synthesize" ELSE "execute")
  /\ UNCHANGED <<stateVars, review, rows, approvals, jobs, applied>>

Attempt(s) == results[s].attempts + 1

Running(s) == At("execute") /\ branch[s] = "ready"

(* The branch reaches its next sensitive call.  Calls decided before a     *)
(* pause are decided again, the same way, when the node re-executes.       *)
NextGate(s) == ToolGate(s, Attempt(s), gates[s])

(* What an attempt writes: base, then the outcome's own fields.            *)
Failed(r) == Result("failed_attempt", r.attempts + 1, r.error_count + 1, r.rework_count)
Reworked(r) == Result("rework", r.attempts + 1, r.error_count, r.rework_count + 1)
Passed(r) == Result("completed", r.attempts + 1, r.error_count, r.rework_count)

NotifyTool(s) ==
  /\ Running(s) /\ gates[s] < MaxGates[s]
  /\ "sensitive_operation" \in Notify
  /\ Enqueue(NextGate(s), "notified")
  /\ gates' = [gates EXCEPT ![s] = @ + 1]
  /\ rows' = [rows EXCEPT ![s] = "running"]
  /\ UNCHANGED <<nodeVars, resume, stateVars, branch, taker, review, status, jobs, applied>>

AskToolFails(s) ==  \* variant: the interrupt is caught as a failed attempt
  /\ Running(s) /\ gates[s] < MaxGates[s]
  /\ "sensitive_operation" \notin Notify
  /\ Ask(NextGate(s))
  /\ results' = [results EXCEPT ![s] = Failed(@)]
  /\ rows' = [rows EXCEPT ![s] = "failed"]
  /\ branch' = [branch EXCEPT ![s] = "done"]
  /\ UNCHANGED <<nodeVars, resume, plan, escalation, decision, final, gates, taker, review,
                 jobs, applied>>
AskTool(s) ==
  /\ Running(s) /\ gates[s] < MaxGates[s]
  /\ "sensitive_operation" \notin Notify
  /\ Ask(NextGate(s))
  /\ branch' = [branch EXCEPT ![s] = "paused"]
  /\ rows' = [rows EXCEPT ![s] = "running"]
  /\ UNCHANGED <<nodeVars, resume, stateVars, gates, taker, review, jobs, applied>>

AnswerTool(s) ==
  /\ Running(s) /\ gates[s] < MaxGates[s]
  /\ "sensitive_operation" \notin Notify
  /\ \E j \in resume : Take(NextGate(s), j)
  /\ status' = "executing"
  /\ gates' = [gates EXCEPT ![s] = @ + 1]
  /\ taker' = s
  /\ rows' = [rows EXCEPT ![s] = "running"]
  /\ UNCHANGED <<nodeVars, stateVars, branch, review, jobs>>

MayFail(s) == results[s].attempts < MaxAttempts

(* A finished branch's write is kept with the checkpoint as a pending      *)
(* write and merged by merge_results when the superstep commits; no other  *)
(* node reads subtask_results before that.                                 *)
Finish(s, entry, row) ==
  /\ Running(s)
  /\ results' = [results EXCEPT ![s] = entry]
  /\ rows' = [rows EXCEPT ![s] = row]
  /\ branch' = [branch EXCEPT ![s] = "done"]
  /\ UNCHANGED <<nodeVars, resume, plan, escalation, decision, final, gates, taker, review,
                 status, approvals, jobs, applied>>

AttemptFails(s) == MayFail(s) /\ Finish(s, Failed(results[s]), "failed")
AttemptReworked(s) == MayFail(s) /\ Finish(s, Reworked(results[s]), "rework")
AttemptPasses(s) == Finish(s, Passed(results[s]), "completed")

(* working.record_error or record_subtask_output raises after the row was  *)
(* written: nothing catches it, and LangGraph cancels the other branches.  *)
(* An answer taken in this invocation is saved when its branch returns; a  *)
(* cancelled branch loses it.                                              *)
BranchRaises(s) ==
  /\ "working" \in Faults
  /\ Running(s)
  /\ \/ MayFail(s) /\ rows' = [rows EXCEPT ![s] = "failed"]
     \/ rows' = [rows EXCEPT ![s] = "completed"]
  /\ gates' = [t \in Sid |-> IF t = taker /\ branch[t] = "ready" THEN gates[t] - 1
                              ELSE gates[t]]
  /\ Crash
  /\ UNCHANGED <<stateVars, branch, taker, review, approvals, jobs, applied>>

Execute(s) ==
  \/ NotifyTool(s) \/ AskTool(s) \/ AnswerTool(s)
  \/ AttemptFails(s) \/ AttemptReworked(s) \/ AttemptPasses(s)
  \/ BranchRaises(s)

(* Every branch has returned: the superstep commits.                       *)
CommitWave ==
  /\ At("execute")
  /\ \A s \in Sid : branch[s] \in {"idle", "done"}
  /\ branch' = [s \in Sid |-> "idle"]
  /\ gates' = [s \in Sid |-> 0]
  /\ taker' = NoSid
  /\ Goto("gather")
  /\ UNCHANGED <<stateVars, review, tableVars, jobs, applied>>

(* The others have returned and some branch is waiting at its gate.        *)
PauseWave ==
  /\ At("execute")
  /\ \A s \in Sid : branch[s] # "ready"
  /\ \E s \in Sid : branch[s] = "paused"
  /\ run' = "paused"
  /\ resume' = {}
  /\ UNCHANGED <<node, steps, stateVars, waveVars, review, tableVars, jobs, applied>>

-----------------------------------------------------------------------------
(* gather and escalate_subtask.                                            *)

(* hitl/triggers.py: specialist_double_failure and low_review_score.  A    *)
(* "rework" entry comes from a review below the threshold.                 *)
Exhausted(r) ==
  \/ r.status = "failed_attempt" /\ r.error_count >= MaxFailures
  \/ r.status = "rework" /\ r.rework_count >= MaxRetries

ExhaustedSubtasks == {s \in Sid : Exhausted(results[s])}

(* needs_escalation names only the first exhausted subtask in sorted order. *)
GatherEscalates ==
  /\ At("gather")
  /\ \E s \in ExhaustedSubtasks :
       /\ \A t \in ExhaustedSubtasks : Rank[s] <= Rank[t]
       /\ escalation' = s
  /\ Goto("escalate_subtask")
  /\ UNCHANGED <<plan, results, decision, final, waveVars, review, tableVars, jobs, applied>>

GatherClear ==
  /\ At("gather")
  /\ ExhaustedSubtasks = {}
  /\ escalation' = NoSid
  /\ Goto("schedule")
  /\ UNCHANGED <<plan, results, decision, final, waveVars, review, tableVars, jobs, applied>>

SubtaskTrigger(s) ==
  IF results[s].status = "failed_attempt" THEN "specialist_double_failure"
  ELSE "low_review_score"

EscalationGate == SubtaskGate(escalation, results[escalation].attempts)

(* retry_entry: another round of attempts, with the counters reset.        *)
Retried(r) == Result("rework", r.attempts, 0, 0)
(* A reviewer's output stands in for the specialist's.                     *)
Provided(r) == Result("completed", r.attempts, r.error_count, r.rework_count)

NotifySubtask ==
  /\ At("escalate_subtask")
  /\ SubtaskTrigger(escalation) \in Notify
  /\ Enqueue(EscalationGate, "notified")
  /\ decision' = "notified"
  /\ escalation' = NoSid
  /\ results' = [results EXCEPT ![escalation] = Retried(@)]
  /\ Goto("schedule")
  /\ UNCHANGED <<plan, final, waveVars, review, status, rows, jobs, applied>>

AskSubtask ==
  /\ At("escalate_subtask")
  /\ SubtaskTrigger(escalation) \notin Notify
  /\ Ask(EscalationGate)
  /\ run' = "paused"
  /\ UNCHANGED <<node, steps, resume, stateVars, waveVars, review, rows, jobs, applied>>

(* Variant: every decision goes back to schedule, and a take-over does not *)
(* reach the subtask's row.                                                *)
ApplySubtaskDecisionLax(s, action) ==
  /\ status' = IF action = "reject" THEN "rejected" ELSE "executing"
  /\ results' = CASE action = "take_over" -> [results EXCEPT ![s] = Provided(@)]
                  [] action = "reject" -> results
                  [] OTHER -> [results EXCEPT ![s] = Retried(@)]
  /\ node' = "schedule" /\ steps' = steps + 1
  /\ UNCHANGED <<run, rows>>

(* route_after_subtask_escalation on the reviewer's action.                *)
ApplySubtaskDecision(s, action) ==
  \/ /\ action = "reject"
     /\ status' = "rejected"
     /\ node' = "end" /\ run' = "over"
     /\ UNCHANGED <<steps, results, rows>>
  \/ /\ action = "take_over"
     /\ status' = "executing"
     /\ results' = [results EXCEPT ![s] = Provided(@)]
     /\ rows' = [rows EXCEPT ![s] = "completed"]
     /\ node' = "schedule" /\ steps' = steps + 1
     /\ UNCHANGED run
  \/ /\ action \in {"approve", "modify"}
     /\ status' = "executing"
     /\ results' = [results EXCEPT ![s] = Retried(@)]
     /\ node' = "schedule" /\ steps' = steps + 1
     /\ UNCHANGED <<run, rows>>

AnswerSubtask ==
  /\ At("escalate_subtask")
  /\ SubtaskTrigger(escalation) \notin Notify
  /\ \E j \in resume :
       /\ Take(EscalationGate, j)
       /\ decision' = j.action
       /\ ApplySubtaskDecision(escalation, j.action)
  /\ escalation' = NoSid
  /\ UNCHANGED <<plan, final, waveVars, review, jobs>>

-----------------------------------------------------------------------------
(* synthesize, final_gate and deliver.                                     *)

Synthesize ==
  /\ At("synthesize")
  /\ final' = "synthesized"
  /\ Goto("final_gate")
  /\ UNCHANGED <<plan, results, escalation, decision, waveVars, review,
                 tableVars, jobs, applied>>

(* route_after_final_gate, on whatever hitl_decision the state holds.      *)
RoutesToEnd(d) == d = "reject"

(* No review was requested: the node returns {} and the router reads the   *)
(* decision an earlier gate left in the state.                             *)
FinalGateSkipped ==
  /\ At("final_gate")
  /\ ~review
  /\ IF RoutesToEnd(decision) THEN End ELSE Goto("deliver")
  /\ UNCHANGED <<stateVars, waveVars, review, tableVars, jobs, applied>>

AskFinal ==
  /\ At("final_gate")
  /\ review
  /\ Ask(FinalGate)
  /\ run' = "paused"
  /\ UNCHANGED <<node, steps, resume, stateVars, waveVars, review, rows, jobs, applied>>

ApplyFinalDecision(action) ==
  \/ /\ RoutesToEnd(action)
     /\ status' = "rejected"
     /\ node' = "end" /\ run' = "over"
     /\ UNCHANGED <<steps, final>>
  \/ /\ ~RoutesToEnd(action)
     /\ final' = IF action \in {"modify", "take_over"} THEN "human" ELSE final
     /\ node' = "deliver" /\ steps' = steps + 1
     /\ UNCHANGED <<run, status>>

AnswerFinal ==
  /\ At("final_gate")
  /\ review
  /\ \E j \in resume :
       /\ Take(FinalGate, j)
       /\ decision' = j.action
       /\ ApplyFinalDecision(j.action)
  /\ UNCHANGED <<plan, results, escalation, waveVars, review, rows, jobs>>

(* repo.set_final_output commits before the node goes on to extract        *)
(* memories and to clear the task's working memory.                        *)
Deliver ==
  /\ At("deliver")
  /\ status' = "completed"
  /\ node' = "cleanup"
  /\ UNCHANGED <<run, steps, resume, stateVars, waveVars, review, rows, approvals,
                 jobs, applied>>

Cleanup ==
  /\ At("cleanup")
  /\ End
  /\ UNCHANGED <<stateVars, waveVars, review, tableVars, jobs, applied>>

-----------------------------------------------------------------------------
(* The invocation: failures, the reviewer, and resumption.                 *)

(* The nodes an exception of a collaborator escapes from, besides execute: *)
(* the LLM in plan and synthesize (a PlanValidationError is not one), the  *)
(* working memory in the nodes that write it.  The gates write it only     *)
(* after they were answered.                                               *)
FaultyNodes ==
  (IF "llm" \in Faults THEN {"plan", "synthesize"} ELSE {}) \cup
  (IF "working" \in Faults THEN {"intake", "plan", "cleanup"} ELSE {})

NodeRaises ==
  /\ \E n \in FaultyNodes : At(n)
  /\ Crash
  /\ \/ UNCHANGED rows
     \/ node = "plan" /\ "working" \in Faults /\ \E p \in Plans : rows' = FreshRows(p)
  /\ UNCHANGED <<stateVars, waveVars, review, approvals, jobs, applied>>

(* working.set_plan on a modified plan, or record_subtask_output on a      *)
(* take-over, raises after the gate was answered and the row was written.  *)
AnsweredGateRaises ==
  /\ "working" \in Faults
  /\ \E j \in resume :
       \/ /\ At("escalate_plan") /\ PlanTrigger \notin Notify
          /\ j.action = "modify"
          /\ applied' = applied \cup {<<PlanGate, j.gate>>}
          /\ \E p \in Plans : rows' = FreshRows(p)
       \/ /\ At("escalate_subtask") /\ SubtaskTrigger(escalation) \notin Notify
          /\ j.action = "take_over"
          /\ applied' = applied \cup {<<EscalationGate, j.gate>>}
          /\ rows' = [rows EXCEPT ![escalation] = "completed"]
  /\ Crash
  /\ UNCHANGED <<stateVars, waveVars, review, approvals, jobs>>

(* GraphRecursionError: the invocation needs one superstep too many.       *)
OutOfSteps ==
  /\ run = "active" /\ node # "end" /\ steps >= RecursionLimit
  /\ Crash
  /\ UNCHANGED <<stateVars, waveVars, review, rows, approvals, jobs, applied>>

(* POST /approvals/{id}/resolve: the row is resolved and a resume job is   *)
(* handed to the worker.                                                   *)
Resolve(r, action) ==
  /\ r \in approvals /\ r.status = "pending"
  /\ approvals' = (approvals \ {r})
                    \cup {[gate |-> r.gate, status |-> "resolved", action |-> action]}
  /\ jobs' = jobs \cup {[gate |-> r.gate, action |-> action]}
  /\ UNCHANGED <<nodeVars, resume, stateVars, waveVars, review, status, rows, applied>>

Paused == {s \in Sid : branch[s] = "paused"}

(* A plain Command(resume=...) says nothing of which interrupt it answers. *)
(* LangGraph refuses it when several are pending.                          *)
NeverAmbiguous == FALSE  \* variant: the first gate that asks gets the value
Ambiguous == RefuseMultiple /\ \E s, t \in Paused : s # t

(* The superstep's branches that did not return run again.                 *)
Rerun == [s \in Sid |-> IF branch[s] = "paused" THEN "ready" ELSE branch[s]]

(* resume_task.  Resuming a finished graph runs nothing; otherwise the     *)
(* interrupted node, or the superstep's unfinished branches, run again.    *)
StartResume(j) ==
  /\ j \in jobs
  /\ run \in {"paused", "over"}
  /\ jobs' = jobs \ {j}
  /\ \/ /\ node = "end"
        /\ UNCHANGED <<nodeVars, resume, branch, taker, status>>
     \/ /\ node # "end" /\ Ambiguous
        /\ status' = "failed"
        /\ run' = "over"
        /\ UNCHANGED <<node, steps, resume, branch, taker>>
     \/ /\ node # "end" /\ ~Ambiguous
        /\ run' = "active" /\ steps' = 0
        /\ resume' = {j}
        /\ branch' = Rerun
        /\ taker' = NoSid
        /\ UNCHANGED <<node, status>>
  /\ UNCHANGED <<stateVars, gates, review, rows, approvals, applied>>

(* The task is over and nobody has anything left to do for it.             *)
Terminated ==
  /\ run = "over" /\ jobs = {}
  /\ \A r \in approvals : r.status # "pending"
  /\ UNCHANGED vars

Worker ==
  \/ StartRun \/ Intake \/ PlanTask \/ PlanInvalid
  \/ NotifyPlan \/ AskPlan \/ AnswerPlan
  \/ Schedule \/ (\E s \in Sid : Execute(s)) \/ CommitWave \/ PauseWave
  \/ GatherEscalates \/ GatherClear
  \/ NotifySubtask \/ AskSubtask \/ AnswerSubtask
  \/ Synthesize \/ FinalGateSkipped \/ AskFinal \/ AnswerFinal
  \/ Deliver \/ Cleanup
  \/ NodeRaises \/ AnsweredGateRaises \/ OutOfSteps

Resuming == \E j \in jobs : StartResume(j)
Reviewer == \E r \in approvals, a \in Action : Resolve(r, a)

Next == Worker \/ Resuming \/ Reviewer \/ Terminated

Spec == Init /\ [][Next]_vars

(* The worker keeps running a started invocation and the branches of its   *)
(* superstep, and picks up the resume jobs handed to it.                   *)
WorkerFairness == WF_vars(Worker) /\ WF_vars(Resuming)
FairSpec == Spec /\ WorkerFairness

(* The reviewer also answers every approval that waits for one.            *)
ReviewedSpec == FairSpec /\ WF_vars(Reviewer)

-----------------------------------------------------------------------------
(* Properties.                                                             *)

RowOf(g) == {r \in approvals : r.gate = g}
Pending == {r \in approvals : r.status = "pending"}
Chosen(g, actions) == \E r \in RowOf(g) : r.action \in actions
LetThrough == Action \ {"reject"}

(* An invocation that reached the end of the graph, or died, has left a    *)
(* final status on the task: no path, in particular none that routes on a  *)
(* hitl_decision of an earlier gate, ends silently with the task still     *)
(* shown as executing.                                                     *)
VerdictWhenOver == run = "over" => status \in Terminal

(* A paused graph can be resumed: a reviewer can still resolve an approval *)
(* of the task, or a resume job is on its way.  Re-executed gates find     *)
(* their own row, and a gate that pauses anew never finds a resolved one.  *)
PausedIsResumable == run = "paused" => jobs # {} \/ Pending # {}

(* What people see agrees with the graph: while it waits for the reviewer  *)
(* the task is shown as awaiting_approval, whichever branch or gate wrote  *)
(* the status last; a delivered or rejected task leaves no approval in the *)
(* queue whose resolution would resume a graph that is over; and the       *)
(* subtask rows tell the results the graph works on.                       *)
TablesTellTheState ==
  /\ run = "paused" => status = "awaiting_approval"
  /\ status \in {"completed", "rejected"} => Pending = {}
  /\ \A s \in Sid : rows[s] = "completed" <=> Completed(s)

(* A specialist only ever works from the outputs of completed              *)
(* dependencies, of the plan the reviewer let through.                     *)
DispatchRespectsDependencies ==
  \A s \in Sid : branch[s] # "idle" =>
    s \in plan.subtasks /\ \A d \in plan.deps[s] : Completed(d)

(* Unless a person took the plan over, the deliverable is synthesized from *)
(* all subtasks of the plan: an empty wave means that all are completed,   *)
(* not that the rest is blocked.                                           *)
DeliverableIsComplete ==
  (final # "none" /\ ~Chosen(PlanGate, {"take_over"})) =>
    \A s \in plan.subtasks : Completed(s)

(* With require_human_review, no subtask starts before the plan gate let   *)
(* the plan through (or only had to notify).                               *)
PlanLetThrough ==
  \E r \in RowOf(PlanGate) : r.status = "notified" \/ r.action \in LetThrough
ReviewedBeforeWork ==
  (review /\ \E s \in Sid : branch[s] # "idle") => PlanLetThrough

(* The reviewer has the last word: with require_human_review nothing is    *)
(* delivered that a person neither wrote nor approved, and once the plan,  *)
(* a subtask or the deliverable was rejected the task does no further work *)
(* and is never delivered.                                                 *)
ReviewerDecides ==
  /\ (review /\ status = "completed") =>
       Chosen(FinalGate, LetThrough) \/ Chosen(PlanGate, {"take_over"})
  /\ (\E r \in approvals : r.gate[1] # "tool" /\ r.action = "reject") =>
       status \in {"awaiting_approval", "rejected"}

(* A completed subtask is never run again, nor its output replaced.        *)
CompletedIsFrozen == [][\A s \in Sid : Completed(s) => results'[s] = results[s]]_vars

(* A gate is answered with the decision that was made on its own approval. *)
DecisionReachesItsGate == \A pair \in applied : pair[1] = pair[2]

(* With a reviewer who answers, every task comes to an end.                *)
TaskEnds == <>(run = "over" /\ status \in Terminal)

-----------------------------------------------------------------------------
(* The inductive invariant behind VerdictWhenOver, CompletedIsFrozen,      *)
(* DispatchRespectsDependencies, DeliverableIsComplete and                 *)
(* ReviewedBeforeWork.                                                     *)

PlanComplete == \A s \in plan.subtasks : Completed(s)
TakenOver == Chosen(PlanGate, {"take_over"})

(* Where the graph stands says what the state holds there.                 *)
NodeInv ==
  /\ node \notin {"intake", "plan", "end"} => plan \in Plans
  /\ node = "escalate_subtask" => escalation \in Sid /\ Exhausted(results[escalation])
  /\ node = "cleanup" => run = "active" /\ status = "completed"
  /\ node = "end" => run = "over"
  /\ decision = "reject" => node = "end"

(* Only subtasks that were ready are in the wave, and those that still run *)
(* are not completed.  The branch that took the answer has an answer.      *)
WaveInv ==
  /\ \A s \in Sid : branch[s] # "idle" => node = "execute"
  /\ \A s \in Sid : branch[s] \in {"ready", "paused"} => ~Completed(s)
  /\ taker # NoSid /\ run # "over" => gates[taker] > 0

(* Every decision on its way is that of a resolved row, and before the     *)
(* first wave the plan gate's row is the only one.                         *)
ApprovalInv ==
  /\ \A j \in jobs \cup resume :
       [gate |-> j.gate, status |-> "resolved", action |-> j.action] \in approvals
  /\ \A r \in approvals : r.status # "resolved" => r.action = "none"
  /\ node \in {"intake", "plan", "escalate_plan"} => \A r \in approvals : r.gate = PlanGate

(* synthesize is only reached with all subtasks completed.                 *)
SynthesisInv ==
  /\ node \in {"synthesize", "final_gate"} => PlanComplete
  /\ node \in {"deliver", "cleanup"} => PlanComplete \/ TakenOver
  /\ final # "none" =>
       /\ node \in {"final_gate", "deliver", "cleanup", "end"}
       /\ PlanComplete \/ TakenOver

(* A task to be reviewed leaves the plan gate only with the gate's row     *)
(* notified or answered.                                                   *)
ReviewInv ==
  /\ node \in {"intake", "plan"} => approvals = {}
  /\ node = "escalate_plan" /\ PlanTrigger \in Notify => approvals = {}
  /\ review /\ node \notin {"intake", "plan", "escalate_plan", "end"} => PlanLetThrough

IInv ==
  /\ TypeOK /\ VerdictWhenOver /\ DispatchRespectsDependencies
  /\ NodeInv /\ WaveInv /\ ApprovalInv /\ SynthesisInv /\ ReviewInv
=============================================================================
