----------------------------- MODULE Resumption -----------------------------
(***************************************************************************)
(* How a decision gets from a reviewer to the gate that waits for it, with *)
(* everything that can happen in between: the resolve endpoint is three    *)
(* steps (api/routes/approvals.py, hitl/queue.py), the worker may run      *)
(* several invocations of one task side by side (graph/runner.py), and API *)
(* and worker processes may die.                                           *)
(*                                                                         *)
(* The graph is reduced to its stages: the nodes between two checkpoints,  *)
(* one branch each but for the execute wave.  TaskGraph has the graph in   *)
(* full and takes its invocations one at a time.                           *)
(***************************************************************************)
EXTENDS Integers

CONSTANTS
  Last,       \* number of stages
  Kind,       \* what the node of a stage is
  Branch,     \* the execute branches of a wave
  Solo,       \* the only branch of any other stage
  Reviewer,   \* clients of the resolve endpoint
  MaxInv,     \* bound: invocations of the task
  Settings,   \* the circumstances a task may meet: [gated, hasty, crashes]
  NoJob       \* an invocation without a resume value

Stage == 1..Last
Kinds == {"plan_gate", "schedule", "wave", "final_gate", "deliver"}
Invocation == 1..MaxInv
Action == {"approve", "reject"}

ASSUME StagesAssumption ==
  /\ Last \in Nat \ {0}
  /\ Kind \in [Stage -> Kinds]
  /\ \A k \in Stage : Kind[k] = "deliver" <=> k = Last
ASSUME BranchAssumption == Solo \notin Branch
ASSUME NoJobAssumption ==
  NoJob \notin [gate : Stage \X (Branch \cup {Solo}), action : Action, by : Reviewer]
ASSUME BoundsAssumption == MaxInv \in Nat \ {0}
ASSUME SettingsAssumption ==
  Settings \subseteq [gated : SUBSET Branch, hasty : BOOLEAN, crashes : Nat]

VARIABLES
  setting,    \* the task's circumstances
  checkpoint, \* the thread's latest checkpoint with its pending writes
  inv,        \* the invocations
  status,     \* tasks.status
  row,        \* the approval of each gate
  client,     \* where each resolve request is
  jobs,       \* resume jobs handed to the worker
  crashes,    \* processes that died
  worked,     \* history: how often each piece of work was done
  applied     \* history: <<gate, gate whose decision it was given>>

vars == <<setting, checkpoint, inv, status, row, client, jobs, crashes, worked, applied>>

Gated == setting.gated         \* the branches that make a sensitive call
Hasty == setting.hasty         \* approvals may be resolved before the graph has paused
MaxCrashes == setting.crashes  \* bound: processes that die

BranchesOf(k) ==
  IF k > Last THEN {} ELSE IF Kind[k] = "wave" THEN Branch ELSE {Solo}
IsGate(k, b) ==
  \/ Kind[k] \in {"plan_gate", "final_gate"} /\ b = Solo
  \/ Kind[k] = "wave" /\ b \in Gated
Gate == {g \in Stage \X (Branch \cup {Solo}) : IsGate(g[1], g[2])}

Terminal == {"completed", "rejected", "failed"}
Unstarted == [state |-> "none", base |-> 0, stage |-> 1, job |-> NoJob,
              branch |-> [b \in Branch \cup {Solo} |-> "idle"]]

(* The branches an invocation runs when it loads stage k with the writes   *)
(* of done.                                                                *)
Load(k, done) ==
  [b \in Branch \cup {Solo} |->
     IF b \notin BranchesOf(k) THEN "idle" ELSE IF b \in done THEN "done" ELSE "running"]

Init ==
  /\ setting \in Settings
  /\ checkpoint = [id |-> 0, stage |-> 1, done |-> {}, asked |-> {}]
  /\ inv = [i \in Invocation |->
              IF i = 1 THEN [Unstarted EXCEPT !.state = "active", !.branch = Load(1, {})]
              ELSE Unstarted]
  /\ status = "planning"
  /\ row = [g \in Gate |-> "none"]
  /\ client = [r \in Reviewer |-> <<>>]
  /\ jobs = {} /\ crashes = 0
  /\ worked = [p \in Stage \X (Branch \cup {Solo}) |-> 0]
  /\ applied = {}

-----------------------------------------------------------------------------
(* Checkpoints (LangGraph).                                                *)

At(i, kind) == inv[i].state = "active" /\ Kind[inv[i].stage] = kind
Has(i, b, s) == inv[i].state = "active" /\ inv[i].branch[b] = s

(* The superstep commits: a new checkpoint, which is the latest one even   *)
(* when another invocation has been further.                               *)
Advance(i) ==
  LET k == inv[i].stage + 1 IN
  /\ checkpoint' = [id |-> checkpoint.id + 1, stage |-> k, done |-> {}, asked |-> {}]
  /\ inv' = [inv EXCEPT ![i].base = checkpoint.id + 1, ![i].stage = k,
                        ![i].branch = Load(k, {}), ![i].job = NoJob]

(* The graph reaches its end in invocation i.                              *)
Finish(i) ==
  /\ checkpoint' = [id |-> checkpoint.id + 1, stage |-> Last + 1, done |-> {}, asked |-> {}]
  /\ inv' = [inv EXCEPT ![i].state = "over"]

(* A branch's outcome is written beside the checkpoint the invocation      *)
(* loaded, which matters while that is the latest.                         *)
Return(i, b, s, job) ==
  /\ inv' = [inv EXCEPT ![i].branch[b] = s, ![i].job = job]
  /\ checkpoint' =
       IF checkpoint.id # inv[i].base THEN checkpoint
       ELSE IF s = "done" THEN [checkpoint EXCEPT !.done = @ \cup {b}]
       ELSE [checkpoint EXCEPT !.asked = @ \cup {b}]

Worked(i, b) == worked' = [worked EXCEPT ![<<inv[i].stage, b>>] = @ + 1]

-----------------------------------------------------------------------------
(* The nodes that do not ask anybody.                                      *)

Schedule(i) ==
  /\ At(i, "schedule")
  /\ status' = "executing"
  /\ Advance(i)
  /\ UNCHANGED <<row, client, jobs, setting, crashes, worked, applied>>

Work(i, b) ==
  /\ At(i, "wave") /\ Has(i, b, "running") /\ b \notin Gated
  /\ Return(i, b, "done", inv[i].job)
  /\ Worked(i, b)
  /\ UNCHANGED <<status, row, client, jobs, setting, crashes, applied>>

CommitWave(i) ==
  /\ At(i, "wave")
  /\ \A b \in Branch : inv[i].branch[b] = "done"
  /\ Advance(i)
  /\ UNCHANGED <<status, row, client, jobs, setting, crashes, worked, applied>>

Deliver(i) ==
  /\ At(i, "deliver")
  /\ status' = "completed"
  /\ Worked(i, Solo)
  /\ Finish(i)
  /\ UNCHANGED <<row, client, jobs, setting, crashes, applied>>

-----------------------------------------------------------------------------
(* A gate: the status, then the row, then interrupt().                     *)

AskedGate(i, b) == <<inv[i].stage, b>>
AtGate(i, b, s) == Has(i, b, s) /\ IsGate(inv[i].stage, b)

To(i, b, s) == inv' = [inv EXCEPT ![i].branch[b] = s]

RowAsked(g) == IF row[g] = "none" THEN [row EXCEPT ![g] = "pending"] ELSE row

Announce(i, b) ==
  /\ AtGate(i, b, "running")
  /\ status' = "awaiting_approval"
  /\ To(i, b, "announced")
  /\ UNCHANGED <<checkpoint, row, client, jobs, setting, crashes, worked, applied>>

Ensure(i, b) ==
  /\ AtGate(i, b, "announced")
  /\ row' = RowAsked(AskedGate(i, b))
  /\ To(i, b, "asking")
  /\ UNCHANGED <<checkpoint, status, client, jobs, setting, crashes, worked, applied>>

(* No resume value: the interrupt is written to the checkpoint.            *)
InterruptAnnounced(i, b) ==  \* variant: the status after the row
  /\ AtGate(i, b, "asking") /\ inv[i].job = NoJob
  /\ status' = "awaiting_approval"
  /\ Return(i, b, "waiting", NoJob)
  /\ UNCHANGED <<row, client, jobs, setting, crashes, worked, applied>>
Interrupt(i, b) ==
  /\ AtGate(i, b, "asking") /\ inv[i].job = NoJob
  /\ Return(i, b, "waiting", NoJob)
  /\ UNCHANGED <<status, row, client, jobs, setting, crashes, worked, applied>>

(* interrupt() returns the invocation's resume value, whichever gate it    *)
(* was meant for.  A tool call goes on or back to the specialist; a       *)
(* rejection at a gate of the graph ends the task.  The final gate leaves  *)
(* the status to deliver.                                                  *)
RefusedPlan(i) ==  \* variant: the final gate takes any answer for a yes
  inv[i].job.action = "reject" /\ Kind[inv[i].stage] = "plan_gate"
Refused(i) == inv[i].job.action = "reject"

Answer(i, b) ==
  LET k == inv[i].stage IN
  /\ AtGate(i, b, "asking") /\ inv[i].job # NoJob
  /\ applied' = applied \cup {<<AskedGate(i, b), inv[i].job.gate>>}
  /\ \/ /\ Kind[k] = "wave"
        /\ status' = "executing"
        /\ Return(i, b, "done", NoJob)
        /\ Worked(i, b)
     \/ /\ Kind[k] # "wave" /\ Refused(i)
        /\ status' = "rejected"
        /\ Finish(i)
        /\ UNCHANGED worked
     \/ /\ Kind[k] # "wave" /\ ~Refused(i)
        /\ status' = IF Kind[k] = "plan_gate" THEN "executing" ELSE status
        /\ Advance(i)
        /\ UNCHANGED worked
  /\ UNCHANGED <<row, client, jobs, setting, crashes>>

(* Every branch has returned, and some with an interrupt.                  *)
Pause(i) ==
  /\ inv[i].state = "active"
  /\ \A b \in BranchesOf(inv[i].stage) : inv[i].branch[b] \in {"waiting", "done"}
  /\ \E b \in BranchesOf(inv[i].stage) : inv[i].branch[b] = "waiting"
  /\ inv' = [inv EXCEPT ![i].state = "over"]
  /\ UNCHANGED <<checkpoint, status, row, client, jobs, setting, crashes, worked, applied>>

-----------------------------------------------------------------------------
(* The resolve endpoint, and the resume jobs it leaves.                    *)

Idle == \A i \in Invocation : inv[i].state # "active"

(* The request, and in ApprovalQueue.resolve's transaction the row, find   *)
(* the approval pending.  Nothing locks the row.                           *)
Check(r, g, a) ==
  /\ client[r] = <<>>
  /\ row[g] = "pending" /\ (Hasty \/ Idle)
  /\ client' = [client EXCEPT ![r] = <<"checked", g, a>>]
  /\ UNCHANGED <<checkpoint, inv, status, row, jobs, setting, crashes, worked, applied>>

CommitResolution(r) ==
  /\ client[r] # <<>> /\ client[r][1] = "checked"
  /\ row' = [row EXCEPT ![client[r][2]] = client[r][3]]
  /\ client' = [client EXCEPT ![r] = <<"resolved", @[2], @[3]>>]
  /\ UNCHANGED <<checkpoint, inv, status, jobs, setting, crashes, worked, applied>>

HandOverApproval(r) ==  \* variant: a rejection resumes nothing
  /\ client[r] # <<>> /\ client[r][1] = "resolved"
  /\ jobs' = IF client[r][3] = "reject" THEN jobs
             ELSE jobs \cup {[gate |-> client[r][2], action |-> client[r][3], by |-> r]}
  /\ client' = [client EXCEPT ![r] = <<>>]
  /\ UNCHANGED <<checkpoint, inv, status, row, setting, crashes, worked, applied>>
HandOver(r) ==
  /\ client[r] # <<>> /\ client[r][1] = "resolved"
  /\ jobs' = jobs \cup {[gate |-> client[r][2], action |-> client[r][3], by |-> r]}
  /\ client' = [client EXCEPT ![r] = <<>>]
  /\ UNCHANGED <<checkpoint, inv, status, row, setting, crashes, worked, applied>>

(* Several interrupts are pending: LangGraph cannot tell which one a resume *)
(* value is for.                                                           *)
Ambiguous == \E a, b \in checkpoint.asked : a # b

(* resume_task: nothing to do on a finished graph, refused when several    *)
(* interrupts are pending, else the branches that did not return run.      *)
RerunDone(done) == {}  \* variant: all of them
Kept(done) == done
StartResume(i, j) ==
  /\ j \in jobs /\ jobs' = jobs \ {j}
  /\ inv[i].state = "none" /\ \A n \in 1..i - 1 : inv[n].state # "none"
  /\ \/ /\ Ambiguous
        /\ status' = "failed"
        /\ inv' = [inv EXCEPT ![i].state = "over"]
        /\ UNCHANGED checkpoint
     \/ /\ ~Ambiguous
        /\ inv' = [inv EXCEPT ![i] =
             [state |-> IF checkpoint.stage > Last THEN "over" ELSE "active",
              base |-> checkpoint.id, stage |-> checkpoint.stage, job |-> j,
              branch |-> Load(checkpoint.stage, Kept(checkpoint.done))]]
        /\ checkpoint' = [checkpoint EXCEPT !.asked = {}]
        /\ UNCHANGED status
  /\ UNCHANGED <<row, client, setting, crashes, worked, applied>>

-----------------------------------------------------------------------------
(* Processes that die.  Celery acknowledged the job when it was taken.     *)

WorkerDies(i) ==
  /\ inv[i].state = "active" /\ crashes < MaxCrashes
  /\ inv' = [inv EXCEPT ![i].state = "over"]
  /\ crashes' = crashes + 1
  /\ UNCHANGED <<checkpoint, status, row, client, jobs, setting, worked, applied>>

ApiDies(r) ==
  /\ client[r] # <<>> /\ crashes < MaxCrashes
  /\ client' = [client EXCEPT ![r] = <<>>]
  /\ crashes' = crashes + 1
  /\ UNCHANGED <<checkpoint, inv, status, row, jobs, setting, worked, applied>>

(* Nothing runs, nothing waits to be resolved, nothing is on its way.      *)
Quiet ==
  /\ Idle /\ jobs = {}
  /\ \A r \in Reviewer : client[r] = <<>>
  /\ \A g \in Gate : row[g] # "pending"
Settled == Quiet /\ UNCHANGED vars

Invoke(i) ==
  \/ Schedule(i) \/ CommitWave(i) \/ Deliver(i) \/ Pause(i)
  \/ \E b \in Branch : Work(i, b)
  \/ \E b \in Branch \cup {Solo} :
       Announce(i, b) \/ Ensure(i, b) \/ Interrupt(i, b) \/ Answer(i, b)
TakeJob == \E i \in Invocation, j \in jobs : StartResume(i, j)
Request(r) == CommitResolution(r) \/ HandOver(r)
Decide == \E r \in Reviewer, g \in Gate, a \in Action : Check(r, g, a)
Die == (\E i \in Invocation : WorkerDies(i)) \/ (\E r \in Reviewer : ApiDies(r))

Next ==
  \/ \E i \in Invocation : Invoke(i)
  \/ \E r \in Reviewer : Request(r)
  \/ TakeJob \/ Decide \/ Die \/ Settled

Spec == Init /\ [][Next]_vars

(* Workers run what they started and take what waits; requests are served; *)
(* somebody answers the approvals.                                         *)
Fairness ==
  /\ \A i \in Invocation : WF_vars(Invoke(i))
  /\ \A r \in Reviewer : WF_vars(Request(r))
  /\ WF_vars(TakeJob) /\ WF_vars(Decide)
FairSpec == Spec /\ Fairness

-----------------------------------------------------------------------------
(* Properties.                                                             *)

(* Resuming goes on where the graph stopped: no branch of a wave and no    *)
(* delivery is done a second time because an invocation overlapped another *)
(* or died, and a gate is only ever given the decision on its own approval. *)
WorkIsDoneOnce ==
  /\ \A p \in DOMAIN worked : worked[p] <= 1
  /\ \A pair \in applied : pair[1] = pair[2]

(* Once nothing is on its way any more, the status tells how the task came *)
(* out: an invocation that lags behind does not put awaiting_approval over *)
(* the outcome of the one that overtook it.                                *)
StatusTellsOutcome ==
  (Quiet /\ crashes = 0 /\ checkpoint.stage > Last) =>
    status = IF \E g \in Gate : Kind[g[1]] # "wave" /\ row[g] = "reject"
             THEN "rejected" ELSE "completed"

(* A delivery presupposes that every gate of the graph was approved.       *)
DeliveredIsApproved ==
  status = "completed" => \A g \in Gate : Kind[g[1]] # "wave" => row[g] = "approve"

Resolved(g) == g \in Gate /\ row[g] \in Action

(* Pausing is durable: with reviewers who answer and processes that do not *)
(* die the task ends, and every decision recorded has reached its gate, or *)
(* the task has failed because LangGraph refused one of several.           *)
DecisionsTakeEffect ==
  /\ <>(status \in Terminal \/ MaxCrashes > 0)
  /\ \A g \in Stage \X (Branch \cup {Solo}) :
       Resolved(g) ~> (<<g, g>> \in applied \/ status = "failed" \/ MaxCrashes > 0)

(* What the documentation says, "Pausing is durable" and "The checkpointed *)
(* run survives restarts" (README.md:230), of a decision once recorded.    *)
ResolvedIsApplied ==
  \A g \in Stage \X (Branch \cup {Solo}) : Resolved(g) ~> (<<g, g>> \in applied)
=============================================================================
