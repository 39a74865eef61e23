----------------------------- MODULE AgentEval ------------------------------
(***************************************************************************)
(* agent_eval run: commands that give the tasks of an evaluation to the      *)
(* agent service, approve what it asks for, wait for each task to end,       *)
(* fetch what it did and cost, and have a rubric judge look at what was      *)
(* completed.  The agent is seen from outside: what it does inside a task is *)
(* the subject of TaskGraph.                                                 *)
(***************************************************************************)
EXTENDS Integers, Sequences, SequencesExt, FiniteSets

CONSTANTS EvalTasks,     \* the tasks of the file, in its order
          Commands,      \* 1..n, started in that order
          AgentConfigs,  \* what GET /config may say: [mock, reviewer, producers]
          TaskCap, TaskReserve, RubricWorst, RubricProvider,
          TaskMax,       \* the most a task costs the agent
          Gates,         \* the approvals a task may ask for, in all
          MaxApprovals,
          Mishaps, MaxMishaps     \* bound: what may go wrong, and how often
LABELS == {"cross", "smoke"}
TERMINAL == {"completed", "failed", "rejected"}
Unlabelled == [mock |-> FALSE, reviewer |-> "none", producers |-> {}]
NoLine == [task |-> "none", error |-> TRUE]

VARIABLES label,        \* the label every command here runs under
          agentConfig,  \* the agent's settings
          snapshot,     \* the label's entry in agent-run.json, or Unlabelled
          lines,        \* agent-<label>.jsonl
          agentTasks,   \* the tasks the agent was given, in order
          command,      \* command -> its locals
          judged,       \* the agent tasks whose verdict is in the judge's cache
          mishaps
agentVars == <<label, agentConfig, snapshot, lines, agentTasks, command, judged, mishaps>>

NotYet == [pc |-> "idle", queue |-> <<>>, mock |-> FALSE, tid |-> 0, pending |-> {},
           approvals |-> 0, outcome |-> "none", line |-> NoLine, stop |-> FALSE,
           errors |-> FALSE, spent |-> 0, verdicts |-> 0, rc |-> 9]
Gone == {"idle", "done", "refused", "dead"}
OnTheWay(r) == command[r].pc \notin Gone

AgentInit == /\ label \in LABELS
             /\ agentConfig \in AgentConfigs
             /\ snapshot = Unlabelled
             /\ lines = <<>> /\ agentTasks = <<>> /\ judged = {}
             /\ command = [r \in Commands |-> NotYet]
             /\ mishaps = 0

Mishap(kind) == /\ kind \in Mishaps
                /\ mishaps < MaxMishaps /\ mishaps' = mishaps + 1
Left(p, pc) == [NotYet EXCEPT !.pc = pc, !.spent = p.spent, !.verdicts = p.verdicts]

-----------------------------------------------------------------------------
(* What was recorded, and what it lacks.                                    *)
LastLine(task) ==
  LET of == {n \in DOMAIN lines : lines[n].task = task}
  IN  IF of = {} THEN NoLine ELSE lines[CHOOSE n \in of : \A m \in of : m <= n]

needs_verdict(line) == line.outcome = "completed" /\ ~line.verdict

(* check_label: smoke needs the mock agent, the others its reviewer policy. *)
LabelFits(config) == IF label = "smoke" THEN config.mock
                     ELSE ~config.mock /\ config.reviewer = label

(* open_label, check_judge and the start of run_label.  The run file is read *)
(* and written in one step here: RagEval has the race.                       *)
Launch(r) ==
  LET todo == SelectSeq(EvalTasks, LAMBDA t : LastLine(t).error \/ needs_verdict(LastLine(t)))
      own == RubricProvider \in agentConfig.producers
  IN
  /\ command[r].pc = "idle" /\ \A q \in Commands : q < r => ~OnTheWay(q) /\ command[q].pc # "idle"
  /\ IF ~LabelFits(agentConfig) \/ snapshot \notin {Unlabelled, agentConfig}
     THEN command' = [command EXCEPT ![r] = Left(@, "refused")] /\ UNCHANGED snapshot
     ELSE /\ snapshot' = agentConfig
          /\ command' = [command EXCEPT ![r] =
               IF own THEN Left(@, "refused")
               ELSE [@ EXCEPT !.pc = "next", !.mock = agentConfig.mock, !.queue = todo]]
  /\ UNCHANGED <<label, agentConfig, lines, agentTasks, judged, mishaps>>

Conclude(r) ==
  /\ command[r].pc = "next" /\ command[r].queue = <<>>
  /\ command' = [command EXCEPT ![r] = [Left(@, "done") EXCEPT
                   !.rc = IF command[r].errors THEN 1 ELSE 0]]
  /\ UNCHANGED <<label, agentConfig, snapshot, lines, agentTasks, judged, mishaps>>

-----------------------------------------------------------------------------
(* run_task.  Any of its calls may fail, and then the task is left to the    *)
(* agent: only an error is recorded, and the task is given again next time.  *)
This(r) == Head(command[r].queue)
Given(r) == [task |-> This(r), by |-> r, status |-> "running", asked |-> 0,
             pending |-> {}, cost |-> 0, mock |-> command[r].mock]

(* Mutant: the cap is looked at only once it is spent. *)
OnlyOnceSpent(p, worst) == p.spent >= TaskCap

NoRoom(p, worst) == p.spent + worst > TaskCap
Reserved(r) == IF command[r].mock THEN 0 ELSE TaskReserve

GiveUp(r) ==
  command' = [command EXCEPT ![r].pc = "append", ![r].tid = 0, ![r].errors = TRUE,
                             ![r].line = [task |-> This(r), error |-> TRUE]]

Submit(r) ==
  LET p == command[r] IN
  /\ p.pc = "next" /\ p.queue # <<>> /\ LastLine(This(r)).error
  /\ IF NoRoom(p, Reserved(r)) THEN
       /\ command' = [command EXCEPT ![r] = [Left(p, "done") EXCEPT !.rc = 1]]
       /\ UNCHANGED <<agentTasks, mishaps>>
     ELSE
       \/ /\ agentTasks' = Append(agentTasks, Given(r))
          /\ command' = [command EXCEPT ![r].pc = "poll", ![r].tid = Len(agentTasks) + 1,
                                       ![r].approvals = 0, ![r].outcome = "none"]
          /\ UNCHANGED mishaps
       \/ /\ Mishap("http")      \* the task may have been taken all the same
          /\ agentTasks' \in {agentTasks, Append(agentTasks, Given(r))}
          /\ GiveUp(r)
  /\ UNCHANGED <<label, agentConfig, snapshot, lines, judged>>

HasEnded(status) == status \in TERMINAL

(* GET /tasks/{id}, and the pending approvals if it waits for some *)
Poll(r) ==
  LET task == agentTasks[command[r].tid] IN
  /\ command[r].pc = "poll"
  /\ \/ /\ command' = [command EXCEPT ![r] =
             IF HasEnded(task.status) THEN [@ EXCEPT !.pc = "fetch", !.outcome = task.status]
             ELSE IF task.status = "awaiting_approval"
             THEN [@ EXCEPT !.pc = "approve", !.pending = task.pending]
             ELSE [@ EXCEPT !.pc = "clock"]]
        /\ UNCHANGED mishaps
     \/ Mishap("http") /\ GiveUp(r)
  /\ UNCHANGED <<label, agentConfig, snapshot, lines, agentTasks, judged>>

Approved(task, g) ==
  [task EXCEPT !.pending = @ \ {g},
               !.status = IF task.pending = {g} THEN "running" ELSE @]

Approve(r) ==
  LET p == command[r] IN
  /\ p.pc = "approve"
  /\ IF p.pending = {} THEN
       /\ command' = [command EXCEPT ![r].pc = "clock"]
       /\ UNCHANGED agentTasks
     ELSE IF p.approvals >= MaxApprovals THEN
       /\ command' = [command EXCEPT ![r].pc = "fetch", ![r].outcome = "approval_limit",
                                    ![r].pending = {}]
       /\ UNCHANGED agentTasks
     ELSE LET g == CHOOSE h \in p.pending : \A i \in p.pending : h <= i
              still == g \in agentTasks[p.tid].pending     \* otherwise 409
          IN  /\ agentTasks' = IF still THEN [agentTasks EXCEPT ![p.tid] = Approved(@, g)]
                               ELSE agentTasks
              /\ command' = [command EXCEPT ![r].pending = @ \ {g},
                                           ![r].approvals = IF still THEN @ + 1 ELSE @]
  /\ UNCHANGED <<label, agentConfig, snapshot, lines, judged, mishaps>>

(* 600 s may be over, or the status is asked for again. *)
Clock(r) ==
  /\ command[r].pc = "clock"
  /\ \/ command' = [command EXCEPT ![r].pc = "poll"] /\ UNCHANGED mishaps
     \/ /\ Mishap("timeout")
        /\ command' = [command EXCEPT ![r].pc = "fetch", ![r].outcome = "timeout"]
  /\ UNCHANGED <<label, agentConfig, snapshot, lines, agentTasks, judged>>

(* The bundle, the costs and the calls, and the cost against the cap. *)
Fetch(r) ==
  LET p == command[r]
      cost == agentTasks[p.tid].cost IN
  /\ p.pc = "fetch"
  /\ \/ /\ command' = [command EXCEPT ![r].pc = "judge", ![r].spent = IF p.mock THEN @ ELSE @ + cost,
             ![r].line = [task |-> This(r), error |-> FALSE, tid |-> p.tid, cost |-> cost,
                          outcome |-> p.outcome, approvals |-> p.approvals, verdict |-> FALSE]]
        /\ UNCHANGED mishaps
     \/ Mishap("http") /\ GiveUp(r)
  /\ UNCHANGED <<label, agentConfig, snapshot, lines, agentTasks, judged>>

(* A completed task without a verdict is judged again, not run again. *)
TakeUpAgain(r) ==
  LET p == command[r] IN
  /\ p.pc = "next" /\ p.queue # <<>> /\ ~LastLine(This(r)).error
  /\ command' = [command EXCEPT ![r].pc = "judge", ![r].line = LastLine(This(r))]
  /\ UNCHANGED <<label, agentConfig, snapshot, lines, agentTasks, judged, mishaps>>

(* The rubric verdict: cached, refused by the budget, given, billed but no    *)
(* verdict, or an error of the provider's client, which is not caught.        *)
Rubric(r) ==
  LET p == command[r]
      Judged(q) == [q EXCEPT !.pc = "append", !.line.verdict = TRUE]
      Charged(q) == [q EXCEPT !.spent = @ + RubricWorst, !.verdicts = @ + 1]
  IN
  /\ p.pc = "judge" /\ needs_verdict(p.line)
  /\ IF p.line.tid \in judged \/ NoRoom(p, RubricWorst) THEN
       /\ command' = [command EXCEPT ![r] = IF p.line.tid \in judged THEN Judged(p)
                      ELSE [p EXCEPT !.pc = "append", !.stop = TRUE]]
       /\ UNCHANGED <<judged, mishaps>>
     ELSE
       \/ /\ command' = [command EXCEPT ![r] = Charged(Judged(p))]
          /\ judged' = judged \cup {p.line.tid}
          /\ UNCHANGED mishaps
       \/ /\ Mishap("judge") /\ UNCHANGED judged
          /\ \/ command' = [command EXCEPT ![r] =
                  Charged([p EXCEPT !.pc = "append", !.errors = TRUE])]
             \/ command' = [command EXCEPT ![r] = Left(p, "dead")]
  /\ UNCHANGED <<label, agentConfig, snapshot, lines, agentTasks>>

Note(r) ==
  LET p == command[r] IN
  /\ p.pc = "append" \/ (p.pc = "judge" /\ ~needs_verdict(p.line))
  /\ lines' = Append(lines, p.line)
  /\ command' = [command EXCEPT ![r] =
       IF p.stop THEN [Left(p, "done") EXCEPT !.rc = 1]
       ELSE [p EXCEPT !.pc = "next", !.queue = Tail(@), !.line = NoLine, !.tid = 0]]
  /\ UNCHANGED <<label, agentConfig, snapshot, agentTasks, judged, mishaps>>

-----------------------------------------------------------------------------
(* The agent, other people, and what ends a command or changes the service.  *)
AgentAsks(t) ==
  /\ agentTasks[t].status = "running" /\ agentTasks[t].cost < TaskMax
  /\ \E n \in 1..(Gates - agentTasks[t].asked) :
       agentTasks' = [agentTasks EXCEPT ![t] =
         [@ EXCEPT !.status = "awaiting_approval", !.cost = @ + 1, !.asked = @ + n,
                   !.pending = (agentTasks[t].asked + 1)..(agentTasks[t].asked + n)]]
  /\ UNCHANGED <<label, agentConfig, snapshot, lines, command, judged, mishaps>>

AgentEnds(t) ==
  /\ agentTasks[t].status = "running"
  /\ \E s \in {"completed", "failed"}, cost \in {agentTasks[t].cost, TaskMax} :
       agentTasks' = [agentTasks EXCEPT ![t].status = s, ![t].cost = cost]
  /\ UNCHANGED <<label, agentConfig, snapshot, lines, command, judged, mishaps>>

SomeoneResolves(t) ==
  /\ agentTasks[t].status = "awaiting_approval" /\ Mishap("someone")
  /\ \E g \in agentTasks[t].pending :
       \/ agentTasks' = [agentTasks EXCEPT ![t] = Approved(@, g)]
       \/ agentTasks' = [agentTasks EXCEPT ![t].status = "rejected", ![t].pending = {}]
  /\ UNCHANGED <<label, agentConfig, snapshot, lines, command, judged>>

Killed(r) ==
  /\ OnTheWay(r) /\ Mishap("kill")
  /\ command' = [command EXCEPT ![r] = Left(@, "dead")]
  /\ UNCHANGED <<label, agentConfig, snapshot, lines, agentTasks, judged>>

Reconfigured ==
  /\ Mishap("redeploy") /\ agentConfig' \in AgentConfigs \ {agentConfig}
  /\ UNCHANGED <<label, snapshot, lines, agentTasks, command, judged>>

AgentNext ==
  \/ \E r \in Commands :
       \/ Launch(r) \/ Conclude(r) \/ Submit(r) \/ Poll(r) \/ Approve(r) \/ Clock(r)
       \/ Fetch(r) \/ TakeUpAgain(r) \/ Rubric(r) \/ Note(r) \/ Killed(r)
  \/ \E t \in DOMAIN agentTasks : AgentAsks(t) \/ AgentEnds(t) \/ SomeoneResolves(t)
  \/ Reconfigured

-----------------------------------------------------------------------------
Cost(ts) == FoldLeft(LAMBDA sum, t : sum + (IF t.mock THEN 0 ELSE t.cost), 0, ts)
GivenBy(r) == SelectSeq([t \in DOMAIN agentTasks |-> [agentTasks[t] EXCEPT !.asked = t]],
                        LAMBDA t : t.by = r)
HasResult(t) == \E n \in DOMAIN lines :
                  ~lines[n].error /\ lines[n].tid = t /\ HasEnded(lines[n].outcome)

(* Tasks run one at a time (agent_eval.py:12): one that still runs when the  *)
(* next is given has timed out, passed the approvals' limit or cost the      *)
(* command an error, and its line says so, unless the command itself died.   *)
(* So a command passes its cap by one task's excess over the reserve at      *)
(* most, whatever the judge charges, counting every task it gave the agent   *)
(* but those it recorded no result of: they go on spending                   *)
(* (agent_eval.py:20-23).                                                    *)
OneTaskAtATime ==
  /\ \A t, u \in DOMAIN agentTasks :
       t < u /\ ~HasEnded(agentTasks[t].status) =>
         \/ command[agentTasks[t].by].pc = "dead"
         \/ \E n \in DOMAIN lines :
              /\ lines[n].task = agentTasks[t].task
              /\ lines[n].error \/ (lines[n].tid = t /\ lines[n].outcome \in
                                                        {"timeout", "approval_limit"})
  /\ \A r \in Commands :
       LET given == GivenBy(r)
           counted == SelectSeq(given, LAMBDA t : HasResult(t.asked) \/ t = Last(given))
       IN  Cost(counted) + RubricWorst * command[r].verdicts
             <= TaskCap + (IF TaskMax > TaskReserve THEN TaskMax - TaskReserve ELSE 0)
=============================================================================
