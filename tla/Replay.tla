------------------------------- MODULE Replay -------------------------------
(***************************************************************************)
(* Replays and forks of a task (observability/replay.py), with the rows    *)
(* that TracedLLMClient keeps of every model call and the costs computed   *)
(* from them (observability/tracing.py, observability/cost.py).            *)
(*                                                                         *)
(* One task, "original", runs on the production graph; another, "again",   *)
(* replays it with the recorded answers.  Of the graph the module keeps    *)
(* what reaches the model: the plan, then for each subtask a loop of tool  *)
(* calls, an output and its review, the synthesis, and once the task is    *)
(* delivered the extraction of memories.  Subtasks that do not depend on   *)
(* each other run at the same time.                                        *)
(***************************************************************************)
EXTENDS Integers, FiniteSets, SequencesExt, FiniteSetsExt

CONSTANTS
  Subtask,      \* ids of subtasks
  Plans,        \* plans a task may have: [after, specialist, about, informed], and the
                \* outputs (may) and turns of each subtask and max_subtask_attempts
  MaxFailures,  \* bound: calls the provider fails
  Failing,      \* bound: lines whose calls may fail
  LaunchedAt    \* bound: states of the original in which it is replayed

Task == {"original", "again"}
Line == Subtask \cup {"plan", "synthesis", "learning"}
Texts == {"sure", "doubtful"}     \* outputs; a doubtful one is below the confidence threshold
Edited == "edited"                \* the text a fork puts in place of an answer

VARIABLES
  plan,      \* the plan both tasks are given
  status,    \* tasks.status
  client,    \* the client of the graph that runs a task: "live", "strict" or "fork"
  said,      \* answers each line has received in its current attempt
  attempt,   \* attempts of each line
  feedback,  \* the error its prompts carry
  stuck,     \* lines out of attempts
  cleared,   \* a human has resolved the task's pause
  asked,     \* lines that wait for the provider
  calls,     \* the llm_calls rows of each task, in order
  recorded,  \* ReplayLLMClient._records
  consumed,  \* ReplayLLMClient._consumed
  step,      \* the call a fork edits (its place in calls["original"]), 0 for none
  world,     \* what the tools return during each task
  learned,   \* memories were extracted from the task
  failures,  \* calls the provider failed
  whole      \* the original was over when its calls were read

graphVars == <<said, attempt, feedback, stuck, asked>>
replayVars == <<recorded, consumed, step, whole>>
vars == <<plan, status, client, graphVars, cleared, calls, replayVars, world, learned,
          failures>>

-----------------------------------------------------------------------------
(* What a task asks next *)

LastAnswer(s) == Last(s).answer
Reviewing(t, l) == l \in Subtask /\ said[t][l] # <<>> /\ LastAnswer(said[t][l]) \in Texts \cup {Edited}
Done(t, l) == said[t][l] # <<>> /\ (l \in Subtask => LastAnswer(said[t][l]) = "pass")
Output(t, l) == LET s == said[t][l] IN IF l \in Subtask THEN s[Len(s) - 1].answer ELSE LastAnswer(s)
Outputs(t) == [l \in {s \in Subtask : Done(t, s)} |-> Output(t, l)]

Agent(t, l) == CASE l \in {"plan", "synthesis"} -> "supervisor"
                 [] l = "learning" -> "memory"
                 [] Reviewing(t, l) -> "reviewer"
                 [] OTHER -> plan.specialist[l]

(* The long-term memories in the planning prompt: only a graph with        *)
(* long-term memory puts them there.                                       *)
Informed(t) == plan.informed /\ client[t] = "live"

(* The prompt of a line's next call, by what it is made of: render_messages *)
(* gives one text for one list of messages.                                *)
Prompt(t, l) ==
  [agent |-> Agent(t, l),
   about |-> CASE l = "plan" -> <<"plan", Informed(t)>>
               [] l \in {"synthesis", "learning"} -> <<l, Outputs(t)>>
               [] Reviewing(t, l) -> <<plan.about[l], LastAnswer(said[t][l])>>
               [] OTHER -> <<plan.about[l], [d \in plan.after[l] |-> Output(t, d)], feedback[t][l]>>,
   said |-> IF l \in Subtask /\ ~Reviewing(t, l) THEN said[t][l] ELSE <<>>]

(* What a provider may answer. *)
Answers(t, l) == CASE l = "plan" -> {"plan"}
                   [] l = "synthesis" -> {"memo"}
                   [] l = "learning" -> {"facts"}
                   [] Reviewing(t, l) -> {"pass"}
                   [] OTHER -> plan.may[l] \cup (IF Len(said[t][l]) + 1 < plan.turns[l] THEN {"call"} ELSE {})

(* Confidence gates the outputs before they are synthesized. *)
Doubted(t) == ~cleared[t] /\ \E l \in Subtask : Output(t, l) = "doubtful"

Ready(t, l) ==
  /\ l \notin asked[t] \cup stuck[t] /\ ~Done(t, l)
  /\ IF l = "learning" THEN status[t] = "completed" /\ client[t] = "live"
     ELSE /\ status[t] = "running"
          /\ l # "plan" => Done(t, "plan")
          /\ l \in Subtask => \A d \in plan.after[l] : Done(t, d)
          /\ l = "synthesis" => (\A s \in Subtask : Done(t, s)) /\ ~Doubted(t)

-----------------------------------------------------------------------------
(* The answers *)

(* A line takes an answer; TracedLLMClient has recorded the call, and a    *)
(* tool that was called has returned.                                      *)
Take(t, l, answer, model) ==
  /\ calls' = [calls EXCEPT ![t] = Append(@,
                [prompt |-> Prompt(t, l), answer |-> answer, model |-> model, line |-> l])]
  /\ said' = [said EXCEPT ![t][l] = Append(@,
                [answer |-> answer, result |-> IF answer = "call" THEN world[t] ELSE "none"])]
  /\ learned' = [learned EXCEPT ![t] = @ \/ l = "learning"]

(* A call raises: a subtask tries again with the error in its prompt or    *)
(* is stuck, extraction gives up in silence, anything else fails the task. *)
Raise(t, l, error) ==
  /\ IF l \in Subtask /\ attempt[t][l] < plan.attempts
     THEN /\ said' = [said EXCEPT ![t][l] = <<>>]
          /\ attempt' = [attempt EXCEPT ![t][l] = @ + 1]
          /\ feedback' = [feedback EXCEPT ![t][l] = error]
          /\ UNCHANGED <<status, stuck>>
     ELSE /\ stuck' = [stuck EXCEPT ![t] = @ \cup {l}]
          /\ status' = [status EXCEPT ![t] = IF l \in {"plan", "synthesis"} THEN "failed" ELSE @]
          /\ UNCHANGED <<said, attempt, feedback>>
  /\ UNCHANGED <<plan, client, cleared, calls, recorded, step, world, learned, whole>>

(* Mutant: the prompt is ignored. *)
NextOfAgent(p) ==
  LET ofAgent == {i \in DOMAIN recorded \ consumed : recorded[i].prompt.agent = p.agent}
  IN IF ofAgent # {} THEN Min(ofAgent) ELSE 0

(* The next unconsumed record for a call: the first with its prompt, else  *)
(* the first of its agent (0 for none).                                    *)
NextRecord(p) ==
  LET free == DOMAIN recorded \ consumed
      exact == {i \in free : recorded[i].prompt = p}
      ofAgent == {i \in free : recorded[i].prompt.agent = p.agent}
  IN IF exact # {} THEN Min(exact) ELSE IF ofAgent # {} THEN Min(ofAgent) ELSE 0

(* Mutant: what was served is not consumed. *)
ServeAgain(t, l) ==
  LET i == NextRecord(Prompt(t, l)) IN
  /\ client[t] \in {"strict", "fork"} /\ Ready(t, l) /\ i # 0
  /\ IF i = step THEN Take(t, l, Edited, "replay:modified")
     ELSE Take(t, l, recorded[i].answer, "replay")
  /\ UNCHANGED <<plan, status, client, attempt, feedback, stuck, asked, cleared, replayVars,
                 world, failures>>

(* A recorded answer is served at once. *)
Serve(t, l) ==
  LET i == NextRecord(Prompt(t, l)) IN
  /\ client[t] \in {"strict", "fork"} /\ Ready(t, l) /\ i # 0
  /\ consumed' = consumed \cup {i}
  /\ IF i = step THEN Take(t, l, Edited, "replay:modified")
     ELSE Take(t, l, recorded[i].answer, "replay")
  /\ UNCHANGED <<plan, status, client, attempt, feedback, stuck, asked, cleared, recorded, step,
                 world, failures, whole>>

(* A strict replay has no fallback. *)
Diverge(t, l) ==
  /\ client[t] = "strict" /\ Ready(t, l) /\ NextRecord(Prompt(t, l)) = 0
  /\ Raise(t, l, "diverged")
  /\ UNCHANGED <<asked, consumed, failures>>

(* A live client, and a fork past its records, ask the provider. *)
Ask(t, l) ==
  /\ Ready(t, l)
  /\ client[t] = "live" \/ (client[t] = "fork" /\ NextRecord(Prompt(t, l)) = 0)
  /\ asked' = [asked EXCEPT ![t] = @ \cup {l}]
  /\ UNCHANGED <<plan, status, client, said, attempt, feedback, stuck, cleared, calls, replayVars,
                 world, learned, failures>>

Answer(t, l) ==
  /\ l \in asked[t]
  /\ asked' = [asked EXCEPT ![t] = @ \ {l}]
  /\ \E a \in Answers(t, l) : Take(t, l, a, "live")
  /\ UNCHANGED <<plan, status, client, attempt, feedback, stuck, cleared, replayVars, world,
                 failures>>

(* A call that fails leaves no row. *)
ProviderFails(t, l) ==
  /\ l \in asked[t] \cap Failing /\ failures < MaxFailures
  /\ failures' = failures + 1
  /\ asked' = [asked EXCEPT ![t] = @ \ {l}]
  /\ Raise(t, l, "provider")
  /\ UNCHANGED consumed

-----------------------------------------------------------------------------
(* The task *)

Deliver(t) ==
  /\ status[t] = "running" /\ Done(t, "synthesis")
  /\ status' = [status EXCEPT ![t] = "completed"]
  /\ UNCHANGED <<plan, client, graphVars, cleared, calls, replayVars, world, learned, failures>>

(* The wave is over and a gate stops the task: a subtask ran out of        *)
(* attempts, or its output is doubtful.                                    *)
Gate(t) ==
  /\ status[t] = "running" /\ asked[t] = {} /\ \A l \in Line : ~Ready(t, l)
  /\ stuck[t] # {} \/ ((\A l \in Subtask : Done(t, l)) /\ Doubted(t))
  /\ status' = [status EXCEPT ![t] = "awaiting_approval"]
  /\ UNCHANGED <<plan, client, graphVars, cleared, calls, replayVars, world, learned, failures>>

(* resume_task goes on from the checkpoint, on the production graph. *)
Resume(t) ==
  /\ status[t] = "awaiting_approval"
  /\ status' = [status EXCEPT ![t] = "running"]
  /\ client' = [client EXCEPT ![t] = "live"]
  /\ cleared' = [cleared EXCEPT ![t] = TRUE]
  /\ said' = [said EXCEPT ![t] = [l \in Line |-> IF l \in stuck[t] THEN <<>> ELSE @[l]]]
  /\ attempt' = [attempt EXCEPT ![t] = [l \in Line |-> IF l \in stuck[t] THEN 1 ELSE @[l]]]
  /\ stuck' = [stuck EXCEPT ![t] = {}]
  /\ UNCHANGED <<plan, feedback, asked, calls, replayVars, world, learned, failures>>

(* POST /replay: a call to edit is one of this task's. *)
Launch(k) ==
  /\ status["again"] = "none" /\ status["original"] \in LaunchedAt
  /\ k \in DOMAIN calls["original"] => calls["original"][k].answer \in Texts \cup {"memo"}
  /\ status' = [status EXCEPT !["again"] = "pending"]
  /\ step' = k
  /\ UNCHANGED <<plan, client, graphVars, cleared, calls, recorded, consumed, world, learned,
                 failures, whole>>

Over(t) ==
  \/ status[t] = "failed"
  \/ status[t] = "completed" /\ (client[t] = "live" => Done(t, "learning") \/ "learning" \in stuck[t])

(* Mutant: the prefix leaves the edited call out. *)
StartBeforeStep(now) ==
  /\ status["again"] = "pending"
  /\ status' = [status EXCEPT !["again"] = "running"]
  /\ client' = [client EXCEPT !["again"] = IF step = 0 THEN "strict" ELSE "fork"]
  /\ recorded' = IF step = 0 THEN calls["original"] ELSE SubSeq(calls["original"], 1, step - 1)
  /\ world' = [world EXCEPT !["again"] = now]
  /\ whole' = Over("original")
  /\ UNCHANGED <<plan, graphVars, cleared, calls, consumed, step, learned, failures>>

(* run_replay reads the original's calls and starts the graph; the tools   *)
(* need not return what they did.                                          *)
Start(now) ==
  /\ status["again"] = "pending"
  /\ status' = [status EXCEPT !["again"] = "running"]
  /\ client' = [client EXCEPT !["again"] = IF step = 0 THEN "strict" ELSE "fork"]
  /\ recorded' = IF step = 0 THEN calls["original"] ELSE SubSeq(calls["original"], 1, step)
  /\ world' = [world EXCEPT !["again"] = now]
  /\ whole' = Over("original")
  /\ UNCHANGED <<plan, graphVars, cleared, calls, consumed, step, learned, failures>>

-----------------------------------------------------------------------------
(* The comparison *)

(* Mutant: steps are paired by their place. *)
PairsByPlace(ours, theirs) ==
  {p \in (DOMAIN ours) \X (DOMAIN theirs) : p[1] = p[2]}

(* _align_steps: the n-th call with a prompt is paired with the other      *)
(* task's n-th call with that prompt.                                      *)
Rank(rows, i) == Cardinality({j \in 1..i : rows[j].prompt = rows[i].prompt})
Pairs(ours, theirs) ==
  {p \in (DOMAIN ours) \X (DOMAIN theirs) :
     ours[p[1]].prompt = theirs[p[2]].prompt /\ Rank(ours, p[1]) = Rank(theirs, p[2])}

(* The steps marked diverged: what has no counterpart, or another answer.  *)
Diverged(ours, theirs) ==
  LET pairs == Pairs(ours, theirs) IN
  [pairs |-> {p \in pairs : ours[p[1]].answer # theirs[p[2]].answer},
   lost |-> DOMAIN ours \ {p[1] : p \in pairs},
   extra |-> DOMAIN theirs \ {p[2] : p \in pairs}]

-----------------------------------------------------------------------------
(* Costs *)

(* cost_usd by the model column: a call to the provider costs something    *)
(* (here one unit), what was replayed nothing.                             *)
Free(rows) == {i \in DOMAIN rows : rows[i].model # "live"}
Total(rows) == Cardinality(DOMAIN rows \ Free(rows))

-----------------------------------------------------------------------------
Init ==
  /\ plan \in Plans
  /\ status = [t \in Task |-> IF t = "original" THEN "running" ELSE "none"]
  /\ client = [t \in Task |-> IF t = "original" THEN "live" ELSE "none"]
  /\ said = [t \in Task |-> [l \in Line |-> <<>>]]
  /\ attempt = [t \in Task |-> [l \in Line |-> 1]]
  /\ feedback = [t \in Task |-> [l \in Line |-> "none"]]
  /\ stuck = [t \in Task |-> {}]
  /\ asked = [t \in Task |-> {}]
  /\ cleared = [t \in Task |-> FALSE]
  /\ calls = [t \in Task |-> <<>>]
  /\ recorded = <<>> /\ consumed = {} /\ step = 0 /\ whole = FALSE
  /\ world = [t \in Task |-> "then"]
  /\ learned = [t \in Task |-> FALSE]
  /\ failures = 0

Work(t) ==
  \/ \E l \in Line : Serve(t, l) \/ Diverge(t, l) \/ Ask(t, l) \/ Answer(t, l)
  \/ Deliver(t) \/ Gate(t)

Next ==
  \/ \E t \in Task : Work(t) \/ Resume(t) \/ \E l \in Line : ProviderFails(t, l)
  \/ \E k \in 0..Len(calls["original"]) : Launch(k)
  \/ \E now \in {"then", "now"} : Start(now)

Spec == Init /\ [][Next]_vars

-----------------------------------------------------------------------------
(* Properties *)

(* Subtasks run one after the other. *)
Chain == \A a, b \in Subtask : a = b \/ a \in plan.after[b] \/ b \in plan.after[a]

(* A strict replay that no human has resumed. *)
Strict == client["again"] = "strict"

(* A strict replay of a task that was over, had no failed call, and whose  *)
(* tools answer as they did; in a chain they need not.                     *)
Reproducible ==
  /\ Strict /\ whole /\ failures = 0
  /\ world["again"] = world["original"] \/ Chain

(* A strict replay reproduces the original whatever order its branches run *)
(* in: each line receives the answers it received then, and no call is     *)
(* without a record (replay.py: "matched by exact (agent, prompt) first"). *)
ReplayReproduces ==
  Reproducible =>
    /\ \A l \in Line : [i \in DOMAIN said["again"][l] |-> said["again"][l][i].answer]
                        = SubSeq([i \in DOMAIN said["original"][l] |-> said["original"][l][i].answer],
                                 1, Len(said["again"][l]))
    /\ stuck["again"] = {} /\ status["again"] # "failed"

(* The comparison of a finished replay shows no difference but those that  *)
(* replays have by design: the plan if memories were in its prompt, and    *)
(* the extraction of memories (_align_steps: "prompt-based pairing keeps   *)
(* identical steps matched regardless of thread timing").                  *)
ComparisonIsFair ==
  Reproducible /\ world["again"] = world["original"] /\ status["again"] = "completed" =>
    LET d == Diverged(calls["original"], calls["again"])
        Excused == {"learning"} \cup (IF plan.informed THEN {"plan"} ELSE {})
    IN /\ d.pairs = {}
       /\ \A i \in d.lost : calls["original"][i].line \in Excused
       /\ \A i \in d.extra : calls["again"][i].line \in Excused

(* In a plan whose subtasks run in turn a fork gives the edited text to    *)
(* the step it was meant for, and the recorded answers to those before it. *)
ForkEditsItsStep ==
  client["again"] = "fork" /\ Chain /\ whole /\ failures = 0 =>
    \A i \in DOMAIN calls["again"] : i <= step =>
      /\ calls["again"][i].line = calls["original"][i].line
      /\ calls["again"][i].answer = IF i = step THEN Edited ELSE calls["original"][i].answer

(* The model column, and so the cost, tells what was served from the       *)
(* recording: a strict replay that no human resumed costs nothing, waits   *)
(* for no provider and leaves no memories, and of a fork no more rows are  *)
(* free than there are records.                                            *)
NoSpendOffTheRecord ==
  /\ Strict => Total(calls["again"]) = 0 /\ asked["again"] = {} /\ ~learned["again"]
  /\ Len(calls["again"]) - Total(calls["again"]) <= Cardinality(consumed)
  /\ client["again"] = "fork" => ~learned["again"]

(* replay.py:10-12 "recorded calls strictly before step k replay as-is,    *)
(* step k's response is replaced with the human-provided text": the text   *)
(* goes to the call that has step k's prompt, if the fork makes that call. *)
EditGoesToItsStep ==
  \A i \in DOMAIN calls["again"] :
     calls["again"][i].model = "replay:modified" =>
       calls["again"][i].line = calls["original"][step].line
=============================================================================
