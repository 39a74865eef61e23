--------------------------- MODULE SpecialistLoop ---------------------------
(***************************************************************************)
(* What a specialist does inside one execute branch of the task graph      *)
(* (agents/specialists/base.py): turns of a tool loop, the gate before     *)
(* every sensitive call (graph/builder.py, tool_gate), the registry that   *)
(* checks, runs and logs each call in a thread of its own                  *)
(* (tools/registry.py), the reviewer's verdict (agents/reviewer.py), and   *)
(* the RAG tools that join the registry while other runs use it            *)
(* (tools/defaults.py).                                                    *)
(*                                                                         *)
(* A gate that has no decision yet leaves the node by an interrupt.  When  *)
(* the run is resumed the node starts again from its first turn, and       *)
(* LangGraph hands the decisions to the gates by their position in this    *)
(* pass: the model may answer differently this time, and so may a tool.    *)
(***************************************************************************)
EXTENDS Integers, Sequences, FiniteSets, SequencesExt, FiniteSetsExt

CONSTANTS
  Branch,     \* the subtasks of the wave
  Tool,       \* names a model may ask for
  Local,      \* the tools registered from the start
  Rag,        \* the tools the policy admits from the MCP server
  Owned,      \* the tools of this specialist
  Limit,      \* rate_limit of each tool: executions per task
  Replies,    \* what the model may reply in each turn of a branch: sequences of calls
  Budget,     \* max_tool_iterations
  Levels,     \* levels configured for sensitive operations
  Rewrites,   \* arguments a reviewer may put in place of the model's
  Run,        \* other runs of the process that start meanwhile
  MaxLost     \* bound: records the invocation store fails to take

Arg == {"get", "post", "bad"}   \* "bad" fails the tool's schema
Call == [tool : Tool, arg : Arg]
Decisions == {"approve", "modify", "answer"}   \* "answer": rejected or taken over

(* Who let a call pass: nobody yet, a notification, or a decision (its     *)
(* number).                                                                *)
Unasked == 0
Notified == -1

ASSUME ToolsAssumption ==
  /\ Local \subseteq Tool /\ Rag \subseteq Tool /\ Local \cap Rag = {} /\ Owned \subseteq Tool
  /\ Limit \in [Tool -> Nat]
(* Only the local tools have an argument that makes a call sensitive.      *)
ASSUME RepliesAssumption ==
  /\ Replies \in [Branch -> [0..Budget - 1 -> SUBSET Seq(Call)]]
  /\ \A b \in Branch, n \in 0..Budget - 1 : \A r \in Replies[b][n] :
       \A i \in DOMAIN r : r[i].arg = "post" => r[i].tool \in Local
(* A wave has finitely many branches, and replies have a longest one.      *)
ASSUME FiniteAssumption ==
  /\ IsFiniteSet(Branch)
  /\ \A b \in Branch : IsFiniteSet({Len(r) : r \in UNION {Replies[b][n] : n \in 0..Budget - 1}})
ASSUME BoundsAssumption ==
  /\ Budget \in Nat \ {0} /\ MaxLost \in Nat
  /\ Levels \subseteq {"notify", "approve"} /\ Rewrites \subseteq Arg

VARIABLES
  agent,    \* the node of each branch, in its current pass
  given,    \* the decisions LangGraph holds for each node, in the order they came
  row,      \* the approvals, by gate key
  logged,   \* executions the invocation store has counted, by tool
  known,    \* the registry's tools
  marked,   \* the registry is in _with_rag_tools
  starting, \* where the other runs are in add_rag_tools
  level,    \* the level of sensitive operations
  ghost     \* history

vars == <<agent, given, row, logged, known, marked, starting, level, ghost>>

Fresh == [pc |-> "chat", turn |-> 0, reply |-> <<>>, arg |-> <<>>, answer |-> <<>>,
          consent |-> <<>>, asked |-> 0, said |-> <<>>]

Init ==
  /\ agent = [b \in Branch |-> Fresh]
  /\ given = [b \in Branch |-> <<>>]
  /\ row = <<>>
  /\ logged = [t \in Tool |-> 0]
  /\ known = Local /\ marked = FALSE
  /\ starting = [r \in Run |-> [pc |-> "idle", specs |-> {}]]
  /\ level \in Levels
  /\ ghost = [performed |-> [t \in Tool |-> 0], lost |-> 0,
              acts |-> {}, used |-> [b \in Branch |-> <<>>], misfit |-> {},
              before |-> [b \in Branch |-> <<>>], drifted |-> {}]

At(b, pc) == agent[b].pc = pc
Runtime == <<known, marked, starting, level>>

(* The model or a tool answers otherwise than in the pass before.          *)
Drift(b, said) ==
  LET n == Len(said) old == ghost.before[b] IN
  IF n <= Len(old) /\ old[n] # said[n] THEN ghost.drifted \cup {b} ELSE ghost.drifted

-----------------------------------------------------------------------------
(* The loop.                                                               *)

(* What the provider answers: text, or the calls the model asks for.       *)
Reply(b) == Replies[b][agent[b].turn]

(* A turn of the model: final text (no calls) goes to the reviewer.        *)
Chat(b) ==
  /\ At(b, "chat") /\ agent[b].turn < Budget
  /\ \E r \in Reply(b) :
       LET said == Append(agent[b].said, r) IN
       /\ agent' = [agent EXCEPT ![b] =
            [@ EXCEPT !.pc = IF r = <<>> THEN "review" ELSE "gate", !.reply = r,
                      !.arg = [i \in DOMAIN r |-> r[i].arg], !.said = said,
                      !.answer = [i \in DOMAIN r |-> "todo"],
                      !.consent = [i \in DOMAIN r |-> Unasked]]]
       /\ ghost' = [ghost EXCEPT !.drifted = Drift(b, said)]
  /\ UNCHANGED <<given, row, logged>> /\ UNCHANGED Runtime

(* The loop is out of turns, or the provider fails: a failed attempt.      *)
GiveUp(b) ==
  /\ At(b, "chat")
  /\ agent' = [agent EXCEPT ![b].pc = "over"]
  /\ UNCHANGED <<given, row, logged, ghost>> /\ UNCHANGED Runtime

(* As api_call's POST; the policy calls none of the RAG tools sensitive, and *)
(* a call that would not validate is left to the registry.                 *)
IsSensitive(c) == c.tool \in Local /\ c.arg = "post"

UnruledFirst(b) ==
  {i \in DOMAIN agent[b].reply :
     /\ IsSensitive(agent[b].reply[i])
     /\ \A j \in DOMAIN agent[b].reply : agent[b].consent[j] = Unasked}

(* The calls of the turn that still need a ruling, and the first of them.  *)
Unruled(b) ==
  {i \in DOMAIN agent[b].reply :
     IsSensitive(agent[b].reply[i]) /\ agent[b].consent[i] = Unasked}
NextUnruled(b) == Min(Unruled(b))
Position(b, i) == Cardinality({j \in 1..i - 1 : agent[b].consent[j] # Unasked})
GateKey(b, i) == <<b, agent[b].reply[i].tool, agent[b].turn, Position(b, i)>>

(* approvals.ensure: the row of this key, whatever it was made for.        *)
Ensure(key, status, call) ==
  row' = IF key \in DOMAIN row THEN row
         ELSE [k \in DOMAIN row \cup {key} |->
                 IF k = key THEN [status |-> status, call |-> call] ELSE row[k]]

(* At the NOTIFY level the call is recorded and goes on.                   *)
NotifyGate(b) ==
  /\ At(b, "gate") /\ Unruled(b) # {} /\ level = "notify"
  /\ LET i == NextUnruled(b) IN
     /\ Ensure(GateKey(b, i), "notified", agent[b].reply[i])
     /\ agent' = [agent EXCEPT ![b].consent[i] = Notified]
  /\ UNCHANGED <<given, logged, ghost>> /\ UNCHANGED Runtime

(* No decision is left for this gate: the run pauses here.                 *)
AskGate(b) ==
  /\ At(b, "gate") /\ Unruled(b) # {} /\ level # "notify"
  /\ agent[b].asked = Len(given[b])
  /\ LET i == NextUnruled(b) IN
     /\ Ensure(GateKey(b, i), "pending", agent[b].reply[i])
     /\ agent' = [agent EXCEPT ![b].pc = "paused"]
     /\ ghost' = [ghost EXCEPT !.before[b] = agent[b].said]
  /\ UNCHANGED <<given, logged>> /\ UNCHANGED Runtime

(* The next decision is taken, for whichever call is at the gate.          *)
TakeDecision(b) ==
  /\ At(b, "gate") /\ Unruled(b) # {} /\ level # "notify"
  /\ agent[b].asked < Len(given[b])
  /\ LET i == NextUnruled(b)
         p == agent[b]
         k == p.asked + 1
         d == given[b][k]
         c == p.reply[i]
     IN
     /\ Ensure(GateKey(b, i), "pending", c)
     /\ agent' = [agent EXCEPT ![b] =
          [p EXCEPT !.asked = k, !.consent[i] = k,
                    !.arg[i] = IF d.action = "modify" THEN d.arg ELSE p.arg[i],
                    !.answer[i] = IF d.action = "answer" THEN "human" ELSE p.answer[i]]]
     /\ ghost' = [ghost EXCEPT
          !.misfit = IF d.key = GateKey(b, i) /\ row[d.key].call = c THEN @ ELSE @ \cup {b}]
  /\ UNCHANGED <<given, logged>> /\ UNCHANGED Runtime

(* Every sensitive call is ruled on: the others start.                     *)
StartCalls(b) ==
  /\ At(b, "gate") /\ Unruled(b) = {}
  /\ agent' = [agent EXCEPT ![b].pc = "run"]
  /\ UNCHANGED <<given, row, logged, ghost>> /\ UNCHANGED Runtime

-----------------------------------------------------------------------------
(* The registry: each call of the turn in a thread of its own.             *)

Answer(b, i, a) == agent' = [agent EXCEPT ![b].answer[i] = a]
ThreadEager(b, i, a) ==
  /\ agent[b].pc \in {"gate", "run"} /\ i \in DOMAIN agent[b].reply /\ agent[b].answer[i] = a
  /\ IsSensitive(agent[b].reply[i]) => agent[b].consent[i] # Unasked
Thread(b, i, a) == At(b, "run") /\ i \in DOMAIN agent[b].reply /\ agent[b].answer[i] = a

(* Who may call, and how often: counted before the call, logged after it.  *)
Refusal(b, i) ==
  LET t == agent[b].reply[i].tool IN
  IF t \notin known \/ t \notin Owned THEN "rejected"
  ELSE IF logged[t] >= Limit[t] THEN "rate_limited"
  ELSE "none"

Refuse(b, i) ==
  /\ Thread(b, i, "todo") /\ Refusal(b, i) # "none"
  /\ Answer(b, i, Refusal(b, i))
  /\ UNCHANGED <<given, row, logged, ghost>> /\ UNCHANGED Runtime

Admit(b, i) ==
  /\ Thread(b, i, "todo") /\ Refusal(b, i) = "none"
  /\ Answer(b, i, IF agent[b].arg[i] = "bad" THEN "invalid" ELSE "admitted")
  /\ UNCHANGED <<given, row, logged, ghost>> /\ UNCHANGED Runtime

(* The handler has its effect, whether or not it fails afterwards.         *)
Perform(b, i) ==
  /\ Thread(b, i, "admitted")
  /\ LET t == agent[b].reply[i].tool
         k == agent[b].consent[i]
         by == IF k > 0 THEN given[b][k].action ELSE IF k = Notified THEN "notify" ELSE "none"
     IN
     ghost' = [ghost EXCEPT
       !.performed[t] = @ + 1,
       !.acts = @ \cup {[arg |-> agent[b].arg[i], by |-> by]},
       !.used[b] = IF k > 0 THEN [@ EXCEPT ![k] = ghost.used[b][k] + 1] ELSE @]
  /\ Answer(b, i, "performed")
  /\ UNCHANGED <<given, row, logged>> /\ UNCHANGED Runtime

LogOnlyFailures(b, i) ==
  /\ \/ Thread(b, i, "performed") /\ Answer(b, i, "returned") /\ UNCHANGED logged
     \/ /\ Thread(b, i, "invalid") /\ Answer(b, i, "failure")
        /\ logged' = [logged EXCEPT ![agent[b].reply[i].tool] = @ + 1]
  /\ UNCHANGED <<given, row, ghost>> /\ UNCHANGED Runtime

(* The execution is logged, a success or a failure, and so is a call whose *)
(* arguments are invalid.                                                  *)
Log(b, i) ==
  /\ \/ Thread(b, i, "performed") /\ Answer(b, i, "returned")
     \/ Thread(b, i, "invalid") /\ Answer(b, i, "failure")
  /\ logged' = [logged EXCEPT ![agent[b].reply[i].tool] = @ + 1]
  /\ UNCHANGED <<given, row, ghost>> /\ UNCHANGED Runtime

(* The invocation store raises, on counting or on logging: not an error    *)
(* the model gets to see.                                                  *)
StoreFails(b, i) ==
  /\ ghost.lost < MaxLost
  /\ \/ Thread(b, i, "todo") /\ UNCHANGED ghost
     \/ Thread(b, i, "performed") /\ ghost' = [ghost EXCEPT !.lost = @ + 1]
  /\ Answer(b, i, "raised")
  /\ UNCHANGED <<given, row, logged>> /\ UNCHANGED Runtime

Unfinished == {"todo", "admitted", "invalid", "performed"}

(* All calls have an answer; the turn ends, or the attempt if one raised.  *)
EndTurn(b) ==
  /\ At(b, "run")
  /\ \A i \in DOMAIN agent[b].reply : agent[b].answer[i] \notin Unfinished
  /\ IF \E i \in DOMAIN agent[b].reply : agent[b].answer[i] = "raised"
     THEN /\ agent' = [agent EXCEPT ![b].pc = "over"]
          /\ UNCHANGED ghost
     ELSE LET said == Append(agent[b].said, agent[b].answer) IN
          /\ agent' = [agent EXCEPT ![b].pc = "chat", ![b].turn = @ + 1, ![b].said = said]
          /\ ghost' = [ghost EXCEPT !.drifted = Drift(b, said)]
  /\ UNCHANGED <<given, row, logged>> /\ UNCHANGED Runtime

-----------------------------------------------------------------------------
(* The review.                                                             *)

(* A score on either side of the threshold; or one that does not parse.    *)
Verdict == {"completed", "rework", "invalid"}

(* A verdict that does not parse is asked for once more.                   *)
Review(b) ==
  /\ agent[b].pc \in {"review", "review_again"}
  /\ \E v \in Verdict :
       agent' = [agent EXCEPT ![b] =
         [@ EXCEPT !.pc = IF v = "invalid" /\ At(b, "review") THEN "review_again" ELSE "over"]]
  /\ UNCHANGED <<given, row, logged, ghost>> /\ UNCHANGED Runtime

-----------------------------------------------------------------------------
(* The human, and the run that resumes.                                    *)

Paused == {b \in Branch : At(b, "paused")}
Quiet == \A b \in Branch : agent[b].pc \in {"paused", "over"}

HandedFirst(list, d) == <<d>> \o list
HandedNothing(list, d) == list

(* LangGraph keeps the resume values of a node in the order they came.     *)
Handed(list, d) == Append(list, d)

(* A pending approval is resolved and the run resumed.  The decision goes  *)
(* to the node that is paused, whichever approval it was; with two nodes   *)
(* paused LangGraph refuses it and the runner fails the task.              *)
Resolve(key) ==
  /\ Quiet /\ Paused # {} /\ row[key].status = "pending"
  /\ row' = [row EXCEPT ![key].status = "resolved"]
  /\ IF Cardinality(Paused) > 1
     THEN /\ agent' = [b \in Branch |-> IF b \in Paused
                                       THEN [agent[b] EXCEPT !.pc = "over"]
                                       ELSE agent[b]]
          /\ UNCHANGED <<given, ghost>>
     ELSE \E b \in Paused, action \in Decisions, arg \in Rewrites :
          /\ given' = [given EXCEPT ![b] = Handed(@, [action |-> action, arg |-> arg, key |-> key])]
          /\ agent' = [agent EXCEPT ![b] = Fresh]
          /\ ghost' = [ghost EXCEPT !.used[b] = Append(@, 0)]
  /\ UNCHANGED logged /\ UNCHANGED Runtime

-----------------------------------------------------------------------------
(* The RAG tools.                                                          *)

(* The server is down, or offers some tools, of which only those the       *)
(* policy names are taken.                                                 *)
Discovered == {offered \cap Rag : offered \in SUBSET (Tool \ Local)}

(* Discovery awaits, so it runs outside the lock.                          *)
Discover(r) ==
  /\ starting[r].pc = "idle"
  /\ \/ ~marked /\ \E specs \in Discovered :
                     starting' = [starting EXCEPT ![r] = [pc |-> "found", specs |-> specs]]
     \/ starting' = [starting EXCEPT ![r].pc = "ready"]
  /\ UNCHANGED <<agent, given, row, logged, known, marked, level, ghost>>

(* ToolRegistry.register for each: a name it has raises and fails the run. *)
Add(r) ==
  LET specs == starting[r].specs IN
  IF specs \cap known # {}
  THEN UNCHANGED <<known, marked>> /\ starting' = [starting EXCEPT ![r].pc = "raised"]
  ELSE known' = known \cup specs /\ marked' = TRUE /\ starting' = [starting EXCEPT ![r].pc = "ready"]

RegisterUnchecked(r) ==
  /\ starting[r].pc = "found" /\ Add(r)
  /\ UNCHANGED <<agent, given, row, logged, level, ghost>>

(* Registration, under the lock.                                           *)
Register(r) ==
  /\ starting[r].pc = "found"
  /\ \/ marked /\ UNCHANGED <<known, marked>> /\ starting' = [starting EXCEPT ![r].pc = "ready"]
     \/ ~marked /\ Add(r)
  /\ UNCHANGED <<agent, given, row, logged, level, ghost>>

-----------------------------------------------------------------------------

Loop(b) ==
  \/ Chat(b) \/ NotifyGate(b) \/ AskGate(b) \/ TakeDecision(b) \/ StartCalls(b)
  \/ \E i \in DOMAIN agent[b].reply : Refuse(b, i) \/ Admit(b, i) \/ Perform(b, i) \/ Log(b, i)
  \/ EndTurn(b) \/ Review(b)

(* Nothing runs, and no approval that is pending would be accepted.        *)
Stopped ==
  /\ Quiet /\ (Paused = {} \/ \A key \in DOMAIN row : row[key].status # "pending")
  /\ UNCHANGED vars

Next ==
  \/ \E b \in Branch : Loop(b) \/ GiveUp(b) \/ \E i \in DOMAIN agent[b].reply : StoreFails(b, i)
  \/ \E key \in DOMAIN row : Resolve(key)
  \/ \E r \in Run : Discover(r) \/ Register(r)
  \/ Stopped

Spec == Init /\ [][Next]_vars

(* The event loop runs the nodes on and the reviewer answers what is asked. *)
FairSpec ==
  /\ Spec
  /\ \A b \in Branch : WF_vars(Loop(b) \/ GiveUp(b))
  /\ WF_vars(\E key \in DOMAIN row : Resolve(key))

-----------------------------------------------------------------------------
(* Properties.                                                             *)

(* A call with sensitive arguments runs only when a human approved it,     *)
(* rewrote it, or was told of it at the NOTIFY level: also for the later   *)
(* calls of a turn and in every later pass (base.py: "The gate rules on    *)
(* every sensitive call before anything of this turn runs").               *)
SensitiveOnlyWithConsent ==
  \A act \in ghost.acts : act.arg = "post" => act.by \in {"approve", "modify", "notify"}

(* The threads that can be between the count and the log for tool t: of    *)
(* every branch, those of the reply that has most calls of it.             *)
Replied(b) == UNION {Replies[b][n] : n \in 0..Budget - 1}
CallsOf(t, r) == {i \in DOMAIN r : r[i].tool = t}
Most(b, t) == Max({0} \cup {Cardinality(CallsOf(t, r)) : r \in Replied(b)})
Slots(t) == UNION {{b} \X (1..Most(b, t)) : b \in Branch}
Parallel(t) == Cardinality(Slots(t))

(* The rate limit is overrun by the threads that counted at the same time  *)
(* and by executions whose record was lost, and by nothing else: not by a  *)
(* resumed pass, which runs the turns before its gate again.               *)
OverrunIsBounded ==
  \A t \in Tool :
    ghost.performed[t] <= Max({0, Limit[t] - 1 + Parallel(t)}) + ghost.lost

(* A resumed run "consults the gate in the same order, so it finds the     *)
(* same approvals again" (builder.py): as long as the passes of a node go  *)
(* the same way, a decision is applied to the call it was made for, and    *)
(* a node that is paused has an approval somebody can still resolve.       *)
GatesKeepTheirRows ==
  /\ ghost.misfit \subseteq ghost.drifted
  /\ \A b \in Branch \ ghost.drifted :
       At(b, "paused") => row[GateKey(b, NextUnruled(b))].status = "pending"

(* The calls of one decision: the first, and one more for every pass that  *)
(* a gate of a later turn added.  Two gates of one turn do not repeat      *)
(* each other's calls.                                                     *)
RepeatsAreAccounted ==
  \A b \in Branch \ ghost.drifted : \A k \in DOMAIN given[b] :
    ghost.used[b][k] <=
      1 + Cardinality({j \in k + 1..Len(given[b]) : given[b][j].key[3] > given[b][k].key[3]})

(* Runs that find the RAG tools at the same time register them once, and   *)
(* none fails for it (defaults.py: "two first runs in different threads or *)
(* loops can't both register the same tools").                             *)
DiscoveryFailsNoRun ==
  /\ \A r \in Run : starting[r].pc # "raised"
  /\ known \subseteq Local \cup Rag /\ (known # Local => marked)

(* Every attempt ends, unless its passes go different ways.                *)
LoopsEnd == <>(\A b \in Branch : At(b, "over")) \/ <>(ghost.drifted # {})
=============================================================================
