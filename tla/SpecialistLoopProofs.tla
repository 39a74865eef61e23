------------------------ MODULE SpecialistLoopProofs ------------------------
(***************************************************************************)
(* Theorems about SpecialistLoop, for any branches, tools, limits, replies *)
(* and other runs of the process.                                          *)
(***************************************************************************)
EXTENDS SpecialistLoop, TLAPS, SequenceTheorems, FiniteSetTheorems, FunctionTheorems

(* Until the first registration the registry has its local tools only, and *)
(* what a run has found are tools of the server.                           *)
DiscoveryInv ==
  /\ starting \in [Run -> [pc : {"idle", "found", "ready"}, specs : SUBSET Rag]]
  /\ known \subseteq Local \cup Rag
  /\ known # Local => marked

(* What the branches and the reviewer do leaves discovery alone.           *)
LEMMA LoopLeavesDiscovery ==
  ASSUME \/ \E b \in Branch : Loop(b) \/ GiveUp(b) \/ \E i \in DOMAIN agent[b].reply : StoreFails(b, i)
         \/ \E key \in DOMAIN row : Resolve(key)
         \/ Stopped
  PROVE  UNCHANGED Runtime
<1>1. CASE \E b \in Branch : Loop(b)
  <2> PICK b \in Branch : Loop(b)  BY <1>1
  <2>1. CASE Chat(b) \/ NotifyGate(b) \/ AskGate(b) \/ TakeDecision(b) \/ StartCalls(b)
    BY <2>1 DEF Chat, NotifyGate, AskGate, TakeDecision, StartCalls
  <2>2. CASE EndTurn(b) \/ Review(b)
    BY <2>2 DEF EndTurn, Review
  <2>3. ASSUME NEW i \in DOMAIN agent[b].reply,
               Refuse(b, i) \/ Admit(b, i) \/ Perform(b, i) \/ Log(b, i)
        PROVE  UNCHANGED Runtime
    BY <2>3 DEF Refuse, Admit, Perform, Log
  <2> QED  BY <2>1, <2>2, <2>3 DEF Loop
<1>2. CASE \E b \in Branch : GiveUp(b) \/ \E i \in DOMAIN agent[b].reply : StoreFails(b, i)
  BY <1>2 DEF GiveUp, StoreFails
<1>3. CASE \E key \in DOMAIN row : Resolve(key)
  BY <1>3 DEF Resolve
<1>4. CASE Stopped
  BY <1>4 DEF Stopped, vars, Runtime
<1> QED  BY <1>1, <1>2, <1>3, <1>4

LEMMA DiscoveryInvInit == Init => DiscoveryInv
BY DEF Init, DiscoveryInv

(* A run registers only if no other has, and then what it found is new.    *)
LEMMA DiscoveryInvNext == DiscoveryInv /\ [Next]_vars => DiscoveryInv'
<1> SUFFICES ASSUME DiscoveryInv, [Next]_vars PROVE DiscoveryInv'
  OBVIOUS
<1>1. CASE UNCHANGED Runtime
  BY <1>1 DEF DiscoveryInv, Runtime
<1>2. ASSUME NEW r \in Run, Discover(r) PROVE DiscoveryInv'
  <2>1. \A specs \in Discovered : specs \subseteq Rag
    BY DEF Discovered
  <2> QED  BY <1>2, <2>1 DEF DiscoveryInv, Discover
<1>3. ASSUME NEW r \in Run, Register(r) PROVE DiscoveryInv'
  <2>1. starting[r].specs \subseteq Rag
    BY DEF DiscoveryInv
  <2>2. CASE marked
    BY <1>3, <2>2 DEF DiscoveryInv, Register
  <2>3. CASE ~marked
    <3>1. starting[r].specs \cap known = {}
      BY <2>1, <2>3, ToolsAssumption DEF DiscoveryInv
    <3> QED  BY <1>3, <2>1, <2>3, <3>1 DEF DiscoveryInv, Register, Add
  <2> QED  BY <2>2, <2>3
<1>4. CASE UNCHANGED vars
  BY <1>1, <1>4 DEF vars, Runtime
<1> QED  BY <1>1, <1>2, <1>3, <1>4, LoopLeavesDiscovery DEF Next

(* However many runs of a process discover the RAG tools at the same time, *)
(* and whatever the server offers each of them, they are registered once   *)
(* and no run fails for it (tools/defaults.py, add_rag_tools).             *)
THEOREM DiscoveryAlways == Spec => []DiscoveryFailsNoRun
<1>1. DiscoveryInv => DiscoveryFailsNoRun
  BY DEF DiscoveryInv, DiscoveryFailsNoRun
<1> QED  BY <1>1, DiscoveryInvInit, DiscoveryInvNext, PTL DEF Spec
-----------------------------------------------------------------------------
DecisionOn(keys) == [action : Decisions, arg : Rewrites, key : keys]

(* One call of a pass, with the decisions its node holds: it has sensitive *)
(* arguments only as the model's own or since somebody rewrote it, every   *)
(* sensitive call is ruled on once the calls run, and one that a human     *)
(* answered in the tool's stead has that answer.                           *)
RuledOn(p, i, decided) ==
  /\ p.consent[i] \in 0..Len(decided) \cup {Notified}
  /\ p.arg[i] = "post" => IsSensitive(p.reply[i]) \/ p.consent[i] # Unasked
  /\ p.pc = "run" /\ IsSensitive(p.reply[i]) => p.consent[i] # Unasked
  /\ p.consent[i] > 0 /\ decided[p.consent[i]].action = "answer" => p.answer[i] = "human"

PassInv(p, decided) ==
  /\ DOMAIN p = DOMAIN Fresh
  /\ p.turn \in Nat /\ p.asked \in Nat
  /\ DOMAIN p.arg = DOMAIN p.reply /\ DOMAIN p.answer = DOMAIN p.reply
  /\ DOMAIN p.consent = DOMAIN p.reply
  /\ \A i \in DOMAIN p.reply : RuledOn(p, i, decided)

ConsentInv ==
  /\ DOMAIN agent = Branch
  /\ given \in [Branch -> Seq(DecisionOn(DOMAIN row))]
  /\ \A b \in Branch : PassInv(agent[b], given[b])
  /\ DOMAIN ghost = {"performed", "lost", "acts", "used", "misfit", "before", "drifted"}
  /\ SensitiveOnlyWithConsent

LEMMA ConsentInvInit == Init => ConsentInv
<1> SUFFICES ASSUME Init PROVE ConsentInv
  OBVIOUS
<1>1. given \in [Branch -> Seq(DecisionOn(DOMAIN row))]
  BY EmptySeq DEF Init
<1>2. \A b \in Branch : PassInv(agent[b], given[b])
  BY DEF Init, PassInv, RuledOn, Fresh
<1> QED  BY <1>1, <1>2 DEF Init, ConsentInv, SensitiveOnlyWithConsent

(* A step of one node that takes nothing from the decisions it holds.      *)
LEMMA PassStep ==
  ASSUME ConsentInv, NEW b \in Branch, NEW q, agent' = [agent EXCEPT ![b] = q],
         UNCHANGED given, DOMAIN row \subseteq DOMAIN row',
         PassInv(q, given[b]), DOMAIN ghost' = DOMAIN ghost, SensitiveOnlyWithConsent'
  PROVE  ConsentInv'
<1>1. given' \in [Branch -> Seq(DecisionOn(DOMAIN row'))]
  <2>1. DecisionOn(DOMAIN row) \subseteq DecisionOn(DOMAIN row')
    BY DEF DecisionOn
  <2>2. \A a \in Branch : given[a] \in Seq(DecisionOn(DOMAIN row'))
    BY <2>1, SeqMonotonic DEF ConsentInv
  <2> QED  BY <2>2 DEF ConsentInv
<1>2. \A a \in Branch : agent'[a] = IF a = b THEN q ELSE agent[a]
  BY DEF ConsentInv
<1>3. \A a \in Branch : PassInv(agent'[a], given'[a])
  BY <1>2 DEF ConsentInv
<1> QED  BY <1>1, <1>3 DEF ConsentInv, SensitiveOnlyWithConsent

(* The model's turn: its calls are new, and nobody has ruled on them.      *)
LEMMA ConsentChat == ASSUME ConsentInv, NEW b \in Branch, Chat(b) PROVE ConsentInv'
<1> PICK r \in Reply(b) :
      agent' = [agent EXCEPT ![b] =
        [@ EXCEPT !.pc = IF r = <<>> THEN "review" ELSE "gate", !.reply = r,
                  !.arg = [i \in DOMAIN r |-> r[i].arg],
                  !.said = Append(agent[b].said, r),
                  !.answer = [i \in DOMAIN r |-> "todo"],
                  !.consent = [i \in DOMAIN r |-> Unasked]]]
  BY DEF Chat
<1> DEFINE q == agent'[b]
<1>1. q = [agent[b] EXCEPT !.pc = IF r = <<>> THEN "review" ELSE "gate", !.reply = r,
                  !.arg = [i \in DOMAIN r |-> r[i].arg],
                  !.said = Append(agent[b].said, r),
                  !.answer = [i \in DOMAIN r |-> "todo"],
                  !.consent = [i \in DOMAIN r |-> Unasked]]
  BY DEF ConsentInv
<1>2. /\ DOMAIN q = DOMAIN agent[b] /\ q.turn = agent[b].turn /\ q.asked = agent[b].asked
      /\ q.pc # "run" /\ q.reply = r /\ q.arg = [i \in DOMAIN r |-> r[i].arg]
      /\ q.answer = [i \in DOMAIN r |-> "todo"] /\ q.consent = [i \in DOMAIN r |-> Unasked]
  BY <1>1 DEF ConsentInv, PassInv, Fresh
<1>3. \A i \in DOMAIN r : r[i].arg = "post" => r[i].tool \in Local
  <2>1. agent[b].turn \in 0..Budget - 1
    BY BoundsAssumption DEF Chat, ConsentInv, PassInv
  <2> QED  BY <2>1, RepliesAssumption DEF Reply
<1>4. \A i \in DOMAIN r : RuledOn(q, i, given[b])
  <2>1. Len(given[b]) \in Nat
    BY DEF ConsentInv
  <2> QED  BY <1>2, <1>3, <2>1 DEF RuledOn, IsSensitive, Unasked, Notified
<1>5. PassInv(q, given[b])
  BY <1>2, <1>4 DEF ConsentInv, PassInv
<1>6. SensitiveOnlyWithConsent' /\ DOMAIN ghost' = DOMAIN ghost
  BY DEF Chat, ConsentInv, SensitiveOnlyWithConsent
<1>7. agent' = [agent EXCEPT ![b] = q] /\ UNCHANGED <<given, row>>
  BY <1>1 DEF Chat
<1> QED  BY <1>5, <1>6, <1>7, PassStep

(* A node moves on without a word about its calls, and not into the run.   *)
LEMMA PassMoves ==
  ASSUME NEW p, NEW decided, PassInv(p, decided),
         NEW q, DOMAIN q = DOMAIN p, q.turn \in Nat, q.asked \in Nat,
         q.reply = p.reply, q.arg = p.arg, q.answer = p.answer, q.consent = p.consent,
         q.pc # "run" \/ \A i \in DOMAIN p.reply : IsSensitive(p.reply[i]) => p.consent[i] # Unasked
  PROVE  PassInv(q, decided)
BY DEF PassInv, RuledOn

LEMMA ConsentMoves ==
  ASSUME ConsentInv, NEW b \in Branch, AskGate(b) \/ StartCalls(b) \/ EndTurn(b) \/ Review(b) \/ GiveUp(b)
  PROVE  ConsentInv'
<1> DEFINE q == agent'[b]
<1>1. /\ agent' = [agent EXCEPT ![b] = q] /\ DOMAIN q = DOMAIN agent[b]
      /\ q.turn \in Nat /\ q.asked \in Nat
      /\ q.reply = agent[b].reply /\ q.arg = agent[b].arg
      /\ q.answer = agent[b].answer /\ q.consent = agent[b].consent
  <2>1. CASE AskGate(b)
    BY <2>1 DEF AskGate, ConsentInv, PassInv, Fresh
  <2>2. CASE StartCalls(b)
    BY <2>2 DEF StartCalls, ConsentInv, PassInv, Fresh
  <2>3. CASE EndTurn(b)
    BY <2>3 DEF EndTurn, ConsentInv, PassInv, Fresh
  <2>4. CASE Review(b)
    BY <2>4 DEF Review, ConsentInv, PassInv, Fresh
  <2>5. CASE GiveUp(b)
    BY <2>5 DEF GiveUp, ConsentInv, PassInv, Fresh
  <2> QED  BY <2>1, <2>2, <2>3, <2>4, <2>5
<1>2. q.pc # "run" \/ \A i \in DOMAIN agent[b].reply :
                         IsSensitive(agent[b].reply[i]) => agent[b].consent[i] # Unasked
  <2>1. CASE StartCalls(b)
    BY <2>1 DEF StartCalls, Unruled
  <2>2. CASE AskGate(b) \/ EndTurn(b) \/ Review(b) \/ GiveUp(b)
    BY <2>2 DEF AskGate, EndTurn, Review, GiveUp, ConsentInv, PassInv, Fresh
  <2> QED  BY <2>1, <2>2
<1>3. UNCHANGED given /\ DOMAIN row \subseteq DOMAIN row'
  BY DEF AskGate, StartCalls, EndTurn, Review, GiveUp, Ensure
<1>4. SensitiveOnlyWithConsent' /\ DOMAIN ghost' = DOMAIN ghost
  BY DEF AskGate, StartCalls, EndTurn, Review, GiveUp, ConsentInv, SensitiveOnlyWithConsent
<1>5. PassInv(q, given[b])
  BY <1>1, <1>2, PassMoves DEF ConsentInv
<1> QED  BY <1>1, <1>3, <1>4, <1>5, PassStep

(* At the NOTIFY level a call that is told of has had its ruling.          *)
LEMMA ConsentNotify == ASSUME ConsentInv, NEW b \in Branch, NotifyGate(b) PROVE ConsentInv'
<1> DEFINE i == NextUnruled(b)
           p == agent[b]
           q == agent'[b]
<1>1. /\ agent' = [agent EXCEPT ![b] = q]
      /\ DOMAIN q = DOMAIN p /\ q.turn = p.turn /\ q.asked = p.asked /\ q.pc = "gate"
      /\ q.reply = p.reply /\ q.arg = p.arg /\ q.answer = p.answer
      /\ q.consent = [p.consent EXCEPT ![i] = Notified]
  BY DEF NotifyGate, At, ConsentInv, PassInv, Fresh
<1>2. \A j \in DOMAIN p.reply : RuledOn(q, j, given[b])
  <2> SUFFICES ASSUME NEW j \in DOMAIN p.reply PROVE RuledOn(q, j, given[b])
    OBVIOUS
  <2>1. RuledOn(p, j, given[b]) /\ DOMAIN p.consent = DOMAIN p.reply
    BY DEF ConsentInv, PassInv
  <2>2. CASE j = i
    BY <1>1, <2>1, <2>2 DEF RuledOn, Notified, Unasked
  <2>3. CASE j # i
    BY <1>1, <2>1, <2>3 DEF RuledOn
  <2> QED  BY <2>2, <2>3
<1>3. PassInv(q, given[b])
  BY <1>1, <1>2 DEF ConsentInv, PassInv
<1>4. UNCHANGED <<given, ghost>> /\ DOMAIN row \subseteq DOMAIN row'
  BY DEF NotifyGate, Ensure
<1>5. SensitiveOnlyWithConsent' /\ DOMAIN ghost' = DOMAIN ghost
  BY <1>4 DEF ConsentInv, SensitiveOnlyWithConsent
<1> QED  BY <1>1, <1>3, <1>4, <1>5, PassStep

(* A decision is taken with its number, and what is rewritten with it has  *)
(* that decision behind it.                                                *)
LEMMA ConsentDecision == ASSUME ConsentInv, NEW b \in Branch, TakeDecision(b) PROVE ConsentInv'
<1> DEFINE i == NextUnruled(b)
           p == agent[b]
           q == agent'[b]
           k == p.asked + 1
           d == given[b][k]
<1>1. /\ agent' = [agent EXCEPT ![b] = q]
      /\ DOMAIN q = DOMAIN p /\ q.turn = p.turn /\ q.asked = k /\ q.pc = "gate"
      /\ q.reply = p.reply
      /\ q.consent = [p.consent EXCEPT ![i] = k]
      /\ q.arg = [p.arg EXCEPT ![i] = IF d.action = "modify" THEN d.arg ELSE p.arg[i]]
      /\ q.answer = [p.answer EXCEPT ![i] = IF d.action = "answer" THEN "human" ELSE p.answer[i]]
  <2> DEFINE e == [p EXCEPT !.asked = k, !.consent[i] = k,
                            !.arg[i] = IF d.action = "modify" THEN d.arg ELSE p.arg[i],
                            !.answer[i] = IF d.action = "answer" THEN "human" ELSE p.answer[i]]
  <2>1. agent' = [agent EXCEPT ![b] = e]
    BY DEF TakeDecision
  <2>2. q = e
    BY <2>1 DEF ConsentInv
  <2>3. p.pc = "gate" /\ DOMAIN p = DOMAIN Fresh
    BY DEF TakeDecision, At, ConsentInv, PassInv
  <2>4. /\ DOMAIN e = DOMAIN p /\ e.turn = p.turn /\ e.asked = k /\ e.pc = p.pc /\ e.reply = p.reply
        /\ e.consent = [p.consent EXCEPT ![i] = k]
    BY <2>3 DEF Fresh
  <2>5. e.arg = [p.arg EXCEPT ![i] = IF d.action = "modify" THEN d.arg ELSE p.arg[i]]
    BY <2>3 DEF Fresh
  <2>6. e.answer = [p.answer EXCEPT ![i] = IF d.action = "answer" THEN "human" ELSE p.answer[i]]
    BY <2>3 DEF Fresh
  <2> QED  BY <2>1, <2>2, <2>3, <2>4, <2>5, <2>6
<1>2. k \in 1..Len(given[b])
  <2>1. Len(given[b]) \in Nat /\ p.asked \in Nat
    BY DEF ConsentInv, PassInv
  <2> QED  BY <2>1 DEF TakeDecision
<1>3. \A j \in DOMAIN p.reply : RuledOn(q, j, given[b])
  <2> SUFFICES ASSUME NEW j \in DOMAIN p.reply PROVE RuledOn(q, j, given[b])
    OBVIOUS
  <2>1. RuledOn(p, j, given[b]) /\ DOMAIN p.consent = DOMAIN p.reply
        /\ DOMAIN p.arg = DOMAIN p.reply /\ DOMAIN p.answer = DOMAIN p.reply
    BY DEF ConsentInv, PassInv
  <2>2. CASE j = i
    <3>1. q.consent[j] = k /\ (d.action = "answer" => q.answer[j] = "human")
      BY <1>1, <2>1, <2>2
    <3> QED  BY <1>1, <1>2, <3>1 DEF RuledOn, Unasked
  <2>3. CASE j # i
    <3>1. q.consent[j] = p.consent[j] /\ q.arg[j] = p.arg[j] /\ q.answer[j] = p.answer[j]
      BY <1>1, <2>1, <2>3
    <3> QED  BY <1>1, <2>1, <3>1 DEF RuledOn
  <2> QED  BY <2>2, <2>3
<1>4. PassInv(q, given[b])
  BY <1>1, <1>2, <1>3 DEF ConsentInv, PassInv
<1>5. UNCHANGED given /\ DOMAIN row \subseteq DOMAIN row'
  BY DEF TakeDecision, Ensure
<1>6. SensitiveOnlyWithConsent' /\ DOMAIN ghost' = DOMAIN ghost
  BY DEF TakeDecision, ConsentInv, SensitiveOnlyWithConsent
<1> QED  BY <1>1, <1>4, <1>5, <1>6, PassStep

(* A call that gets an answer from the registry had none from a human.     *)
LEMMA PassAnswers ==
  ASSUME ConsentInv, NEW b \in Branch, NEW i, NEW a, Answer(b, i, a),
         agent[b].answer[i] # "human"
  PROVE  /\ agent' = [agent EXCEPT ![b] = agent'[b]]
         /\ PassInv(agent'[b], given[b])
<1> DEFINE p == agent[b]
           q == agent'[b]
<1>1. /\ agent' = [agent EXCEPT ![b] = q]
      /\ DOMAIN q = DOMAIN p /\ q.turn = p.turn /\ q.asked = p.asked /\ q.pc = p.pc
      /\ q.reply = p.reply /\ q.arg = p.arg /\ q.consent = p.consent
      /\ q.answer = [p.answer EXCEPT ![i] = a]
  BY DEF Answer, ConsentInv, PassInv, Fresh
<1>2. \A j \in DOMAIN p.reply : RuledOn(q, j, given[b])
  <2> SUFFICES ASSUME NEW j \in DOMAIN p.reply PROVE RuledOn(q, j, given[b])
    OBVIOUS
  <2>1. RuledOn(p, j, given[b]) /\ DOMAIN p.answer = DOMAIN p.reply
    BY DEF ConsentInv, PassInv
  <2>2. p.answer[j] = "human" => q.answer[j] = "human"
    BY <1>1, <2>1
  <2> QED  BY <1>1, <2>1, <2>2 DEF RuledOn
<1> QED  BY <1>1, <1>2 DEF ConsentInv, PassInv

LEMMA ConsentAnswers ==
  ASSUME ConsentInv, NEW b \in Branch, NEW i,
         Refuse(b, i) \/ Admit(b, i) \/ Log(b, i) \/ StoreFails(b, i)
  PROVE  ConsentInv'
<1>1. \E a : Answer(b, i, a) /\ agent[b].answer[i] # "human"
  BY DEF Refuse, Admit, Log, StoreFails, Thread
<1>2. UNCHANGED <<given, row>>
  BY DEF Refuse, Admit, Log, StoreFails
<1>3. SensitiveOnlyWithConsent' /\ DOMAIN ghost' = DOMAIN ghost
  BY DEF Refuse, Admit, Log, StoreFails, ConsentInv, SensitiveOnlyWithConsent
<1> QED  BY <1>1, <1>2, <1>3, PassAnswers, PassStep

(* What runs with sensitive arguments was ruled on, and not answered by a  *)
(* human instead.                                                          *)
LEMMA ConsentPerform ==
  ASSUME ConsentInv, NEW b \in Branch, NEW i, Perform(b, i) PROVE ConsentInv'
<1> DEFINE k == agent[b].consent[i]
           by == IF k > 0 THEN given[b][k].action ELSE IF k = Notified THEN "notify" ELSE "none"
<1>1. Answer(b, i, "performed") /\ agent[b].answer[i] # "human" /\ UNCHANGED <<given, row>>
  BY DEF Perform, Thread
<1>2. RuledOn(agent[b], i, given[b]) /\ At(b, "run") /\ agent[b].answer[i] = "admitted"
  BY DEF Perform, Thread, ConsentInv, PassInv
<1>3. agent[b].arg[i] = "post" => by \in {"approve", "modify", "notify"}
  <2> SUFFICES ASSUME agent[b].arg[i] = "post" PROVE by \in {"approve", "modify", "notify"}
    OBVIOUS
  <2>1. k # Unasked
    BY <1>2 DEF RuledOn, At
  <2>2. CASE k = Notified
    BY <2>2 DEF Notified
  <2>3. CASE k \in 1..Len(given[b])
    <3>1. given[b][k] \in DecisionOn(DOMAIN row)
      BY <2>3, ElementOfSeq DEF ConsentInv
    <3>2. given[b][k].action \in Decisions /\ given[b][k].action # "answer"
      BY <1>2, <2>3, <3>1 DEF RuledOn, DecisionOn
    <3> QED  BY <2>3, <3>2 DEF Decisions
  <2>4. Len(given[b]) \in Nat
    BY DEF ConsentInv
  <2> QED  BY <1>2, <2>1, <2>2, <2>3, <2>4 DEF RuledOn, Unasked
<1>4. /\ DOMAIN ghost' = DOMAIN ghost
      /\ ghost'.acts = ghost.acts \cup {[arg |-> agent[b].arg[i], by |-> by]}
  BY DEF Perform, ConsentInv
<1>5. SensitiveOnlyWithConsent'
  BY <1>3, <1>4 DEF ConsentInv, SensitiveOnlyWithConsent
<1> QED  BY <1>1, <1>4, <1>5, PassAnswers, PassStep

(* The decision goes to the end of what its node holds, and the node       *)
(* starts over; nodes that LangGraph refuses to resume are over.           *)
LEMMA ConsentResolve ==
  ASSUME ConsentInv, NEW key \in DOMAIN row, Resolve(key) PROVE ConsentInv'
<1>1. DOMAIN row' = DOMAIN row
  BY DEF Resolve
<1>2. CASE Cardinality(Paused) > 1
  <2>1. /\ agent' = [b \in Branch |-> IF b \in Paused THEN [agent[b] EXCEPT !.pc = "over"] ELSE agent[b]]
        /\ UNCHANGED <<given, ghost>>
    BY <1>2 DEF Resolve
  <2>2. \A b \in Branch : PassInv(agent'[b], given[b])
    <3> SUFFICES ASSUME NEW b \in Branch PROVE PassInv(agent'[b], given[b])
      OBVIOUS
    <3>1. CASE b \notin Paused
      BY <2>1, <3>1 DEF ConsentInv
    <3>2. CASE b \in Paused
      <4>1. agent'[b] = [agent[b] EXCEPT !.pc = "over"] /\ PassInv(agent[b], given[b])
        BY <2>1, <3>2 DEF ConsentInv
      <4>2. /\ DOMAIN agent'[b] = DOMAIN agent[b] /\ agent'[b].pc = "over"
            /\ agent'[b].turn = agent[b].turn /\ agent'[b].asked = agent[b].asked
            /\ agent'[b].reply = agent[b].reply /\ agent'[b].arg = agent[b].arg
            /\ agent'[b].answer = agent[b].answer /\ agent'[b].consent = agent[b].consent
        BY <4>1 DEF PassInv, Fresh
      <4> QED  BY <4>1, <4>2, PassMoves DEF PassInv
    <3> QED  BY <3>1, <3>2
  <2> QED  BY <1>1, <2>1, <2>2 DEF ConsentInv, SensitiveOnlyWithConsent
<1>3. CASE ~(Cardinality(Paused) > 1)
  <2> PICK b \in Paused, action \in Decisions, arg \in Rewrites :
        /\ given' = [given EXCEPT ![b] = Handed(@, [action |-> action, arg |-> arg, key |-> key])]
        /\ agent' = [agent EXCEPT ![b] = Fresh]
        /\ ghost' = [ghost EXCEPT !.used[b] = Append(@, 0)]
    BY <1>3 DEF Resolve
  <2>1. b \in Branch
    BY DEF Paused
  <2>2. [action |-> action, arg |-> arg, key |-> key] \in DecisionOn(DOMAIN row)
    BY DEF DecisionOn
  <2>3. given' \in [Branch -> Seq(DecisionOn(DOMAIN row'))]
    BY <1>1, <2>1, <2>2 DEF ConsentInv, Handed
  <2>4. \A a \in Branch : PassInv(agent'[a], given'[a])
    <3>1. PassInv(Fresh, given'[b])
      BY DEF PassInv, Fresh
    <3> QED  BY <2>1, <3>1 DEF ConsentInv
  <2>5. DOMAIN ghost' = DOMAIN ghost /\ ghost'.acts = ghost.acts
    BY DEF ConsentInv
  <2>6. DOMAIN agent' = Branch
    BY DEF ConsentInv
  <2> QED  BY <2>3, <2>4, <2>5, <2>6 DEF ConsentInv, SensitiveOnlyWithConsent
<1> QED  BY <1>2, <1>3

LEMMA ConsentInvNext == ConsentInv /\ [Next]_vars => ConsentInv'
<1> SUFFICES ASSUME ConsentInv, [Next]_vars PROVE ConsentInv'
  OBVIOUS
<1>1. ASSUME NEW b \in Branch, Loop(b) PROVE ConsentInv'
  <2>1. ASSUME NEW i \in DOMAIN agent[b].reply,
               Refuse(b, i) \/ Admit(b, i) \/ Perform(b, i) \/ Log(b, i)
        PROVE  ConsentInv'
    BY <2>1, ConsentAnswers, ConsentPerform
  <2> QED  BY <1>1, <2>1, ConsentChat, ConsentNotify, ConsentDecision, ConsentMoves DEF Loop
<1>2. ASSUME NEW b \in Branch, GiveUp(b) \/ \E i \in DOMAIN agent[b].reply : StoreFails(b, i)
      PROVE  ConsentInv'
  BY <1>2, ConsentMoves, ConsentAnswers
<1>3. ASSUME NEW key \in DOMAIN row, Resolve(key) PROVE ConsentInv'
  BY <1>3, ConsentResolve
<1>4. CASE UNCHANGED <<agent, given, row, ghost>>
  BY <1>4 DEF ConsentInv, SensitiveOnlyWithConsent
<1>5. ASSUME NEW r \in Run, Discover(r) \/ Register(r) PROVE ConsentInv'
  BY <1>4, <1>5 DEF Discover, Register
<1>6. CASE Stopped \/ UNCHANGED vars
  BY <1>4, <1>6 DEF Stopped, vars
<1> QED  BY <1>1, <1>2, <1>3, <1>5, <1>6 DEF Next

(* No sensitive call runs unless a human approved it, rewrote it or was    *)
(* told of it: in any number of branches, passes and turns, for any        *)
(* replies of the model and any decisions (base.py, execute).              *)
THEOREM ConsentAlways == Spec => []SensitiveOnlyWithConsent
<1>1. ConsentInv => SensitiveOnlyWithConsent
  BY DEF ConsentInv
<1> QED  BY <1>1, ConsentInvInit, ConsentInvNext, PTL DEF Spec
-----------------------------------------------------------------------------
(* The rate limit: how many threads there can be.                          *)

LEMMA LargestOfFinite ==
  ASSUME NEW S, S \subseteq Nat, S # {}, IsFiniteSet(S)
  PROVE  \E m \in S : \A x \in S : m >= x
<1> DEFINE Bad == {U \in FiniteSubsetsOf(Nat) : U # {} /\ ~\E m \in U : \A x \in U : m >= x}
           R == StrictSubsetOrdering(Nat)
<1> SUFFICES ASSUME Bad # {} PROVE FALSE
  BY DEF FiniteSubsetsOf
<1>1. IsWellFoundedOn(R, FiniteSubsetsOf(Nat)) /\ Bad \subseteq FiniteSubsetsOf(Nat)
  BY FS_StrictSubsetOrderingWellFounded
<1>2. PICK U \in Bad : \A V \in Bad : ~(<<V, U>> \in R)
  <2> HIDE DEF Bad, R
  <2> QED  BY <1>1, WFMin
<1>3. U \subseteq Nat /\ IsFiniteSet(U) /\ U # {} /\ ~\E m \in U : \A x \in U : m >= x
  BY DEF FiniteSubsetsOf
<1>4. PICK u \in U : TRUE
  BY <1>3
<1>5. U \ {u} \subseteq Nat /\ IsFiniteSet(U \ {u})
  BY <1>3, FS_RemoveElement
<1>6. U \ {u} # {}
  BY <1>3, <1>4
<1>7. U \ {u} \notin Bad
  <2>1. <<U \ {u}, U>> \in R
    BY <1>3, <1>4 DEF StrictSubsetOrdering
  <2> QED  BY <1>2, <2>1
<1>8. PICK m \in U \ {u} : \A x \in U \ {u} : m >= x
  BY <1>5, <1>6, <1>7 DEF FiniteSubsetsOf
<1>9. \A x \in U : (IF m >= u THEN m ELSE u) >= x
  BY <1>3, <1>4, <1>8
<1> QED  BY <1>3, <1>4, <1>8, <1>9

LEMMA MaxOfFinite ==
  ASSUME NEW S, S \subseteq Nat, S # {}, IsFiniteSet(S)
  PROVE  Max(S) \in S /\ \A x \in S : Max(S) >= x
BY LargestOfFinite DEF Max

LEMMA RepliesAreCalls ==
  ASSUME NEW b \in Branch, NEW r \in Replied(b)
  PROVE  r \in Seq(Call) /\ Len(r) \in Nat /\ DOMAIN r = 1..Len(r)
<1>1. PICK n \in 0..Budget - 1 : r \in Replies[b][n]
  BY DEF Replied
<1>2. Replies[b] \in [0..Budget - 1 -> SUBSET Seq(Call)]
  BY RepliesAssumption
<1>3. r \in Seq(Call)
  BY <1>1, <1>2
<1> QED  BY <1>3, LenProperties

(* Some reply of the branch is longest, and some has most calls of t.      *)
LEMMA MostCalls ==
  ASSUME NEW b \in Branch, NEW t \in Tool
  PROVE  /\ Most(b, t) \in Nat
         /\ \A r \in Replied(b) : IsFiniteSet(CallsOf(t, r)) /\ Cardinality(CallsOf(t, r)) <= Most(b, t)
<1> DEFINE lens == {Len(r) : r \in Replied(b)}
           counts == {Cardinality(CallsOf(t, r)) : r \in Replied(b)}
<1>1. \A r \in Replied(b) : r \in Seq(Call) /\ Len(r) \in Nat /\ DOMAIN r = 1..Len(r)
  BY RepliesAreCalls
<1>2. IsFiniteSet(lens) /\ lens \subseteq Nat
  BY <1>1, FiniteAssumption DEF Replied
<1>3. \E m \in Nat : \A x \in lens : m >= x
  <2>1. CASE lens = {}
    BY <2>1
  <2>2. CASE lens # {}
    <3> HIDE DEF lens
    <3> QED  BY <1>2, <2>2, LargestOfFinite
  <2> QED  BY <2>1, <2>2
<1>4. PICK m \in Nat : \A x \in lens : m >= x
  BY <1>3
<1>5. ASSUME NEW r \in Replied(b)
      PROVE  IsFiniteSet(CallsOf(t, r)) /\ Cardinality(CallsOf(t, r)) \in 0..m
  <2>1. DOMAIN r = 1..Len(r) /\ Len(r) \in Nat /\ Len(r) <= m
    BY <1>1, <1>4
  <2>2. IsFiniteSet(1..Len(r)) /\ Cardinality(1..Len(r)) = Len(r)
    <3> DEFINE n == Len(r)
    <3>1. 1 \in Int /\ n \in Int
      BY <2>1
    <3>2. IsFiniteSet(1..n) /\ Cardinality(1..n) = IF 1 > n THEN 0 ELSE n - 1 + 1
      <4> HIDE DEF n
      <4> QED  BY <3>1, FS_Interval
    <3> QED  BY <2>1, <3>2
  <2>3. CallsOf(t, r) \in SUBSET (1..Len(r))
    BY <2>1 DEF CallsOf
  <2>4. IsFiniteSet(CallsOf(t, r)) /\ Cardinality(CallsOf(t, r)) <= Len(r)
    BY <2>2, <2>3, FS_Subset
  <2>5. Cardinality(CallsOf(t, r)) \in Nat
    BY <2>4, FS_CardinalityType
  <2> QED  BY <2>1, <2>4, <2>5
<1>6. {0} \cup counts \subseteq Nat /\ \A x \in {0} \cup counts : x <= m
  BY <1>4, <1>5
<1>7. IsFiniteSet({0} \cup counts)
  <2> HIDE DEF counts
  <2> QED  BY <1>6, FS_BoundedSetOfNaturals
<1>8. Most(b, t) = Max({0} \cup counts)
  BY DEF Most
<1>9. Max({0} \cup counts) \in {0} \cup counts /\ \A x \in {0} \cup counts : Max({0} \cup counts) >= x
  <2> HIDE DEF counts
  <2> QED  BY <1>6, <1>7, MaxOfFinite
<1>10. Most(b, t) \in Nat
  BY <1>6, <1>8, <1>9
<1>11. \A r \in Replied(b) : Cardinality(CallsOf(t, r)) <= Most(b, t)
  BY <1>5, <1>8, <1>9, <1>10
<1> QED  BY <1>5, <1>10, <1>11

LEMMA SlotsFinite ==
  ASSUME NEW t \in Tool
  PROVE  IsFiniteSet(Slots(t)) /\ Parallel(t) \in Nat
<1> DEFINE tops == {Most(b, t) : b \in Branch}
           of == [b \in Branch |-> {b} \X (1..Most(b, t))]
<1>1. \A b \in Branch : Most(b, t) \in Nat
  BY MostCalls
<1>2. ASSUME NEW b \in Branch PROVE IsFiniteSet({b} \X (1..Most(b, t)))
  <2>1. IsFiniteSet(1..Most(b, t))
    BY <1>1, FS_Interval
  <2>2. IsFiniteSet({b})
    BY FS_Singleton
  <2> QED  BY <2>1, <2>2, FS_Product
<1>3. of \in Surjection(Branch, {{b} \X (1..Most(b, t)) : b \in Branch})
  BY DEF Surjection
<1>4. IsFiniteSet({{b} \X (1..Most(b, t)) : b \in Branch})
  <2> HIDE DEF of
  <2> QED  BY <1>3, FiniteAssumption, FS_Surjection
<1>5. IsFiniteSet(Slots(t))
  BY <1>2, <1>4, FS_UNION DEF Slots
<1> QED  BY <1>5, FS_CardinalityType DEF Parallel

(* The calls of t in the branches' replies that have answer s.             *)
Flights(p, t, s) == {i \in CallsOf(t, p.reply) : p.answer[i] = s}
Flying(ag, t, s) == {f \in Branch \X Nat : f[2] \in Flights(ag[f[1]], t, s)}

(* No more calls of t than slots: those of a branch are numbered.          *)
LEMMA FlyingBounded ==
  ASSUME NEW t \in Tool, NEW ag, \A b \in Branch : ag[b].reply \in {<<>>} \cup Replied(b)
  PROVE  /\ IsFiniteSet(Flying(ag, t, "admitted")) /\ IsFiniteSet(Flying(ag, t, "performed"))
         /\ Cardinality(Flying(ag, t, "admitted")) + Cardinality(Flying(ag, t, "performed"))
              <= Parallel(t)
<1> DEFINE C(b) == CallsOf(t, ag[b].reply)
           All == {f \in Branch \X Nat : f[2] \in C(f[1])}
<1>1. ASSUME NEW b \in Branch PROVE \E g \in Injection(C(b), 1..Most(b, t)) : TRUE
  <2>1. IsFiniteSet(C(b)) /\ Cardinality(C(b)) <= Most(b, t) /\ Most(b, t) \in Nat
    <3>1. CASE ag[b].reply \in Replied(b)
      BY <3>1, MostCalls
    <3>2. CASE ag[b].reply = <<>>
      <4>1. C(b) = {}
        BY <3>2 DEF CallsOf
      <4> QED  BY <4>1, FS_EmptySet, MostCalls
    <3> QED  BY <3>1, <3>2
  <2> DEFINE n == Cardinality(C(b))
  <2>2. n \in Nat /\ ExistsBijection(1..n, C(b))
    BY <2>1, FS_CardinalityType
  <2>3. ExistsBijection(C(b), 1..n)
    <3> HIDE DEF n
    <3> QED  BY <2>2, Fun_ExistsBijSymmetric
  <2>4. PICK g \in Bijection(C(b), 1..n) : TRUE
    BY <2>3 DEF ExistsBijection
  <2>5. g \in Injection(C(b), 1..n) /\ 1..n \subseteq 1..Most(b, t)
    BY <2>1, <2>2, <2>4 DEF Bijection
  <2>6. g \in Injection(C(b), 1..Most(b, t))
    <3> HIDE DEF n
    <3> QED  BY <2>5 DEF Injection
  <2> QED  BY <2>6
<1> DEFINE G == [b \in Branch |-> CHOOSE g \in Injection(C(b), 1..Most(b, t)) : TRUE]
           F == [f \in All |-> <<f[1], G[f[1]][f[2]]>>]
<1>2. \A b \in Branch : G[b] \in Injection(C(b), 1..Most(b, t))
  BY <1>1
<1>3. F \in Injection(All, Slots(t))
  <2>1. ASSUME NEW f \in All PROVE F[f] \in Slots(t)
    <3>1. f[1] \in Branch /\ f[2] \in C(f[1])
      OBVIOUS
    <3>2. G[f[1]][f[2]] \in 1..Most(f[1], t)
      <4> HIDE DEF G, C
      <4> QED  BY <1>2, <3>1 DEF Injection
    <3>3. F[f] \in {f[1]} \X (1..Most(f[1], t))
      BY <3>2
    <3> QED  BY <3>1, <3>3 DEF Slots
  <2>2. ASSUME NEW f \in All, NEW h \in All, F[f] = F[h] PROVE f = h
    <3>1. /\ f = <<f[1], f[2]>> /\ f[1] \in Branch /\ f[2] \in C(f[1])
          /\ h = <<h[1], h[2]>> /\ h[1] \in Branch /\ h[2] \in C(h[1])
      OBVIOUS
    <3>2. f[1] = h[1] /\ G[f[1]][f[2]] = G[h[1]][h[2]]
      <4> HIDE DEF G
      <4> QED  BY <2>2
    <3>3. f[2] = h[2]
      <4> HIDE DEF G, C
      <4> QED  BY <1>2, <3>1, <3>2 DEF Injection, IsInjective
    <3> QED  BY <3>1, <3>2, <3>3
  <2>3. F \in [All -> Slots(t)]
    BY <2>1
  <2> HIDE DEF F, All
  <2> QED  BY <2>2, <2>3 DEF Injection, IsInjective
<1>4. IsFiniteSet(All) /\ Cardinality(All) <= Parallel(t)
  <2> HIDE DEF F, All
  <2> QED  BY <1>3, SlotsFinite, FS_Injection DEF Parallel
<1> DEFINE X == Flying(ag, t, "admitted")
           Y == Flying(ag, t, "performed")
<1>5. X \in SUBSET All /\ Y \in SUBSET All /\ X \cup Y \in SUBSET All /\ X \cap Y = {}
  BY DEF Flying, Flights
<1> HIDE DEF X, Y, All
<1>6. IsFiniteSet(X) /\ IsFiniteSet(Y)
  BY <1>4, <1>5, FS_Subset
<1>7. Cardinality(X \cup Y) <= Cardinality(All)
  BY <1>4, <1>5, FS_Subset
<1>8. Cardinality(X \cup Y) = Cardinality(X) + Cardinality(Y) - 0
  BY <1>5, <1>6, FS_Union, FS_EmptySet
<1>9. Cardinality(X) \in Nat /\ Cardinality(Y) \in Nat /\ Cardinality(All) \in Nat
      /\ Parallel(t) \in Nat
  BY <1>4, <1>6, FS_CardinalityType, SlotsFinite
<1>10. Cardinality(X) + Cardinality(Y) <= Parallel(t)
  BY <1>4, <1>7, <1>8, <1>9
<1> QED  BY <1>6, <1>10 DEF X, Y
-----------------------------------------------------------------------------
(* Who is between the count and the log.                                   *)

Cap(t) == Max({0, Limit[t] - 1 + Parallel(t)})
InFlight == {"admitted", "performed"}

(* A branch has a reply its model can give, and calls run only in "run".   *)
CallsIn(p, b) ==
  /\ p.reply \in {<<>>} \cup Replied(b)
  /\ p.pc # "run" => \A i \in DOMAIN p.reply : p.answer[i] \notin InFlight

Admitted(ag, t) == Cardinality(Flying(ag, t, "admitted"))
Performed(ag, t) == Cardinality(Flying(ag, t, "performed"))

(* What was performed is logged, lost or about to be logged; and with what *)
(* is about to be performed it keeps within the cap.                       *)
OverrunInv ==
  /\ logged \in [Tool -> Nat] /\ ghost.performed \in [Tool -> Nat] /\ ghost.lost \in Nat
  /\ \A b \in Branch : CallsIn(agent[b], b)
  /\ \A t \in Tool :
       /\ ghost.performed[t] <= logged[t] + ghost.lost + Performed(agent, t)
       /\ ghost.performed[t] + Admitted(agent, t) <= Cap(t) + ghost.lost

LEMMA CapCovers ==
  ASSUME NEW t \in Tool
  PROVE  Cap(t) \in Nat /\ Cap(t) >= Limit[t] - 1 + Parallel(t)
<1> DEFINE n == Limit[t] - 1 + Parallel(t)
<1>1. Limit[t] \in Nat /\ Parallel(t) \in Nat
  BY ToolsAssumption, SlotsFinite
<1>2. n \in Int
  BY <1>1
<1>3. \E m \in {0, n} : \A x \in {0, n} : m >= x
  <2> HIDE DEF n
  <2>1. CASE n >= 0
    BY <1>2, <2>1
  <2>2. CASE ~(n >= 0)
    BY <1>2, <2>2
  <2> QED  BY <2>1, <2>2
<1>4. Max({0, n}) \in {0, n} /\ \A x \in {0, n} : Max({0, n}) >= x
  <2> HIDE DEF n
  <2> QED  BY <1>3 DEF Max
<1>5. Cap(t) = Max({0, n})
  BY DEF Cap
<1> HIDE DEF n
<1>6. Cap(t) \in Nat /\ Cap(t) >= n
  BY <1>2, <1>4, <1>5
<1> QED  BY <1>6 DEF n

LEMMA FlyingNumbers ==
  ASSUME NEW t \in Tool, NEW ag, \A b \in Branch : ag[b].reply \in {<<>>} \cup Replied(b)
  PROVE  /\ IsFiniteSet(Flying(ag, t, "admitted")) /\ IsFiniteSet(Flying(ag, t, "performed"))
         /\ Admitted(ag, t) \in Nat /\ Performed(ag, t) \in Nat
         /\ Admitted(ag, t) + Performed(ag, t) <= Parallel(t)
BY FlyingBounded, FS_CardinalityType DEF Admitted, Performed

(* A step of one branch in which no call starts or leaves its flight.      *)
LEMMA OverrunQuiet ==
  ASSUME ConsentInv, OverrunInv, NEW b \in Branch, NEW q, agent' = [agent EXCEPT ![b] = q],
         CallsIn(q, b),
         \A t \in Tool, s \in InFlight : Flights(q, t, s) = Flights(agent[b], t, s),
         logged' \in [Tool -> Nat], \A t \in Tool : logged'[t] >= logged[t],
         ghost'.performed = ghost.performed, ghost'.lost = ghost.lost
  PROVE  OverrunInv'
<1>1. \A a \in Branch : agent'[a] = IF a = b THEN q ELSE agent[a]
  BY DEF ConsentInv
<1>2. \A t \in Tool, s \in InFlight : Flying(agent', t, s) = Flying(agent, t, s)
  BY <1>1 DEF Flying
<1>3. \A t \in Tool : Admitted(agent', t) = Admitted(agent, t) /\ Performed(agent', t) = Performed(agent, t)
  BY <1>2 DEF Admitted, Performed, InFlight
<1>4. \A a \in Branch : CallsIn(agent'[a], a)
  BY <1>1 DEF OverrunInv
<1>5. ASSUME NEW t \in Tool
      PROVE  /\ ghost'.performed[t] <= logged'[t] + ghost'.lost + Performed(agent', t)
             /\ ghost'.performed[t] + Admitted(agent', t) <= Cap(t) + ghost'.lost
  <2>1. /\ ghost.performed[t] \in Nat /\ ghost.lost \in Nat
        /\ logged[t] \in Nat /\ logged'[t] \in Nat /\ logged'[t] >= logged[t]
        /\ ghost.performed[t] <= logged[t] + ghost.lost + Performed(agent, t)
        /\ ghost.performed[t] + Admitted(agent, t) <= Cap(t) + ghost.lost
    BY DEF OverrunInv
  <2>2. Performed(agent, t) \in Nat /\ Admitted(agent, t) \in Nat
    BY FlyingNumbers DEF OverrunInv, CallsIn
  <2>3. Cap(t) \in Nat
    BY CapCovers
  <2>4. ghost'.performed[t] = ghost.performed[t] /\ ghost'.lost = ghost.lost
    OBVIOUS
  <2>5. Admitted(agent', t) = Admitted(agent, t) /\ Performed(agent', t) = Performed(agent, t)
    BY <1>3
  <2>6. ghost.performed[t] <= logged'[t] + ghost.lost + Performed(agent, t)
    BY <2>1, <2>2
  <2> QED  BY <2>1, <2>4, <2>5, <2>6
<1> QED  BY <1>4, <1>5 DEF OverrunInv

LEMMA NoFlights ==
  ASSUME NEW p, NEW b, CallsIn(p, b), p.pc # "run"
  PROVE  \A t \in Tool, s \in InFlight : Flights(p, t, s) = {}
BY DEF CallsIn, Flights, CallsOf

(* A branch that has no call in flight before and after.                   *)
LEMMA OverrunIdle ==
  ASSUME ConsentInv, OverrunInv, NEW b \in Branch, NEW q, agent' = [agent EXCEPT ![b] = q],
         agent[b].pc # "run", q.pc # "run", CallsIn(q, b),
         UNCHANGED logged, ghost'.performed = ghost.performed, ghost'.lost = ghost.lost
  PROVE  OverrunInv'
<1>1. \A t \in Tool, s \in InFlight : Flights(q, t, s) = Flights(agent[b], t, s)
  <2>1. \A t \in Tool, s \in InFlight : Flights(q, t, s) = {}
    BY NoFlights
  <2>2. \A t \in Tool, s \in InFlight : Flights(agent[b], t, s) = {}
    BY NoFlights DEF OverrunInv
  <2> QED  BY <2>1, <2>2
<1>2. logged' \in [Tool -> Nat] /\ \A t \in Tool : logged'[t] >= logged[t]
  BY DEF OverrunInv
<1>3. ghost'.performed = ghost.performed /\ ghost'.lost = ghost.lost
  OBVIOUS
<1>4. agent' = [agent EXCEPT ![b] = q] /\ CallsIn(q, b)
  OBVIOUS
<1> QED  BY <1>1, <1>2, <1>3, <1>4, OverrunQuiet, ZenonT(60)

LEMMA OverrunChat == ASSUME ConsentInv, OverrunInv, NEW b \in Branch, Chat(b) PROVE OverrunInv'
<1> PICK r \in Reply(b) :
      agent' = [agent EXCEPT ![b] =
        [@ EXCEPT !.pc = IF r = <<>> THEN "review" ELSE "gate", !.reply = r,
                  !.arg = [i \in DOMAIN r |-> r[i].arg],
                  !.said = Append(agent[b].said, r),
                  !.answer = [i \in DOMAIN r |-> "todo"],
                  !.consent = [i \in DOMAIN r |-> Unasked]]]
  BY DEF Chat
<1> DEFINE q == agent'[b]
<1>1. agent' = [agent EXCEPT ![b] = q] /\ q.pc # "run" /\ q.reply = r
      /\ q.answer = [i \in DOMAIN r |-> "todo"]
  BY DEF ConsentInv, PassInv, Fresh
<1>2. r \in Replied(b)
  BY BoundsAssumption DEF Chat, Reply, Replied, ConsentInv, PassInv
<1>3. CallsIn(q, b)
  BY <1>1, <1>2 DEF CallsIn, InFlight
<1>4. agent[b].pc # "run" /\ UNCHANGED logged /\ ghost'.performed = ghost.performed /\ ghost'.lost = ghost.lost
  BY DEF Chat, At, ConsentInv
<1> QED  BY <1>1, <1>3, <1>4, OverrunIdle

(* The gate, the review and a failed attempt: no call runs.                *)
LEMMA OverrunMoves ==
  ASSUME ConsentInv, OverrunInv, NEW b \in Branch,
         NotifyGate(b) \/ AskGate(b) \/ StartCalls(b) \/ Review(b) \/ GiveUp(b)
  PROVE  OverrunInv'
<1> DEFINE q == agent'[b]
<1>1. /\ agent' = [agent EXCEPT ![b] = q] /\ agent[b].pc # "run"
      /\ q.reply = agent[b].reply /\ q.answer = agent[b].answer
  <2>1. CASE NotifyGate(b)
    BY <2>1 DEF NotifyGate, At, ConsentInv, PassInv, Fresh
  <2>2. CASE AskGate(b)
    BY <2>2 DEF AskGate, At, ConsentInv, PassInv, Fresh
  <2>3. CASE StartCalls(b)
    BY <2>3 DEF StartCalls, At, ConsentInv, PassInv, Fresh
  <2>4. CASE Review(b)
    BY <2>4 DEF Review, ConsentInv, PassInv, Fresh
  <2>5. CASE GiveUp(b)
    BY <2>5 DEF GiveUp, At, ConsentInv, PassInv, Fresh
  <2> QED  BY <2>1, <2>2, <2>3, <2>4, <2>5
<1>2. CallsIn(q, b)
  BY <1>1 DEF OverrunInv, CallsIn
<1>3. \A t \in Tool, s \in InFlight : Flights(q, t, s) = Flights(agent[b], t, s)
  BY <1>1 DEF Flights
<1>4. UNCHANGED logged /\ ghost'.performed = ghost.performed /\ ghost'.lost = ghost.lost
  BY DEF NotifyGate, AskGate, StartCalls, Review, GiveUp, ConsentInv
<1>5. logged' \in [Tool -> Nat] /\ \A t \in Tool : logged'[t] >= logged[t]
  BY <1>4 DEF OverrunInv
<1> QED  BY <1>1, <1>2, <1>3, <1>4, <1>5, OverrunQuiet

(* A decision answers a call at most in the tool's stead.                  *)
LEMMA OverrunDecision ==
  ASSUME ConsentInv, OverrunInv, NEW b \in Branch, TakeDecision(b) PROVE OverrunInv'
<1> DEFINE i == NextUnruled(b)
           p == agent[b]
           q == agent'[b]
           k == p.asked + 1
           d == given[b][k]
           e == [p EXCEPT !.asked = k, !.consent[i] = k,
                          !.arg[i] = IF d.action = "modify" THEN d.arg ELSE p.arg[i],
                          !.answer[i] = IF d.action = "answer" THEN "human" ELSE p.answer[i]]
<1>1. agent' = [agent EXCEPT ![b] = e]
  BY DEF TakeDecision
<1>2. q = e /\ p.pc = "gate" /\ DOMAIN p = DOMAIN Fresh /\ DOMAIN p.answer = DOMAIN p.reply
  BY <1>1 DEF TakeDecision, At, ConsentInv, PassInv
<1>3. e.pc = p.pc /\ e.reply = p.reply
  BY <1>2 DEF Fresh
<1>4. e.answer = [p.answer EXCEPT ![i] = IF d.action = "answer" THEN "human" ELSE p.answer[i]]
  BY <1>2 DEF Fresh
<1>5. CallsIn(p, b)
  BY DEF OverrunInv
<1>6. CallsIn(e, b)
  <2> HIDE DEF e, d, i
  <2> QED  BY <1>2, <1>3, <1>4, <1>5 DEF CallsIn, InFlight
<1>7. UNCHANGED logged /\ ghost'.performed = ghost.performed /\ ghost'.lost = ghost.lost
  BY DEF TakeDecision, ConsentInv
<1>8. p.pc # "run" /\ e.pc # "run"
  BY <1>2, <1>3
<1> HIDE DEF e
<1> QED  BY <1>1, <1>6, <1>7, <1>8, OverrunIdle

(* The end of a turn: all its calls have an answer.                        *)
LEMMA OverrunEndTurn ==
  ASSUME ConsentInv, OverrunInv, NEW b \in Branch, EndTurn(b) PROVE OverrunInv'
<1> DEFINE q == agent'[b]
<1>1. /\ agent' = [agent EXCEPT ![b] = q]
      /\ q.reply = agent[b].reply /\ q.answer = agent[b].answer
  BY DEF EndTurn, ConsentInv, PassInv, Fresh
<1>2. \A i \in DOMAIN agent[b].reply : agent[b].answer[i] \notin InFlight
  BY DEF EndTurn, Unfinished, InFlight
<1>3. CallsIn(q, b)
  BY <1>1, <1>2 DEF OverrunInv, CallsIn
<1>4. \A t \in Tool, s \in InFlight : Flights(q, t, s) = Flights(agent[b], t, s)
  BY <1>1 DEF Flights
<1>5. UNCHANGED logged /\ ghost'.performed = ghost.performed /\ ghost'.lost = ghost.lost
  BY DEF EndTurn, ConsentInv
<1>6. logged' \in [Tool -> Nat] /\ \A t \in Tool : logged'[t] >= logged[t]
  BY <1>5 DEF OverrunInv
<1> QED  BY <1>1, <1>3, <1>4, <1>5, <1>6, OverrunQuiet
-----------------------------------------------------------------------------
(* The registry's steps, each of one call.                                 *)

(* A call that gets another answer leaves the flight of the old one and    *)
(* joins that of the new; no other call moves.                             *)
LEMMA AnswerMoves ==
  ASSUME ConsentInv, OverrunInv, NEW b \in Branch, NEW i, NEW a, NEW old,
         Thread(b, i, old), Answer(b, i, a), a # old
  PROVE  /\ agent[b].reply[i].tool \in Tool
         /\ \A c \in Branch : CallsIn(agent'[c], c)
         /\ \A t \in Tool, s \in InFlight :
              /\ s = old /\ t = agent[b].reply[i].tool => <<b, i>> \in Flying(agent, t, s)
              /\ s # old => <<b, i>> \notin Flying(agent, t, s)
              /\ Flying(agent', t, s) =
                   IF t = agent[b].reply[i].tool /\ s = a THEN Flying(agent, t, s) \cup {<<b, i>>}
                   ELSE IF t = agent[b].reply[i].tool /\ s = old THEN Flying(agent, t, s) \ {<<b, i>>}
                   ELSE Flying(agent, t, s)
<1> DEFINE p == agent[b]
           q == agent'[b]
<1>1. /\ \A c \in Branch : agent'[c] = IF c = b THEN q ELSE agent[c]
      /\ q.pc = "run" /\ q.reply = p.reply /\ q.answer = [p.answer EXCEPT ![i] = a]
      /\ i \in DOMAIN p.reply /\ p.answer[i] = old /\ DOMAIN p.answer = DOMAIN p.reply
  BY DEF Answer, Thread, At, ConsentInv, PassInv, Fresh
<1>2. i \in Nat /\ p.reply[i].tool \in Tool
  <2>1. p.reply \in Replied(b)
    BY <1>1 DEF OverrunInv, CallsIn
  <2>2. p.reply \in Seq(Call) /\ Len(p.reply) \in Nat /\ DOMAIN p.reply = 1..Len(p.reply)
    BY <2>1, RepliesAreCalls
  <2>3. p.reply[i] \in Call
    BY <1>1, <2>2, ElementOfSeq
  <2> QED  BY <1>1, <2>2, <2>3 DEF Call
<1>3. \A c \in Branch : CallsIn(agent'[c], c)
  BY <1>1 DEF OverrunInv, CallsIn
<1> DEFINE tool == p.reply[i].tool
<1>4. ASSUME NEW t \in Tool, NEW s \in InFlight
      PROVE  Flights(q, t, s) = IF t = tool /\ s = a THEN Flights(p, t, s) \cup {i}
                                ELSE IF t = tool /\ s = old THEN Flights(p, t, s) \ {i}
                                ELSE Flights(p, t, s)
  <2>1. \A j \in DOMAIN p.reply : q.answer[j] = IF j = i THEN a ELSE p.answer[j]
    BY <1>1
  <2>2. \A j : j \in Flights(q, t, s) <=> j \in CallsOf(t, p.reply) /\ q.answer[j] = s
    BY <1>1 DEF Flights
  <2>3. \A j : j \in Flights(p, t, s) <=> j \in CallsOf(t, p.reply) /\ p.answer[j] = s
    BY DEF Flights
  <2>4. \A j : j \in CallsOf(t, p.reply) <=> j \in DOMAIN p.reply /\ p.reply[j].tool = t
    BY DEF CallsOf
  <2>5. i \in DOMAIN p.reply /\ p.answer[i] = old /\ a # old
    BY <1>1
  <2> DEFINE before == Flights(p, t, s)
             after == Flights(q, t, s)
             made(j) == j \in DOMAIN p.reply /\ p.reply[j].tool = t
  <2>6. \A j : j \in after <=> made(j) /\ (IF j = i THEN a ELSE p.answer[j]) = s
    BY <2>1, <2>2, <2>4
  <2>7. \A j : j \in before <=> made(j) /\ p.answer[j] = s
    BY <2>3, <2>4
  <2>8. made(i) <=> t = tool
    BY <2>5
  <2> HIDE DEF made, before, after, tool
  <2>9. CASE t = tool /\ s = a
    <3>1. \A j : j \in after <=> j \in before \/ j = i
      BY <2>5, <2>6, <2>7, <2>8, <2>9
    <3>2. after = before \cup {i}
      BY <3>1
    <3> QED  BY <3>2, <2>9 DEF before, after
  <2>10. CASE t = tool /\ s = old
    <3>1. \A j : j \in after <=> j \in before /\ j # i
      BY <2>5, <2>6, <2>7, <2>8, <2>10
    <3>2. after = before \ {i}
      BY <3>1
    <3> QED  BY <3>2, <2>10, <2>5 DEF before, after
  <2>11. CASE t # tool \/ (s # a /\ s # old)
    <3>1. \A j : j \in after <=> j \in before
      BY <2>5, <2>6, <2>7, <2>8, <2>11
    <3>2. after = before
      BY <3>1
    <3> QED  BY <3>2, <2>11 DEF before, after
  <2> QED  BY <2>9, <2>10, <2>11
<1>5. ASSUME NEW t \in Tool, NEW s \in InFlight
      PROVE  /\ s = old /\ t = tool => <<b, i>> \in Flying(agent, t, s)
             /\ s # old => <<b, i>> \notin Flying(agent, t, s)
  BY <1>1, <1>2 DEF Flying, Flights, CallsOf
<1>6. ASSUME NEW t \in Tool, NEW s \in InFlight
      PROVE  Flying(agent', t, s) =
               IF t = tool /\ s = a THEN Flying(agent, t, s) \cup {<<b, i>>}
               ELSE IF t = tool /\ s = old THEN Flying(agent, t, s) \ {<<b, i>>}
               ELSE Flying(agent, t, s)
  <2>1. \A f : f \in Flying(agent', t, s) <=>
                 f \in Branch \X Nat /\ f[2] \in Flights(IF f[1] = b THEN q ELSE agent[f[1]], t, s)
    BY <1>1 DEF Flying
  <2>2. \A f : f \in Flying(agent, t, s) <=> f \in Branch \X Nat /\ f[2] \in Flights(agent[f[1]], t, s)
    BY DEF Flying
  <2>3. <<b, i>> \in Branch \X Nat
    BY <1>2
  <2>4. \A f \in Branch \X Nat : f = <<b, i>> <=> f[1] = b /\ f[2] = i
    OBVIOUS
  <2>5. CASE t = tool /\ s = a
    BY <1>4, <2>1, <2>2, <2>3, <2>4, <2>5
  <2>6. CASE t = tool /\ s = old /\ s # a
    BY <1>4, <2>1, <2>2, <2>3, <2>4, <2>6
  <2>7. CASE ~(t = tool /\ s \in {a, old})
    BY <1>4, <2>1, <2>2, <2>7
  <2> QED  BY <2>5, <2>6, <2>7
<1> QED  BY <1>2, <1>3, <1>5, <1>6

(* How many calls of each tool are in flight after it.                     *)
LEMMA AnswerCounts ==
  ASSUME ConsentInv, OverrunInv, NEW b \in Branch, NEW i, NEW a, NEW old,
         Thread(b, i, old), Answer(b, i, a), a # old, NEW t \in Tool
  PROVE  /\ Admitted(agent, t) \in Nat /\ Performed(agent, t) \in Nat
         /\ Admitted(agent', t) \in Nat /\ Performed(agent', t) \in Nat
         /\ Admitted(agent', t) + Performed(agent', t) <= Parallel(t)
         /\ Admitted(agent', t) = IF t # agent[b].reply[i].tool THEN Admitted(agent, t)
                                  ELSE IF a = "admitted" THEN Admitted(agent, t) + 1
                                  ELSE IF old = "admitted" THEN Admitted(agent, t) - 1
                                  ELSE Admitted(agent, t)
         /\ Performed(agent', t) = IF t # agent[b].reply[i].tool THEN Performed(agent, t)
                                   ELSE IF a = "performed" THEN Performed(agent, t) + 1
                                   ELSE IF old = "performed" THEN Performed(agent, t) - 1
                                   ELSE Performed(agent, t)
<1> DEFINE tool == agent[b].reply[i].tool
<1>1. \A c \in Branch : CallsIn(agent'[c], c)
  BY AnswerMoves
<1>2. /\ IsFiniteSet(Flying(agent, t, "admitted")) /\ IsFiniteSet(Flying(agent, t, "performed"))
      /\ Admitted(agent, t) \in Nat /\ Performed(agent, t) \in Nat
  BY FlyingNumbers DEF OverrunInv, CallsIn
<1>3. /\ Admitted(agent', t) \in Nat /\ Performed(agent', t) \in Nat
      /\ Admitted(agent', t) + Performed(agent', t) <= Parallel(t)
  <2>1. \A c \in Branch : agent'[c].reply \in {<<>>} \cup Replied(c)
    BY <1>1 DEF CallsIn
  <2> QED  BY <2>1, FlyingNumbers
<1>4. ASSUME NEW s \in InFlight
      PROVE  /\ s = old /\ t = tool => <<b, i>> \in Flying(agent, t, s)
             /\ s # old => <<b, i>> \notin Flying(agent, t, s)
             /\ Flying(agent', t, s) =
                  IF t = tool /\ s = a THEN Flying(agent, t, s) \cup {<<b, i>>}
                  ELSE IF t = tool /\ s = old THEN Flying(agent, t, s) \ {<<b, i>>}
                  ELSE Flying(agent, t, s)
  BY AnswerMoves
<1>5. ASSUME NEW s \in InFlight, IsFiniteSet(Flying(agent, t, s))
      PROVE  Cardinality(Flying(agent', t, s)) =
               IF t # tool THEN Cardinality(Flying(agent, t, s))
               ELSE IF s = a THEN Cardinality(Flying(agent, t, s)) + 1
               ELSE IF s = old THEN Cardinality(Flying(agent, t, s)) - 1
               ELSE Cardinality(Flying(agent, t, s))
  <2> DEFINE S == Flying(agent, t, s)
             f == <<b, i>>
  <2>0. IsFiniteSet(S)
    BY <1>5
  <2>1. CASE t = tool /\ s = a
    <3>1. f \notin S /\ Flying(agent', t, s) = S \cup {f}
      BY <1>4, <2>1
    <3>2. Cardinality(S \cup {f}) = Cardinality(S) + 1
      <4> HIDE DEF S, f
      <4> QED  BY <2>0, <3>1, FS_AddElement
    <3> QED  BY <2>1, <3>1, <3>2
  <2>2. CASE t = tool /\ s = old /\ s # a
    <3>1. f \in S /\ Flying(agent', t, s) = S \ {f}
      BY <1>4, <2>2
    <3>2. Cardinality(S \ {f}) = Cardinality(S) - 1
      <4> HIDE DEF S, f
      <4> QED  BY <2>0, <3>1, FS_RemoveElement
    <3> QED  BY <2>2, <3>1, <3>2
  <2>3. CASE ~(t = tool /\ s \in {a, old})
    <3>1. Flying(agent', t, s) = S
      BY <1>4, <2>3
    <3> QED  BY <2>3, <3>1
  <2> QED  BY <2>1, <2>2, <2>3
<1>6. /\ "admitted" \in InFlight /\ "performed" \in InFlight
  BY DEF InFlight
<1>7. Admitted(agent', t) = IF t # tool THEN Admitted(agent, t)
                            ELSE IF "admitted" = a THEN Admitted(agent, t) + 1
                            ELSE IF "admitted" = old THEN Admitted(agent, t) - 1
                            ELSE Admitted(agent, t)
  BY <1>2, <1>5, <1>6 DEF Admitted
<1>8. Performed(agent', t) = IF t # tool THEN Performed(agent, t)
                             ELSE IF "performed" = a THEN Performed(agent, t) + 1
                             ELSE IF "performed" = old THEN Performed(agent, t) - 1
                             ELSE Performed(agent, t)
  BY <1>2, <1>5, <1>6 DEF Performed
<1> QED  BY <1>2, <1>3, <1>7, <1>8

(* The two sums of the invariant, from the numbers of one tool.            *)
LEMMA OverrunCall ==
  ASSUME ConsentInv, OverrunInv, NEW b \in Branch, NEW i, NEW a, NEW old,
         Thread(b, i, old), Answer(b, i, a), a # old,
         logged' \in [Tool -> Nat], ghost'.performed \in [Tool -> Nat], ghost'.lost \in Nat,
         \A t \in Tool :
           /\ ghost'.performed[t] <= logged'[t] + ghost'.lost + Performed(agent', t)
           /\ ghost'.performed[t] + Admitted(agent', t) <= Cap(t) + ghost'.lost
  PROVE  OverrunInv'
<1>1. \A c \in Branch : CallsIn(agent'[c], c)
  BY AnswerMoves
<1> QED  BY <1>1 DEF OverrunInv

(* What the invariant says of one tool, with the types its sums need.      *)
LEMMA OverrunOf ==
  ASSUME OverrunInv, NEW t \in Tool
  PROVE  /\ logged[t] \in Nat /\ ghost.performed[t] \in Nat /\ ghost.lost \in Nat
         /\ Limit[t] \in Nat /\ Parallel(t) \in Nat /\ Cap(t) \in Nat
         /\ Cap(t) >= Limit[t] - 1 + Parallel(t)
         /\ ghost.performed[t] <= logged[t] + ghost.lost + Performed(agent, t)
         /\ ghost.performed[t] + Admitted(agent, t) <= Cap(t) + ghost.lost
BY CapCovers, SlotsFinite, ToolsAssumption DEF OverrunInv

(* A call that is refused, or fails on the count, was in no flight.        *)
LEMMA OverrunRefuse ==
  ASSUME ConsentInv, OverrunInv, NEW b \in Branch, NEW i, NEW a,
         Thread(b, i, "todo"), Answer(b, i, a), a \in {"rejected", "rate_limited", "raised", "invalid"},
         UNCHANGED <<logged, ghost>>
  PROVE  OverrunInv'
<1>1. ASSUME NEW t \in Tool
      PROVE  /\ ghost'.performed[t] <= logged'[t] + ghost'.lost + Performed(agent', t)
             /\ ghost'.performed[t] + Admitted(agent', t) <= Cap(t) + ghost'.lost
  <2>1. Admitted(agent', t) = Admitted(agent, t) /\ Performed(agent', t) = Performed(agent, t)
    BY AnswerCounts
  <2> QED  BY <2>1, OverrunOf
<1>2. logged' \in [Tool -> Nat] /\ ghost'.performed \in [Tool -> Nat] /\ ghost'.lost \in Nat
  BY DEF OverrunInv
<1>3. a # "todo"
  OBVIOUS
<1> QED  BY <1>1, <1>2, <1>3, OverrunCall

(* An admitted call has counted fewer records than the limit, and what is  *)
(* not recorded of the tool is lost or in flight with it.                  *)
LEMMA OverrunAdmit ==
  ASSUME ConsentInv, OverrunInv, NEW b \in Branch, NEW i, Admit(b, i)
  PROVE  OverrunInv'
<1>1. CASE agent[b].arg[i] = "bad"
  <2>1. Thread(b, i, "todo") /\ Answer(b, i, "invalid") /\ UNCHANGED <<logged, ghost>>
    BY <1>1 DEF Admit
  <2> QED  BY <2>1, OverrunRefuse
<1>2. CASE agent[b].arg[i] # "bad"
  <2>1. Thread(b, i, "todo") /\ Answer(b, i, "admitted") /\ "admitted" # "todo"
    BY <1>2 DEF Admit
  <2>2. UNCHANGED logged /\ UNCHANGED ghost
    BY DEF Admit
  <2>3. ASSUME NEW t \in Tool
        PROVE  /\ ghost'.performed[t] <= logged'[t] + ghost'.lost + Performed(agent', t)
               /\ ghost'.performed[t] + Admitted(agent', t) <= Cap(t) + ghost'.lost
    <3>1. /\ Admitted(agent, t) \in Nat /\ Performed(agent, t) \in Nat
          /\ Admitted(agent', t) \in Nat /\ Performed(agent', t) \in Nat
          /\ Admitted(agent', t) + Performed(agent', t) <= Parallel(t)
          /\ Performed(agent', t) = Performed(agent, t)
          /\ Admitted(agent', t) =
               IF t # agent[b].reply[i].tool THEN Admitted(agent, t) ELSE Admitted(agent, t) + 1
      BY <2>1, AnswerCounts
    <3>2. t = agent[b].reply[i].tool => ~(logged[t] >= Limit[t])
      BY DEF Admit, Refusal
    <3>3. CASE t = agent[b].reply[i].tool
      <4>1. logged[t] <= Limit[t] - 1
        BY <3>2, <3>3, OverrunOf
      <4>2. ghost.performed[t] + Admitted(agent', t)
              <= logged[t] + ghost.lost + Performed(agent', t) + Admitted(agent', t)
        BY <3>1, OverrunOf
      <4>3. ghost.performed[t] + Admitted(agent', t) <= Limit[t] - 1 + Parallel(t) + ghost.lost
        BY <3>1, <4>1, <4>2, OverrunOf
      <4> QED  BY <2>2, <3>1, <4>3, OverrunOf
    <3>4. CASE t # agent[b].reply[i].tool
      BY <2>2, <3>1, <3>4, OverrunOf
    <3> QED  BY <3>3, <3>4
  <2>4. logged' \in [Tool -> Nat] /\ ghost'.performed \in [Tool -> Nat] /\ ghost'.lost \in Nat
    BY <2>2 DEF OverrunInv
  <2> QED  BY <2>1, <2>3, <2>4, OverrunCall
<1> QED  BY <1>1, <1>2

(* A call that has its effect was admitted before.                         *)
LEMMA OverrunPerform ==
  ASSUME ConsentInv, OverrunInv, NEW b \in Branch, NEW i, Perform(b, i)
  PROVE  OverrunInv'
<1> DEFINE tool == agent[b].reply[i].tool
<1>1. Thread(b, i, "admitted") /\ Answer(b, i, "performed") /\ "performed" # "admitted"
  BY DEF Perform
<1>2. tool \in Tool
  BY <1>1, AnswerMoves
<1>3. /\ UNCHANGED logged /\ ghost'.lost = ghost.lost
      /\ ghost'.performed = [ghost.performed EXCEPT ![tool] = @ + 1]
  BY DEF Perform, ConsentInv
<1>4. logged' \in [Tool -> Nat] /\ ghost'.performed \in [Tool -> Nat] /\ ghost'.lost \in Nat
  BY <1>2, <1>3 DEF OverrunInv
<1>5. \A t \in Tool : ghost'.performed[t] = IF t = tool THEN ghost.performed[t] + 1 ELSE ghost.performed[t]
  BY <1>3 DEF OverrunInv
<1>6. ASSUME NEW t \in Tool
      PROVE  /\ ghost'.performed[t] <= logged'[t] + ghost'.lost + Performed(agent', t)
             /\ ghost'.performed[t] + Admitted(agent', t) <= Cap(t) + ghost'.lost
  <2>1. /\ Admitted(agent, t) \in Nat /\ Performed(agent, t) \in Nat
        /\ Performed(agent', t) = IF t # tool THEN Performed(agent, t) ELSE Performed(agent, t) + 1
        /\ Admitted(agent', t) = IF t # tool THEN Admitted(agent, t) ELSE Admitted(agent, t) - 1
    BY <1>1, AnswerCounts
  <2>2. ghost'.performed[t] = IF t = tool THEN ghost.performed[t] + 1 ELSE ghost.performed[t]
    BY <1>5
  <2>3. logged'[t] = logged[t] /\ ghost'.lost = ghost.lost
    BY <1>3
  <2> HIDE DEF tool
  <2> QED  BY <2>1, <2>2, <2>3, OverrunOf
<1> QED  BY <1>1, <1>4, <1>6, OverrunCall

(* A call in flight is recorded, or its record is lost.                    *)
LEMMA OverrunLog ==
  ASSUME ConsentInv, OverrunInv, NEW b \in Branch, NEW i, Log(b, i)
  PROVE  OverrunInv'
<1> DEFINE tool == agent[b].reply[i].tool
<1>1. PICK old \in {"performed", "invalid"}, a \in {"returned", "failure"} :
        Thread(b, i, old) /\ Answer(b, i, a)
  BY DEF Log
<1>2. tool \in Tool
  BY <1>1, AnswerMoves
<1>3. UNCHANGED ghost /\ logged' = [logged EXCEPT ![tool] = @ + 1]
  BY DEF Log
<1>4. logged' \in [Tool -> Nat] /\ ghost'.performed \in [Tool -> Nat] /\ ghost'.lost \in Nat
  BY <1>2, <1>3 DEF OverrunInv
<1>5. \A t \in Tool : logged'[t] = IF t = tool THEN logged[t] + 1 ELSE logged[t]
  BY <1>3 DEF OverrunInv
<1>6. ASSUME NEW t \in Tool
      PROVE  /\ ghost'.performed[t] <= logged'[t] + ghost'.lost + Performed(agent', t)
             /\ ghost'.performed[t] + Admitted(agent', t) <= Cap(t) + ghost'.lost
  <2>1. /\ Admitted(agent, t) \in Nat /\ Performed(agent, t) \in Nat
        /\ Performed(agent', t) = IF t # tool THEN Performed(agent, t)
                                  ELSE IF old = "performed" THEN Performed(agent, t) - 1
                                  ELSE Performed(agent, t)
        /\ Admitted(agent', t) = Admitted(agent, t)
    BY <1>1, AnswerCounts
  <2>2. logged'[t] = IF t = tool THEN logged[t] + 1 ELSE logged[t]
    BY <1>5
  <2>3. ghost' = ghost
    BY <1>3
  <2> HIDE DEF tool
  <2> QED  BY <2>1, <2>2, <2>3, OverrunOf
<1> QED  BY <1>1, <1>4, <1>6, OverrunCall

LEMMA OverrunStoreFails ==
  ASSUME ConsentInv, OverrunInv, NEW b \in Branch, NEW i, StoreFails(b, i)
  PROVE  OverrunInv'
<1>1. Answer(b, i, "raised") /\ UNCHANGED logged
  BY DEF StoreFails
<1>2. CASE Thread(b, i, "todo") /\ UNCHANGED ghost
  BY <1>1, <1>2, OverrunRefuse
<1>3. CASE Thread(b, i, "performed") /\ ghost' = [ghost EXCEPT !.lost = @ + 1]
  <2>1. ghost'.performed = ghost.performed /\ ghost'.lost = ghost.lost + 1
    BY <1>3 DEF ConsentInv
  <2>2. logged' \in [Tool -> Nat] /\ ghost'.performed \in [Tool -> Nat] /\ ghost'.lost \in Nat
    BY <1>1, <2>1 DEF OverrunInv
  <2>3. ASSUME NEW t \in Tool
        PROVE  /\ ghost'.performed[t] <= logged'[t] + ghost'.lost + Performed(agent', t)
               /\ ghost'.performed[t] + Admitted(agent', t) <= Cap(t) + ghost'.lost
    <3>1. /\ Admitted(agent, t) \in Nat /\ Performed(agent, t) \in Nat
          /\ Performed(agent', t) \in {Performed(agent, t), Performed(agent, t) - 1}
          /\ Admitted(agent', t) = Admitted(agent, t)
      BY <1>1, <1>3, AnswerCounts
    <3>2. ghost'.performed[t] = ghost.performed[t] /\ logged'[t] = logged[t]
      BY <1>1, <2>1
    <3> QED  BY <2>1, <3>1, <3>2, OverrunOf
  <2> QED  BY <1>1, <1>3, <2>2, <2>3, OverrunCall
<1> QED  BY <1>2, <1>3 DEF StoreFails

(* Nodes are resumed, or refused, only where no call is running.           *)
LEMMA OverrunResolve ==
  ASSUME ConsentInv, OverrunInv, NEW key \in DOMAIN row, Resolve(key)
  PROVE  OverrunInv'
<1>1. /\ UNCHANGED logged /\ ghost'.performed = ghost.performed /\ ghost'.lost = ghost.lost
  BY DEF Resolve, ConsentInv
<1>2. ASSUME NEW c \in Branch
      PROVE  /\ CallsIn(agent'[c], c)
             /\ \A t \in Tool, s \in InFlight : Flights(agent'[c], t, s) = Flights(agent[c], t, s)
  <2>1. agent[c].pc # "run" /\ CallsIn(agent[c], c)
    BY DEF Resolve, Quiet, OverrunInv
  <2>2. \/ agent'[c] = agent[c] \/ agent'[c] = Fresh
        \/ agent'[c] = [agent[c] EXCEPT !.pc = "over"]
    BY DEF Resolve, Paused, ConsentInv
  <2>3. agent'[c].pc # "run" /\ CallsIn(agent'[c], c)
    <3>1. CASE agent'[c] = agent[c]
      BY <2>1, <3>1
    <3>2. CASE agent'[c] = Fresh
      BY <3>2 DEF Fresh, CallsIn
    <3>3. CASE agent'[c] = [agent[c] EXCEPT !.pc = "over"]
      <4>1. /\ agent'[c].pc = "over" /\ agent'[c].reply = agent[c].reply
            /\ agent'[c].answer = agent[c].answer
        BY <3>3 DEF ConsentInv, PassInv, Fresh
      <4> QED  BY <2>1, <4>1 DEF CallsIn
    <3> QED  BY <2>2, <3>1, <3>2, <3>3
  <2>4. \A t \in Tool, s \in InFlight : Flights(agent'[c], t, s) = {} /\ Flights(agent[c], t, s) = {}
    BY <2>1, <2>3, NoFlights
  <2> QED  BY <2>3, <2>4
<1>3. \A t \in Tool, s \in InFlight : Flying(agent', t, s) = Flying(agent, t, s)
  BY <1>2 DEF Flying
<1>4. \A t \in Tool : Admitted(agent', t) = Admitted(agent, t) /\ Performed(agent', t) = Performed(agent, t)
  BY <1>3 DEF Admitted, Performed, InFlight
<1> QED  BY <1>1, <1>2, <1>4 DEF OverrunInv

LEMMA OverrunInvInit == Init => OverrunInv
<1> SUFFICES ASSUME Init PROVE OverrunInv
  OBVIOUS
<1>1. \A b \in Branch : CallsIn(agent[b], b)
  BY DEF Init, Fresh, CallsIn
<1>2. ASSUME NEW t \in Tool
      PROVE  /\ ghost.performed[t] <= logged[t] + ghost.lost + Performed(agent, t)
             /\ ghost.performed[t] + Admitted(agent, t) <= Cap(t) + ghost.lost
  <2>1. \A s \in InFlight : Flying(agent, t, s) = {}
    BY DEF Init, Fresh, Flying, Flights, CallsOf
  <2>2. Admitted(agent, t) = 0 /\ Performed(agent, t) = 0
    BY <2>1, FS_EmptySet DEF Admitted, Performed, InFlight
  <2>3. ghost.performed[t] = 0 /\ logged[t] = 0 /\ ghost.lost = 0
    BY DEF Init
  <2> QED  BY <2>2, <2>3, CapCovers
<1>3. logged \in [Tool -> Nat] /\ ghost.performed \in [Tool -> Nat] /\ ghost.lost \in Nat
  BY DEF Init
<1> QED  BY <1>1, <1>2, <1>3 DEF OverrunInv

LEMMA OverrunInvNext == ConsentInv /\ OverrunInv /\ [Next]_vars => OverrunInv'
<1> SUFFICES ASSUME ConsentInv, OverrunInv, [Next]_vars PROVE OverrunInv'
  OBVIOUS
<1>1. ASSUME NEW b \in Branch, Loop(b) PROVE OverrunInv'
  <2>1. ASSUME NEW i \in DOMAIN agent[b].reply, Refuse(b, i) PROVE OverrunInv'
    <3>1. /\ Thread(b, i, "todo") /\ Answer(b, i, Refusal(b, i)) /\ UNCHANGED <<logged, ghost>>
          /\ Refusal(b, i) \in {"rejected", "rate_limited", "raised", "invalid"}
      BY <2>1 DEF Refuse, Refusal
    <3> QED  BY <3>1, OverrunRefuse
  <2> QED
    BY <1>1, <2>1, OverrunChat, OverrunMoves, OverrunDecision, OverrunEndTurn,
       OverrunAdmit, OverrunPerform, OverrunLog DEF Loop
<1>2. ASSUME NEW b \in Branch, GiveUp(b) \/ \E i \in DOMAIN agent[b].reply : StoreFails(b, i)
      PROVE  OverrunInv'
  BY <1>2, OverrunMoves, OverrunStoreFails
<1>3. ASSUME NEW key \in DOMAIN row, Resolve(key) PROVE OverrunInv'
  BY <1>3, OverrunResolve
<1>4. CASE UNCHANGED <<agent, logged, ghost>>
  BY <1>4 DEF OverrunInv, Admitted, Performed
<1>5. ASSUME NEW r \in Run, Discover(r) \/ Register(r) PROVE OverrunInv'
  BY <1>4, <1>5 DEF Discover, Register
<1>6. CASE Stopped \/ UNCHANGED vars
  BY <1>4, <1>6 DEF Stopped, vars
<1> QED  BY <1>1, <1>2, <1>3, <1>5, <1>6 DEF Next

(* However the threads of a wave interleave, and however often its nodes   *)
(* are resumed, a tool runs no more often than its limit, less one, and    *)
(* the threads that can count at the same time, and the executions whose   *)
(* record was lost (tools/registry.py, _invoke_inner).                     *)
THEOREM OverrunAlways == Spec => []OverrunIsBounded
<1>1. OverrunInv => OverrunIsBounded
  <2> SUFFICES ASSUME OverrunInv, NEW t \in Tool
               PROVE  ghost.performed[t] <= Max({0, Limit[t] - 1 + Parallel(t)}) + ghost.lost
    BY DEF OverrunIsBounded
  <2>1. Admitted(agent, t) \in Nat
    BY FlyingNumbers DEF OverrunInv, CallsIn
  <2>2. ghost.performed[t] <= Cap(t) + ghost.lost
    BY <2>1, OverrunOf
  <2> QED  BY <2>2 DEF Cap
<1> QED  BY <1>1, ConsentInvInit, ConsentInvNext, OverrunInvInit, OverrunInvNext, PTL DEF Spec
-----------------------------------------------------------------------------
(* The gates and the decisions: the words of a pass.                       *)

(* The gates: which calls of a pass have had theirs, and in what order.    *)

Answers == {"todo", "human", "rejected", "rate_limited", "invalid", "admitted",
            "performed", "returned", "failure", "raised"}
Word == Seq(Call) \cup Seq(Answers)

(* The sensitive calls of a reply, and the key of the gate of one of them. *)
Sens(r) == {i \in DOMAIN r : IsSensitive(r[i])}
Ahead(r, i) == {j \in Sens(r) : j < i}
KeyOf(b, n, r, i) == <<b, r[i].tool, n, Cardinality(Ahead(r, i))>>

(* The gates of what a pass said: turns and positions of sensitive calls.  *)
ReplyAt(said, n) == said[2 * n + 1]
GateSet(said) ==
  {h \in Nat \X Nat : 2 * h[1] + 1 <= Len(said) /\ h[2] \in Sens(ReplyAt(said, h[1]))}
KeyAt(b, said, h) == KeyOf(b, h[1], ReplyAt(said, h[1]), h[2])
CallAt(said, h) == ReplyAt(said, h[1])[h[2]]
Earlier(h, k) == h[1] < k[1] \/ (h[1] = k[1] /\ h[2] < k[2])

(* Those this pass is through with, those its turn waits for, and the next.*)
Consumed(p) ==
  {h \in GateSet(p.said) : h[1] < p.turn \/ (h[1] = p.turn /\ p.consent[h[2]] # Unasked)}
UnruledOf(p) == {i \in Sens(p.reply) : p.consent[i] = Unasked}
NextOf(p) == Min(UnruledOf(p))
KeyNow(b, p) == KeyOf(b, p.turn, p.reply, NextOf(p))

(* One pass: what it said so far, and its sensitive calls ruled in order.  *)
TalkInv(p) ==
  /\ p.said \in Seq(Word) /\ p.reply \in Seq(Call) /\ p.answer \in Seq(Answers)
  /\ p.pc \in {"chat", "gate", "paused", "run", "review", "review_again", "over"}
  /\ p.pc = "chat" => Len(p.said) = 2 * p.turn
  /\ p.pc \notin {"chat", "over"} => Len(p.said) = 2 * p.turn + 1 /\ ReplyAt(p.said, p.turn) = p.reply
  /\ \A i \in DOMAIN p.reply : p.consent[i] # Unasked =>
       /\ i \in Sens(p.reply)
       /\ \A j \in Sens(p.reply) : j < i => p.consent[j] # Unasked
  /\ p.pc \in {"gate", "paused"} => \A i \in DOMAIN p.reply : p.answer[i] \in {"todo", "human"}
  /\ p.pc \in {"review", "review_again"} => p.reply = <<>>

LEMMA SmallestOfFinite ==
  ASSUME NEW S, S \subseteq Nat, S # {}, IsFiniteSet(S)
  PROVE  Min(S) \in S /\ \A x \in S : Min(S) <= x
<1>1. PICK n \in S : \A x \in S : n >= x
  BY LargestOfFinite
<1> DEFINE T == {n - x : x \in S}
<1>2. T \subseteq Nat /\ T # {} /\ \A y \in T : y <= n
  <2>1. ASSUME NEW x \in S PROVE n - x \in Nat /\ n - x <= n
    <3>1. n \in Nat /\ x \in Nat /\ n >= x
      BY <1>1
    <3> QED  BY <3>1
  <2>2. \A y \in T : y \in Nat /\ y <= n
    BY <2>1
  <2>3. T # {}
    OBVIOUS
  <2> HIDE DEF T
  <2> QED  BY <2>2, <2>3
<1>3. IsFiniteSet(T)
  <2> HIDE DEF T
  <2>1. n \in Nat
    BY <1>1
  <2> QED  BY <1>2, <2>1, FS_BoundedSetOfNaturals
<1>4. PICK m \in T : \A y \in T : m >= y
  <2> HIDE DEF T
  <2> QED  BY <1>2, <1>3, LargestOfFinite
<1>5. PICK s \in S : m = n - s
  BY <1>4
<1>6. \A x \in S : s <= x
  <2> SUFFICES ASSUME NEW x \in S PROVE s <= x
    OBVIOUS
  <2>1. m >= n - x
    BY <1>4
  <2>2. n \in Nat /\ s \in Nat /\ x \in Nat
    BY <1>1
  <2> QED  BY <1>5, <2>1, <2>2
<1> QED  BY <1>5, <1>6 DEF Min

(* The first call that needs a ruling: those before it have one.           *)
LEMMA NextUnruledIsFirst ==
  ASSUME NEW p, TalkInv(p), UnruledOf(p) # {}
  PROVE  /\ NextOf(p) \in 1..Len(p.reply) /\ NextOf(p) \in Sens(p.reply)
         /\ p.consent[NextOf(p)] = Unasked
         /\ \A j \in UnruledOf(p) : NextOf(p) <= j
         /\ \A j \in DOMAIN p.reply : p.consent[j] # Unasked <=> j \in Ahead(p.reply, NextOf(p))
<1> DEFINE n == Len(p.reply)
           U == UnruledOf(p)
<1>1. n \in Nat /\ DOMAIN p.reply = 1..n
  BY LenProperties DEF TalkInv
<1>2. U \subseteq 1..n
  BY <1>1 DEF UnruledOf, Sens
<1>3. IsFiniteSet(U)
  <2> HIDE DEF U, n
  <2>1. IsFiniteSet(1..n)
    BY <1>1, FS_Interval
  <2> QED  BY <1>2, <2>1, FS_Subset
<1>4. NextOf(p) \in U /\ \A x \in U : NextOf(p) <= x
  <2>1. U # {} /\ U \subseteq Nat
    BY <1>1, <1>2
  <2>2. Min(U) \in U /\ \A x \in U : Min(U) <= x
    <3> HIDE DEF U
    <3> QED  BY <1>3, <2>1, SmallestOfFinite
  <2> QED  BY <2>2 DEF NextOf
<1> DEFINE i == NextOf(p)
<1>5. i \in 1..n /\ i \in Sens(p.reply) /\ p.consent[i] = Unasked
  BY <1>2, <1>4 DEF UnruledOf
<1>6. ASSUME NEW j \in DOMAIN p.reply
      PROVE  p.consent[j] # Unasked <=> j \in Ahead(p.reply, i)
  <2>1. ASSUME p.consent[j] # Unasked PROVE j \in Ahead(p.reply, i)
    <3>1. j \in Sens(p.reply) /\ \A k \in Sens(p.reply) : k < j => p.consent[k] # Unasked
      BY <2>1 DEF TalkInv
    <3>2. ~(i < j) /\ i # j
      BY <1>5, <2>1, <3>1
    <3> QED  BY <1>1, <1>5, <3>1, <3>2 DEF Ahead
  <2>2. ASSUME j \in Ahead(p.reply, i) PROVE p.consent[j] # Unasked
    <3>1. j \in Sens(p.reply) /\ j < i
      BY <2>2 DEF Ahead
    <3>2. j \notin U
      BY <1>1, <1>4, <1>5, <3>1
    <3> QED  BY <3>1, <3>2 DEF UnruledOf
  <2> QED  BY <2>1, <2>2
<1> QED  BY <1>4, <1>5, <1>6

(* The position of a gate in its turn is the count the code keeps.         *)
LEMMA GateKeyIsKeyNow ==
  ASSUME NEW b \in Branch, TalkInv(agent[b])
  PROVE  /\ Unruled(b) = UnruledOf(agent[b]) /\ NextUnruled(b) = NextOf(agent[b])
         /\ Unruled(b) # {} => GateKey(b, NextUnruled(b)) = KeyNow(b, agent[b])
<1> DEFINE p == agent[b]
           i == NextOf(p)
<1>1. Unruled(b) = UnruledOf(p)
  BY DEF Unruled, UnruledOf, Sens
<1>2. NextUnruled(b) = i
  BY <1>1 DEF NextUnruled, NextOf
<1>3. ASSUME Unruled(b) # {} PROVE Position(b, i) = Cardinality(Ahead(p.reply, i))
  <2>1. /\ i \in 1..Len(p.reply)
        /\ \A j \in DOMAIN p.reply : p.consent[j] # Unasked <=> j \in Ahead(p.reply, i)
    BY <1>1, <1>3, NextUnruledIsFirst
  <2>2. Len(p.reply) \in Nat /\ DOMAIN p.reply = 1..Len(p.reply)
    BY LenProperties DEF TalkInv
  <2>3. \A j \in Ahead(p.reply, i) : j \in DOMAIN p.reply /\ j < i
    BY DEF Ahead, Sens
  <2>4. \A j : j \in 1..i - 1 <=> j \in 1..Len(p.reply) /\ j < i
    BY <2>1, <2>2
  <2>5. {j \in 1..i - 1 : p.consent[j] # Unasked} = Ahead(p.reply, i)
    <3> HIDE DEF i
    <3> QED  BY <2>1, <2>2, <2>3, <2>4
  <2> QED  BY <2>5 DEF Position
<1> QED  BY <1>1, <1>2, <1>3 DEF GateKey, KeyNow, KeyOf

(* Two gates of a turn have different keys.                                *)
LEMMA KeysDiffer ==
  ASSUME NEW r \in Seq(Call), NEW i \in Sens(r), NEW j \in Sens(r),
         Cardinality(Ahead(r, i)) = Cardinality(Ahead(r, j))
  PROVE  i = j
<1>1. Len(r) \in Nat /\ DOMAIN r = 1..Len(r)
  BY LenProperties
<1>2. i \in 1..Len(r) /\ j \in 1..Len(r)
  BY <1>1 DEF Sens
<1>3. ASSUME NEW x \in Sens(r), NEW y \in Sens(r), x < y
      PROVE  Cardinality(Ahead(r, x)) # Cardinality(Ahead(r, y))
  <2> DEFINE n == Len(r)
             X == Ahead(r, x)
             Y == Ahead(r, y)
  <2>1. X \in SUBSET Y /\ x \in Y /\ x \notin X /\ Y \in SUBSET (1..n)
    <3>1. x \in 1..n /\ y \in 1..n
      BY <1>1 DEF Sens
    <3>2. \A z \in Sens(r) : z \in 1..n
      BY <1>1 DEF Sens
    <3>3. \A z \in 1..n : z < x => z < y
      BY <1>1, <1>3, <3>1
    <3>4. /\ \A z : z \in X <=> z \in Sens(r) /\ z < x
          /\ \A z : z \in Y <=> z \in Sens(r) /\ z < y
      BY DEF Ahead
    <3>5. ~(x < x)
      BY <1>1, <3>1
    <3> HIDE DEF X, Y, n
    <3> QED  BY <1>3, <3>2, <3>3, <3>4, <3>5
  <2>2. IsFiniteSet(Y)
    <3> HIDE DEF n, Y, X
    <3>1. IsFiniteSet(1..n)
      BY <1>1, FS_Interval DEF n
    <3> QED  BY <2>1, <3>1, FS_Subset
  <2> HIDE DEF n, Y, X
  <2>3. Cardinality(Y) = Cardinality(X) => Y = X
    BY <2>1, <2>2, FS_Subset
  <2> QED  BY <2>1, <2>3 DEF X, Y
<1> QED  BY <1>1, <1>2, <1>3

LEMMA SaidMore ==
  ASSUME NEW said \in Seq(Word), NEW w \in Word
  PROVE  /\ Append(said, w) \in Seq(Word) /\ Len(said) \in Nat
         /\ Len(Append(said, w)) = Len(said) + 1
         /\ \A n \in 1..Len(said) : Append(said, w)[n] = said[n]
         /\ Append(said, w)[Len(said) + 1] = w
BY AppendProperties, LenProperties

LEMMA AnotherAnswer ==
  ASSUME NEW s \in Seq(Answers), NEW i \in DOMAIN s, NEW a \in Answers
  PROVE  [s EXCEPT ![i] = a] \in Seq(Answers)
BY ExceptSeq, LenProperties

LEMMA NoAnswers ==
  ASSUME NEW n \in Nat
  PROVE  [i \in 1..n |-> "todo"] \in Seq(Answers)
BY DEF Answers

LEMMA TalkFresh == TalkInv(Fresh)
BY EmptySeq DEF TalkInv, Fresh

(* The model's next reply.                                                 *)
LEMMA ChatTalks ==
  ASSUME ConsentInv, OverrunInv, NEW b \in Branch, TalkInv(agent[b]), Chat(b)
  PROVE  /\ agent' = [agent EXCEPT ![b] = agent'[b]]
         /\ TalkInv(agent'[b]) /\ agent[b].pc = "chat" /\ agent'[b].pc \in {"gate", "review"}
         /\ agent'[b].turn = agent[b].turn /\ agent'[b].asked = agent[b].asked
         /\ agent'[b].reply \in Word
         /\ agent'[b].said = Append(agent[b].said, agent'[b].reply)
         /\ \A i \in DOMAIN agent'[b].reply : agent'[b].consent[i] = Unasked
         /\ ghost' = [ghost EXCEPT !.drifted = Drift(b, agent'[b].said)]
<1> PICK r \in Reply(b) :
      /\ agent' = [agent EXCEPT ![b] =
           [@ EXCEPT !.pc = IF r = <<>> THEN "review" ELSE "gate", !.reply = r,
                     !.arg = [i \in DOMAIN r |-> r[i].arg],
                     !.said = Append(agent[b].said, r),
                     !.answer = [i \in DOMAIN r |-> "todo"],
                     !.consent = [i \in DOMAIN r |-> Unasked]]]
      /\ ghost' = [ghost EXCEPT !.drifted = Drift(b, Append(agent[b].said, r))]
  BY DEF Chat
<1> DEFINE p == agent[b]
           q == agent'[b]
<1>1. /\ agent' = [agent EXCEPT ![b] = q] /\ q.reply = r
      /\ q.pc = (IF r = <<>> THEN "review" ELSE "gate")
      /\ q.turn = p.turn /\ q.asked = p.asked /\ q.said = Append(p.said, r)
      /\ q.answer = [i \in DOMAIN r |-> "todo"] /\ q.consent = [i \in DOMAIN r |-> Unasked]
  BY DEF ConsentInv, PassInv, Fresh
<1>2. p.pc = "chat" /\ Len(p.said) = 2 * p.turn /\ p.said \in Seq(Word) /\ p.turn \in Nat
  BY DEF Chat, At, TalkInv, ConsentInv, PassInv
<1>3. r \in Seq(Call) /\ Len(r) \in Nat /\ DOMAIN r = 1..Len(r)
  <2>1. r \in Replied(b)
    BY BoundsAssumption DEF Chat, Reply, Replied, ConsentInv, PassInv
  <2> QED  BY <2>1, RepliesAreCalls
<1>4. r \in Word
  BY <1>3 DEF Word
<1>5. q.said \in Seq(Word) /\ Len(q.said) = 2 * q.turn + 1 /\ q.said[2 * q.turn + 1] = r
  <2>1. /\ Append(p.said, r) \in Seq(Word) /\ Len(Append(p.said, r)) = Len(p.said) + 1
        /\ Append(p.said, r)[Len(p.said) + 1] = r
    BY <1>2, <1>4, SaidMore
  <2> HIDE DEF q, p
  <2> QED  BY <1>1, <1>2, <2>1
<1>6. q.answer \in Seq(Answers)
  <2>1. q.answer = [i \in 1..Len(r) |-> "todo"]
    BY <1>1, <1>3
  <2> QED  BY <1>3, <2>1, NoAnswers
<1>7. TalkInv(q)
  <2>1. \A i \in DOMAIN q.reply : q.consent[i] = Unasked /\ q.answer[i] = "todo"
    BY <1>1
  <2>2. q.pc \in {"gate", "review"} /\ (q.pc = "review" => q.reply = <<>>)
    BY <1>1
  <2>3. q.reply \in Seq(Call) /\ q.said[2 * q.turn + 1] = q.reply
    BY <1>1, <1>3, <1>5
  <2> HIDE DEF q
  <2> QED  BY <1>5, <1>6, <2>1, <2>2, <2>3 DEF TalkInv, ReplyAt
<1>8. /\ q.pc \in {"gate", "review"} /\ q.said = Append(p.said, q.reply)
      /\ \A i \in DOMAIN q.reply : q.consent[i] = Unasked
  BY <1>1
<1>9. ghost' = [ghost EXCEPT !.drifted = Drift(b, q.said)]
  BY <1>1
<1> HIDE DEF q
<1>10. agent' = [agent EXCEPT ![b] = q] /\ q.turn = p.turn /\ q.asked = p.asked /\ q.reply \in Word
  BY <1>1, <1>4
<1> QED  BY <1>2, <1>7, <1>8, <1>9, <1>10 DEF q

(* The gate, the review, a failed attempt: nothing new is said.            *)
LEMMA MoveTalks ==
  ASSUME ConsentInv, NEW b \in Branch, TalkInv(agent[b]),
         AskGate(b) \/ StartCalls(b) \/ Review(b) \/ GiveUp(b)
  PROVE  /\ agent' = [agent EXCEPT ![b] = agent'[b]]
         /\ TalkInv(agent'[b])
         /\ agent'[b].said = agent[b].said /\ agent'[b].reply = agent[b].reply
         /\ agent'[b].turn = agent[b].turn /\ agent'[b].asked = agent[b].asked
         /\ agent'[b].consent = agent[b].consent /\ agent'[b].answer = agent[b].answer
         /\ AskGate(b) => agent'[b].pc = "paused"
         /\ StartCalls(b) => agent'[b].pc = "run"
         /\ Review(b) => agent'[b].pc \in {"review_again", "over"}
         /\ GiveUp(b) => agent'[b].pc = "over"
<1> DEFINE p == agent[b]
           q == agent'[b]
<1>1. /\ agent' = [agent EXCEPT ![b] = q]
      /\ q.said = p.said /\ q.reply = p.reply /\ q.turn = p.turn /\ q.asked = p.asked
      /\ q.consent = p.consent /\ q.answer = p.answer
      /\ AskGate(b) => p.pc = "gate" /\ q.pc = "paused"
      /\ StartCalls(b) => p.pc = "gate" /\ q.pc = "run"
      /\ Review(b) => p.pc \in {"review", "review_again"} /\ q.pc \in {"review_again", "over"}
      /\ GiveUp(b) => q.pc = "over"
  <2>1. CASE AskGate(b)
    BY <2>1 DEF AskGate, StartCalls, Review, GiveUp, At, ConsentInv, PassInv, Fresh
  <2>2. CASE StartCalls(b)
    BY <2>2 DEF AskGate, StartCalls, Review, GiveUp, At, ConsentInv, PassInv, Fresh
  <2>3. CASE Review(b)
    BY <2>3 DEF AskGate, StartCalls, Review, GiveUp, At, ConsentInv, PassInv, Fresh
  <2>4. CASE GiveUp(b)
    BY <2>4 DEF AskGate, StartCalls, Review, GiveUp, At, ConsentInv, PassInv, Fresh
  <2> QED  BY <2>1, <2>2, <2>3, <2>4
<1>2. TalkInv(q)
  BY <1>1 DEF TalkInv
<1> QED  BY <1>1, <1>2

(* A ruling on the first call that needs one, by notification or decision. *)
LEMMA RulingTalks ==
  ASSUME ConsentInv, NEW b \in Branch, TalkInv(agent[b]),
         NotifyGate(b) \/ TakeDecision(b)
  PROVE  /\ agent' = [agent EXCEPT ![b] = agent'[b]]
         /\ TalkInv(agent'[b]) /\ UnruledOf(agent[b]) # {}
         /\ agent[b].pc = "gate" /\ agent'[b].pc = "gate"
         /\ agent'[b].said = agent[b].said /\ agent'[b].reply = agent[b].reply
         /\ agent'[b].turn = agent[b].turn
         /\ TakeDecision(b) =>
              /\ agent'[b].asked = agent[b].asked + 1
              /\ agent'[b].consent = [agent[b].consent EXCEPT ![NextOf(agent[b])] = agent[b].asked + 1]
         /\ \A i \in DOMAIN agent[b].reply : agent'[b].answer[i] \in {agent[b].answer[i], "human"}
<1> DEFINE p == agent[b]
           q == agent'[b]
           i == NextOf(p)
<1>1. UnruledOf(p) # {} /\ NextUnruled(b) = i
  BY GateKeyIsKeyNow DEF NotifyGate, TakeDecision
<1>2. p.pc = "gate" /\ DOMAIN p = DOMAIN Fresh /\ DOMAIN agent = Branch
      /\ DOMAIN p.consent = DOMAIN p.reply /\ DOMAIN p.answer = DOMAIN p.reply /\ p.asked \in Nat
  BY DEF NotifyGate, TakeDecision, At, ConsentInv, PassInv
<1>3. /\ agent' = [agent EXCEPT ![b] = q] /\ q.pc = "gate"
      /\ q.said = p.said /\ q.reply = p.reply /\ q.turn = p.turn
      /\ \E k : k # Unasked /\ q.consent = [p.consent EXCEPT ![i] = k]
      /\ \E a \in {p.answer[i], "human"} : q.answer = [p.answer EXCEPT ![i] = a]
      /\ TakeDecision(b) => /\ q.asked = p.asked + 1
                            /\ q.consent = [p.consent EXCEPT ![i] = p.asked + 1]
  <2>1. CASE NotifyGate(b)
    <3> DEFINE e == [p EXCEPT !.consent[i] = Notified]
    <3>1. agent' = [agent EXCEPT ![b] = e]
      BY <1>1, <2>1 DEF NotifyGate
    <3>2. q = e /\ ~TakeDecision(b)
      BY <1>2, <2>1, <3>1 DEF NotifyGate, TakeDecision
    <3>3. /\ e.pc = p.pc /\ e.said = p.said /\ e.reply = p.reply /\ e.turn = p.turn
          /\ e.consent = [p.consent EXCEPT ![i] = Notified] /\ e.answer = p.answer
      BY <1>2 DEF Fresh
    <3>4. e.answer = [p.answer EXCEPT ![i] = p.answer[i]] /\ Notified # Unasked
      <4>1. DOMAIN p.answer = DOMAIN p.reply /\ p.answer \in Seq(Answers)
        BY <1>2 DEF TalkInv
      <4>2. p.answer = [j \in DOMAIN p.answer |-> p.answer[j]]
        BY <4>1
      <4> QED  BY <3>3, <4>2 DEF Notified, Unasked
    <3> HIDE DEF e
    <3> QED  BY <1>2, <3>1, <3>2, <3>3, <3>4
  <2>2. CASE TakeDecision(b)
    <3> DEFINE k == p.asked + 1
               d == given[b][k]
               e == [p EXCEPT !.asked = k, !.consent[i] = k,
                              !.arg[i] = IF d.action = "modify" THEN d.arg ELSE p.arg[i],
                              !.answer[i] = IF d.action = "answer" THEN "human" ELSE p.answer[i]]
    <3>1. agent' = [agent EXCEPT ![b] = e]
      BY <1>1, <2>2 DEF TakeDecision
    <3>2. q = e
      BY <1>2, <3>1
    <3>3. e.pc = p.pc /\ e.said = p.said /\ e.reply = p.reply /\ e.turn = p.turn /\ e.asked = k
      BY <1>2 DEF Fresh
    <3>4. e.consent = [p.consent EXCEPT ![i] = k]
      BY <1>2 DEF Fresh
    <3>5. e.answer = [p.answer EXCEPT ![i] = IF d.action = "answer" THEN "human" ELSE p.answer[i]]
      BY <1>2 DEF Fresh
    <3>6. k # Unasked
      BY <1>2 DEF Unasked
    <3>7. \E a \in {p.answer[i], "human"} : e.answer = [p.answer EXCEPT ![i] = a]
      BY <3>5
    <3> HIDE DEF e
    <3> QED  BY <1>2, <3>1, <3>2, <3>3, <3>4, <3>6, <3>7
  <2> QED  BY <2>1, <2>2
<1>4. /\ i \in Sens(p.reply) /\ i \in DOMAIN p.reply
      /\ \A j \in DOMAIN p.reply : p.consent[j] # Unasked <=> j \in Ahead(p.reply, i)
  BY <1>1, NextUnruledIsFirst DEF Sens
<1>5. \A j \in DOMAIN p.reply : q.answer[j] \in {p.answer[j], "human"}
  BY <1>2, <1>3
<1>6. q.answer \in Seq(Answers)
  <2>1. p.answer \in Seq(Answers) /\ "human" \in Answers
    BY DEF TalkInv, Answers
  <2>2. p.answer[i] \in Answers
    BY <1>2, <1>4, <2>1, ElementOfSeq, LenProperties
  <2>3. PICK a \in Answers : q.answer = [p.answer EXCEPT ![i] = a]
    BY <1>3, <2>1, <2>2
  <2>4. i \in DOMAIN p.answer
    BY <1>2, <1>4
  <2> QED  BY <2>1, <2>3, <2>4, AnotherAnswer
<1>7. ASSUME NEW j \in DOMAIN q.reply, q.consent[j] # Unasked
      PROVE  j \in Sens(q.reply) /\ \A l \in Sens(q.reply) : l < j => q.consent[l] # Unasked
  <2>1. \A l \in DOMAIN p.reply : q.consent[l] # Unasked <=> l = i \/ l \in Ahead(p.reply, i)
    BY <1>2, <1>3, <1>4
  <2>2. Len(p.reply) \in Nat /\ DOMAIN p.reply = 1..Len(p.reply)
    BY LenProperties DEF TalkInv
  <2>3. \A l \in Sens(p.reply) : l \in DOMAIN p.reply
    BY DEF Sens
  <2>4. \A l : l \in Ahead(p.reply, i) <=> l \in Sens(p.reply) /\ l < i
    BY DEF Ahead
  <2>5. j \in Sens(p.reply) /\ (j = i \/ j < i)
    BY <1>3, <1>4, <1>7, <2>1, <2>4
  <2> HIDE DEF i
  <2>6. ASSUME NEW l \in Sens(p.reply), l < j PROVE q.consent[l] # Unasked
    <3>1. l \in 1..Len(p.reply) /\ j \in 1..Len(p.reply) /\ i \in 1..Len(p.reply)
      BY <1>4, <2>2, <2>3, <2>5
    <3>2. l < i
      BY <2>2, <2>5, <2>6, <3>1
    <3> QED  BY <2>1, <2>2, <2>4, <3>1, <3>2
  <2> QED  BY <1>3, <2>5, <2>6
<1>8. TalkInv(q)
  BY <1>2, <1>3, <1>5, <1>6, <1>7 DEF TalkInv
<1> HIDE DEF i
<1> QED  BY <1>1, <1>2, <1>3, <1>5, <1>8 DEF i

(* An answer of the registry.                                              *)
LEMMA AnswerTalks ==
  ASSUME ConsentInv, NEW b \in Branch, TalkInv(agent[b]), NEW i, NEW old, Thread(b, i, old),
         NEW a \in Answers, Answer(b, i, a)
  PROVE  /\ agent' = [agent EXCEPT ![b] = agent'[b]]
         /\ TalkInv(agent'[b]) /\ agent[b].pc = "run" /\ agent'[b].pc = "run"
         /\ agent'[b].said = agent[b].said /\ agent'[b].reply = agent[b].reply
         /\ agent'[b].turn = agent[b].turn /\ agent'[b].asked = agent[b].asked
         /\ agent'[b].consent = agent[b].consent
         /\ i \in DOMAIN agent[b].reply /\ agent[b].answer[i] = old
         /\ DOMAIN agent[b].answer = DOMAIN agent[b].reply
         /\ agent'[b].answer = [agent[b].answer EXCEPT ![i] = a]
<1> DEFINE p == agent[b]
           q == agent'[b]
<1>1. /\ agent' = [agent EXCEPT ![b] = q] /\ p.pc = "run" /\ q.pc = "run"
      /\ q.said = p.said /\ q.reply = p.reply /\ q.turn = p.turn /\ q.asked = p.asked
      /\ q.consent = p.consent /\ q.answer = [p.answer EXCEPT ![i] = a]
      /\ i \in DOMAIN p.reply /\ p.answer[i] = old /\ DOMAIN p.answer = DOMAIN p.reply
  BY DEF Thread, Answer, At, ConsentInv, PassInv, Fresh
<1>2. q.answer \in Seq(Answers)
  <2>1. p.answer \in Seq(Answers) /\ i \in DOMAIN p.answer
    BY <1>1 DEF TalkInv
  <2> QED  BY <1>1, <2>1, AnotherAnswer
<1>3. TalkInv(q)
  BY <1>1, <1>2 DEF TalkInv
<1> QED  BY <1>1, <1>3

(* The end of a turn: the answers are said, or the attempt is over.        *)
LEMMA EndTurnTalks ==
  ASSUME ConsentInv, NEW b \in Branch, TalkInv(agent[b]), EndTurn(b)
  PROVE  /\ agent' = [agent EXCEPT ![b] = agent'[b]]
         /\ TalkInv(agent'[b]) /\ agent[b].pc = "run" /\ UnruledOf(agent[b]) = {}
         /\ agent'[b].asked = agent[b].asked
         /\ \/ agent'[b].pc = "over" /\ UNCHANGED ghost
            \/ /\ agent'[b].pc = "chat" /\ agent'[b].turn = agent[b].turn + 1
               /\ agent[b].answer \in Word
               /\ agent'[b].said = Append(agent[b].said, agent[b].answer)
               /\ ghost' = [ghost EXCEPT !.drifted = Drift(b, agent'[b].said)]
<1> DEFINE p == agent[b]
           q == agent'[b]
<1>1. p.pc = "run" /\ DOMAIN p = DOMAIN Fresh /\ DOMAIN agent = Branch /\ p.turn \in Nat
  BY DEF EndTurn, At, ConsentInv, PassInv
<1>2. UnruledOf(p) = {}
  BY <1>1 DEF UnruledOf, Sens, ConsentInv, PassInv, RuledOn
<1>3. CASE \E i \in DOMAIN p.reply : p.answer[i] = "raised"
  <2>1. agent' = [agent EXCEPT ![b].pc = "over"] /\ UNCHANGED ghost
    BY <1>3 DEF EndTurn
  <2>2. /\ agent' = [agent EXCEPT ![b] = q] /\ q.pc = "over"
        /\ q.said = p.said /\ q.reply = p.reply /\ q.turn = p.turn /\ q.asked = p.asked
        /\ q.consent = p.consent /\ q.answer = p.answer
    BY <1>1, <2>1 DEF Fresh
  <2>3. TalkInv(q)
    BY <2>2 DEF TalkInv
  <2> QED  BY <1>1, <1>2, <2>1, <2>2, <2>3
<1>4. CASE ~\E i \in DOMAIN p.reply : p.answer[i] = "raised"
  <2> DEFINE said == Append(p.said, p.answer)
  <2>1. /\ agent' = [agent EXCEPT ![b].pc = "chat", ![b].turn = @ + 1, ![b].said = said]
        /\ ghost' = [ghost EXCEPT !.drifted = Drift(b, said)]
    BY <1>4 DEF EndTurn
  <2>2. /\ agent' = [agent EXCEPT ![b] = q] /\ q.pc = "chat"
        /\ q.said = said /\ q.reply = p.reply /\ q.turn = p.turn + 1 /\ q.asked = p.asked
        /\ q.consent = p.consent /\ q.answer = p.answer
    BY <1>1, <2>1 DEF Fresh
  <2>3. p.answer \in Word /\ p.said \in Seq(Word) /\ Len(p.said) = 2 * p.turn + 1
    BY <1>1 DEF TalkInv, Word
  <2>4. said \in Seq(Word) /\ Len(said) = 2 * (p.turn + 1)
    BY <1>1, <2>3, SaidMore
  <2> HIDE DEF said
  <2>5. TalkInv(q)
    BY <2>2, <2>4 DEF TalkInv
  <2> QED  BY <1>1, <1>2, <2>1, <2>2, <2>3, <2>5 DEF said
<1> QED  BY <1>3, <1>4

(* The decisions a node holds belong to the first gates of what it said    *)
(* when it paused last, in their order: g is where each of them stood.     *)
Path(b, g, dec, bef, rw) ==
  /\ Len(dec) \in Nat /\ DOMAIN dec = 1..Len(dec) /\ Len(bef) \in Nat
  /\ g \in [1..Len(dec) -> Nat \X Nat]
  /\ \A k \in 1..Len(dec) :
       /\ g[k] \in GateSet(bef)
       /\ dec[k].key = KeyAt(b, bef, g[k])
       /\ dec[k].key \in DOMAIN rw
       /\ rw[dec[k].key] = [status |-> "resolved", call |-> CallAt(bef, g[k])]
  /\ \A k \in 1..Len(dec) : \A j \in 1..k - 1 : Earlier(g[j], g[k])
  /\ \A k \in 1..Len(dec) : \A h \in GateSet(bef) :
       Earlier(h, g[k]) => \E j \in 1..k - 1 : h = g[j]

(* This pass says the same again, and has taken the decisions of the gates *)
(* it is through with.                                                     *)
Follows(g, p, dec, bef) ==
  /\ p.turn \in Nat /\ p.asked \in 0..Len(dec)
  /\ \A n \in 1..Len(p.said) : n <= Len(bef) => p.said[n] = bef[n]
  /\ Consumed(p) = {g[j] : j \in 1..p.asked}
  /\ p.pc # "chat" => \A i \in DOMAIN p.reply : p.consent[i] # Unasked =>
       p.consent[i] \in 1..p.asked /\ g[p.consent[i]] = <<p.turn, i>>

(* The node's approvals: of the gates decided on, and of the one it waits  *)
(* at, which somebody can still resolve.                                   *)
Rows(b, p, dec, rw) ==
  \A key \in DOMAIN rw : key[1] = b =>
    \/ \E k \in 1..Len(dec) : key = dec[k].key
    \/ p.pc = "paused" /\ key = KeyNow(b, p)
Waits(b, p, dec, bef, rw) ==
  p.pc = "paused" =>
    /\ p.asked = Len(dec) /\ UnruledOf(p) # {} /\ bef = p.said
    /\ KeyNow(b, p) \in DOMAIN rw
    /\ rw[KeyNow(b, p)] = [status |-> "pending", call |-> p.reply[NextOf(p)]]

Guided(b, g, p, dec, bef, rw) ==
  /\ Path(b, g, dec, bef, rw)
  /\ Follows(g, p, dec, bef)
  /\ Rows(b, p, dec, rw)
  /\ Waits(b, p, dec, bef, rw)

(* The gate of the first call that needs a ruling, among those of the pass.*)
GateNow(p) == <<p.turn, NextOf(p)>>

LEMMA GateNowIsNext ==
  ASSUME NEW b, NEW p, TalkInv(p), p.turn \in Nat, p.pc \in {"gate", "paused"}, UnruledOf(p) # {}
  PROVE  /\ GateNow(p) \in GateSet(p.said) /\ GateNow(p) \notin Consumed(p)
         /\ KeyAt(b, p.said, GateNow(p)) = KeyNow(b, p)
         /\ CallAt(p.said, GateNow(p)) = p.reply[NextOf(p)]
         /\ \A c \in Consumed(p) : Earlier(c, GateNow(p))
         /\ \A h \in GateSet(p.said) : Earlier(h, GateNow(p)) => h \in Consumed(p)
         /\ \A h \in GateSet(p.said) : h \notin Consumed(p) => h = GateNow(p) \/ Earlier(GateNow(p), h)
         /\ \A h \in GateSet(p.said), c \in Consumed(p) : Earlier(h, c) => h \in Consumed(p)
<1> DEFINE i == NextOf(p)
           s == GateNow(p)
<1>1. /\ i \in 1..Len(p.reply) /\ i \in Sens(p.reply) /\ p.consent[i] = Unasked
      /\ \A j \in DOMAIN p.reply : p.consent[j] # Unasked <=> j \in Ahead(p.reply, i)
  BY NextUnruledIsFirst
<1>2. Len(p.reply) \in Nat /\ DOMAIN p.reply = 1..Len(p.reply)
  BY LenProperties DEF TalkInv
<1>3. Len(p.said) = 2 * p.turn + 1 /\ ReplyAt(p.said, p.turn) = p.reply
  BY DEF TalkInv
<1>4. i \in Nat /\ s \in Nat \X Nat /\ s[1] = p.turn /\ s[2] = i
  BY <1>1, <1>2 DEF GateNow
<1> HIDE DEF i, s
<1>5. s \in GateSet(p.said)
  BY <1>1, <1>3, <1>4 DEF GateSet
<1>6. s \notin Consumed(p)
  BY <1>1, <1>4 DEF Consumed
<1>7. ASSUME NEW h \in GateSet(p.said)
      PROVE  /\ h \in Nat \X Nat /\ h[1] \in Nat /\ h[2] \in Nat /\ h[1] <= p.turn
             /\ h[1] = p.turn => h[2] \in Sens(p.reply) /\ h[2] \in DOMAIN p.reply
  <2>1. h \in Nat \X Nat /\ 2 * h[1] + 1 <= Len(p.said) /\ h[2] \in Sens(ReplyAt(p.said, h[1]))
    BY DEF GateSet
  <2>2. h[1] \in Nat /\ h[2] \in Nat
    BY <2>1
  <2>3. h[1] <= p.turn
    BY <1>3, <2>1, <2>2
  <2> QED  BY <1>3, <2>1, <2>2, <2>3 DEF Sens
<1>8. ASSUME NEW h \in GateSet(p.said)
      PROVE  h \in Consumed(p) <=> Earlier(h, s)
  <2>1. CASE h[1] < p.turn
    BY <1>4, <2>1 DEF Consumed, Earlier
  <2>2. CASE h[1] = p.turn
    <3>1. h \in Consumed(p) <=> p.consent[h[2]] # Unasked
      BY <1>4, <1>7, <2>2 DEF Consumed
    <3>2. p.consent[h[2]] # Unasked <=> h[2] < i
      BY <1>1, <1>7, <2>2 DEF Ahead, i
    <3>3. Earlier(h, s) <=> h[2] < i
      BY <1>4, <1>7, <2>2 DEF Earlier
    <3> QED  BY <3>1, <3>2, <3>3
  <2> QED  BY <1>7, <2>1, <2>2
<1>9. \A c \in Consumed(p) : c \in GateSet(p.said)
  BY DEF Consumed
<1>10. ASSUME NEW h \in GateSet(p.said), ~Earlier(h, s) PROVE h = s \/ Earlier(s, h)
  <2>1. h = <<h[1], h[2]>> /\ s = <<s[1], s[2]>>
    BY <1>4, <1>7
  <2>2. h[1] = s[1] \/ h[1] > s[1]
    BY <1>4, <1>7, <1>10 DEF Earlier
  <2>3. h[1] = s[1] => h[2] = s[2] \/ h[2] > s[2]
    BY <1>4, <1>7, <1>10 DEF Earlier
  <2> QED  BY <1>4, <1>7, <2>1, <2>2, <2>3 DEF Earlier
<1>11. ASSUME NEW h \in GateSet(p.said), NEW c \in Consumed(p), Earlier(h, c) PROVE h \in Consumed(p)
  <2>1. Earlier(c, s) /\ c \in GateSet(p.said)
    BY <1>8, <1>9
  <2>2. Earlier(h, s)
    BY <1>4, <1>7, <1>11, <2>1 DEF Earlier
  <2> QED  BY <1>8, <2>2
<1>12. KeyAt(b, p.said, s) = KeyNow(b, p)
  BY <1>3, <1>4 DEF KeyAt, KeyNow, i
<1>13. CallAt(p.said, s) = p.reply[i]
  BY <1>3, <1>4 DEF CallAt
<1> QED  BY <1>5, <1>6, <1>8, <1>9, <1>10, <1>11, <1>12, <1>13 DEF i, s

LEMMA EarlierIsStrict ==
  ASSUME NEW h \in Nat \X Nat, NEW k \in Nat \X Nat, Earlier(h, k)
  PROVE  h # k /\ ~Earlier(k, h)
BY DEF Earlier

(* Gates both have said are the same in both.                              *)
LEMMA SaidAgain ==
  ASSUME NEW g, NEW p, NEW dec, NEW bef, Follows(g, p, dec, bef), Len(bef) \in Nat, Len(p.said) \in Nat,
         NEW n \in Nat, 2 * n + 1 <= Len(p.said), 2 * n + 1 <= Len(bef)
  PROVE  ReplyAt(p.said, n) = ReplyAt(bef, n)
<1>1. 2 * n + 1 \in 1..Len(p.said)
  OBVIOUS
<1> QED  BY <1>1 DEF Follows, ReplyAt

(* The next decision is that of the gate the pass has reached.             *)
LEMMA NextDecisionFits ==
  ASSUME NEW b, NEW g, NEW p, NEW dec, NEW bef, NEW rw,
         TalkInv(p), p.pc = "gate", UnruledOf(p) # {},
         Path(b, g, dec, bef, rw), Follows(g, p, dec, bef), p.asked < Len(dec)
  PROVE  /\ g[p.asked + 1] = GateNow(p)
         /\ dec[p.asked + 1].key = KeyNow(b, p)
         /\ rw[KeyNow(b, p)].call = p.reply[NextOf(p)] /\ KeyNow(b, p) \in DOMAIN rw
<1> DEFINE k == p.asked + 1
           s == GateNow(p)
           m == g[k]
<1>1. p.turn \in Nat /\ p.asked \in Nat /\ Len(dec) \in Nat /\ k \in 1..Len(dec) /\ Len(bef) \in Nat
  BY DEF Follows, Path
<1>2. Len(p.said) = 2 * p.turn + 1
  BY DEF TalkInv
<1>3. /\ s \in GateSet(p.said) /\ s \notin Consumed(p)
      /\ KeyAt(b, p.said, s) = KeyNow(b, p)
      /\ CallAt(p.said, s) = p.reply[NextOf(p)]
      /\ \A h \in GateSet(p.said) : h \notin Consumed(p) => h = s \/ Earlier(s, h)
  BY <1>1, GateNowIsNext
<1>4. /\ m \in GateSet(bef) /\ dec[k].key = KeyAt(b, bef, m)
      /\ dec[k].key \in DOMAIN rw
      /\ rw[dec[k].key] = [status |-> "resolved", call |-> CallAt(bef, m)]
      /\ \A j \in 1..p.asked : Earlier(g[j], m)
      /\ \A h \in GateSet(bef) : Earlier(h, m) => \E j \in 1..p.asked : h = g[j]
  <2>1. 1..k - 1 = 1..p.asked
    BY <1>1
  <2> HIDE DEF k
  <2> QED  BY <1>1, <2>1 DEF Path
<1>5. Consumed(p) = {g[j] : j \in 1..p.asked}
  BY DEF Follows
<1>6. \A j \in 1..p.asked : g[j] \in Nat \X Nat
  BY <1>1 DEF Path
<1>7. /\ m \in Nat \X Nat /\ m[1] \in Nat /\ m[2] \in Nat /\ 2 * m[1] + 1 <= Len(bef)
      /\ m[2] \in Sens(ReplyAt(bef, m[1]))
  BY <1>4 DEF GateSet
<1>8. m \notin Consumed(p)
  BY <1>4, <1>5, <1>6, <1>7, EarlierIsStrict
<1>9. /\ s \in Nat \X Nat /\ s[1] = p.turn /\ s[2] \in Sens(ReplyAt(p.said, p.turn))
      /\ s = <<s[1], s[2]>> /\ s[2] \in Nat
  BY <1>3 DEF GateSet, GateNow
<1> HIDE DEF k, s, m
<1>10. ASSUME 2 * p.turn + 1 <= Len(bef) PROVE s \in GateSet(bef) /\ ReplyAt(p.said, p.turn) = ReplyAt(bef, p.turn)
  <2>1. ReplyAt(p.said, p.turn) = ReplyAt(bef, p.turn)
    BY <1>1, <1>2, <1>10, SaidAgain
  <2> QED  BY <1>9, <1>10, <2>1 DEF GateSet
<1>11. ASSUME s \in GateSet(bef) PROVE ~Earlier(s, m)
  BY <1>3, <1>4, <1>5, <1>11
<1>12. m[1] <= p.turn
  <2> SUFFICES ASSUME m[1] > p.turn PROVE FALSE
    BY <1>1, <1>7
  <2>1. 2 * p.turn + 1 <= Len(bef)
    BY <1>1, <1>7
  <2>2. Earlier(s, m)
    BY <1>9 DEF Earlier
  <2> QED  BY <1>10, <1>11, <2>1, <2>2
<1>13. m \in GateSet(p.said)
  <2>1. 2 * m[1] + 1 <= Len(p.said)
    BY <1>1, <1>2, <1>7, <1>12
  <2>2. Len(p.said) \in Nat
    BY <1>1, <1>2
  <2>3. ReplyAt(p.said, m[1]) = ReplyAt(bef, m[1])
    BY <1>1, <1>7, <2>1, <2>2, SaidAgain
  <2> QED  BY <1>7, <2>1, <2>3 DEF GateSet
<1>14. m = s \/ Earlier(s, m)
  BY <1>3, <1>8, <1>13
<1>15. 2 * p.turn + 1 <= Len(bef)
  <2>1. m[1] = p.turn
    BY <1>1, <1>7, <1>9, <1>12, <1>14 DEF Earlier
  <2> QED  BY <1>7, <2>1
<1>16. m = s
  BY <1>10, <1>11, <1>14, <1>15
<1>17. KeyAt(b, bef, m) = KeyNow(b, p) /\ CallAt(bef, m) = p.reply[NextOf(p)]
  BY <1>3, <1>9, <1>10, <1>15, <1>16 DEF KeyAt, CallAt
<1> QED  BY <1>4, <1>16, <1>17 DEF k, s, m

(* A step that says nothing and rules on nothing.                          *)
LEMMA GuidedStill ==
  ASSUME NEW b, NEW g, NEW p, NEW q, NEW dec, NEW bef, NEW rw,
         Guided(b, g, p, dec, bef, rw),
         q.said = p.said, q.reply = p.reply, q.turn = p.turn, q.asked = p.asked,
         q.consent = p.consent, p.pc \notin {"chat", "paused"}, q.pc # "paused"
  PROVE  Guided(b, g, q, dec, bef, rw)
BY DEF Guided, Follows, Rows, Waits, Consumed

(* The next reply of the model, the same as before if there was one.       *)
LEMMA GuidedChat ==
  ASSUME NEW b, NEW g, NEW p, NEW q, NEW w \in Word, NEW dec, NEW bef, NEW rw,
         Guided(b, g, p, dec, bef, rw), TalkInv(p), p.pc = "chat", q.pc \in {"gate", "review"},
         q.turn = p.turn, q.asked = p.asked, q.said = Append(p.said, w),
         \A i \in DOMAIN q.reply : q.consent[i] = Unasked,
         TalkInv(q),
         Len(q.said) <= Len(bef) => bef[Len(q.said)] = w
  PROVE  Guided(b, g, q, dec, bef, rw)
<1>1. /\ p.said \in Seq(Word) /\ Len(p.said) = 2 * p.turn /\ p.turn \in Nat
      /\ Len(q.said) = Len(p.said) + 1 /\ Len(p.said) \in Nat
      /\ \A n \in 1..Len(p.said) : q.said[n] = p.said[n]
      /\ q.said[Len(p.said) + 1] = w
  <2>1. p.said \in Seq(Word) /\ Len(p.said) = 2 * p.turn /\ p.turn \in Nat
    BY DEF TalkInv, Guided, Follows
  <2> QED  BY <2>1, SaidMore
<1>2. \A n \in 1..Len(q.said) : n <= Len(bef) => q.said[n] = bef[n]
  <2> SUFFICES ASSUME NEW n \in 1..Len(q.said), n <= Len(bef) PROVE q.said[n] = bef[n]
    OBVIOUS
  <2>1. CASE n = Len(q.said)
    BY <1>1, <2>1
  <2>2. CASE n # Len(q.said)
    <3>1. n \in 1..Len(p.said)
      BY <1>1, <2>2
    <3> QED  BY <1>1, <3>1 DEF Guided, Follows
  <2> QED  BY <2>1, <2>2
<1>3. Consumed(q) = Consumed(p)
  <2>1. \A h \in GateSet(p.said) : h[1] < p.turn
    BY <1>1 DEF GateSet
  <2>2. ASSUME NEW h \in Nat \X Nat, h[1] < p.turn
        PROVE  h \in GateSet(q.said) <=> h \in GateSet(p.said)
    <3>1. h[1] \in Nat /\ 2 * h[1] + 1 \in 1..Len(p.said)
      BY <1>1, <2>2
    <3>2. ReplyAt(q.said, h[1]) = ReplyAt(p.said, h[1]) /\ 2 * h[1] + 1 <= Len(q.said)
      BY <1>1, <3>1 DEF ReplyAt
    <3> QED  BY <3>1, <3>2 DEF GateSet
  <2>3. \A h \in GateSet(q.said) : h[1] = q.turn => q.consent[h[2]] = Unasked
    <3> SUFFICES ASSUME NEW h \in GateSet(q.said), h[1] = q.turn PROVE q.consent[h[2]] = Unasked
      OBVIOUS
    <3>1. h[2] \in Sens(ReplyAt(q.said, q.turn)) /\ ReplyAt(q.said, q.turn) = q.reply
      BY DEF GateSet, TalkInv
    <3> QED  BY <3>1 DEF Sens
  <2>4. \A h \in GateSet(q.said) \cup GateSet(p.said) : h \in Nat \X Nat
    BY DEF GateSet
  <2>5. \A h : h \in Consumed(p) <=> h \in GateSet(p.said) /\ h[1] < p.turn
    <3>1. \A h \in GateSet(p.said) : ~(h[1] = p.turn)
      BY <1>1, <2>1, <2>4
    <3> QED  BY <3>1 DEF Consumed
  <2>6. \A h : h \in Consumed(q) <=> h \in GateSet(q.said) /\ h[1] < p.turn
    BY <2>3 DEF Consumed
  <2> QED  BY <2>2, <2>4, <2>5, <2>6
<1>4. Follows(g, q, dec, bef)
  BY <1>2, <1>3 DEF Guided, Follows
<1> QED  BY <1>4 DEF Guided, Rows, Waits

LEMMA OddAndEven ==
  ASSUME NEW n \in Nat, NEW t \in Nat
  PROVE  /\ 2 * n + 1 <= 2 * t + 1 <=> n <= t
         /\ 2 * n + 1 <= 2 * t + 2 <=> n <= t
         /\ n <= t => 2 * n + 1 >= 1
<1>1. CASE n <= t
  BY <1>1
<1>2. CASE n >= t + 1
  BY <1>2
<1> QED  BY <1>1, <1>2

(* The end of a turn: its gates are all behind the pass.                   *)
LEMMA GuidedEndTurn ==
  ASSUME NEW b, NEW g, NEW p, NEW q, NEW w \in Word, NEW dec, NEW bef, NEW rw,
         Guided(b, g, p, dec, bef, rw), TalkInv(p), p.pc = "run", UnruledOf(p) = {}, q.pc = "chat",
         q.turn = p.turn + 1, q.asked = p.asked, q.said = Append(p.said, w),
         Len(q.said) <= Len(bef) => bef[Len(q.said)] = w
  PROVE  Guided(b, g, q, dec, bef, rw)
<1>1. /\ p.said \in Seq(Word) /\ Len(p.said) = 2 * p.turn + 1 /\ p.turn \in Nat
      /\ ReplyAt(p.said, p.turn) = p.reply
      /\ Len(q.said) = Len(p.said) + 1 /\ Len(p.said) \in Nat
      /\ \A n \in 1..Len(p.said) : q.said[n] = p.said[n]
      /\ q.said[Len(p.said) + 1] = w
  <2>1. /\ p.said \in Seq(Word) /\ Len(p.said) = 2 * p.turn + 1 /\ p.turn \in Nat
        /\ ReplyAt(p.said, p.turn) = p.reply
    BY DEF TalkInv, Guided, Follows
  <2> QED  BY <2>1, SaidMore
<1>2. \A n \in 1..Len(q.said) : n <= Len(bef) => q.said[n] = bef[n]
  <2> SUFFICES ASSUME NEW n \in 1..Len(q.said), n <= Len(bef) PROVE q.said[n] = bef[n]
    OBVIOUS
  <2>1. CASE n = Len(q.said)
    BY <1>1, <2>1
  <2>2. CASE n # Len(q.said)
    <3>1. n \in 1..Len(p.said)
      BY <1>1, <2>2
    <3> QED  BY <1>1, <3>1 DEF Guided, Follows
  <2> QED  BY <2>1, <2>2
<1>3. Consumed(q) = Consumed(p)
  <2>1. ASSUME NEW h \in Nat \X Nat
        PROVE  /\ h \in GateSet(q.said) <=> h \in GateSet(p.said)
               /\ h \in GateSet(p.said) => h[1] <= p.turn /\ h[1] \in Nat
    <3>1. h[1] \in Nat
      OBVIOUS
    <3>2. /\ 2 * h[1] + 1 <= Len(q.said) <=> 2 * h[1] + 1 \in 1..Len(p.said)
          /\ 2 * h[1] + 1 <= Len(p.said) <=> 2 * h[1] + 1 \in 1..Len(p.said)
          /\ 2 * h[1] + 1 <= Len(p.said) => h[1] <= p.turn
      <4> DEFINE n == h[1]
                 t == p.turn
      <4>1. /\ n \in Nat /\ t \in Nat /\ Len(p.said) = 2 * t + 1 /\ Len(q.said) = 2 * t + 2
            /\ 2 * n + 1 \in Int
        BY <1>1, <3>1
      <4> HIDE DEF n, t
      <4>2. /\ 2 * n + 1 <= 2 * t + 1 <=> n <= t
            /\ 2 * n + 1 <= 2 * t + 2 <=> n <= t
            /\ n <= t => 2 * n + 1 >= 1
        BY <4>1, OddAndEven
      <4>3. 2 * n + 1 \in 1..2 * t + 1 <=> n <= t
        BY <4>1, <4>2
      <4> QED  BY <4>1, <4>2, <4>3 DEF n, t
    <3>3. 2 * h[1] + 1 \in 1..Len(p.said) => ReplyAt(q.said, h[1]) = ReplyAt(p.said, h[1])
      BY <1>1 DEF ReplyAt
    <3> QED  BY <3>1, <3>2, <3>3 DEF GateSet
  <2>2. \A h \in GateSet(p.said) : h[1] = p.turn => p.consent[h[2]] # Unasked
    <3> SUFFICES ASSUME NEW h \in GateSet(p.said), h[1] = p.turn PROVE p.consent[h[2]] # Unasked
      OBVIOUS
    <3>1. h[2] \in Sens(p.reply)
      BY <1>1 DEF GateSet
    <3> QED  BY <3>1 DEF UnruledOf
  <2>3. \A h \in GateSet(q.said) \cup GateSet(p.said) : h \in Nat \X Nat
    BY DEF GateSet
  <2>4. \A h : h \in Consumed(p) <=> h \in GateSet(p.said)
    <3>1. \A h \in GateSet(p.said) : h[1] < p.turn \/ h[1] = p.turn
      BY <1>1, <2>1, <2>3
    <3> QED  BY <2>2, <3>1 DEF Consumed
  <2>5. \A h : h \in Consumed(q) <=> h \in GateSet(q.said)
    <3>1. \A h \in GateSet(q.said) : h[1] < q.turn
      BY <1>1, <2>1, <2>3
    <3> QED  BY <3>1 DEF Consumed
  <2>6. \A h : h \in Consumed(q) <=> h \in Consumed(p)
    BY <2>1, <2>3, <2>4, <2>5
  <2> QED  BY <2>6
<1>4. Follows(g, q, dec, bef)
  <2>1. Follows(g, p, dec, bef)
    BY DEF Guided
  <2>2. q.turn \in Nat /\ q.asked \in 0..Len(dec) /\ q.pc = "chat"
    BY <1>1, <2>1 DEF Follows
  <2>3. Consumed(q) = {g[j] : j \in 1..q.asked}
    BY <1>3, <2>1 DEF Follows
  <2> QED  BY <1>2, <2>2, <2>3 DEF Follows
<1> QED  BY <1>4 DEF Guided, Rows, Waits

(* A decision is taken: the gate is behind the pass.                       *)
LEMMA GuidedDecision ==
  ASSUME NEW b, NEW g, NEW p, NEW q, NEW dec, NEW bef, NEW rw,
         Guided(b, g, p, dec, bef, rw), TalkInv(p), p.pc = "gate", UnruledOf(p) # {},
         DOMAIN p.consent = DOMAIN p.reply,
         p.asked < Len(dec), q.pc = "gate",
         q.said = p.said, q.reply = p.reply, q.turn = p.turn, q.asked = p.asked + 1,
         q.consent = [p.consent EXCEPT ![NextOf(p)] = p.asked + 1]
  PROVE  Guided(b, g, q, dec, bef, rw)
<1> DEFINE i == NextOf(p)
           k == p.asked + 1
           s == GateNow(p)
<1>1. /\ p.turn \in Nat /\ p.asked \in Nat /\ Len(dec) \in Nat /\ k \in 1..Len(dec)
      /\ Path(b, g, dec, bef, rw) /\ Follows(g, p, dec, bef)
  BY DEF Guided, Follows, Path
<1>2. g[k] = s
  BY <1>1, NextDecisionFits
<1>3. s \in GateSet(p.said) /\ s[1] = p.turn /\ s[2] = i /\ s = <<p.turn, i>>
  BY <1>1, GateNowIsNext DEF GateNow
<1>4. i \in Sens(p.reply) /\ i \in DOMAIN p.reply
  BY NextUnruledIsFirst DEF Sens
<1> HIDE DEF i, s
<1>5. \A j \in DOMAIN p.reply : q.consent[j] = IF j = i THEN k ELSE p.consent[j]
  BY <1>4 DEF i
<1>6. k # Unasked
  BY <1>1 DEF Unasked
<1>7. Consumed(q) = Consumed(p) \cup {s}
  <2>1. ASSUME NEW h \in GateSet(p.said)
        PROVE  h \in Consumed(q) <=> h \in Consumed(p) \/ h = s
    <3>1. CASE h[1] = p.turn
      <4>1. h[2] \in DOMAIN p.reply /\ h = <<h[1], h[2]>>
        BY <3>1 DEF GateSet, TalkInv, Sens
      <4>2. h = s <=> h[2] = i
        BY <1>3, <3>1, <4>1
      <4>3. q.consent[h[2]] # Unasked <=> p.consent[h[2]] # Unasked \/ h[2] = i
        BY <1>5, <1>6, <4>1
      <4> QED  BY <1>1, <3>1, <4>2, <4>3 DEF Consumed
    <3>2. CASE h[1] # p.turn
      BY <1>3, <3>2 DEF Consumed
    <3> QED  BY <3>1, <3>2
  <2>2. \A h : h \in Consumed(q) \/ h \in Consumed(p) => h \in GateSet(p.said)
    BY DEF Consumed
  <2> QED  BY <1>3, <2>1, <2>2
<1>8. Consumed(q) = {g[j] : j \in 1..q.asked}
  <2>1. Consumed(p) = {g[j] : j \in 1..p.asked}
    BY <1>1 DEF Follows
  <2>2. \A j : j \in 1..q.asked <=> j \in 1..p.asked \/ j = k
    BY <1>1
  <2> HIDE DEF k
  <2> QED  BY <1>2, <1>7, <2>1, <2>2
<1>9. \A j \in DOMAIN q.reply : q.consent[j] # Unasked =>
        q.consent[j] \in 1..q.asked /\ g[q.consent[j]] = <<q.turn, j>>
  <2> SUFFICES ASSUME NEW j \in DOMAIN p.reply, q.consent[j] # Unasked
               PROVE  q.consent[j] \in 1..q.asked /\ g[q.consent[j]] = <<q.turn, j>>
    OBVIOUS
  <2>1. CASE j = i
    BY <1>1, <1>2, <1>3, <1>5, <2>1
  <2>2. CASE j # i
    <3>1. q.consent[j] = p.consent[j] /\ p.consent[j] \in 1..p.asked /\ g[p.consent[j]] = <<p.turn, j>>
      BY <1>1, <1>5, <2>2 DEF Follows
    <3> QED  BY <1>1, <3>1
  <2> QED  BY <2>1, <2>2
<1>10. q.asked \in 0..Len(dec)
  BY <1>1
<1> HIDE DEF k
<1>11. Follows(g, q, dec, bef)
  BY <1>1, <1>8, <1>9, <1>10 DEF Follows
<1>12. Rows(b, q, dec, rw) /\ Waits(b, q, dec, bef, rw)
  BY DEF Guided, Rows, Waits
<1> QED  BY <1>1, <1>11, <1>12 DEF Guided

(* Another node's approvals.                                               *)
LEMMA GuidedElsewhere ==
  ASSUME NEW b, NEW g, NEW p, NEW dec, NEW bef, NEW rw, NEW rw2,
         Guided(b, g, p, dec, bef, rw), DOMAIN rw \subseteq DOMAIN rw2,
         \A key \in DOMAIN rw2 : key[1] = b => key \in DOMAIN rw /\ rw2[key] = rw[key]
  PROVE  Guided(b, g, p, dec, bef, rw2)
<1>1. \A n, r, i : KeyOf(b, n, r, i)[1] = b
  BY DEF KeyOf
<1>2. \A k \in 1..Len(dec) : dec[k].key[1] = b
  <2>1. ASSUME NEW k \in 1..Len(dec) PROVE dec[k].key[1] = b
    <3>1. dec[k].key = KeyAt(b, bef, g[k])
      BY DEF Guided, Path
    <3>2. KeyAt(b, bef, g[k])[1] = b
      BY <1>1 DEF KeyAt
    <3> QED  BY <3>1, <3>2
  <2> QED  BY <2>1
<1>3. KeyNow(b, p)[1] = b
  BY <1>1 DEF KeyNow
<1>4. Path(b, g, dec, bef, rw2)
  <2>1. \A k \in 1..Len(dec) : dec[k].key \in DOMAIN rw2 /\ rw2[dec[k].key] = rw[dec[k].key]
    BY <1>2 DEF Guided, Path
  <2>2. Path(b, g, dec, bef, rw)
    BY DEF Guided
  <2> QED  BY <2>1, <2>2 DEF Path
<1>5. Rows(b, p, dec, rw2)
  BY DEF Guided, Rows
<1>6. Waits(b, p, dec, bef, rw2)
  BY <1>3 DEF Guided, Waits
<1> QED  BY <1>4, <1>5, <1>6 DEF Guided

(* A gate with no decision left: no approval has its key yet, and what the *)
(* pass said until here is what the next one will be held against.         *)
LEMMA GuidedAsks ==
  ASSUME NEW b, NEW g, NEW p, NEW q, NEW dec, NEW bef, NEW rw, NEW rw2,
         Guided(b, g, p, dec, bef, rw), TalkInv(p), p.pc = "gate", UnruledOf(p) # {},
         p.asked = Len(dec), q.pc = "paused",
         q.said = p.said, q.reply = p.reply, q.turn = p.turn, q.asked = p.asked,
         q.consent = p.consent,
         rw2 = IF KeyNow(b, p) \in DOMAIN rw THEN rw
               ELSE [k \in DOMAIN rw \cup {KeyNow(b, p)} |->
                       IF k = KeyNow(b, p) THEN [status |-> "pending", call |-> p.reply[NextOf(p)]]
                       ELSE rw[k]]
  PROVE  Guided(b, g, q, dec, p.said, rw2)
<1> DEFINE s == GateNow(p)
           key == KeyNow(b, p)
<1>1. /\ p.turn \in Nat /\ p.asked \in Nat /\ Len(dec) \in Nat /\ Len(bef) \in Nat
      /\ DOMAIN dec = 1..Len(dec) /\ g \in [1..Len(dec) -> Nat \X Nat]
      /\ Path(b, g, dec, bef, rw) /\ Follows(g, p, dec, bef)
  BY DEF Guided, Follows, Path
<1>2. Len(p.said) = 2 * p.turn + 1 /\ ReplyAt(p.said, p.turn) = p.reply /\ p.reply \in Seq(Call)
      /\ Len(p.said) \in Nat
  BY <1>1 DEF TalkInv
<1>3. /\ s \in GateSet(p.said) /\ s \notin Consumed(p)
      /\ KeyAt(b, p.said, s) = key
      /\ \A h \in GateSet(p.said), c \in Consumed(p) : Earlier(h, c) => h \in Consumed(p)
  BY <1>1, GateNowIsNext
<1>4. Consumed(p) = {g[j] : j \in 1..Len(dec)}
  BY DEF Guided, Follows
<1>5. ASSUME NEW k \in 1..Len(dec)
      PROVE  /\ g[k] \in GateSet(p.said) /\ g[k] \in Consumed(p) /\ g[k] \in Nat \X Nat
             /\ dec[k].key = KeyAt(b, p.said, g[k])
             /\ dec[k].key \in DOMAIN rw
             /\ rw[dec[k].key] = [status |-> "resolved", call |-> CallAt(p.said, g[k])]
  <2>1. g[k] \in Consumed(p) /\ g[k] \in GateSet(p.said) /\ g[k] \in GateSet(bef)
    BY <1>1, <1>4 DEF Consumed, Path
  <2>2. ReplyAt(p.said, g[k][1]) = ReplyAt(bef, g[k][1])
    <3>1. /\ g[k][1] \in Nat /\ 2 * g[k][1] + 1 <= Len(p.said) /\ 2 * g[k][1] + 1 <= Len(bef)
      BY <2>1 DEF GateSet
    <3> QED  BY <1>1, <1>2, <3>1, SaidAgain
  <2>3. /\ dec[k].key = KeyAt(b, bef, g[k]) /\ dec[k].key \in DOMAIN rw
        /\ rw[dec[k].key] = [status |-> "resolved", call |-> CallAt(bef, g[k])]
    BY <1>1 DEF Path
  <2>4. KeyAt(b, bef, g[k]) = KeyAt(b, p.said, g[k]) /\ CallAt(bef, g[k]) = CallAt(p.said, g[k])
    BY <2>2 DEF KeyAt, CallAt
  <2> QED  BY <1>1, <2>1, <2>3, <2>4
<1>6. ASSUME NEW k \in 1..Len(dec) PROVE dec[k].key # key
  <2> SUFFICES ASSUME dec[k].key = key PROVE FALSE
    OBVIOUS
  <2> DEFINE h == g[k]
  <2>1. KeyAt(b, p.said, h) = KeyAt(b, p.said, s) /\ h \in GateSet(p.said) /\ h \in Nat \X Nat
    BY <1>3, <1>5
  <2>2. s \in Nat \X Nat /\ s[1] = p.turn /\ s[2] \in Sens(p.reply)
    BY <1>2, <1>3 DEF GateSet, GateNow
  <2> HIDE DEF h, s
  <2>3. h[1] = s[1]
    BY <2>1 DEF KeyAt, KeyOf
  <2>4. Cardinality(Ahead(p.reply, h[2])) = Cardinality(Ahead(p.reply, s[2]))
    BY <1>2, <2>1, <2>2, <2>3 DEF KeyAt, KeyOf
  <2>5. h[2] \in Sens(p.reply)
    BY <1>2, <2>1, <2>2, <2>3 DEF GateSet
  <2>6. h[2] = s[2]
    BY <1>2, <2>2, <2>4, <2>5, KeysDiffer
  <2>7. h = s
    <3>1. h = <<h[1], h[2]>> /\ s = <<s[1], s[2]>>
      BY <2>1, <2>2
    <3> QED  BY <2>3, <2>6, <3>1
  <2> QED  BY <1>3, <1>5, <2>7 DEF h
<1>7. key \notin DOMAIN rw
  <2> SUFFICES ASSUME key \in DOMAIN rw PROVE FALSE
    OBVIOUS
  <2>1. key[1] = b
    BY DEF KeyNow, KeyOf
  <2>2. \E k \in 1..Len(dec) : key = dec[k].key
    BY <2>1 DEF Guided, Rows
  <2> QED  BY <1>6, <2>2
<1>8. rw2 = [k \in DOMAIN rw \cup {key} |->
              IF k = key THEN [status |-> "pending", call |-> p.reply[NextOf(p)]] ELSE rw[k]]
  BY <1>7
<1> HIDE DEF s, key
<1>9. Path(b, g, dec, p.said, rw2)
  <2>1. ASSUME NEW k \in 1..Len(dec)
        PROVE  dec[k].key \in DOMAIN rw2 /\ rw2[dec[k].key] = rw[dec[k].key]
    BY <1>5, <1>6, <1>8
  <2>2. \A k \in 1..Len(dec) : \A j \in 1..k - 1 : Earlier(g[j], g[k])
    BY <1>1 DEF Path
  <2>3. ASSUME NEW k \in 1..Len(dec), NEW h \in GateSet(p.said), Earlier(h, g[k])
        PROVE  \E j \in 1..k - 1 : h = g[j]
    <3>1. h \in Consumed(p)
      BY <1>3, <1>5, <2>3
    <3>2. PICK j \in 1..Len(dec) : h = g[j]
      BY <1>4, <3>1
    <3>3. h # g[k] /\ ~Earlier(g[k], h)
      <4>1. h \in Nat \X Nat /\ g[k] \in Nat \X Nat
        BY <1>5, <3>2
      <4> QED  BY <2>3, <4>1, EarlierIsStrict
    <3>4. ~(k \in 1..j - 1)
      BY <2>2, <3>2, <3>3
    <3>5. j # k
      BY <3>2, <3>3
    <3> QED  BY <1>1, <3>2, <3>4, <3>5
  <2> QED  BY <1>1, <1>2, <1>5, <2>1, <2>2, <2>3 DEF Path
<1>10. Follows(g, q, dec, p.said)
  <2>1. Consumed(q) = Consumed(p)
    BY DEF Consumed
  <2> QED  BY <1>1, <2>1 DEF Follows
<1>11. KeyNow(b, q) = key /\ UnruledOf(q) = UnruledOf(p) /\ NextOf(q) = NextOf(p)
  BY DEF KeyNow, NextOf, UnruledOf, key
<1>12. Rows(b, q, dec, rw2)
  <2> SUFFICES ASSUME NEW e \in DOMAIN rw2, e[1] = b
               PROVE  (\E k \in 1..Len(dec) : e = dec[k].key) \/ e = key
    BY <1>11 DEF Rows
  <2>1. e \in DOMAIN rw \/ e = key
    BY <1>8
  <2> QED  BY <2>1 DEF Guided, Rows
<1>13. Waits(b, q, dec, p.said, rw2)
  BY <1>8, <1>11 DEF Waits
<1> QED  BY <1>9, <1>10, <1>12, <1>13 DEF Guided

(* The gates with one more, and the approval of its key resolved.          *)
Further(g, n, s) == [k \in 1..n + 1 |-> IF k <= n THEN g[k] ELSE s]
Settled(rw, key) == [rw EXCEPT ![key].status = "resolved"]

(* The decision of the gate the node waits at goes to the end of what it   *)
(* holds, and the node starts again.                                       *)
LEMMA GuidedResumed ==
  ASSUME NEW b, NEW g, NEW p, NEW D, NEW dec \in Seq(D), NEW d \in D, NEW bef, NEW rw,
         Guided(b, g, p, dec, bef, rw), TalkInv(p), p.pc = "paused",
         d.key = KeyNow(b, p)
  PROVE  Guided(b, Further(g, Len(dec), GateNow(p)), Fresh, Append(dec, d), bef,
                Settled(rw, KeyNow(b, p)))
<1> DEFINE n == Len(dec)
           s == GateNow(p)
           key == KeyNow(b, p)
           dec2 == Append(dec, d)
           g2 == Further(g, n, s)
           rw2 == Settled(rw, key)
<1>1. /\ p.turn \in Nat /\ p.asked = n /\ n \in Nat /\ Len(bef) \in Nat
      /\ DOMAIN dec = 1..n /\ g \in [1..n -> Nat \X Nat]
      /\ Path(b, g, dec, bef, rw) /\ Follows(g, p, dec, bef)
      /\ UnruledOf(p) # {} /\ bef = p.said /\ key \in DOMAIN rw
      /\ rw[key] = [status |-> "pending", call |-> p.reply[NextOf(p)]]
  BY DEF Guided, Follows, Path, Waits
<1>2. /\ s \in GateSet(bef) /\ s \in Nat \X Nat
      /\ KeyAt(b, bef, s) = key /\ CallAt(bef, s) = p.reply[NextOf(p)]
      /\ \A c \in Consumed(p) : Earlier(c, s)
      /\ \A h \in GateSet(bef) : Earlier(h, s) => h \in Consumed(p)
  <2>1. s \in GateSet(p.said)
    BY <1>1, GateNowIsNext
  <2> QED  BY <1>1, <2>1, GateNowIsNext DEF GateSet
<1>3. Consumed(p) = {g[j] : j \in 1..n}
  BY <1>1 DEF Follows
<1>4. /\ Len(dec2) = n + 1 /\ DOMAIN dec2 = 1..n + 1 /\ dec2[n + 1] = d
      /\ \A k \in 1..n : dec2[k] = dec[k]
  <2>1. /\ dec2 \in Seq(D) /\ Len(dec2) = n + 1 /\ dec2[n + 1] = d
        /\ \A k \in 1..n : dec2[k] = dec[k]
    BY AppendProperties
  <2>2. DOMAIN dec2 = 1..Len(dec2)
    <3> HIDE DEF dec2
    <3> QED  BY <2>1, LenProperties
  <2> QED  BY <2>1, <2>2
<1>5. /\ rw2 = [rw EXCEPT ![key] = [status |-> "resolved", call |-> p.reply[NextOf(p)]]]
  <2>1. [rw[key] EXCEPT !.status = "resolved"] = [status |-> "resolved", call |-> p.reply[NextOf(p)]]
    BY <1>1
  <2>2. rw2 = [rw EXCEPT ![key] = [rw[key] EXCEPT !.status = "resolved"]]
    BY DEF Settled
  <2> QED  BY <2>1, <2>2
<1>6. /\ DOMAIN rw2 = DOMAIN rw
      /\ rw2[key] = [status |-> "resolved", call |-> p.reply[NextOf(p)]]
      /\ \A e \in DOMAIN rw : e # key => rw2[e] = rw[e]
  BY <1>1, <1>5
<1>7. /\ \A k \in 1..n : k \in 1..n + 1 /\ g2[k] = g[k]
      /\ g2[n + 1] = s /\ n + 1 \in 1..n + 1
      /\ \A k \in 1..n + 1 : k \in 1..n \/ k = n + 1
  BY <1>1 DEF Further
<1>8. g2 \in [1..n + 1 -> Nat \X Nat]
  BY <1>1, <1>2 DEF Further
<1> HIDE DEF n, s, key, dec2, g2, rw2
<1>9. ASSUME NEW k \in 1..n
      PROVE  /\ g[k] \in GateSet(bef) /\ dec[k].key = KeyAt(b, bef, g[k])
             /\ dec[k].key \in DOMAIN rw /\ dec[k].key # key
             /\ rw[dec[k].key] = [status |-> "resolved", call |-> CallAt(bef, g[k])]
  <2>1. /\ g[k] \in GateSet(bef) /\ dec[k].key = KeyAt(b, bef, g[k])
        /\ dec[k].key \in DOMAIN rw
        /\ rw[dec[k].key] = [status |-> "resolved", call |-> CallAt(bef, g[k])]
    BY <1>1 DEF Path, n
  <2>2. rw[dec[k].key].status # rw[key].status
    BY <1>1, <2>1
  <2> QED  BY <2>1, <2>2
<1>10. ASSUME NEW k \in 1..n + 1
       PROVE  /\ g2[k] \in GateSet(bef) /\ dec2[k].key = KeyAt(b, bef, g2[k])
              /\ dec2[k].key \in DOMAIN rw2
              /\ rw2[dec2[k].key] = [status |-> "resolved", call |-> CallAt(bef, g2[k])]
  <2>1. CASE k \in 1..n
    BY <1>4, <1>6, <1>7, <1>9, <2>1
  <2>2. CASE k = n + 1
    <3>1. d.key = key
      BY DEF key
    <3> QED  BY <1>1, <1>2, <1>4, <1>6, <1>7, <2>2, <3>1
  <2> QED  BY <1>7, <2>1, <2>2
<1>11. ASSUME NEW k \in 1..n + 1, NEW j \in 1..k - 1 PROVE Earlier(g2[j], g2[k])
  <2>1. j \in 1..n
    BY <1>1
  <2>2. CASE k \in 1..n
    <3>1. Earlier(g[j], g[k])
      BY <1>1, <2>2 DEF Path, n
    <3> QED  BY <1>7, <2>1, <2>2, <3>1
  <2>3. CASE k = n + 1
    <3>1. g[j] \in Consumed(p)
      BY <1>3, <2>1
    <3> QED  BY <1>2, <1>7, <2>1, <2>3, <3>1
  <2> QED  BY <1>7, <2>2, <2>3
<1>12. ASSUME NEW k \in 1..n + 1, NEW h \in GateSet(bef), Earlier(h, g2[k])
       PROVE  \E j \in 1..k - 1 : h = g2[j]
  <2>1. CASE k \in 1..n
    <3>1. Earlier(h, g[k])
      BY <1>7, <1>12, <2>1
    <3>2. PICK j \in 1..k - 1 : h = g[j]
      BY <1>1, <2>1, <3>1 DEF Path, n
    <3>3. j \in 1..n
      BY <1>1, <2>1
    <3> QED  BY <1>7, <3>2, <3>3
  <2>2. CASE k = n + 1
    <3>1. h \in Consumed(p)
      BY <1>2, <1>7, <1>12, <2>2
    <3>2. PICK j \in 1..n : h = g[j]
      BY <1>3, <3>1
    <3>3. j \in 1..k - 1
      BY <1>1, <2>2, <3>2
    <3> QED  BY <1>7, <3>2, <3>3
  <2> QED  BY <1>7, <2>1, <2>2
<1>13. Path(b, g2, dec2, bef, rw2)
  <2>1. Len(dec2) \in Nat /\ DOMAIN dec2 = 1..Len(dec2) /\ Len(dec2) = n + 1
    BY <1>1, <1>4
  <2> QED  BY <1>1, <1>8, <1>10, <1>11, <1>12, <2>1 DEF Path
<1>14. Follows(g2, Fresh, dec2, bef)
  <2>1. /\ Fresh.turn = 0 /\ Fresh.asked = 0 /\ Fresh.said = <<>> /\ Fresh.pc = "chat"
    BY DEF Fresh
  <2>2. Len(<<>>) = 0
    OBVIOUS
  <2>3. Consumed(Fresh) = {}
    <3>1. GateSet(<<>>) = {}
      BY <2>2 DEF GateSet
    <3> QED  BY <2>1, <3>1 DEF Consumed
  <2>4. {g2[j] : j \in 1..0} = {}
    OBVIOUS
  <2>5. \A m \in 1..Len(Fresh.said) : FALSE
    BY <2>1, <2>2
  <2>6. Fresh.asked \in 0..Len(dec2)
    BY <1>1, <1>4, <2>1
  <2> QED  BY <2>1, <2>3, <2>4, <2>5, <2>6 DEF Follows
<1>15. Rows(b, Fresh, dec2, rw2)
  <2> SUFFICES ASSUME NEW e \in DOMAIN rw, e[1] = b
               PROVE  \E k \in 1..Len(dec2) : e = dec2[k].key
    BY <1>6 DEF Rows
  <2>1. CASE e = key
    <3>1. d.key = key
      BY DEF key
    <3> QED  BY <1>4, <1>7, <2>1, <3>1
  <2>2. CASE e # key
    <3>1. PICK k \in 1..n : e = dec[k].key
      BY <2>2 DEF Guided, Rows, key, n
    <3> QED  BY <1>4, <1>7, <3>1
  <2> QED  BY <2>1, <2>2
<1>16. Waits(b, Fresh, dec2, bef, rw2)
  BY DEF Waits, Fresh
<1> QED  BY <1>13, <1>14, <1>15, <1>16 DEF Guided, n, s, key, dec2, g2, rw2

-----------------------------------------------------------------------------
(* The calls of one decision: how often they were made.                    *)

Past == {"performed", "returned", "raised"}
Later(dec, k) == {j \in k + 1..Len(dec) : dec[j].key[3] > dec[k].key[3]}

(* This pass has made the call of decision k.                              *)
Made(g, p, k) ==
  /\ k <= p.asked
  /\ g[k][1] < p.turn \/ (g[k][1] = p.turn /\ p.answer[g[k][2]] \in Past)

(* One call for every later decision whose gate is of a later turn, and    *)
(* one for this pass if it has come that far.                              *)
Counted(g, p, dec, used) ==
  \A k \in 1..Len(dec) :
    used[k] <= Cardinality(Later(dec, k)) + (IF Made(g, p, k) THEN 1 ELSE 0)

LEMMA LaterFinite ==
  ASSUME NEW dec, Len(dec) \in Nat, NEW k \in 1..Len(dec)
  PROVE  IsFiniteSet(Later(dec, k)) /\ Cardinality(Later(dec, k)) \in Nat
<1> DEFINE n == Len(dec)
<1>1. k + 1 \in Int /\ n \in Int
  OBVIOUS
<1>2. Later(dec, k) \in SUBSET (k + 1..n)
  BY DEF Later
<1>3. IsFiniteSet(k + 1..n)
  <2> DEFINE m == k + 1
  <2>1. m \in Int /\ n \in Int
    BY <1>1
  <2> HIDE DEF m, n
  <2>2. IsFiniteSet(m..n)
    BY <2>1, FS_Interval
  <2> QED  BY <2>2 DEF m
<1> HIDE DEF n
<1> QED  BY <1>2, <1>3, FS_Subset, FS_CardinalityType

(* The gates behind a pass are of its turns, the last of them of its reply.*)
LEMMA GatesBehind ==
  ASSUME NEW b, NEW g, NEW p, NEW dec, NEW bef, NEW rw,
         Guided(b, g, p, dec, bef, rw), TalkInv(p), p.pc # "over", NEW k \in 1..p.asked
  PROVE  /\ k \in 1..Len(dec) /\ g[k][1] \in Nat /\ g[k][1] <= p.turn
         /\ p.pc = "chat" => g[k][1] < p.turn
         /\ p.pc # "chat" /\ g[k][1] = p.turn => g[k][2] \in DOMAIN p.reply
<1>1. p.turn \in Nat /\ p.asked \in 0..Len(dec) /\ Len(dec) \in Nat
  BY DEF Guided, Follows, Path
<1>2. g[k] \in GateSet(p.said)
  BY DEF Guided, Follows, Consumed
<1>3. g[k][1] \in Nat /\ 2 * g[k][1] + 1 <= Len(p.said) /\ g[k][2] \in Sens(ReplyAt(p.said, g[k][1]))
  BY <1>2 DEF GateSet
<1>4. CASE p.pc = "chat"
  <2>1. g[k][1] < p.turn
    BY <1>1, <1>3, <1>4 DEF TalkInv
  <2> QED  BY <1>1, <1>3, <1>4, <2>1
<1>5. CASE p.pc # "chat"
  <2>1. Len(p.said) = 2 * p.turn + 1 /\ ReplyAt(p.said, p.turn) = p.reply
    BY <1>5 DEF TalkInv
  <2>2. g[k][1] <= p.turn
    BY <1>1, <1>3, <2>1
  <2> QED  BY <1>1, <1>3, <1>5, <2>1, <2>2 DEF Sens
<1> QED  BY <1>4, <1>5

(* What a pass has made it has made after any of its steps.                *)
LEMMA CountedStill ==
  ASSUME NEW g, NEW p, NEW q, NEW dec, NEW used, Counted(g, p, dec, used),
         Len(dec) \in Nat, used \in Seq(Nat), Len(used) = Len(dec),
         \A k \in 1..Len(dec) : Made(g, p, k) => Made(g, q, k)
  PROVE  Counted(g, q, dec, used)
<1> SUFFICES ASSUME NEW k \in 1..Len(dec)
             PROVE  used[k] <= Cardinality(Later(dec, k)) + (IF Made(g, q, k) THEN 1 ELSE 0)
  BY DEF Counted
<1>1. used[k] <= Cardinality(Later(dec, k)) + (IF Made(g, p, k) THEN 1 ELSE 0)
  BY DEF Counted
<1>2. used[k] \in Nat /\ Cardinality(Later(dec, k)) \in Nat
  BY LaterFinite, ElementOfSeq
<1>3. Made(g, p, k) => Made(g, q, k)
  OBVIOUS
<1> QED  BY <1>1, <1>2, <1>3

(* A pass at a gate has made calls of earlier turns only.                  *)
LEMMA MadeAtGate ==
  ASSUME NEW b, NEW g, NEW p, NEW dec, NEW bef, NEW rw,
         Guided(b, g, p, dec, bef, rw), TalkInv(p), p.pc \in {"gate", "paused"},
         NEW k \in 1..Len(dec), Made(g, p, k)
  PROVE  k \in 1..p.asked /\ g[k][1] < p.turn
<1>1. p.asked \in 0..Len(dec) /\ Len(dec) \in Nat /\ p.turn \in Nat
  BY DEF Guided, Follows, Path
<1>2. k \in 1..p.asked
  BY <1>1 DEF Made
<1>3. g[k][1] = p.turn => g[k][2] \in DOMAIN p.reply
  BY <1>2, GatesBehind
<1>4. g[k][1] = p.turn => p.answer[g[k][2]] \in {"todo", "human"}
  BY <1>3 DEF TalkInv
<1> QED  BY <1>2, <1>4 DEF Made, Past

(* A call gets an answer that takes nothing back.                          *)
LEMMA MadeAnswer ==
  ASSUME NEW g, NEW p, NEW q, NEW i, NEW a, NEW k,
         q.turn = p.turn, q.asked = p.asked, i \in DOMAIN p.answer,
         q.answer = [p.answer EXCEPT ![i] = a], p.answer[i] \in Past => a \in Past,
         g[k][1] = p.turn => g[k][2] \in DOMAIN p.answer, Made(g, p, k)
  PROVE  Made(g, q, k)
BY DEF Made

(* A call is made: by a decision, which had not made it in this pass.      *)
LEMMA CountedPerform ==
  ASSUME NEW b, NEW g, NEW p, NEW q, NEW i, NEW dec, NEW bef, NEW rw, NEW used, NEW used2,
         Guided(b, g, p, dec, bef, rw), TalkInv(p), p.pc = "run",
         Counted(g, p, dec, used), used \in Seq(Nat), Len(used) = Len(dec),
         DOMAIN p.answer = DOMAIN p.reply,
         i \in DOMAIN p.reply, p.answer[i] = "admitted",
         q.turn = p.turn, q.asked = p.asked, q.answer = [p.answer EXCEPT ![i] = "performed"],
         p.consent[i] \in 0..Len(dec) \cup {Notified},
         used2 = IF p.consent[i] > 0 THEN [used EXCEPT ![p.consent[i]] = @ + 1] ELSE used
  PROVE  Counted(g, q, dec, used2)
<1>1. p.turn \in Nat /\ p.asked \in 0..Len(dec) /\ Len(dec) \in Nat /\ DOMAIN used = 1..Len(dec)
  BY LenProperties DEF Guided, Follows, Path
<1>2. ASSUME NEW k \in 1..Len(dec), Made(g, p, k) PROVE Made(g, q, k)
  <2>1. k \in 1..p.asked
    BY <1>1, <1>2 DEF Made
  <2>2. g[k][1] = p.turn => g[k][2] \in DOMAIN p.answer
    BY <2>1, GatesBehind
  <2>3. i \in DOMAIN p.answer /\ ~(p.answer[i] \in Past)
    BY DEF Past
  <2> QED  BY <1>2, <2>2, <2>3, MadeAnswer
<1>3. CASE ~(p.consent[i] > 0)
  BY <1>1, <1>2, <1>3, CountedStill
<1>4. CASE p.consent[i] > 0
  <2> DEFINE c == p.consent[i]
  <2>1. c \in 1..Len(dec) /\ c # Unasked
    BY <1>1, <1>4 DEF Notified, Unasked
  <2>2. c \in 1..p.asked /\ g[c] = <<p.turn, i>>
    BY <2>1 DEF Guided, Follows
  <2>3. ~Made(g, p, c)
    BY <1>1, <2>2 DEF Made, Past
  <2>4. Made(g, q, c)
    BY <1>1, <2>2 DEF Made, Past
  <2>5. ASSUME NEW k \in 1..Len(dec)
        PROVE  used2[k] <= Cardinality(Later(dec, k)) + (IF Made(g, q, k) THEN 1 ELSE 0)
    <3>1. used[k] \in Nat /\ Cardinality(Later(dec, k)) \in Nat
      BY <1>1, LaterFinite, ElementOfSeq
    <3>2. used[k] <= Cardinality(Later(dec, k)) + (IF Made(g, p, k) THEN 1 ELSE 0)
      BY DEF Counted
    <3>3. used2[k] = IF k = c THEN used[k] + 1 ELSE used[k]
      BY <1>1, <1>4, <2>1
    <3>4. Made(g, p, k) => Made(g, q, k)
      BY <1>2
    <3>5. CASE k = c
      BY <2>3, <2>4, <3>1, <3>2, <3>3, <3>5
    <3>6. CASE k # c
      BY <3>1, <3>2, <3>3, <3>4, <3>6
    <3> QED  BY <3>5, <3>6
  <2> QED  BY <2>5 DEF Counted
<1> QED  BY <1>3, <1>4

(* A new decision: the next pass will make the calls of earlier turns.     *)
LEMMA CountedResumed ==
  ASSUME NEW b, NEW g, NEW p, NEW D, NEW dec \in Seq(D), NEW d \in D, NEW bef, NEW rw, NEW g2, NEW used,
         Guided(b, g, p, dec, bef, rw), TalkInv(p), p.pc = "paused",
         d.key = KeyNow(b, p),
         Counted(g, p, dec, used), used \in Seq(Nat), Len(used) = Len(dec)
  PROVE  Counted(g2, Fresh, Append(dec, d), Append(used, 0))
<1> DEFINE n == Len(dec)
           dec2 == Append(dec, d)
           used2 == Append(used, 0)
<1>1. p.turn \in Nat /\ p.asked = n /\ n \in Nat /\ Path(b, g, dec, bef, rw)
  BY DEF Guided, Follows, Path, Waits
<1>2. /\ Len(dec2) = n + 1 /\ dec2[n + 1] = d
      /\ \A k \in 1..n : dec2[k] = dec[k]
  BY AppendProperties
<1>3. /\ used2[n + 1] = 0 /\ \A k \in 1..n : used2[k] = used[k]
  BY AppendProperties
<1>4. d.key[3] = p.turn
  BY DEF KeyNow, KeyOf
<1> HIDE DEF n, dec2, used2
<1>5. ASSUME NEW k \in 1..n + 1 PROVE used2[k] <= Cardinality(Later(dec2, k))
  <2>1. Cardinality(Later(dec2, k)) \in Nat
    <3>1. Len(dec2) \in Nat /\ k \in 1..Len(dec2)
      BY <1>1, <1>2
    <3> QED  BY <3>1, LaterFinite
  <2>2. CASE k = n + 1
    <3>1. used2[k] = 0
      BY <1>3, <2>2
    <3> QED  BY <2>1, <3>1
  <2>3. CASE k \in 1..n
    <3>1. used[k] \in Nat /\ Cardinality(Later(dec, k)) \in Nat /\ IsFiniteSet(Later(dec, k))
      BY <1>1, <2>3, LaterFinite, ElementOfSeq DEF n
    <3>2. used[k] <= Cardinality(Later(dec, k)) + (IF Made(g, p, k) THEN 1 ELSE 0)
      BY <2>3 DEF Counted, n
    <3>3. \A j \in k + 1..n : dec2[j] = dec[j]
      BY <1>1, <1>2, <2>3
    <3>4. Later(dec, k) \in SUBSET Later(dec2, k)
      BY <1>1, <1>2, <2>3, <3>3 DEF Later, n
    <3>5. IsFiniteSet(Later(dec2, k))
      <4>1. Len(dec2) \in Nat /\ k \in 1..Len(dec2)
        BY <1>1, <1>2
      <4> QED  BY <4>1, LaterFinite
    <3>6. CASE ~Made(g, p, k)
      <4>1. Cardinality(Later(dec, k)) <= Cardinality(Later(dec2, k))
        BY <3>4, <3>5, FS_Subset
      <4> QED  BY <1>3, <2>1, <2>3, <3>1, <3>2, <3>6, <4>1
    <3>7. CASE Made(g, p, k)
      <4>1. g[k][1] < p.turn
        BY <2>3, <3>7, MadeAtGate DEF n
      <4>2. dec[k].key[3] = g[k][1]
        <5>1. dec[k].key = KeyAt(b, bef, g[k])
          BY <1>1, <2>3 DEF Path, n
        <5> QED  BY <5>1 DEF KeyAt, KeyOf
      <4>3. p.turn > g[k][1]
        <5>1. g[k][1] \in Nat
          BY <1>1, <2>3, GatesBehind
        <5> QED  BY <1>1, <4>1, <5>1
      <4>4. n + 1 \in Later(dec2, k) /\ n + 1 \notin Later(dec, k)
        BY <1>1, <1>2, <1>4, <2>3, <4>2, <4>3 DEF Later, n
      <4>5. Later(dec, k) \cup {n + 1} \in SUBSET Later(dec2, k)
        BY <3>4, <4>4
      <4>6. Cardinality(Later(dec, k) \cup {n + 1}) = Cardinality(Later(dec, k)) + 1
        BY <3>1, <4>4, FS_AddElement
      <4>7. Cardinality(Later(dec, k) \cup {n + 1}) <= Cardinality(Later(dec2, k))
        BY <3>5, <4>5, FS_Subset
      <4> QED  BY <1>3, <2>1, <2>3, <3>1, <3>2, <3>7, <4>6, <4>7
    <3> QED  BY <3>6, <3>7
  <2> QED  BY <1>1, <2>2, <2>3
<1>6. \A k \in 1..n + 1 : ~Made(g2, Fresh, k)
  BY <1>1 DEF Made, Fresh
<1>7. ASSUME NEW k \in 1..n + 1
      PROVE  used2[k] <= Cardinality(Later(dec2, k)) + (IF Made(g2, Fresh, k) THEN 1 ELSE 0)
  <2>1. Cardinality(Later(dec2, k)) \in Nat
    <3>1. Len(dec2) \in Nat /\ k \in 1..Len(dec2)
      BY <1>1, <1>2
    <3> QED  BY <3>1, LaterFinite
  <2>2. (IF Made(g2, Fresh, k) THEN 1 ELSE 0) = 0
    BY <1>6
  <2>3. used2[k] <= Cardinality(Later(dec2, k))
    BY <1>5
  <2> QED  BY <2>1, <2>2, <2>3
<1> QED  BY <1>2, <1>7 DEF Counted, dec2, used2

-----------------------------------------------------------------------------
(* The nodes of the wave.                                                  *)

AllOver == \A b \in Branch : At(b, "over")

(* The pass of a node agrees with what the node holds.                     *)
Agreed(b, p, dec, bef, rw, used) ==
  \E g : Guided(b, g, p, dec, bef, rw) /\ Counted(g, p, dec, used)

(* Only one node is ever resumed: the others are over by then.             *)
Alone ==
  /\ \A b \in Branch : given[b] # <<>> => \A c \in Branch \ {b} : At(c, "over")
  /\ \A b \in Branch : ghost.before[b] # <<>> => given[b] # <<>> \/ agent[b].pc \in {"paused", "over"}
  /\ \A b \in ghost.drifted : given[b] # <<>>

(* A node that went the same way can be paused at a pending approval only. *)
PendingInv ==
  \/ AllOver
  \/ \A key \in DOMAIN row :
       row[key].status = "pending" /\ key[1] \notin ghost.drifted => At(key[1], "paused")

(* At the NOTIFY level nobody is asked.                                    *)
NotifyInv ==
  level = "notify" =>
    /\ \A b \in Branch : given[b] = <<>> /\ ~At(b, "paused")
    /\ \A key \in DOMAIN row : row[key].status # "pending"

SpentOn(b) ==
  \A k \in 1..Len(given[b]) : ghost.used[b][k] <= 1 + Cardinality(Later(given[b], k))

GatesInv ==
  /\ \A b \in Branch : TalkInv(agent[b])
  /\ DOMAIN ghost.before = Branch /\ DOMAIN ghost.used = Branch
  /\ \A b \in Branch : ghost.used[b] \in Seq(Nat) /\ Len(ghost.used[b]) = Len(given[b])
  /\ ghost.misfit \subseteq ghost.drifted /\ ghost.drifted \subseteq Branch
  /\ \A key \in DOMAIN row : key[1] \in Branch
  /\ Alone /\ PendingInv /\ NotifyInv
  /\ \A b \in Branch \ ghost.drifted :
       IF At(b, "over") THEN SpentOn(b)
       ELSE level # "notify" =>
              Agreed(b, agent[b], given[b], ghost.before[b], row, ghost.used[b])

(* No approval of such a node is pending unless it waits at it.            *)
LEMMA AgreedPending ==
  ASSUME NEW b, NEW p, NEW dec, NEW bef, NEW rw, NEW used, Agreed(b, p, dec, bef, rw, used),
         p.pc # "paused"
  PROVE  \A key \in DOMAIN rw : key[1] = b => rw[key].status # "pending"
<1> PICK g : Guided(b, g, p, dec, bef, rw)
  BY DEF Agreed
<1> SUFFICES ASSUME NEW key \in DOMAIN rw, key[1] = b PROVE rw[key].status # "pending"
  OBVIOUS
<1>1. PICK k \in 1..Len(dec) : key = dec[k].key
  BY DEF Guided, Rows
<1>2. rw[dec[k].key] = [status |-> "resolved", call |-> CallAt(bef, g[k])]
  BY DEF Guided, Path
<1> QED  BY <1>1, <1>2

LEMMA AgreedSpent ==
  ASSUME NEW b \in Branch, ConsentInv, GatesInv,
         Agreed(b, agent[b], given[b], ghost.before[b], row, ghost.used[b])
  PROVE  SpentOn(b)
<1> PICK g : Guided(b, g, agent[b], given[b], ghost.before[b], row)
             /\ Counted(g, agent[b], given[b], ghost.used[b])
  BY DEF Agreed
<1> SUFFICES ASSUME NEW k \in 1..Len(given[b])
             PROVE  ghost.used[b][k] <= 1 + Cardinality(Later(given[b], k))
  BY DEF SpentOn
<1>1. Len(given[b]) \in Nat
  BY DEF Guided, Path
<1>2. ghost.used[b][k] \in Nat /\ Cardinality(Later(given[b], k)) \in Nat
  <2>1. ghost.used[b] \in Seq(Nat) /\ Len(ghost.used[b]) = Len(given[b])
    BY DEF GatesInv
  <2> QED  BY <1>1, <2>1, LaterFinite, ElementOfSeq
<1>3. ghost.used[b][k] <= Cardinality(Later(given[b], k)) + (IF Made(g, agent[b], k) THEN 1 ELSE 0)
  BY DEF Counted
<1> QED  BY <1>2, <1>3

(* A step of one node, seen from the others.                               *)
LEMMA GatesStep ==
  ASSUME ConsentInv, GatesInv, NEW b \in Branch, NEW q, agent' = [agent EXCEPT ![b] = q],
         ~At(b, "over"), TalkInv(q), UNCHANGED <<given, level>>,
         ghost'.misfit \subseteq ghost'.drifted,
         ghost'.drifted \in {ghost.drifted, ghost.drifted \cup {b}},
         b \in ghost'.drifted => given[b] # <<>>,
         DOMAIN ghost'.before = Branch, DOMAIN ghost'.used = Branch,
         \A c \in Branch \ {b} : ghost'.before[c] = ghost.before[c] /\ ghost'.used[c] = ghost.used[c],
         ghost'.before[b] # <<>> => given[b] # <<>> \/ q.pc \in {"paused", "over"},
         ghost'.used[b] \in Seq(Nat), Len(ghost'.used[b]) = Len(given[b]),
         DOMAIN row \subseteq DOMAIN row',
         \A key \in DOMAIN row' : key[1] = b \/ (key \in DOMAIN row /\ row'[key] = row[key]),
         level = "notify" => q.pc # "paused" /\ \A key \in DOMAIN row' : row'[key].status # "pending",
         q.pc = "over" => ~At(b, "paused") /\ UNCHANGED <<row, ghost>>,
         level # "notify" /\ q.pc # "over" /\ b \notin ghost'.drifted =>
           Agreed(b, q, given[b], ghost'.before[b], row', ghost'.used[b])
  PROVE  GatesInv'
<1>1. \A c \in Branch : agent'[c] = IF c = b THEN q ELSE agent[c]
  BY DEF ConsentInv
<1>2. \A c \in Branch : TalkInv(agent'[c])
  BY <1>1 DEF GatesInv
<1>3. \A c \in Branch : ghost'.used[c] \in Seq(Nat) /\ Len(ghost'.used[c]) = Len(given'[c])
  BY DEF GatesInv
<1>4. ghost'.misfit \subseteq ghost'.drifted /\ ghost'.drifted \subseteq Branch /\ ghost.drifted \subseteq ghost'.drifted
  BY DEF GatesInv
<1>5. \A key \in DOMAIN row' : key[1] \in Branch
  BY DEF GatesInv
<1>6. Alone'
  <2>1. \A c \in Branch \ {b} : given[c] = <<>>
    BY DEF GatesInv, Alone
  <2>2. \A c \in Branch : given'[c] # <<>> => \A d \in Branch \ {c} : agent'[d].pc = "over"
    BY <1>1, <2>1 DEF GatesInv, Alone, At
  <2>3. \A c \in Branch : ghost'.before[c] # <<>> => given'[c] # <<>> \/ agent'[c].pc \in {"paused", "over"}
    BY <1>1 DEF GatesInv, Alone
  <2>4. \A c \in ghost'.drifted : given'[c] # <<>>
    BY DEF GatesInv, Alone
  <2> QED  BY <2>2, <2>3, <2>4 DEF Alone, At
<1>7. ASSUME NEW key \in DOMAIN row', key[1] = b, b \notin ghost'.drifted, q.pc # "paused"
      PROVE  row'[key].status # "pending"
  <2>1. CASE level = "notify"
    BY <2>1
  <2>2. CASE level # "notify" /\ q.pc # "over"
    BY <1>7, <2>2, AgreedPending
  <2>3. CASE level # "notify" /\ q.pc = "over"
    <3>1. Agreed(b, agent[b], given[b], ghost.before[b], row, ghost.used[b])
      BY <1>4, <1>7, <2>3 DEF GatesInv
    <3>2. row' = row /\ agent[b].pc # "paused"
      BY <2>3 DEF At
    <3> QED  BY <1>7, <3>1, <3>2, AgreedPending
  <2> QED  BY <2>1, <2>2, <2>3
<1>8. PendingInv'
  <2> SUFFICES ASSUME NEW key \in DOMAIN row', row'[key].status = "pending", key[1] \notin ghost'.drifted
               PROVE  agent'[key[1]].pc = "paused"
    BY DEF PendingInv, At
  <2>1. CASE key[1] = b
    BY <1>1, <1>7, <2>1
  <2>2. CASE key[1] # b
    <3>1. key \in DOMAIN row /\ row[key].status = "pending" /\ key[1] \notin ghost.drifted /\ key[1] \in Branch
      BY <1>4, <1>5, <2>2
    <3>2. ~AllOver
      BY DEF AllOver
    <3>3. At(key[1], "paused")
      BY <3>1, <3>2 DEF GatesInv, PendingInv
    <3> QED  BY <1>1, <2>2, <3>1, <3>3 DEF At
  <2> QED  BY <2>1, <2>2
<1>9. NotifyInv'
  BY <1>1 DEF GatesInv, NotifyInv, At
<1>10. ASSUME NEW c \in Branch \ ghost'.drifted
       PROVE  IF agent'[c].pc = "over"
              THEN \A k \in 1..Len(given'[c]) : ghost'.used[c][k] <= 1 + Cardinality(Later(given'[c], k))
              ELSE level' # "notify" =>
                     Agreed(c, agent'[c], given'[c], ghost'.before[c], row', ghost'.used[c])
  <2>1. c \in Branch \ ghost.drifted
    BY <1>4
  <2>2. IF At(c, "over") THEN SpentOn(c)
        ELSE level # "notify" => Agreed(c, agent[c], given[c], ghost.before[c], row, ghost.used[c])
    BY <2>1 DEF GatesInv
  <2>3. CASE c # b
    <3>1. /\ agent'[c] = agent[c] /\ given'[c] = given[c] /\ level' = level
          /\ ghost'.before[c] = ghost.before[c] /\ ghost'.used[c] = ghost.used[c]
      BY <1>1, <2>3
    <3>2. ASSUME NEW g, Guided(c, g, agent[c], given[c], ghost.before[c], row)
          PROVE  Guided(c, g, agent[c], given[c], ghost.before[c], row')
      <4>1. \A key \in DOMAIN row' : key[1] = c => key \in DOMAIN row /\ row'[key] = row[key]
        BY <2>3
      <4> QED  BY <3>2, <4>1, GuidedElsewhere
    <3>3. Agreed(c, agent[c], given[c], ghost.before[c], row, ghost.used[c])
            => Agreed(c, agent[c], given[c], ghost.before[c], row', ghost.used[c])
      BY <3>2 DEF Agreed
    <3> QED  BY <2>2, <3>1, <3>3 DEF At, SpentOn
  <2>4. CASE c = b /\ q.pc # "over"
    <3>1. agent'[c] = q /\ given'[c] = given[b] /\ level' = level
      BY <1>1, <2>4
    <3> QED  BY <1>10, <2>4, <3>1
  <2>5. CASE c = b /\ q.pc = "over"
    <3>1. agent'[c] = q /\ given' = given /\ ghost' = ghost
      BY <1>1, <2>5
    <3>2. SpentOn(b)
      <4>1. CASE level = "notify"
        <5>1. given[b] = <<>>
          BY <4>1 DEF GatesInv, NotifyInv
        <5> QED  BY <5>1 DEF SpentOn
      <4>2. CASE level # "notify"
        BY <2>2, <2>5, <4>2, AgreedSpent
      <4> QED  BY <4>1, <4>2
    <3> QED  BY <2>5, <3>1, <3>2 DEF SpentOn
  <2> QED  BY <2>3, <2>4, <2>5
<1> QED  BY <1>2, <1>3, <1>4, <1>5, <1>6, <1>8, <1>9, <1>10 DEF GatesInv, At, SpentOn

(* A step that leaves the history and the approvals as they are.           *)
LEMMA GatesKept ==
  ASSUME ConsentInv, GatesInv, NEW b \in Branch, NEW q, agent' = [agent EXCEPT ![b] = q],
         ~At(b, "over"), ~At(b, "paused"), TalkInv(q), q.pc # "paused",
         UNCHANGED <<given, level, row, ghost>>,
         \A g : q.pc # "over" /\ Guided(b, g, agent[b], given[b], ghost.before[b], row)
                  /\ Counted(g, agent[b], given[b], ghost.used[b])
                => Guided(b, g, q, given[b], ghost.before[b], row)
                   /\ Counted(g, q, given[b], ghost.used[b])
  PROVE  GatesInv'
<1>1. /\ ghost'.misfit \subseteq ghost'.drifted
      /\ ghost'.drifted \in {ghost.drifted, ghost.drifted \cup {b}}
      /\ DOMAIN ghost'.before = Branch /\ DOMAIN ghost'.used = Branch
      /\ \A c \in Branch \ {b} : ghost'.before[c] = ghost.before[c] /\ ghost'.used[c] = ghost.used[c]
      /\ ghost'.used[b] \in Seq(Nat) /\ Len(ghost'.used[b]) = Len(given[b])
  BY DEF GatesInv
<1>2. /\ b \in ghost'.drifted => given[b] # <<>>
      /\ ghost'.before[b] # <<>> => given[b] # <<>> \/ q.pc \in {"paused", "over"}
  BY DEF GatesInv, Alone, At
<1>3. /\ DOMAIN row \subseteq DOMAIN row'
      /\ \A key \in DOMAIN row' : key[1] = b \/ (key \in DOMAIN row /\ row'[key] = row[key])
      /\ level = "notify" => q.pc # "paused" /\ \A key \in DOMAIN row' : row'[key].status # "pending"
  BY DEF GatesInv, NotifyInv
<1>4. level # "notify" /\ q.pc # "over" /\ b \notin ghost'.drifted =>
        Agreed(b, q, given[b], ghost'.before[b], row', ghost'.used[b])
  BY DEF GatesInv, Agreed
<1>5. q.pc = "over" => ~At(b, "paused") /\ UNCHANGED <<row, ghost>>
  OBVIOUS
<1>6. UNCHANGED <<given, level>>
  OBVIOUS
<1> QED  BY <1>1, <1>2, <1>3, <1>4, <1>5, <1>6, GatesStep

(* A step that says w, which the drift of the history notes.               *)
LEMMA GatesSaid ==
  ASSUME ConsentInv, GatesInv, NEW b \in Branch, NEW q, NEW w, agent' = [agent EXCEPT ![b] = q],
         ~At(b, "over"), ~At(b, "paused"), TalkInv(q), q.pc \notin {"paused", "over"},
         UNCHANGED <<given, level, row>>,
         agent[b].said \in Seq(Word), w \in Word, q.said = Append(agent[b].said, w),
         ghost' = [ghost EXCEPT !.drifted = Drift(b, q.said)],
         \A g : /\ Guided(b, g, agent[b], given[b], ghost.before[b], row)
                /\ Counted(g, agent[b], given[b], ghost.used[b])
                /\ Len(q.said) <= Len(ghost.before[b]) => ghost.before[b][Len(q.said)] = w
                => Guided(b, g, q, given[b], ghost.before[b], row)
                   /\ Counted(g, q, given[b], ghost.used[b])
  PROVE  GatesInv'
<1> DEFINE bef == ghost.before[b]
           n == Len(q.said)
<1>1. q.said[n] = w
  BY SaidMore
<1>2. /\ ghost'.misfit = ghost.misfit /\ ghost'.before = ghost.before /\ ghost'.used = ghost.used
      /\ ghost'.drifted = IF n <= Len(bef) /\ bef[n] # w THEN ghost.drifted \cup {b} ELSE ghost.drifted
  BY <1>1 DEF ConsentInv, Drift
<1>3. given[b] # <<>> \/ bef = <<>>
  BY DEF GatesInv, Alone, At
<1>4. /\ ghost'.misfit \subseteq ghost'.drifted
      /\ ghost'.drifted \in {ghost.drifted, ghost.drifted \cup {b}}
      /\ DOMAIN ghost'.before = Branch /\ DOMAIN ghost'.used = Branch
      /\ \A c \in Branch \ {b} : ghost'.before[c] = ghost.before[c] /\ ghost'.used[c] = ghost.used[c]
      /\ ghost'.used[b] \in Seq(Nat) /\ Len(ghost'.used[b]) = Len(given[b])
  BY <1>2 DEF GatesInv
<1>5. b \in ghost'.drifted => given[b] # <<>>
  <2>1. CASE b \in ghost.drifted
    BY <2>1 DEF GatesInv, Alone
  <2>2. CASE b \notin ghost.drifted
    <3> SUFFICES ASSUME b \in ghost'.drifted, bef = <<>> PROVE FALSE
      BY <1>3
    <3>1. n <= Len(bef) /\ Len(bef) = 0
      BY <1>2, <2>2
    <3>2. n \in Nat /\ n >= 1
      BY SaidMore
    <3> HIDE DEF n, bef
    <3> QED  BY <3>1, <3>2
  <2> QED  BY <2>1, <2>2
<1>6. ghost'.before[b] # <<>> => given[b] # <<>> \/ q.pc \in {"paused", "over"}
  BY <1>2, <1>3
<1>7. /\ DOMAIN row \subseteq DOMAIN row'
      /\ \A key \in DOMAIN row' : key[1] = b \/ (key \in DOMAIN row /\ row'[key] = row[key])
      /\ level = "notify" => q.pc # "paused" /\ \A key \in DOMAIN row' : row'[key].status # "pending"
  BY DEF GatesInv, NotifyInv
<1>8. ASSUME level # "notify", b \notin ghost'.drifted
      PROVE  Agreed(b, q, given[b], ghost'.before[b], row', ghost'.used[b])
  <2>1. b \notin ghost.drifted /\ (n <= Len(bef) => bef[n] = w)
    BY <1>2, <1>8
  <2>2. Agreed(b, agent[b], given[b], bef, row, ghost.used[b])
    BY <1>8, <2>1 DEF GatesInv
  <2>3. PICK g : Guided(b, g, agent[b], given[b], bef, row) /\ Counted(g, agent[b], given[b], ghost.used[b])
    BY <2>2 DEF Agreed
  <2>4. Guided(b, g, q, given[b], bef, row) /\ Counted(g, q, given[b], ghost.used[b])
    BY <2>1, <2>3
  <2> QED  BY <1>2, <2>4 DEF Agreed
<1>9. q.pc = "over" => ~At(b, "paused") /\ UNCHANGED <<row, ghost>>
  OBVIOUS
<1>10. UNCHANGED <<given, level>>
  OBVIOUS
<1> HIDE DEF n, bef
<1> QED  BY <1>4, <1>5, <1>6, <1>7, <1>8, <1>9, <1>10, GatesStep

LEMMA GuidedTypes ==
  ASSUME NEW b, NEW g, NEW p, NEW dec, NEW bef, NEW rw, Guided(b, g, p, dec, bef, rw)
  PROVE  p.turn \in Nat /\ p.asked \in 0..Len(dec) /\ Len(dec) \in Nat
BY DEF Guided, Follows, Path

LEMMA GatesChat ==
  ASSUME ConsentInv, OverrunInv, GatesInv, NEW b \in Branch, Chat(b) PROVE GatesInv'
<1> DEFINE p == agent[b]
           q == agent'[b]
<1>1. /\ agent' = [agent EXCEPT ![b] = q]
      /\ TalkInv(q) /\ p.pc = "chat" /\ q.pc \in {"gate", "review"}
      /\ q.turn = p.turn /\ q.asked = p.asked /\ q.reply \in Word
      /\ q.said = Append(p.said, q.reply)
      /\ \A i \in DOMAIN q.reply : q.consent[i] = Unasked
      /\ ghost' = [ghost EXCEPT !.drifted = Drift(b, q.said)]
  BY ChatTalks DEF GatesInv
<1>2. TalkInv(p) /\ p.said \in Seq(Word)
  BY DEF GatesInv, TalkInv
<1>3. UNCHANGED <<given, level, row>>
  BY DEF Chat, Runtime
<1> HIDE DEF q
<1>4. ASSUME NEW g, Guided(b, g, p, given[b], ghost.before[b], row),
             Counted(g, p, given[b], ghost.used[b]),
             Len(q.said) <= Len(ghost.before[b]) => ghost.before[b][Len(q.said)] = q.reply
      PROVE  Guided(b, g, q, given[b], ghost.before[b], row) /\ Counted(g, q, given[b], ghost.used[b])
  <2>1. Guided(b, g, q, given[b], ghost.before[b], row)
    BY <1>1, <1>2, <1>4, GuidedChat
  <2>2. ASSUME NEW k \in 1..Len(given[b]), Made(g, p, k) PROVE Made(g, q, k)
    <3>1. k \in 1..p.asked
      BY <1>4, <2>2, GuidedTypes DEF Made
    <3>2. g[k][1] < p.turn
      BY <1>1, <1>2, <1>4, <3>1, GatesBehind
    <3> QED  BY <1>1, <2>2, <3>2 DEF Made
  <2>3. ghost.used[b] \in Seq(Nat) /\ Len(ghost.used[b]) = Len(given[b]) /\ Len(given[b]) \in Nat
    BY <1>4, GuidedTypes DEF GatesInv
  <2>4. Counted(g, q, given[b], ghost.used[b])
    BY <1>4, <2>2, <2>3, CountedStill
  <2> QED  BY <2>1, <2>4
<1>5. ~At(b, "over") /\ ~At(b, "paused") /\ q.pc \notin {"paused", "over"}
  BY <1>1 DEF At
<1> QED  BY <1>1, <1>2, <1>3, <1>4, <1>5, GatesSaid

LEMMA GatesEndTurn ==
  ASSUME ConsentInv, GatesInv, NEW b \in Branch, EndTurn(b) PROVE GatesInv'
<1> DEFINE p == agent[b]
           q == agent'[b]
<1>1. /\ agent' = [agent EXCEPT ![b] = q] /\ TalkInv(q) /\ p.pc = "run" /\ UnruledOf(p) = {}
      /\ q.asked = p.asked
      /\ \/ q.pc = "over" /\ UNCHANGED ghost
         \/ /\ q.pc = "chat" /\ q.turn = p.turn + 1 /\ p.answer \in Word
            /\ q.said = Append(p.said, p.answer)
            /\ ghost' = [ghost EXCEPT !.drifted = Drift(b, q.said)]
  BY EndTurnTalks DEF GatesInv
<1>2. TalkInv(p) /\ p.said \in Seq(Word)
  BY DEF GatesInv, TalkInv
<1>3. UNCHANGED <<given, level, row>>
  BY DEF EndTurn, Runtime
<1>4. ~At(b, "over") /\ ~At(b, "paused")
  BY <1>1 DEF At
<1> HIDE DEF q
<1>5. CASE q.pc = "over" /\ UNCHANGED ghost
  BY <1>1, <1>3, <1>4, <1>5, GatesKept
<1>6. CASE q.pc = "chat"
  <2>1. /\ q.turn = p.turn + 1 /\ p.answer \in Word /\ q.said = Append(p.said, p.answer)
        /\ ghost' = [ghost EXCEPT !.drifted = Drift(b, q.said)]
    BY <1>1, <1>6
  <2>2. ASSUME NEW g, Guided(b, g, p, given[b], ghost.before[b], row),
               Counted(g, p, given[b], ghost.used[b]),
               Len(q.said) <= Len(ghost.before[b]) => ghost.before[b][Len(q.said)] = p.answer
        PROVE  Guided(b, g, q, given[b], ghost.before[b], row) /\ Counted(g, q, given[b], ghost.used[b])
    <3>1. Guided(b, g, q, given[b], ghost.before[b], row)
      BY <1>1, <1>2, <1>6, <2>1, <2>2, GuidedEndTurn
    <3>2. ASSUME NEW k \in 1..Len(given[b]), Made(g, p, k) PROVE Made(g, q, k)
      <4>1. k \in 1..p.asked /\ p.turn \in Nat
        BY <2>2, <3>2, GuidedTypes DEF Made
      <4>2. g[k][1] \in Nat /\ g[k][1] <= p.turn
        BY <1>1, <1>2, <2>2, <4>1, GatesBehind
      <4>3. g[k][1] < q.turn
        BY <2>1, <4>1, <4>2
      <4> QED  BY <1>1, <3>2, <4>3 DEF Made
    <3>3. ghost.used[b] \in Seq(Nat) /\ Len(ghost.used[b]) = Len(given[b]) /\ Len(given[b]) \in Nat
      BY <2>2, GuidedTypes DEF GatesInv
    <3>4. Counted(g, q, given[b], ghost.used[b])
      BY <2>2, <3>2, <3>3, CountedStill
    <3> QED  BY <3>1, <3>4
  <2>3. q.pc \notin {"paused", "over"}
    BY <1>6
  <2> QED  BY <1>1, <1>2, <1>3, <1>4, <2>1, <2>2, <2>3, GatesSaid
<1> QED  BY <1>1, <1>5, <1>6

(* The calls start, the review asks again or ends, the attempt fails.      *)
LEMMA GatesMove ==
  ASSUME ConsentInv, GatesInv, NEW b \in Branch, StartCalls(b) \/ Review(b) \/ GiveUp(b)
  PROVE  GatesInv'
<1> DEFINE p == agent[b]
           q == agent'[b]
<1>1. /\ agent' = [agent EXCEPT ![b] = q] /\ TalkInv(q)
      /\ q.said = p.said /\ q.reply = p.reply /\ q.turn = p.turn /\ q.asked = p.asked
      /\ q.consent = p.consent /\ q.answer = p.answer
      /\ q.pc \in {"run", "review_again", "over"} /\ (GiveUp(b) => q.pc = "over")
  BY MoveTalks DEF GatesInv
<1>2. /\ UNCHANGED <<given, level, row, ghost>> /\ p.pc \in {"chat", "gate", "review", "review_again"}
      /\ (p.pc = "chat" => GiveUp(b))
  BY DEF StartCalls, Review, GiveUp, Runtime, At
<1> HIDE DEF q
<1>3. ASSUME NEW g, q.pc # "over", Guided(b, g, p, given[b], ghost.before[b], row),
             Counted(g, p, given[b], ghost.used[b])
      PROVE  Guided(b, g, q, given[b], ghost.before[b], row) /\ Counted(g, q, given[b], ghost.used[b])
  <2>1. p.pc \notin {"chat", "paused"} /\ q.pc # "paused"
    BY <1>1, <1>2, <1>3
  <2>2. Guided(b, g, q, given[b], ghost.before[b], row)
    BY <1>1, <1>3, <2>1, GuidedStill
  <2>3. Counted(g, q, given[b], ghost.used[b])
    BY <1>1, <1>3 DEF Counted, Made
  <2> QED  BY <2>2, <2>3
<1>4. ~At(b, "over") /\ ~At(b, "paused") /\ q.pc # "paused"
  BY <1>1, <1>2 DEF At
<1> QED  BY <1>1, <1>2, <1>3, <1>4, GatesKept

(* An answer of the registry that takes nothing back.                      *)
LEMMA GatesAnswer ==
  ASSUME ConsentInv, GatesInv, NEW b \in Branch, NEW i, NEW old, Thread(b, i, old),
         NEW a \in Answers, Answer(b, i, a), old \in Past => a \in Past,
         UNCHANGED <<given, level, row>>,
         ghost' = ghost \/ ghost' = [ghost EXCEPT !.lost = @ + 1]
  PROVE  GatesInv'
<1> DEFINE p == agent[b]
           q == agent'[b]
<1>1. /\ agent' = [agent EXCEPT ![b] = q] /\ TalkInv(q) /\ TalkInv(p) /\ p.pc = "run" /\ q.pc = "run"
      /\ q.said = p.said /\ q.reply = p.reply /\ q.turn = p.turn /\ q.asked = p.asked
      /\ q.consent = p.consent /\ i \in DOMAIN p.reply /\ p.answer[i] = old
      /\ DOMAIN p.answer = DOMAIN p.reply /\ q.answer = [p.answer EXCEPT ![i] = a]
  BY AnswerTalks DEF GatesInv
<1> HIDE DEF q
<1>2. ASSUME NEW g, Guided(b, g, p, given[b], ghost.before[b], row),
             Counted(g, p, given[b], ghost.used[b])
      PROVE  Guided(b, g, q, given[b], ghost.before[b], row) /\ Counted(g, q, given[b], ghost.used[b])
  <2>1. Guided(b, g, q, given[b], ghost.before[b], row)
    BY <1>1, <1>2, GuidedStill
  <2>2. ASSUME NEW k \in 1..Len(given[b]), Made(g, p, k) PROVE Made(g, q, k)
    <3>1. k \in 1..p.asked
      BY <1>2, <2>2, GuidedTypes DEF Made
    <3>2. g[k][1] = p.turn => g[k][2] \in DOMAIN p.answer
      BY <1>1, <1>2, <3>1, GatesBehind
    <3> QED  BY <1>1, <2>2, <3>2, MadeAnswer
  <2>3. ghost.used[b] \in Seq(Nat) /\ Len(ghost.used[b]) = Len(given[b]) /\ Len(given[b]) \in Nat
    BY <1>2, GuidedTypes DEF GatesInv
  <2>4. Counted(g, q, given[b], ghost.used[b])
    BY <1>2, <2>2, <2>3, CountedStill
  <2> QED  BY <2>1, <2>4
<1>3. /\ ghost'.misfit = ghost.misfit /\ ghost'.drifted = ghost.drifted
      /\ ghost'.before = ghost.before /\ ghost'.used = ghost.used
  BY DEF ConsentInv
<1>4. /\ ghost'.misfit \subseteq ghost'.drifted
      /\ ghost'.drifted \in {ghost.drifted, ghost.drifted \cup {b}}
      /\ DOMAIN ghost'.before = Branch /\ DOMAIN ghost'.used = Branch
      /\ \A c \in Branch \ {b} : ghost'.before[c] = ghost.before[c] /\ ghost'.used[c] = ghost.used[c]
      /\ ghost'.used[b] \in Seq(Nat) /\ Len(ghost'.used[b]) = Len(given[b])
  BY <1>3 DEF GatesInv
<1>5. /\ b \in ghost'.drifted => given[b] # <<>>
      /\ ghost'.before[b] # <<>> => given[b] # <<>> \/ q.pc \in {"paused", "over"}
  BY <1>1, <1>3 DEF GatesInv, Alone
<1>6. /\ DOMAIN row \subseteq DOMAIN row'
      /\ \A key \in DOMAIN row' : key[1] = b \/ (key \in DOMAIN row /\ row'[key] = row[key])
      /\ level = "notify" => q.pc # "paused" /\ \A key \in DOMAIN row' : row'[key].status # "pending"
  BY <1>1 DEF GatesInv, NotifyInv
<1>7. level # "notify" /\ q.pc # "over" /\ b \notin ghost'.drifted =>
        Agreed(b, q, given[b], ghost'.before[b], row', ghost'.used[b])
  <2> SUFFICES ASSUME level # "notify", b \notin ghost'.drifted
               PROVE  Agreed(b, q, given[b], ghost'.before[b], row', ghost'.used[b])
    OBVIOUS
  <2>1. Agreed(b, p, given[b], ghost.before[b], row, ghost.used[b])
    BY <1>1, <1>3 DEF GatesInv, At
  <2> QED  BY <1>2, <1>3, <2>1 DEF Agreed
<1>8. ~At(b, "over") /\ (q.pc = "over" => ~At(b, "paused") /\ UNCHANGED <<row, ghost>>)
  BY <1>1 DEF At
<1>9. UNCHANGED <<given, level>>
  OBVIOUS
<1> QED  BY <1>1, <1>4, <1>5, <1>6, <1>7, <1>8, <1>9, GatesStep

(* The registry refuses, admits or logs a call, or its store fails.        *)
LEMMA GatesRegistry ==
  ASSUME ConsentInv, GatesInv, NEW b \in Branch, NEW i,
         Refuse(b, i) \/ Admit(b, i) \/ Log(b, i) \/ StoreFails(b, i)
  PROVE  GatesInv'
<1>1. CASE Refuse(b, i)
  <2> DEFINE a == Refusal(b, i)
  <2>1. Thread(b, i, "todo") /\ Answer(b, i, a) /\ UNCHANGED <<given, level, row>> /\ ghost' = ghost
    BY <1>1 DEF Refuse, Runtime
  <2>2. a \in Answers
    BY <1>1 DEF Refuse, Refusal, Answers
  <2>3. "todo" \in Past => a \in Past
    BY DEF Past
  <2> HIDE DEF a
  <2> QED  BY <2>1, <2>2, <2>3, GatesAnswer
<1>2. CASE Admit(b, i)
  <2> DEFINE a == IF agent[b].arg[i] = "bad" THEN "invalid" ELSE "admitted"
  <2>1. Thread(b, i, "todo") /\ Answer(b, i, a) /\ UNCHANGED <<given, level, row>> /\ ghost' = ghost
    BY <1>2 DEF Admit, Runtime
  <2>2. a \in Answers
    BY DEF Answers
  <2>3. "todo" \in Past => a \in Past
    BY DEF Past
  <2> HIDE DEF a
  <2> QED  BY <2>1, <2>2, <2>3, GatesAnswer
<1>3. CASE Log(b, i)
  <2>1. PICK old, a : /\ <<old, a>> \in {<<"performed", "returned">>, <<"invalid", "failure">>}
                      /\ Thread(b, i, old) /\ Answer(b, i, a)
    BY <1>3 DEF Log
  <2>2. UNCHANGED <<given, level, row>> /\ ghost' = ghost
    BY <1>3 DEF Log, Runtime
  <2>3. a \in Answers /\ (old \in Past => a \in Past)
    BY <2>1 DEF Answers, Past
  <2> QED  BY <2>1, <2>2, <2>3, GatesAnswer
<1>4. CASE StoreFails(b, i)
  <2>1. PICK old \in {"todo", "performed"} : Thread(b, i, old)
    BY <1>4 DEF StoreFails
  <2>2. /\ Answer(b, i, "raised") /\ UNCHANGED <<given, level, row>>
        /\ ghost' = ghost \/ ghost' = [ghost EXCEPT !.lost = @ + 1]
    BY <1>4 DEF StoreFails, Runtime
  <2>3. "raised" \in Answers /\ (old \in Past => "raised" \in Past)
    BY DEF Answers, Past
  <2> QED  BY <2>1, <2>2, <2>3, GatesAnswer
<1> QED  BY <1>1, <1>2, <1>3, <1>4

(* A call runs: the decision it is made by has made it once more.          *)
LEMMA GatesPerform ==
  ASSUME ConsentInv, GatesInv, NEW b \in Branch, NEW i, Perform(b, i) PROVE GatesInv'
<1> DEFINE p == agent[b]
           q == agent'[b]
           k == p.consent[i]
           used2 == IF k > 0 THEN [ghost.used[b] EXCEPT ![k] = @ + 1] ELSE ghost.used[b]
<1>1. Thread(b, i, "admitted") /\ Answer(b, i, "performed") /\ UNCHANGED <<given, level, row>>
  BY DEF Perform, Runtime
<1>2. /\ agent' = [agent EXCEPT ![b] = q] /\ TalkInv(q) /\ TalkInv(p) /\ p.pc = "run" /\ q.pc = "run"
      /\ q.said = p.said /\ q.reply = p.reply /\ q.turn = p.turn /\ q.asked = p.asked
      /\ q.consent = p.consent /\ i \in DOMAIN p.reply /\ p.answer[i] = "admitted"
      /\ DOMAIN p.answer = DOMAIN p.reply /\ q.answer = [p.answer EXCEPT ![i] = "performed"]
  <2>1. "performed" \in Answers
    BY DEF Answers
  <2> QED  BY <1>1, <2>1, AnswerTalks DEF GatesInv
<1>3. k \in 0..Len(given[b]) \cup {Notified} /\ Len(given[b]) \in Nat
  BY <1>2 DEF ConsentInv, PassInv, RuledOn
<1>4. ghost.used[b] \in Seq(Nat) /\ Len(ghost.used[b]) = Len(given[b])
  BY DEF GatesInv
<1>5. /\ ghost'.misfit = ghost.misfit /\ ghost'.drifted = ghost.drifted /\ ghost'.before = ghost.before
      /\ DOMAIN ghost'.used = Branch /\ ghost'.used[b] = used2
      /\ \A c \in Branch \ {b} : ghost'.used[c] = ghost.used[c]
  <2>1. DOMAIN ghost = {"performed", "lost", "acts", "used", "misfit", "before", "drifted"}
        /\ DOMAIN ghost.before = Branch /\ DOMAIN ghost.used = Branch
    BY DEF ConsentInv, GatesInv
  <2>2. ghost'.misfit = ghost.misfit /\ ghost'.drifted = ghost.drifted /\ ghost'.before = ghost.before
    BY <2>1 DEF Perform
  <2>3. /\ DOMAIN ghost'.used = Branch /\ ghost'.used[b] = used2
        /\ \A c \in Branch \ {b} : ghost'.used[c] = ghost.used[c]
    BY <2>1 DEF Perform
  <2> QED  BY <2>2, <2>3
<1>6. used2 \in Seq(Nat) /\ Len(used2) = Len(given[b])
  <2>1. CASE ~(k > 0)
    BY <1>4, <2>1
  <2>2. CASE k > 0
    <3> DEFINE u == ghost.used[b]
    <3>1. k \in 1..Len(u)
      BY <1>3, <1>4, <2>2 DEF Notified
    <3>2. u[k] + 1 \in Nat
      <4>1. u[k] \in Nat
        BY <1>4, <3>1, ElementOfSeq
      <4> QED  BY <4>1
    <3>3. used2 = [u EXCEPT ![k] = u[k] + 1]
      BY <2>2
    <3>4. u \in Seq(Nat)
      BY <1>4
    <3> HIDE DEF u, k, used2
    <3>5. [u EXCEPT ![k] = u[k] + 1] \in Seq(Nat) /\ Len([u EXCEPT ![k] = u[k] + 1]) = Len(u)
      BY <3>1, <3>2, <3>4, ExceptSeq, LenProperties
    <3> QED  BY <1>4, <3>3, <3>5 DEF u
  <2> QED  BY <2>1, <2>2
<1> HIDE DEF q, used2
<1>7. ASSUME NEW g, Guided(b, g, p, given[b], ghost.before[b], row),
             Counted(g, p, given[b], ghost.used[b])
      PROVE  Guided(b, g, q, given[b], ghost.before[b], row) /\ Counted(g, q, given[b], used2)
  <2>1. Guided(b, g, q, given[b], ghost.before[b], row)
    BY <1>2, <1>7, GuidedStill
  <2>2. Counted(g, q, given[b], used2)
    BY <1>2, <1>3, <1>4, <1>7, CountedPerform DEF used2
  <2> QED  BY <2>1, <2>2
<1>8. /\ ghost'.misfit \subseteq ghost'.drifted
      /\ ghost'.drifted \in {ghost.drifted, ghost.drifted \cup {b}}
      /\ DOMAIN ghost'.before = Branch /\ DOMAIN ghost'.used = Branch
      /\ \A c \in Branch \ {b} : ghost'.before[c] = ghost.before[c] /\ ghost'.used[c] = ghost.used[c]
      /\ ghost'.used[b] \in Seq(Nat) /\ Len(ghost'.used[b]) = Len(given[b])
  BY <1>5, <1>6 DEF GatesInv
<1>9. /\ b \in ghost'.drifted => given[b] # <<>>
      /\ ghost'.before[b] # <<>> => given[b] # <<>> \/ q.pc \in {"paused", "over"}
  BY <1>2, <1>5 DEF GatesInv, Alone
<1>10. /\ DOMAIN row \subseteq DOMAIN row'
       /\ \A key \in DOMAIN row' : key[1] = b \/ (key \in DOMAIN row /\ row'[key] = row[key])
       /\ level = "notify" => q.pc # "paused" /\ \A key \in DOMAIN row' : row'[key].status # "pending"
  BY <1>1, <1>2 DEF GatesInv, NotifyInv
<1>11. level # "notify" /\ q.pc # "over" /\ b \notin ghost'.drifted =>
         Agreed(b, q, given[b], ghost'.before[b], row', ghost'.used[b])
  <2> SUFFICES ASSUME level # "notify", b \notin ghost'.drifted
               PROVE  Agreed(b, q, given[b], ghost'.before[b], row', ghost'.used[b])
    OBVIOUS
  <2>1. Agreed(b, p, given[b], ghost.before[b], row, ghost.used[b])
    BY <1>2, <1>5 DEF GatesInv, At
  <2>2. PICK g : /\ Guided(b, g, p, given[b], ghost.before[b], row)
                 /\ Counted(g, p, given[b], ghost.used[b])
    BY <2>1 DEF Agreed
  <2>3. Guided(b, g, q, given[b], ghost.before[b], row) /\ Counted(g, q, given[b], used2)
    BY <1>7, <2>2
  <2>4. row' = row /\ ghost'.before[b] = ghost.before[b] /\ ghost'.used[b] = used2
    BY <1>1, <1>5
  <2> QED  BY <2>3, <2>4 DEF Agreed
<1>12. ~At(b, "over") /\ (q.pc = "over" => ~At(b, "paused") /\ UNCHANGED <<row, ghost>>)
  BY <1>2 DEF At
<1>13. UNCHANGED <<given, level>>
  BY <1>1
<1> QED  BY <1>2, <1>8, <1>9, <1>10, <1>11, <1>12, <1>13, GatesStep

(* What ensure leaves: the row of the key, and the others as they were.    *)
LEMMA EnsureKeeps ==
  ASSUME NEW key, NEW status, NEW call, Ensure(key, status, call)
  PROVE  /\ DOMAIN row' = DOMAIN row \cup {key}
         /\ \A k \in DOMAIN row' : k \in DOMAIN row => row'[k] = row[k]
         /\ \A k \in DOMAIN row' : k = key \/ k \in DOMAIN row
         /\ key \notin DOMAIN row => row'[key] = [status |-> status, call |-> call]
         /\ key \in DOMAIN row => row' = row
BY DEF Ensure

(* A sensitive call is notified and goes on.                               *)
LEMMA GatesNotify ==
  ASSUME ConsentInv, GatesInv, NEW b \in Branch, NotifyGate(b) PROVE GatesInv'
<1> DEFINE p == agent[b]
           q == agent'[b]
           key == GateKey(b, NextUnruled(b))
           c == p.reply[NextUnruled(b)]
<1>1. /\ agent' = [agent EXCEPT ![b] = q] /\ TalkInv(q) /\ p.pc = "gate" /\ q.pc = "gate"
  BY RulingTalks DEF GatesInv
<1>2. level = "notify" /\ Ensure(key, "notified", c) /\ UNCHANGED <<given, level, ghost>>
  BY DEF NotifyGate, Runtime
<1>3. key[1] = b
  BY DEF GateKey
<1> HIDE DEF q, key, c
<1>4. /\ DOMAIN row' = DOMAIN row \cup {key}
      /\ \A k \in DOMAIN row' : k \in DOMAIN row => row'[k] = row[k]
      /\ \A k \in DOMAIN row' : k = key \/ k \in DOMAIN row
      /\ key \notin DOMAIN row => row'[key] = [status |-> "notified", call |-> c]
  BY <1>2, EnsureKeeps
<1>5. /\ ghost'.misfit \subseteq ghost'.drifted
      /\ ghost'.drifted \in {ghost.drifted, ghost.drifted \cup {b}}
      /\ DOMAIN ghost'.before = Branch /\ DOMAIN ghost'.used = Branch
      /\ \A a \in Branch \ {b} : ghost'.before[a] = ghost.before[a] /\ ghost'.used[a] = ghost.used[a]
      /\ ghost'.used[b] \in Seq(Nat) /\ Len(ghost'.used[b]) = Len(given[b])
  BY <1>2 DEF GatesInv
<1>6. /\ b \in ghost'.drifted => given[b] # <<>>
      /\ ghost'.before[b] # <<>> => given[b] # <<>> \/ q.pc \in {"paused", "over"}
  BY <1>1, <1>2 DEF GatesInv, Alone
<1>7. /\ DOMAIN row \subseteq DOMAIN row'
      /\ \A k \in DOMAIN row' : k[1] = b \/ (k \in DOMAIN row /\ row'[k] = row[k])
  BY <1>3, <1>4
<1>8. level = "notify" => q.pc # "paused" /\ \A k \in DOMAIN row' : row'[k].status # "pending"
  <2>1. \A k \in DOMAIN row : row[k].status # "pending"
    BY <1>2 DEF GatesInv, NotifyInv
  <2>2. ASSUME NEW k \in DOMAIN row' PROVE row'[k].status # "pending"
    <3>1. CASE k \in DOMAIN row
      BY <1>4, <2>1, <3>1
    <3>2. CASE k \notin DOMAIN row
      BY <1>4, <3>2
    <3> QED  BY <3>1, <3>2
  <2> QED  BY <1>1, <2>2
<1>9. ~At(b, "over") /\ (q.pc = "over" => ~At(b, "paused") /\ UNCHANGED <<row, ghost>>)
  BY <1>1 DEF At
<1>10. UNCHANGED <<given, level>>
       /\ (level # "notify" /\ q.pc # "over" /\ b \notin ghost'.drifted =>
             Agreed(b, q, given[b], ghost'.before[b], row', ghost'.used[b]))
  BY <1>2
<1> QED  BY <1>1, <1>5, <1>6, <1>7, <1>8, <1>9, <1>10, GatesStep

(* The next decision: of a pass that goes the same way, it fits the gate.  *)
LEMMA GatesDecision ==
  ASSUME ConsentInv, GatesInv, NEW b \in Branch, TakeDecision(b) PROVE GatesInv'
<1> DEFINE p == agent[b]
           q == agent'[b]
           key == GateKey(b, NextUnruled(b))
           c == p.reply[NextUnruled(b)]
           d == given[b][p.asked + 1]
<1>1. /\ agent' = [agent EXCEPT ![b] = q] /\ TalkInv(q) /\ UnruledOf(p) # {}
      /\ p.pc = "gate" /\ q.pc = "gate" /\ q.said = p.said /\ q.reply = p.reply /\ q.turn = p.turn
      /\ q.asked = p.asked + 1
      /\ q.consent = [p.consent EXCEPT ![NextOf(p)] = p.asked + 1]
      /\ \A j \in DOMAIN p.reply : q.answer[j] \in {p.answer[j], "human"}
  BY RulingTalks DEF GatesInv
<1>2. TalkInv(p) /\ DOMAIN p.consent = DOMAIN p.reply /\ p.asked \in Nat
  BY DEF GatesInv, ConsentInv, PassInv
<1>3. key = KeyNow(b, p) /\ c = p.reply[NextOf(p)] /\ key[1] = b
  BY <1>1, <1>2, GateKeyIsKeyNow DEF KeyNow, KeyOf
<1>4. /\ level # "notify" /\ Ensure(key, "pending", c) /\ UNCHANGED <<given, level>>
      /\ p.asked < Len(given[b])
      /\ ghost' = [ghost EXCEPT !.misfit = IF d.key = key /\ row[d.key].call = c THEN @ ELSE @ \cup {b}]
  BY DEF TakeDecision, Runtime
<1>5. /\ ghost'.drifted = ghost.drifted /\ ghost'.before = ghost.before /\ ghost'.used = ghost.used
      /\ ghost'.misfit = IF d.key = key /\ row[d.key].call = c THEN ghost.misfit ELSE ghost.misfit \cup {b}
  BY <1>4 DEF ConsentInv
<1> HIDE DEF q, key, c, d
<1>6. ASSUME b \notin ghost.drifted
      PROVE  /\ row' = row /\ ghost'.misfit = ghost.misfit
             /\ Agreed(b, q, given[b], ghost.before[b], row, ghost.used[b])
  <2>1. Agreed(b, p, given[b], ghost.before[b], row, ghost.used[b])
    BY <1>1, <1>4, <1>6 DEF GatesInv, At
  <2>2. PICK g : /\ Guided(b, g, p, given[b], ghost.before[b], row)
                 /\ Counted(g, p, given[b], ghost.used[b])
    BY <2>1 DEF Agreed
  <2>3. /\ given[b][p.asked + 1].key = KeyNow(b, p)
        /\ row[KeyNow(b, p)].call = p.reply[NextOf(p)] /\ KeyNow(b, p) \in DOMAIN row
    BY <1>1, <1>2, <1>4, <2>2, NextDecisionFits DEF Guided
  <2>4. row' = row
    BY <1>3, <1>4, <2>3, EnsureKeeps
  <2>5. Guided(b, g, q, given[b], ghost.before[b], row)
    BY <1>1, <1>2, <1>4, <2>2, GuidedDecision
  <2>6. ASSUME NEW k \in 1..Len(given[b]), Made(g, p, k) PROVE Made(g, q, k)
    <3>1. k \in 1..p.asked /\ g[k][1] < p.turn
      BY <1>1, <1>2, <2>2, <2>6, MadeAtGate
    <3>2. k <= q.asked
      BY <1>1, <1>2, <3>1
    <3> QED  BY <1>1, <3>1, <3>2 DEF Made
  <2>7. ghost.used[b] \in Seq(Nat) /\ Len(ghost.used[b]) = Len(given[b]) /\ Len(given[b]) \in Nat
    BY <2>2, GuidedTypes DEF GatesInv
  <2>8. Counted(g, q, given[b], ghost.used[b])
    BY <2>2, <2>6, <2>7, CountedStill
  <2> QED  BY <1>3, <1>5, <2>3, <2>4, <2>5, <2>8 DEF Agreed, d
<1>7. /\ ghost'.misfit \subseteq ghost'.drifted
      /\ ghost'.drifted \in {ghost.drifted, ghost.drifted \cup {b}}
      /\ DOMAIN ghost'.before = Branch /\ DOMAIN ghost'.used = Branch
      /\ \A a \in Branch \ {b} : ghost'.before[a] = ghost.before[a] /\ ghost'.used[a] = ghost.used[a]
      /\ ghost'.used[b] \in Seq(Nat) /\ Len(ghost'.used[b]) = Len(given[b])
  BY <1>5, <1>6 DEF GatesInv
<1>8. /\ b \in ghost'.drifted => given[b] # <<>>
      /\ ghost'.before[b] # <<>> => given[b] # <<>> \/ q.pc \in {"paused", "over"}
  BY <1>1, <1>5 DEF GatesInv, Alone
<1>9. /\ DOMAIN row \subseteq DOMAIN row'
      /\ \A k \in DOMAIN row' : k[1] = b \/ (k \in DOMAIN row /\ row'[k] = row[k])
  <2>1. /\ DOMAIN row' = DOMAIN row \cup {key}
        /\ \A k \in DOMAIN row' : k \in DOMAIN row => row'[k] = row[k]
        /\ \A k \in DOMAIN row' : k = key \/ k \in DOMAIN row
    BY <1>4, EnsureKeeps
  <2> QED  BY <1>3, <2>1
<1>10. level = "notify" => q.pc # "paused" /\ \A k \in DOMAIN row' : row'[k].status # "pending"
  BY <1>4
<1>11. ~At(b, "over") /\ (q.pc = "over" => ~At(b, "paused") /\ UNCHANGED <<row, ghost>>)
  BY <1>1 DEF At
<1>12. UNCHANGED <<given, level>>
  BY <1>4
<1>13. level # "notify" /\ q.pc # "over" /\ b \notin ghost'.drifted =>
         Agreed(b, q, given[b], ghost'.before[b], row', ghost'.used[b])
  BY <1>5, <1>6
<1> QED  BY <1>1, <1>7, <1>8, <1>9, <1>10, <1>11, <1>12, <1>13, GatesStep

(* The pass pauses, and what it said is what the next one has to follow.   *)
LEMMA GatesAsk ==
  ASSUME ConsentInv, GatesInv, NEW b \in Branch, AskGate(b) PROVE GatesInv'
<1> DEFINE p == agent[b]
           q == agent'[b]
           key == GateKey(b, NextUnruled(b))
           c == p.reply[NextUnruled(b)]
<1>1. /\ agent' = [agent EXCEPT ![b] = q] /\ TalkInv(q) /\ q.pc = "paused"
      /\ q.said = p.said /\ q.reply = p.reply /\ q.turn = p.turn /\ q.asked = p.asked
      /\ q.consent = p.consent /\ q.answer = p.answer
  BY MoveTalks DEF GatesInv
<1>2. TalkInv(p) /\ p.pc = "gate" /\ p.asked = Len(given[b]) /\ Unruled(b) # {}
  BY DEF GatesInv, AskGate, At
<1>3. key = KeyNow(b, p) /\ c = p.reply[NextOf(p)] /\ key[1] = b /\ UnruledOf(p) # {}
  BY <1>2, GateKeyIsKeyNow DEF KeyNow, KeyOf
<1>4. /\ level # "notify" /\ Ensure(key, "pending", c) /\ UNCHANGED <<given, level>>
      /\ ghost' = [ghost EXCEPT !.before[b] = p.said]
  BY DEF AskGate, Runtime
<1>5. /\ ghost'.drifted = ghost.drifted /\ ghost'.misfit = ghost.misfit /\ ghost'.used = ghost.used
      /\ DOMAIN ghost'.before = Branch /\ ghost'.before[b] = p.said
      /\ \A a \in Branch \ {b} : ghost'.before[a] = ghost.before[a]
  BY <1>4 DEF ConsentInv, GatesInv
<1> HIDE DEF q, key, c
<1>6. ASSUME b \notin ghost.drifted
      PROVE  Agreed(b, q, given[b], p.said, row', ghost.used[b])
  <2>1. Agreed(b, p, given[b], ghost.before[b], row, ghost.used[b])
    BY <1>2, <1>4, <1>6 DEF GatesInv, At
  <2>2. PICK g : /\ Guided(b, g, p, given[b], ghost.before[b], row)
                 /\ Counted(g, p, given[b], ghost.used[b])
    BY <2>1 DEF Agreed
  <2>3. row' = IF KeyNow(b, p) \in DOMAIN row THEN row
               ELSE [k \in DOMAIN row \cup {KeyNow(b, p)} |->
                       IF k = KeyNow(b, p) THEN [status |-> "pending", call |-> p.reply[NextOf(p)]]
                       ELSE row[k]]
    BY <1>3, <1>4 DEF Ensure
  <2>4. Guided(b, g, q, given[b], p.said, row')
    BY <1>1, <1>2, <1>3, <2>2, <2>3, GuidedAsks
  <2>5. Counted(g, q, given[b], ghost.used[b])
    BY <1>1, <2>2 DEF Counted, Made
  <2> QED  BY <2>4, <2>5 DEF Agreed
<1>7. /\ ghost'.misfit \subseteq ghost'.drifted
      /\ ghost'.drifted \in {ghost.drifted, ghost.drifted \cup {b}}
      /\ DOMAIN ghost'.before = Branch /\ DOMAIN ghost'.used = Branch
      /\ \A a \in Branch \ {b} : ghost'.before[a] = ghost.before[a] /\ ghost'.used[a] = ghost.used[a]
      /\ ghost'.used[b] \in Seq(Nat) /\ Len(ghost'.used[b]) = Len(given[b])
  BY <1>5 DEF GatesInv
<1>8. /\ b \in ghost'.drifted => given[b] # <<>>
      /\ ghost'.before[b] # <<>> => given[b] # <<>> \/ q.pc \in {"paused", "over"}
  BY <1>1, <1>5 DEF GatesInv, Alone
<1>9. /\ DOMAIN row \subseteq DOMAIN row'
      /\ \A k \in DOMAIN row' : k[1] = b \/ (k \in DOMAIN row /\ row'[k] = row[k])
  <2>1. /\ DOMAIN row' = DOMAIN row \cup {key}
        /\ \A k \in DOMAIN row' : k \in DOMAIN row => row'[k] = row[k]
        /\ \A k \in DOMAIN row' : k = key \/ k \in DOMAIN row
    BY <1>4, EnsureKeeps
  <2> QED  BY <1>3, <2>1
<1>10. level = "notify" => q.pc # "paused" /\ \A k \in DOMAIN row' : row'[k].status # "pending"
  BY <1>4
<1>11. ~At(b, "over") /\ (q.pc = "over" => ~At(b, "paused") /\ UNCHANGED <<row, ghost>>)
  BY <1>1, <1>2 DEF At
<1>12. UNCHANGED <<given, level>>
  BY <1>4
<1>13. level # "notify" /\ q.pc # "over" /\ b \notin ghost'.drifted =>
         Agreed(b, q, given[b], ghost'.before[b], row', ghost'.used[b])
  BY <1>5, <1>6
<1> QED  BY <1>1, <1>7, <1>8, <1>9, <1>10, <1>11, <1>12, <1>13, GatesStep

-----------------------------------------------------------------------------
(* The decision, and the pass it starts.                                   *)

(* Two nodes are paused: LangGraph refuses to resume, and all are over.    *)
LEMMA GatesRefused ==
  ASSUME ConsentInv, GatesInv, NEW key \in DOMAIN row, Resolve(key), Cardinality(Paused) > 1
  PROVE  GatesInv'
<1>1. /\ agent' = [b \in Branch |-> IF b \in Paused THEN [agent[b] EXCEPT !.pc = "over"] ELSE agent[b]]
      /\ UNCHANGED <<given, ghost, level>> /\ row' = [row EXCEPT ![key].status = "resolved"]
  BY DEF Resolve, Runtime
<1>2. \A b \in Branch : agent[b].pc \in {"paused", "over"} /\ (b \in Paused <=> agent[b].pc = "paused")
  BY DEF Resolve, Quiet, Paused, At
<1>3. ASSUME NEW b \in Branch
      PROVE  agent'[b].pc = "over" /\ TalkInv(agent'[b])
  <2>1. CASE b \notin Paused
    BY <1>1, <1>2, <2>1 DEF GatesInv
  <2>2. CASE b \in Paused
    <3>1. agent'[b] = [agent[b] EXCEPT !.pc = "over"] /\ DOMAIN agent[b] = DOMAIN Fresh
      BY <1>1, <2>2 DEF ConsentInv, PassInv
    <3>2. /\ agent'[b].pc = "over" /\ agent'[b].said = agent[b].said /\ agent'[b].reply = agent[b].reply
          /\ agent'[b].turn = agent[b].turn /\ agent'[b].consent = agent[b].consent
          /\ agent'[b].answer = agent[b].answer
      BY <3>1 DEF Fresh
    <3> QED  BY <3>2 DEF GatesInv, TalkInv
  <2> QED  BY <2>1, <2>2
<1>4. ASSUME NEW b \in Branch \ ghost.drifted PROVE SpentOn(b)
  <2>1. CASE At(b, "over")
    BY <2>1 DEF GatesInv
  <2>2. CASE ~At(b, "over") /\ level # "notify"
    BY <2>2, AgreedSpent DEF GatesInv
  <2>3. CASE level = "notify"
    <3>1. given[b] = <<>>
      BY <2>3 DEF GatesInv, NotifyInv
    <3> QED  BY <3>1 DEF SpentOn
  <2> QED  BY <2>1, <2>2, <2>3
<1>5. DOMAIN row' = DOMAIN row
  BY <1>1
<1>6. Alone'
  BY <1>1, <1>3 DEF GatesInv, Alone, At
<1>7. PendingInv'
  BY <1>3 DEF PendingInv, AllOver, At
<1>8. NotifyInv'
  <2>1. PICK b \in Branch : At(b, "paused")
    BY DEF Resolve, Paused
  <2>2. level # "notify"
    BY <2>1 DEF GatesInv, NotifyInv
  <2> QED  BY <1>1, <2>2 DEF NotifyInv
<1>9. \A b \in Branch : ghost'.used[b] \in Seq(Nat) /\ Len(ghost'.used[b]) = Len(given'[b])
  BY <1>1 DEF GatesInv
<1>10. \A b \in Branch \ ghost'.drifted :
         IF agent'[b].pc = "over"
         THEN \A k \in 1..Len(given'[b]) : ghost'.used[b][k] <= 1 + Cardinality(Later(given'[b], k))
         ELSE level' # "notify" => Agreed(b, agent'[b], given'[b], ghost'.before[b], row', ghost'.used[b])
  BY <1>1, <1>3, <1>4 DEF SpentOn
<1>11. DOMAIN ghost'.before = Branch /\ DOMAIN ghost'.used = Branch
       /\ ghost'.misfit \subseteq ghost'.drifted /\ ghost'.drifted \subseteq Branch
       /\ \A k \in DOMAIN row' : k[1] \in Branch
  BY <1>1, <1>5 DEF GatesInv
<1> QED  BY <1>3, <1>6, <1>7, <1>8, <1>9, <1>10, <1>11 DEF GatesInv, At, SpentOn

(* Two nodes that are paused are more than one.                            *)
LEMMA PausedAlone ==
  ASSUME ~(Cardinality(Paused) > 1), NEW b \in Paused, NEW c \in Paused
  PROVE  b = c
<1> SUFFICES ASSUME b # c PROVE FALSE
  OBVIOUS
<1>1. Paused \in SUBSET Branch /\ IsFiniteSet(Branch)
  BY FiniteAssumption DEF Paused
<1>2. IsFiniteSet(Paused) /\ Cardinality(Paused) \in Nat
  BY <1>1, FS_Subset, FS_CardinalityType
<1>3. Cardinality({b, c}) = 2
  <2>1. IsFiniteSet({b}) /\ Cardinality({b}) = 1
    BY FS_Singleton
  <2>2. Cardinality({b} \cup {c}) = Cardinality({b}) + 1
    BY <2>1, FS_AddElement
  <2>3. {b} \cup {c} = {b, c}
    OBVIOUS
  <2> QED  BY <2>1, <2>2, <2>3
<1>4. Cardinality({b, c}) <= Cardinality(Paused)
  <2>1. {b, c} \in SUBSET Paused
    OBVIOUS
  <2> QED  BY <1>2, <2>1, FS_Subset
<1> QED  BY <1>2, <1>3, <1>4

LEMMA DecidedIsResolved ==
  ASSUME NEW b, NEW g, NEW p, NEW dec, NEW bef, NEW rw, Guided(b, g, p, dec, bef, rw)
  PROVE  \A k \in 1..Len(dec) : rw[dec[k].key].status = "resolved"
<1> SUFFICES ASSUME NEW k \in 1..Len(dec) PROVE rw[dec[k].key].status = "resolved"
  OBVIOUS
<1>1. rw[dec[k].key] = [status |-> "resolved", call |-> CallAt(bef, g[k])]
  BY DEF Guided, Path
<1> QED  BY <1>1

(* One node is paused: the decision is for the gate it waits at.           *)
LEMMA GatesResumed ==
  ASSUME ConsentInv, GatesInv, NEW key \in DOMAIN row, Resolve(key), ~(Cardinality(Paused) > 1)
  PROVE  GatesInv'
<1> PICK b \in Paused, action \in Decisions, arg \in Rewrites :
      /\ given' = [given EXCEPT ![b] = Handed(@, [action |-> action, arg |-> arg, key |-> key])]
      /\ agent' = [agent EXCEPT ![b] = Fresh]
      /\ ghost' = [ghost EXCEPT !.used[b] = Append(@, 0)]
  BY DEF Resolve
<1> DEFINE p == agent[b]
           D == DecisionOn(DOMAIN row)
           d == [action |-> action, arg |-> arg, key |-> key]
           dec == given[b]
           dec2 == Append(dec, d)
           used2 == Append(ghost.used[b], 0)
<1>1. /\ b \in Branch /\ p.pc = "paused" /\ row[key].status = "pending"
      /\ row' = [row EXCEPT ![key].status = "resolved"] /\ level' = level
  BY DEF Resolve, Runtime, Paused, At
<1>2. \A c \in Branch \ {b} : agent[c].pc = "over"
  <2> SUFFICES ASSUME NEW c \in Branch, agent[c].pc # "over" PROVE c = b
    OBVIOUS
  <2>1. c \in Paused
    BY DEF Resolve, Quiet, Paused, At
  <2> QED  BY <2>1, PausedAlone
<1>3. level # "notify"
  BY <1>1 DEF GatesInv, NotifyInv, At
<1>4. dec \in Seq(D) /\ d \in D /\ d.key = key
  BY <1>1 DEF ConsentInv, DecisionOn
<1>5. /\ \A c \in Branch : given'[c] = IF c = b THEN dec2 ELSE given[c]
      /\ \A c \in Branch : agent'[c] = IF c = b THEN Fresh ELSE agent[c]
  BY <1>1 DEF ConsentInv, Handed
<1>6. /\ ghost'.misfit = ghost.misfit /\ ghost'.drifted = ghost.drifted /\ ghost'.before = ghost.before
      /\ DOMAIN ghost'.used = Branch /\ ghost'.used[b] = used2
      /\ \A c \in Branch \ {b} : ghost'.used[c] = ghost.used[c]
  <2>1. DOMAIN ghost = {"performed", "lost", "acts", "used", "misfit", "before", "drifted"}
        /\ DOMAIN ghost.before = Branch /\ DOMAIN ghost.used = Branch
    BY DEF ConsentInv, GatesInv
  <2>2. ghost'.misfit = ghost.misfit /\ ghost'.drifted = ghost.drifted /\ ghost'.before = ghost.before
    BY <2>1
  <2>3. ghost'.used = [ghost.used EXCEPT ![b] = used2]
    BY <2>1
  <2> HIDE DEF used2
  <2> QED  BY <1>1, <2>1, <2>2, <2>3
<1> HIDE DEF D, d
<1>7. /\ DOMAIN row' = DOMAIN row /\ \A k \in DOMAIN row : k # key => row'[k] = row[k]
  BY <1>1
<1>8. TalkInv(p) /\ ghost.used[b] \in Seq(Nat) /\ Len(ghost.used[b]) = Len(dec)
  BY <1>1 DEF GatesInv
<1>9. dec2 # <<>> /\ Len(dec2) = Len(dec) + 1 /\ Len(dec) \in Nat
  BY <1>4, AppendProperties
<1>10. used2 \in Seq(Nat) /\ Len(used2) = Len(dec) + 1
  BY <1>8, AppendProperties
<1> HIDE DEF dec2, used2
<1>11. ASSUME b \notin ghost.drifted
       PROVE  /\ Agreed(b, Fresh, dec2, ghost.before[b], row', used2)
              /\ key[1] = b /\ key = KeyNow(b, p)
  <2>1. Agreed(b, p, dec, ghost.before[b], row, ghost.used[b])
    BY <1>1, <1>3, <1>11 DEF GatesInv, At
  <2>2. PICK g : Guided(b, g, p, dec, ghost.before[b], row) /\ Counted(g, p, dec, ghost.used[b])
    BY <2>1 DEF Agreed
  <2>3. key[1] \notin ghost.drifted => key[1] = b
    <3>1. ~AllOver
      BY <1>1 DEF AllOver, At
    <3>2. key[1] \notin ghost.drifted => At(key[1], "paused") /\ key[1] \in Branch
      BY <1>1, <3>1 DEF GatesInv, PendingInv
    <3> QED  BY <1>2, <3>2 DEF At
  <2>4. key[1] \notin ghost.drifted
    <3> SUFFICES ASSUME key[1] \in ghost.drifted PROVE FALSE
      OBVIOUS
    <3>1. key[1] \in Branch /\ given[key[1]] # <<>> /\ key[1] # b
      BY <1>11 DEF GatesInv, Alone
    <3>2. At(b, "over")
      BY <1>1, <3>1 DEF GatesInv, Alone
    <3> QED  BY <1>1, <3>2 DEF At
  <2>5. key = KeyNow(b, p)
    <3>1. \/ \E k \in 1..Len(dec) : key = dec[k].key
          \/ key = KeyNow(b, p)
      BY <2>2, <2>3, <2>4 DEF Guided, Rows
    <3>2. \A k \in 1..Len(dec) : row[dec[k].key].status = "resolved"
      BY <2>2, DecidedIsResolved
    <3> QED  BY <1>1, <3>1, <3>2
  <2> DEFINE g2 == Further(g, Len(dec), GateNow(p))
  <2>6. Guided(b, g2, Fresh, dec2, ghost.before[b], row')
    <3>1. row' = Settled(row, KeyNow(b, p)) /\ d.key = KeyNow(b, p)
      BY <1>1, <1>4, <2>5 DEF Settled
    <3>2. /\ dec \in Seq(D) /\ d \in D /\ Guided(b, g, p, dec, ghost.before[b], row)
          /\ TalkInv(p) /\ p.pc = "paused"
      BY <1>1, <1>4, <1>8, <2>2
    <3>3. Guided(b, g2, Fresh, Append(dec, d), ghost.before[b], Settled(row, KeyNow(b, p)))
      BY <3>1, <3>2, GuidedResumed
    <3> QED  BY <3>1, <3>3 DEF dec2
  <2> HIDE DEF g2
  <2>7. Counted(g2, Fresh, dec2, used2)
    <3>1. d.key = KeyNow(b, p)
      BY <1>4, <2>5
    <3> QED  BY <1>1, <1>4, <1>8, <2>2, <3>1, CountedResumed DEF dec2, used2
  <2> QED  BY <2>3, <2>4, <2>5, <2>6, <2>7 DEF Agreed
<1>12. \A c \in Branch : TalkInv(agent'[c])
  BY <1>5, TalkFresh DEF GatesInv
<1>13. \A c \in Branch : ghost'.used[c] \in Seq(Nat) /\ Len(ghost'.used[c]) = Len(given'[c])
  BY <1>5, <1>6, <1>9, <1>10 DEF GatesInv
<1>14. Alone'
  <2>1. \A c \in Branch \ {b} : given[c] = <<>>
    <3> SUFFICES ASSUME NEW c \in Branch \ {b}, given[c] # <<>> PROVE FALSE
      OBVIOUS
    <3>1. At(b, "over")
      BY <1>1 DEF GatesInv, Alone
    <3> QED  BY <1>1, <3>1 DEF At
  <2>2. \A c \in Branch : given'[c] # <<>> => \A a \in Branch \ {c} : agent'[a].pc = "over"
    BY <1>2, <1>5, <2>1
  <2>3. \A c \in Branch : ghost'.before[c] # <<>> => given'[c] # <<>> \/ agent'[c].pc \in {"paused", "over"}
    BY <1>2, <1>5, <1>9
  <2>4. \A c \in ghost'.drifted : given'[c] # <<>>
    BY <1>5, <1>6, <1>9 DEF GatesInv, Alone
  <2> QED  BY <2>2, <2>3, <2>4 DEF Alone, At
<1>15. PendingInv'
  <2> SUFFICES ASSUME NEW k \in DOMAIN row', row'[k].status = "pending", k[1] \notin ghost'.drifted
               PROVE  FALSE
    BY DEF PendingInv
  <2>1. k # key
    BY <1>1
  <2>2. k \in DOMAIN row /\ row[k].status = "pending" /\ k[1] \notin ghost.drifted /\ ~AllOver
    BY <1>1, <1>6, <1>7, <2>1 DEF AllOver, At
  <2>3. At(k[1], "paused") /\ k[1] \in Branch
    BY <2>2 DEF GatesInv, PendingInv
  <2>4. k[1] = b /\ b \notin ghost.drifted
    BY <1>2, <2>2, <2>3 DEF At
  <2>5. Agreed(b, p, dec, ghost.before[b], row, ghost.used[b]) /\ key = KeyNow(b, p)
    BY <1>1, <1>3, <1>11, <2>4 DEF GatesInv, At
  <2>6. PICK g : Guided(b, g, p, dec, ghost.before[b], row)
    BY <2>5 DEF Agreed
  <2>7. \/ \E j \in 1..Len(dec) : k = dec[j].key
        \/ k = KeyNow(b, p)
    BY <2>2, <2>4, <2>6 DEF Guided, Rows
  <2>8. \A j \in 1..Len(dec) : row[dec[j].key].status = "resolved"
    BY <2>6, DecidedIsResolved
  <2> QED  BY <2>1, <2>2, <2>5, <2>7, <2>8
<1>16. NotifyInv'
  BY <1>1, <1>3 DEF NotifyInv
<1>17. \A c \in Branch \ ghost'.drifted :
         IF agent'[c].pc = "over"
         THEN \A k \in 1..Len(given'[c]) : ghost'.used[c][k] <= 1 + Cardinality(Later(given'[c], k))
         ELSE level' # "notify" => Agreed(c, agent'[c], given'[c], ghost'.before[c], row', ghost'.used[c])
  <2> SUFFICES ASSUME NEW c \in Branch \ ghost.drifted
               PROVE  IF agent'[c].pc = "over"
                      THEN \A k \in 1..Len(given'[c]) : ghost'.used[c][k] <= 1 + Cardinality(Later(given'[c], k))
                      ELSE Agreed(c, agent'[c], given'[c], ghost'.before[c], row', ghost'.used[c])
    BY <1>6
  <2>1. CASE c = b
    <3>1. Agreed(b, Fresh, dec2, ghost.before[b], row', used2)
      BY <1>11, <2>1
    <3>2. /\ agent'[c] = Fresh /\ given'[c] = dec2 /\ ghost'.before[c] = ghost.before[b]
          /\ ghost'.used[c] = used2
      BY <1>1, <1>5, <1>6, <2>1
    <3>3. agent'[c].pc # "over"
      BY <3>2 DEF Fresh
    <3>4. Agreed(c, agent'[c], given'[c], ghost'.before[c], row', ghost'.used[c])
      BY <2>1, <3>1, <3>2
    <3> QED  BY <3>3, <3>4
  <2>2. CASE c # b
    <3>1. agent[c].pc = "over" /\ SpentOn(c)
      BY <1>2, <2>2 DEF GatesInv, At
    <3>2. agent'[c] = agent[c] /\ given'[c] = given[c] /\ ghost'.used[c] = ghost.used[c]
      BY <1>5, <1>6, <2>2
    <3> QED  BY <3>1, <3>2 DEF SpentOn
  <2> QED  BY <2>1, <2>2
<1>18. DOMAIN ghost'.before = Branch /\ DOMAIN ghost'.used = Branch
       /\ ghost'.misfit \subseteq ghost'.drifted /\ ghost'.drifted \subseteq Branch
       /\ \A k \in DOMAIN row' : k[1] \in Branch
  BY <1>6, <1>7 DEF GatesInv
<1> QED  BY <1>12, <1>13, <1>14, <1>15, <1>16, <1>17, <1>18 DEF GatesInv, At, SpentOn

LEMMA GatesInvInit == Init => GatesInv
<1> SUFFICES ASSUME Init PROVE GatesInv
  OBVIOUS
<1>1. \A b \in Branch : /\ agent[b] = Fresh /\ given[b] = <<>> /\ ghost.before[b] = <<>>
                        /\ ghost.used[b] = <<>>
  BY DEF Init
<1>2. row = <<>> /\ DOMAIN row = {} /\ ghost.misfit = {} /\ ghost.drifted = {}
      /\ DOMAIN ghost.before = Branch /\ DOMAIN ghost.used = Branch
  BY DEF Init
<1>3. \A b \in Branch : TalkInv(agent[b])
  BY <1>1, TalkFresh
<1>4. \A b \in Branch : ghost.used[b] \in Seq(Nat) /\ Len(ghost.used[b]) = Len(given[b])
  BY <1>1, EmptySeq
<1>5. Alone /\ PendingInv /\ NotifyInv
  BY <1>1, <1>2 DEF Alone, PendingInv, NotifyInv, At, Fresh
<1>6. ASSUME NEW b \in Branch
      PROVE  Agreed(b, Fresh, <<>>, <<>>, row, <<>>)
  <2> DEFINE g == [k \in 1..0 |-> <<0, 0>>]
  <2>1. Len(<<>>) = 0 /\ DOMAIN <<>> = 1..0 /\ 1..0 = {}
    BY EmptySeq
  <2>2. GateSet(<<>>) = {}
    <3> SUFFICES ASSUME NEW h \in Nat \X Nat, 2 * h[1] + 1 <= Len(<<>>) PROVE FALSE
      BY DEF GateSet
    <3>1. h[1] \in Nat
      OBVIOUS
    <3> QED  BY <2>1, <3>1
  <2>3. Consumed(Fresh) = {}
    BY <2>2 DEF Consumed, Fresh
  <2>4. g \in [1..0 -> Nat \X Nat]
    BY <2>1
  <2>5. Path(b, g, <<>>, <<>>, row)
    BY <2>1, <2>4 DEF Path
  <2>6. Follows(g, Fresh, <<>>, <<>>)
    BY <2>1, <2>3 DEF Follows, Fresh
  <2>7. Rows(b, Fresh, <<>>, row) /\ Waits(b, Fresh, <<>>, <<>>, row)
    BY <1>2 DEF Rows, Waits, Fresh
  <2>8. Counted(g, Fresh, <<>>, <<>>)
    BY <2>1 DEF Counted
  <2> QED  BY <2>5, <2>6, <2>7, <2>8 DEF Agreed, Guided
<1>7. \A b \in Branch : ~At(b, "over") /\ Agreed(b, agent[b], given[b], ghost.before[b], row, ghost.used[b])
  BY <1>1, <1>6 DEF At, Fresh
<1> QED  BY <1>2, <1>3, <1>4, <1>5, <1>7 DEF GatesInv

LEMMA GatesInvNext == ConsentInv /\ OverrunInv /\ GatesInv /\ [Next]_vars => GatesInv'
<1> SUFFICES ASSUME ConsentInv, OverrunInv, GatesInv, [Next]_vars PROVE GatesInv'
  OBVIOUS
<1>1. ASSUME NEW b \in Branch, Loop(b) PROVE GatesInv'
  BY <1>1, GatesChat, GatesNotify, GatesAsk, GatesDecision, GatesMove, GatesRegistry,
     GatesPerform, GatesEndTurn DEF Loop
<1>2. ASSUME NEW b \in Branch, GiveUp(b) \/ \E i \in DOMAIN agent[b].reply : StoreFails(b, i)
      PROVE  GatesInv'
  BY <1>2, GatesMove, GatesRegistry
<1>3. ASSUME NEW key \in DOMAIN row, Resolve(key) PROVE GatesInv'
  BY <1>3, GatesRefused, GatesResumed
<1>4. CASE UNCHANGED <<agent, given, row, level, ghost>>
  BY <1>4 DEF GatesInv, Alone, AllOver, PendingInv, NotifyInv, SpentOn, At
<1>5. ASSUME NEW r \in Run, Discover(r) \/ Register(r) PROVE GatesInv'
  BY <1>4, <1>5 DEF Discover, Register
<1>6. CASE Stopped \/ UNCHANGED vars
  BY <1>4, <1>6 DEF Stopped, vars
<1> QED  BY <1>1, <1>2, <1>3, <1>5, <1>6 DEF Next

(* "A resumed run consults the gate in the same order, so it finds the     *)
(* same approvals again" (builder.py, tool_gate): as long as the passes of *)
(* a node go the same way, every decision is applied to the call it was    *)
(* made for, and a paused node has an approval somebody can resolve; for   *)
(* any branches, replies, decisions and number of passes.                  *)
THEOREM GatesAlways == Spec => []GatesKeepTheirRows
<1>1. ConsentInv /\ GatesInv => GatesKeepTheirRows
  <2> SUFFICES ASSUME ConsentInv, GatesInv PROVE GatesKeepTheirRows
    OBVIOUS
  <2>1. ASSUME NEW b \in Branch \ ghost.drifted, At(b, "paused")
        PROVE  row[GateKey(b, NextUnruled(b))].status = "pending"
    <3>1. level # "notify" /\ TalkInv(agent[b]) /\ ~At(b, "over")
      BY <2>1 DEF GatesInv, NotifyInv, At
    <3>2. Agreed(b, agent[b], given[b], ghost.before[b], row, ghost.used[b])
      BY <3>1 DEF GatesInv
    <3>3. UnruledOf(agent[b]) # {} /\ row[KeyNow(b, agent[b])].status = "pending"
      BY <2>1, <3>2 DEF Agreed, Guided, Waits, At
    <3> QED  BY <3>1, <3>3, GateKeyIsKeyNow
  <2> QED  BY <2>1 DEF GatesInv, GatesKeepTheirRows
<1> QED  BY <1>1, ConsentInvInit, ConsentInvNext, OverrunInvInit, OverrunInvNext,
            GatesInvInit, GatesInvNext, PTL DEF Spec

(* The work of a decision is repeated only by the passes that gates of     *)
(* later turns add (base.py, execute; builder.py, tool_gate).              *)
THEOREM RepeatsAlways == Spec => []RepeatsAreAccounted
<1>1. ConsentInv /\ GatesInv => RepeatsAreAccounted
  <2> SUFFICES ASSUME ConsentInv, GatesInv, NEW b \in Branch \ ghost.drifted, NEW k \in DOMAIN given[b]
               PROVE  ghost.used[b][k] <=
                        1 + Cardinality({j \in k + 1..Len(given[b]) : given[b][j].key[3] > given[b][k].key[3]})
    BY DEF RepeatsAreAccounted
  <2>1. k \in 1..Len(given[b])
    BY DEF ConsentInv
  <2>2. SpentOn(b)
    <3>1. CASE At(b, "over")
      BY <3>1 DEF GatesInv
    <3>2. CASE ~At(b, "over") /\ level # "notify"
      BY <3>2, AgreedSpent DEF GatesInv
    <3>3. CASE level = "notify"
      <4>1. given[b] = <<>>
        BY <3>3 DEF GatesInv, NotifyInv
      <4> QED  BY <4>1 DEF SpentOn
    <3> QED  BY <3>1, <3>2, <3>3
  <2> QED  BY <2>1, <2>2 DEF SpentOn, Later
<1> QED  BY <1>1, ConsentInvInit, ConsentInvNext, OverrunInvInit, OverrunInvNext,
            GatesInvInit, GatesInvNext, PTL DEF Spec
=============================================================================
