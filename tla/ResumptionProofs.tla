-------------------------- MODULE ResumptionProofs --------------------------
(***************************************************************************)
(* Theorems about Resumption, for any graph of stages, branches, number of *)
(* invocations and processes that die, while one reviewer decides and at   *)
(* most one branch of a wave asks where approvals are resolved before the  *)
(* pause or processes die (Orderly).                                       *)
(***************************************************************************)
EXTENDS Resumption, TLAPS

(* One reviewer; a reviewer who does not wait for the pause meets the      *)
(* gates of the graph only; where several branches of a wave ask, no       *)
(* process dies.                                                           *)
Orderly ==
  /\ \A r, q \in Reviewer : r = q
  /\ \A s \in Settings :
       /\ s.hasty => s.gated = {}
       /\ (\E a, b \in s.gated : a # b) => s.crashes = 0

Several == \E a, b \in Gated : a # b   \* several branches of a wave ask
OfGraph(g) == Kind[g[1]] # "wave"      \* a gate of the graph, not of a tool

-----------------------------------------------------------------------------
Active(i) == inv[i].state = "active"

(* An invocation that was overtaken: it came to a gate of the graph before *)
(* the decision, and has nothing left to do but pause.                     *)
Straggles(i) ==
  /\ inv[i].job = NoJob
  /\ IsGate(inv[i].stage, Solo) /\ inv[i].branch[Solo] \in {"asking", "waiting"}
  /\ row[<<inv[i].stage, Solo>>] \in Action

(* The one invocation that takes the task on.                              *)
Front(i) == Active(i) /\ ~Straggles(i)

Progress == {"running", "announced", "asking", "waiting", "done"}
Decision == [gate : Gate, action : Action, by : Reviewer]
CheckpointType ==
  [id : Nat, stage : 1..Last + 1,
   done : SUBSET (Branch \cup {Solo}), asked : SUBSET (Branch \cup {Solo})]
InvocationType ==
  [state : {"none", "active", "over"}, base : Nat, stage : 1..Last + 1,
   job : Decision \cup {NoJob}, branch : [Branch \cup {Solo} -> Progress \cup {"idle"}]]

TypeInv ==
  /\ setting \in Settings
  /\ checkpoint \in CheckpointType
  /\ inv \in [Invocation -> InvocationType]
  /\ row \in [Gate -> {"none", "pending"} \cup Action]
  /\ client \in [Reviewer -> {<<>>} \cup ({"checked", "resolved"} \X Gate \X Action)]
  /\ jobs \subseteq Decision
  /\ crashes \in Nat /\ MaxCrashes \in Nat /\ (crashes > 0 => MaxCrashes > 0)
  /\ worked \in [Stage \X (Branch \cup {Solo}) -> Nat]

(* Gates are asked in the order of their stages, and those of the graph    *)
(* that lie behind were approved.                                          *)
RowInv ==
  /\ \A g \in Gate : g[1] > checkpoint.stage => row[g] = "none"
  /\ \A g \in Gate : g[1] < checkpoint.stage => row[g] # "pending"
  /\ checkpoint.stage <= Last =>
       \A g \in Gate : g[1] < checkpoint.stage /\ OfGraph(g) => row[g] = "approve"
  /\ \A b \in checkpoint.asked : <<checkpoint.stage, b>> \in Gate
  /\ \A b \in checkpoint.done :
       /\ checkpoint.stage \in Stage /\ Kind[checkpoint.stage] = "wave"
       /\ <<checkpoint.stage, b>> \in Gate =>
            row[<<checkpoint.stage, b>>] \in Action /\ ~Several

(* How far a branch of the front is, and its gate's row.                   *)
BranchInv(i, b) ==
  LET s == inv[i].branch[b] g == <<checkpoint.stage, b>> IN
  /\ s = "done" <=> b \in checkpoint.done
  /\ IF g \in Gate
     THEN /\ s \in {"running", "announced"} /\ inv[i].job = NoJob => row[g] = "none"
          /\ s \in {"asking", "waiting"} /\ inv[i].job = NoJob => row[g] = "pending"
          /\ s = "waiting" => b \in checkpoint.asked /\ inv[i].job = NoJob
     ELSE s \in {"running", "done"}

(* An active invocation loaded the latest checkpoint or an earlier one.    *)
Behind(i) ==
  /\ inv[i].base <= checkpoint.id /\ inv[i].stage \in Stage
  /\ inv[i].base = checkpoint.id => inv[i].stage = checkpoint.stage

(* The front is at the latest checkpoint; what it holds is the decision of *)
(* the gate it stands at.                                                  *)
JobInv(i) ==
  inv[i].job # NoJob =>
    /\ inv[i].job.gate[1] = checkpoint.stage
    /\ inv[i].job.action = row[inv[i].job.gate]
    /\ OfGraph(inv[i].job.gate) \/ ~Several
    /\ inv[i].branch[inv[i].job.gate[2]] \in {"running", "announced", "asking"}
AtHead(i) ==
  /\ inv[i].base = checkpoint.id /\ checkpoint.stage \in Stage
  /\ \A b \in BranchesOf(checkpoint.stage) : inv[i].branch[b] # "idle" /\ BranchInv(i, b)
  /\ \A b \in (Branch \cup {Solo}) \ BranchesOf(checkpoint.stage) : inv[i].branch[b] = "idle"
  /\ JobInv(i)

FrontInv ==
  /\ \A i, j \in Invocation : Front(i) /\ Front(j) => i = j
  /\ \A i \in Invocation : Active(i) => Behind(i)
  /\ \A i \in Invocation : Front(i) => AtHead(i)

(* A decision on its way is one on a gate of the latest checkpoint's       *)
(* stage, and nothing else happens to the task meanwhile.                  *)
WayInv ==
  /\ \A r \in Reviewer : client[r] # <<>> =>
       /\ client[r][2][1] = checkpoint.stage
       /\ row[client[r][2]] = IF client[r][1] = "checked" THEN "pending" ELSE client[r][3]
       /\ client[r][1] = "resolved" =>
            /\ client[r][2][2] \notin checkpoint.done
            /\ \A i \in Invocation : ~Front(i)
            /\ \A j \in jobs : j.gate # client[r][2]
  /\ \A j \in jobs :
       /\ j.gate[1] = checkpoint.stage /\ j.gate[2] \notin checkpoint.done
       /\ j.action = row[j.gate]
  /\ \A j, k \in jobs : j.gate = k.gate => j = k
  /\ jobs # {} => \A i \in Invocation : ~Front(i)
  /\ ~Hasty => /\ \A i \in Invocation : Active(i) => Front(i)
               /\ (\E r \in Reviewer : client[r] # <<>>) => Idle

(* Several branches that ask are all waiting when the wave pauses, and no  *)
(* resume is accepted from then on.                                        *)
SeveralInv ==
  Several /\ checkpoint.stage <= Last /\ Kind[checkpoint.stage] = "wave" =>
    (\E i \in Invocation : Front(i)) \/ Ambiguous

(* Work that was done is in the checkpoint, or behind it.                  *)
WorkInv ==
  /\ \A p \in DOMAIN worked : worked[p] <= 1
  /\ \A p \in DOMAIN worked : p[1] > checkpoint.stage => worked[p] = 0
  /\ \A p \in DOMAIN worked : p[1] = checkpoint.stage /\ p[2] \notin checkpoint.done => worked[p] = 0
  /\ \A pair \in applied : pair[1] = pair[2]

(* A task that is over says how it came out.                               *)
OutcomeInv ==
  /\ checkpoint.stage <= Last => status # "completed"
  /\ checkpoint.stage > Last =>
       \/ status = "completed" /\ \A g \in Gate : OfGraph(g) => row[g] = "approve"
       \/ status = "rejected" /\ \E g \in Gate : OfGraph(g) /\ row[g] = "reject"

IInv == TypeInv /\ RowInv /\ FrontInv /\ WayInv /\ SeveralInv /\ WorkInv /\ OutcomeInv

-----------------------------------------------------------------------------
(* The gates.                                                              *)

LEMMA GateFacts ==
  ASSUME TypeInv
  PROVE  /\ Gated \subseteq Branch
         /\ \A g \in Gate : g[1] \in Stage /\ g[2] \in Branch \cup {Solo} /\ g = <<g[1], g[2]>>
         /\ \A g \in Gate : IsGate(g[1], g[2]) /\ g[2] \in BranchesOf(g[1])
         /\ \A k \in Stage, b \in Branch \cup {Solo} : <<k, b>> \in Gate <=> IsGate(k, b)
         /\ \A k \in Stage : IsGate(k, Solo) <=> Kind[k] \in {"plan_gate", "final_gate"}
         /\ \A g \in Gate : OfGraph(g) => g[2] = Solo /\ Kind[g[1]] \in {"plan_gate", "final_gate"}
         /\ \A g \in Gate : ~OfGraph(g) => g[2] \in Gated /\ Kind[g[1]] = "wave"
<1>1. Gated \subseteq Branch
  BY SettingsAssumption DEF TypeInv, Gated
<1>2. \A g \in Gate : /\ g[1] \in Stage /\ g[2] \in Branch \cup {Solo} /\ g = <<g[1], g[2]>>
                      /\ IsGate(g[1], g[2])
  BY DEF Gate
<1>3. \A k \in Stage, b \in Branch \cup {Solo} : <<k, b>> \in Gate <=> IsGate(k, b)
  BY DEF Gate
<1>4. \A k \in Stage : IsGate(k, Solo) <=> Kind[k] \in {"plan_gate", "final_gate"}
  BY <1>1, BranchAssumption DEF IsGate
<1>5. \A g \in Gate : OfGraph(g) => g[2] = Solo /\ Kind[g[1]] \in {"plan_gate", "final_gate"}
  BY <1>2 DEF OfGraph, IsGate
<1>6. \A g \in Gate : ~OfGraph(g) => g[2] \in Gated /\ Kind[g[1]] = "wave"
  BY <1>2 DEF OfGraph, IsGate
<1>7. \A g \in Gate : g[2] \in BranchesOf(g[1])
  BY <1>1, <1>2, <1>5, <1>6, StagesAssumption DEF BranchesOf, Stage, OfGraph
<1> QED  BY <1>1, <1>2, <1>3, <1>4, <1>5, <1>6, <1>7

(* A task's circumstances do not change.                                   *)
LEMMA GatesKept ==
  ASSUME UNCHANGED setting
  PROVE  /\ Gate' = Gate /\ Gated' = Gated /\ Several' = Several /\ Hasty' = Hasty
         /\ MaxCrashes' = MaxCrashes
         /\ \A k, b : IsGate(k, b)' = IsGate(k, b)
BY DEF Gate, Gated, Several, Hasty, MaxCrashes, IsGate

LEMMA OrderlyFacts ==
  ASSUME Orderly, TypeInv
  PROVE  /\ Hasty => Gated = {}
         /\ Several => ~Hasty /\ MaxCrashes = 0
         /\ \A r, q \in Reviewer : r = q
BY DEF Orderly, TypeInv, Hasty, Gated, Several, MaxCrashes

(* Every step is one of these.                                             *)
Steps(i) ==
  \/ Schedule(i) \/ CommitWave(i) \/ Deliver(i) \/ Pause(i) \/ WorkerDies(i)
  \/ \E b \in Branch : Work(i, b)
  \/ \E b \in Branch \cup {Solo} : Announce(i, b) \/ Ensure(i, b) \/ Interrupt(i, b) \/ Answer(i, b)
  \/ \E j \in jobs : StartResume(i, j)
Requests(r) ==
  CommitResolution(r) \/ HandOver(r) \/ ApiDies(r) \/ \E g \in Gate, a \in Action : Check(r, g, a)

LEMMA NextIsStep ==
  ASSUME Next
  PROVE  (\E i \in Invocation : Steps(i)) \/ (\E r \in Reviewer : Requests(r)) \/ UNCHANGED vars
BY DEF Next, Steps, Requests, Invoke, Request, TakeJob, Decide, Die, Settled

LEMMA SettingKept == ASSUME [Next]_vars PROVE UNCHANGED setting
<1>1. ASSUME NEW i \in Invocation, Steps(i) PROVE UNCHANGED setting
  BY <1>1 DEF Steps, Schedule, CommitWave, Deliver, Pause, WorkerDies, Work, Announce, Ensure,
     Interrupt, Answer, StartResume
<1>2. ASSUME NEW r \in Reviewer, Requests(r) PROVE UNCHANGED setting
  BY <1>2 DEF Requests, CommitResolution, HandOver, ApiDies, Check
<1> QED  BY <1>1, <1>2, NextIsStep DEF vars

LEMMA StageFacts ==
  /\ Last \in Nat \ {0} /\ Last \in Stage /\ Stage \subseteq 1..Last + 1
  /\ \A k \in Stage : Kind[k] \in Kinds /\ (Kind[k] = "deliver" <=> k = Last)
  /\ \A k \in Stage : k # Last => k + 1 \in Stage
  /\ \A k \in Stage : k + 1 \in 1..Last + 1
  /\ \A k \in 1..Last + 1 : k \in Nat /\ (k <= Last <=> k \in Stage)
BY StagesAssumption DEF Stage

LEMMA StageNumbers ==
  \A k \in Stage : /\ k \in Nat /\ k <= Last /\ ~(k > Last)
                   /\ ~(k > Last + 1) /\ k # Last + 1 /\ k < Last + 1
BY StagesAssumption DEF Stage

LEMMA LoadType ==
  \A k, done : Load(k, done) \in [Branch \cup {Solo} -> Progress \cup {"idle"}]
BY DEF Load, Progress

(* What the helpers of the actions keep in their types.                    *)
LEMMA AdvanceType ==
  ASSUME TypeInv, NEW i \in Invocation, inv[i].stage \in Stage, Advance(i)
  PROVE  checkpoint' \in CheckpointType /\ inv' \in [Invocation -> InvocationType]
<1>1. inv[i].stage + 1 \in 1..Last + 1
  BY StageFacts
<1>2. Load(inv[i].stage + 1, {}) \in [Branch \cup {Solo} -> Progress \cup {"idle"}]
  BY LoadType
<1>3. checkpoint.id + 1 \in Nat
  BY DEF TypeInv, CheckpointType
<1>4. checkpoint' \in CheckpointType
  BY <1>1, <1>3 DEF Advance, CheckpointType
<1>5. inv' \in [Invocation -> InvocationType]
  BY <1>1, <1>2, <1>3 DEF Advance, TypeInv, InvocationType
<1> QED  BY <1>4, <1>5

LEMMA FinishType ==
  ASSUME TypeInv, NEW i \in Invocation, Finish(i)
  PROVE  checkpoint' \in CheckpointType /\ inv' \in [Invocation -> InvocationType]
<1>1. checkpoint.id + 1 \in Nat /\ Last + 1 \in 1..Last + 1
  BY StageFacts DEF TypeInv, CheckpointType
<1>2. checkpoint' \in CheckpointType
  BY <1>1 DEF Finish, CheckpointType
<1>3. inv' \in [Invocation -> InvocationType]
  BY DEF Finish, TypeInv, InvocationType
<1> QED  BY <1>2, <1>3

LEMMA ReturnType ==
  ASSUME TypeInv, NEW i \in Invocation, NEW b \in Branch \cup {Solo}, NEW s \in Progress,
         NEW job \in Decision \cup {NoJob}, Return(i, b, s, job)
  PROVE  checkpoint' \in CheckpointType /\ inv' \in [Invocation -> InvocationType]
<1> DEFINE bs == [inv[i].branch EXCEPT ![b] = s]
           q == [inv[i] EXCEPT !.branch = bs, !.job = job]
<1>1. checkpoint' \in CheckpointType
  BY DEF Return, TypeInv, CheckpointType
<1>2. inv \in [Invocation -> InvocationType] /\ inv[i] \in InvocationType
  BY DEF TypeInv
<1>3. bs \in [Branch \cup {Solo} -> Progress \cup {"idle"}]
  BY <1>2 DEF InvocationType
<1>4. q \in InvocationType
  <2> HIDE DEF bs
  <2> QED  BY <1>2, <1>3 DEF InvocationType
<1>5. inv' = [inv EXCEPT ![i] = q]
  BY <1>2 DEF Return, InvocationType
<1>6. inv' \in [Invocation -> InvocationType]
  <2> HIDE DEF q
  <2> QED  BY <1>2, <1>4, <1>5
<1> QED  BY <1>1, <1>6

LEMMA ToType ==
  ASSUME TypeInv, NEW i \in Invocation, NEW b \in Branch \cup {Solo}, NEW s \in Progress,
         To(i, b, s)
  PROVE  inv' \in [Invocation -> InvocationType]
<1> DEFINE bs == [inv[i].branch EXCEPT ![b] = s]
           q == [inv[i] EXCEPT !.branch = bs]
<1>2. inv \in [Invocation -> InvocationType] /\ inv[i] \in InvocationType
  BY DEF TypeInv
<1>3. bs \in [Branch \cup {Solo} -> Progress \cup {"idle"}]
  BY <1>2 DEF InvocationType
<1>4. q \in InvocationType
  <2> HIDE DEF bs
  <2> QED  BY <1>2, <1>3 DEF InvocationType
<1>5. inv' = [inv EXCEPT ![i] = q]
  BY <1>2 DEF To, InvocationType
<1>6. inv' \in [Invocation -> InvocationType]
  <2> HIDE DEF q
  <2> QED  BY <1>2, <1>4, <1>5
<1> QED  BY <1>6

LEMMA WorkedType ==
  ASSUME TypeInv, NEW i \in Invocation, inv[i].stage \in Stage,
         NEW b \in Branch \cup {Solo}, Worked(i, b)
  PROVE  worked' \in [Stage \X (Branch \cup {Solo}) -> Nat]
<1>1. <<inv[i].stage, b>> \in Stage \X (Branch \cup {Solo})
  OBVIOUS
<1>2. worked \in [Stage \X (Branch \cup {Solo}) -> Nat]
  BY DEF TypeInv
<1>3. worked[<<inv[i].stage, b>>] + 1 \in Nat
  BY <1>1, <1>2
<1> QED  BY <1>2, <1>3 DEF Worked

LEMMA TypeInvInit == Orderly /\ Init => TypeInv
<1> SUFFICES ASSUME Init PROVE TypeInv
  OBVIOUS
<1>1. setting \in Settings /\ checkpoint \in CheckpointType
  BY StageFacts DEF Init, CheckpointType
<1>2. inv \in [Invocation -> InvocationType]
  <2>1. Load(1, {}) \in [Branch \cup {Solo} -> Progress \cup {"idle"}]
    BY LoadType
  <2>2. [b \in Branch \cup {Solo} |-> "idle"] \in [Branch \cup {Solo} -> Progress \cup {"idle"}]
    OBVIOUS
  <2>3. Unstarted \in InvocationType
    BY <2>2, StageFacts DEF Unstarted, InvocationType
  <2>4. [Unstarted EXCEPT !.state = "active", !.branch = Load(1, {})] \in InvocationType
    BY <2>1, <2>3 DEF InvocationType
  <2> QED  BY <2>3, <2>4 DEF Init
<1>3. row \in [Gate -> {"none", "pending"} \cup Action]
  BY DEF Init
<1>4. client \in [Reviewer -> {<<>>} \cup ({"checked", "resolved"} \X Gate \X Action)]
  BY DEF Init
<1>5. crashes = 0 /\ MaxCrashes \in Nat
  BY SettingsAssumption DEF Init, MaxCrashes
<1>6. worked \in [Stage \X (Branch \cup {Solo}) -> Nat] /\ jobs \subseteq Decision
  BY DEF Init
<1> QED  BY <1>1, <1>2, <1>3, <1>4, <1>5, <1>6 DEF TypeInv

LEMMA OverType ==
  ASSUME TypeInv, NEW i \in Invocation, inv' = [inv EXCEPT ![i].state = "over"]
  PROVE  inv' \in [Invocation -> InvocationType]
BY DEF TypeInv, InvocationType

LEMMA CheckpointsStage == ASSUME TypeInv PROVE checkpoint.stage \in 1..Last + 1
BY DEF TypeInv, CheckpointType

LEMMA ActiveStage ==
  ASSUME FrontInv, NEW i \in Invocation, Active(i)
  PROVE  inv[i].stage \in Stage
BY DEF FrontInv, Behind

LEMMA TypeNext ==
  ASSUME TypeInv, FrontInv, [Next]_vars
  PROVE  TypeInv'
<1> USE SettingKept, GatesKept
<1>1. setting' \in Settings /\ Gate' = Gate /\ Decision' = Decision /\ CheckpointType' = CheckpointType
      /\ InvocationType' = InvocationType /\ MaxCrashes' = MaxCrashes
  BY DEF TypeInv, Decision, CheckpointType, InvocationType
<1>2. ASSUME checkpoint' \in CheckpointType, inv' \in [Invocation -> InvocationType],
             UNCHANGED <<row, client, jobs, crashes, worked>>
      PROVE  TypeInv'
  BY <1>1, <1>2 DEF TypeInv
<1>3. ASSUME NEW i \in Invocation, Steps(i) PROVE TypeInv'
  <2>1. CASE Schedule(i)
    <3>1. inv[i].stage \in Stage
      BY <2>1, ActiveStage DEF Schedule, At, Active
    <3> QED  BY <2>1, <3>1, AdvanceType, <1>2 DEF Schedule
  <2>2. CASE CommitWave(i)
    <3>1. inv[i].stage \in Stage
      BY <2>2, ActiveStage DEF CommitWave, At, Active
    <3> QED  BY <2>2, <3>1, AdvanceType, <1>2 DEF CommitWave
  <2>3. CASE Deliver(i)
    <3>1. inv[i].stage \in Stage
      BY <2>3, ActiveStage DEF Deliver, At, Active
    <3>2. worked' \in [Stage \X (Branch \cup {Solo}) -> Nat]
      BY <2>3, <3>1, WorkedType DEF Deliver
    <3>3. checkpoint' \in CheckpointType /\ inv' \in [Invocation -> InvocationType]
      BY <2>3, FinishType DEF Deliver
    <3> QED  BY <2>3, <3>2, <3>3, <1>1 DEF Deliver, TypeInv
  <2>4. CASE Pause(i)
    <3>1. inv' \in [Invocation -> InvocationType]
      BY <2>4, OverType DEF Pause
    <3> QED  BY <2>4, <3>1, <1>1 DEF Pause, TypeInv
  <2>5. CASE WorkerDies(i)
    <3>1. inv' \in [Invocation -> InvocationType]
      BY <2>5, OverType DEF WorkerDies
    <3>2. crashes' \in Nat /\ MaxCrashes > 0
      BY <2>5 DEF WorkerDies, TypeInv
    <3> QED  BY <2>5, <3>1, <3>2, <1>1 DEF WorkerDies, TypeInv
  <2>6. ASSUME NEW b \in Branch, Work(i, b) PROVE TypeInv'
    <3>1. inv[i].stage \in Stage
      BY <2>6, ActiveStage DEF Work, At, Active
    <3>2. worked' \in [Stage \X (Branch \cup {Solo}) -> Nat]
      BY <2>6, <3>1, WorkedType DEF Work
    <3>3. inv[i].job \in Decision \cup {NoJob} /\ "done" \in Progress
      BY DEF TypeInv, InvocationType, Progress
    <3>4. checkpoint' \in CheckpointType /\ inv' \in [Invocation -> InvocationType]
      BY <2>6, <3>3, ReturnType DEF Work
    <3> QED  BY <2>6, <3>2, <3>4, <1>1 DEF Work, TypeInv
  <2>7. ASSUME NEW b \in Branch \cup {Solo}, Announce(i, b) PROVE TypeInv'
    <3>1. "announced" \in Progress
      BY DEF Progress
    <3>2. inv' \in [Invocation -> InvocationType]
      BY <2>7, <3>1, ToType DEF Announce
    <3> QED  BY <2>7, <3>2, <1>1 DEF Announce, TypeInv
  <2>8. ASSUME NEW b \in Branch \cup {Solo}, Ensure(i, b) PROVE TypeInv'
    <3>1. "asking" \in Progress
      BY DEF Progress
    <3>2. inv' \in [Invocation -> InvocationType]
      BY <2>8, <3>1, ToType DEF Ensure
    <3>3. row' \in [Gate -> {"none", "pending"} \cup Action]
      BY <2>8 DEF Ensure, RowAsked, TypeInv
    <3> QED  BY <2>8, <3>2, <3>3, <1>1 DEF Ensure, TypeInv
  <2>9. ASSUME NEW b \in Branch \cup {Solo}, Interrupt(i, b) PROVE TypeInv'
    <3>1. "waiting" \in Progress
      BY DEF Progress
    <3>2. checkpoint' \in CheckpointType /\ inv' \in [Invocation -> InvocationType]
      BY <2>9, <3>1, ReturnType DEF Interrupt
    <3> QED  BY <2>9, <3>2, <1>1 DEF Interrupt, TypeInv
  <2>10. ASSUME NEW b \in Branch \cup {Solo}, Answer(i, b) PROVE TypeInv'
    <3>1. inv[i].stage \in Stage
      BY <2>10, ActiveStage DEF Answer, AtGate, Has, Active
    <3>2. UNCHANGED <<row, client, jobs, crashes>>
      BY <2>10 DEF Answer
    <3>3. CASE Return(i, b, "done", NoJob) /\ Worked(i, b)
      <4>1. "done" \in Progress
        BY DEF Progress
      <4>2. worked' \in [Stage \X (Branch \cup {Solo}) -> Nat]
        BY <3>1, <3>3, WorkedType
      <4>3. checkpoint' \in CheckpointType /\ inv' \in [Invocation -> InvocationType]
        BY <3>3, <4>1, ReturnType
      <4> QED  BY <3>2, <4>2, <4>3, <1>1 DEF TypeInv
    <3>4. CASE Finish(i) /\ UNCHANGED worked
      BY <3>2, <3>4, FinishType, <1>2
    <3>5. CASE Advance(i) /\ UNCHANGED worked
      BY <3>1, <3>2, <3>5, AdvanceType, <1>2
    <3> QED  BY <2>10, <3>3, <3>4, <3>5 DEF Answer
  <2>11. ASSUME NEW j \in jobs, StartResume(i, j) PROVE TypeInv'
    <3>1. UNCHANGED <<row, client, crashes, worked>> /\ jobs' \subseteq jobs
      BY <2>11 DEF StartResume
    <3>2. CASE inv' = [inv EXCEPT ![i].state = "over"] /\ UNCHANGED checkpoint
      BY <3>1, <3>2, OverType, <1>1 DEF TypeInv
    <3>3. CASE ~Ambiguous
      <4>1. checkpoint' \in CheckpointType
        BY <2>11, <3>3 DEF StartResume, TypeInv, CheckpointType
      <4>2. checkpoint.id \in Nat /\ checkpoint.stage \in 1..Last + 1 /\ j \in Decision
        BY DEF TypeInv, CheckpointType
      <4> DEFINE l == Load(checkpoint.stage, Kept(checkpoint.done))
                 q == [state |-> IF checkpoint.stage > Last THEN "over" ELSE "active",
                       base |-> checkpoint.id, stage |-> checkpoint.stage, job |-> j, branch |-> l]
      <4>3. l \in [Branch \cup {Solo} -> Progress \cup {"idle"}]
        BY LoadType
      <4>4. q \in InvocationType
        <5> HIDE DEF l
        <5> QED  BY <4>2, <4>3 DEF InvocationType
      <4>5. inv' = [inv EXCEPT ![i] = q]
        BY <2>11, <3>3 DEF StartResume
      <4>6. inv' \in [Invocation -> InvocationType]
        <5> HIDE DEF q
        <5> QED  BY <4>4, <4>5 DEF TypeInv
      <4> QED  BY <3>1, <4>1, <4>6, <1>1 DEF TypeInv
    <3> QED  BY <2>11, <3>2, <3>3 DEF StartResume
  <2> QED  BY <1>3, <2>1, <2>2, <2>3, <2>4, <2>5, <2>6, <2>7, <2>8, <2>9, <2>10, <2>11 DEF Steps
<1>4. ASSUME NEW r \in Reviewer, Requests(r) PROVE TypeInv'
  <2>1. CASE CommitResolution(r)
    <3>1. client[r] \in {"checked", "resolved"} \X Gate \X Action
      BY <2>1 DEF CommitResolution, TypeInv
    <3>2. row' \in [Gate -> {"none", "pending"} \cup Action]
      BY <2>1, <3>1 DEF CommitResolution, TypeInv
    <3>3. client' \in [Reviewer -> {<<>>} \cup ({"checked", "resolved"} \X Gate \X Action)]
      BY <2>1, <3>1 DEF CommitResolution, TypeInv
    <3> QED  BY <2>1, <3>2, <3>3, <1>1 DEF CommitResolution, TypeInv
  <2>2. CASE HandOver(r)
    <3>1. client[r] \in {"checked", "resolved"} \X Gate \X Action
      BY <2>2 DEF HandOver, TypeInv
    <3>2. [gate |-> client[r][2], action |-> client[r][3], by |-> r] \in Decision
      BY <3>1 DEF Decision
    <3> QED  BY <2>2, <3>2, <1>1 DEF HandOver, TypeInv
  <2>3. CASE ApiDies(r)
    <3>1. crashes' \in Nat /\ MaxCrashes > 0
      BY <2>3 DEF ApiDies, TypeInv
    <3>2. client' \in [Reviewer -> {<<>>} \cup ({"checked", "resolved"} \X Gate \X Action)]
      BY <2>3 DEF ApiDies, TypeInv
    <3> QED  BY <2>3, <3>1, <3>2, <1>1 DEF ApiDies, TypeInv
  <2>4. ASSUME NEW g \in Gate, NEW a \in Action, Check(r, g, a) PROVE TypeInv'
    <3>1. <<"checked", g, a>> \in {"checked", "resolved"} \X Gate \X Action
      OBVIOUS
    <3>2. client' \in [Reviewer -> {<<>>} \cup ({"checked", "resolved"} \X Gate \X Action)]
      BY <2>4, <3>1 DEF Check, TypeInv
    <3> QED  BY <2>4, <3>2, <1>1 DEF Check, TypeInv
  <2> QED  BY <1>4, <2>1, <2>2, <2>3, <2>4 DEF Requests
<1>5. CASE UNCHANGED vars
  BY <1>5, <1>1 DEF TypeInv, vars
<1> QED  BY <1>3, <1>4, <1>5, NextIsStep

-----------------------------------------------------------------------------
(* What the helpers of the actions do to the invocation they are about.    *)

Others(i) == \A m \in Invocation : m # i => inv'[m] = inv[m]

LEMMA ReturnDoes ==
  ASSUME TypeInv, NEW i \in Invocation, NEW b \in Branch \cup {Solo}, NEW s, NEW job,
         Return(i, b, s, job)
  PROVE  /\ Others(i)
         /\ inv'[i].state = inv[i].state /\ inv'[i].base = inv[i].base
         /\ inv'[i].stage = inv[i].stage /\ inv'[i].job = job
         /\ inv'[i].branch[b] = s
         /\ \A c \in Branch \cup {Solo} : c # b => inv'[i].branch[c] = inv[i].branch[c]
         /\ checkpoint'.id = checkpoint.id /\ checkpoint'.stage = checkpoint.stage
<1>1. inv \in [Invocation -> InvocationType] /\ inv[i] \in InvocationType
  BY DEF TypeInv
<1>2. inv[i].branch \in [Branch \cup {Solo} -> Progress \cup {"idle"}]
  BY <1>1 DEF InvocationType
<1> DEFINE q == [inv[i] EXCEPT !.branch = [inv[i].branch EXCEPT ![b] = s], !.job = job]
<1>3. inv' = [inv EXCEPT ![i] = q]
  BY <1>1 DEF Return, InvocationType
<1>4. inv'[i] = q /\ Others(i)
  BY <1>1, <1>3 DEF Others
<1>5. checkpoint'.id = checkpoint.id /\ checkpoint'.stage = checkpoint.stage
  BY DEF Return, TypeInv, CheckpointType
<1> QED  BY <1>1, <1>2, <1>4, <1>5 DEF InvocationType

LEMMA ToDoes ==
  ASSUME TypeInv, NEW i \in Invocation, NEW b \in Branch \cup {Solo}, NEW s, To(i, b, s)
  PROVE  /\ Others(i)
         /\ inv'[i].state = inv[i].state /\ inv'[i].base = inv[i].base
         /\ inv'[i].stage = inv[i].stage /\ inv'[i].job = inv[i].job
         /\ inv'[i].branch[b] = s
         /\ \A c \in Branch \cup {Solo} : c # b => inv'[i].branch[c] = inv[i].branch[c]
<1>1. inv \in [Invocation -> InvocationType] /\ inv[i] \in InvocationType
  BY DEF TypeInv
<1>2. inv[i].branch \in [Branch \cup {Solo} -> Progress \cup {"idle"}]
  BY <1>1 DEF InvocationType
<1> DEFINE q == [inv[i] EXCEPT !.branch = [inv[i].branch EXCEPT ![b] = s]]
<1>3. inv' = [inv EXCEPT ![i] = q]
  BY <1>1 DEF To, InvocationType
<1>4. inv'[i] = q /\ Others(i)
  BY <1>1, <1>3 DEF Others
<1> QED  BY <1>1, <1>2, <1>4 DEF InvocationType

LEMMA AdvanceDoes ==
  ASSUME TypeInv, NEW i \in Invocation, Advance(i)
  PROVE  /\ Others(i)
         /\ inv'[i].state = inv[i].state /\ inv'[i].base = checkpoint.id + 1
         /\ inv'[i].stage = inv[i].stage + 1 /\ inv'[i].job = NoJob
         /\ inv'[i].branch = Load(inv[i].stage + 1, {})
         /\ checkpoint' = [id |-> checkpoint.id + 1, stage |-> inv[i].stage + 1,
                           done |-> {}, asked |-> {}]
<1>1. inv \in [Invocation -> InvocationType] /\ inv[i] \in InvocationType
  BY DEF TypeInv
<1> DEFINE q == [inv[i] EXCEPT !.base = checkpoint.id + 1, !.stage = inv[i].stage + 1,
                               !.branch = Load(inv[i].stage + 1, {}), !.job = NoJob]
<1>2. inv' = [inv EXCEPT ![i] = q]
  BY <1>1 DEF Advance, InvocationType
<1>3. inv'[i] = q /\ Others(i)
  BY <1>1, <1>2 DEF Others
<1> QED  BY <1>1, <1>3 DEF Advance, InvocationType

LEMMA OverDoes ==
  ASSUME TypeInv, NEW i \in Invocation, inv' = [inv EXCEPT ![i].state = "over"]
  PROVE  Others(i) /\ ~Active(i)'
BY DEF TypeInv, InvocationType, Others, Active

-----------------------------------------------------------------------------
(* Who is the front.                                                       *)

(* Whether an invocation is the front depends on itself and on which rows  *)
(* are resolved.                                                           *)
LEMMA FrontKept ==
  ASSUME TypeInv, FrontInv, UNCHANGED setting, NEW m \in Invocation, inv'[m] = inv[m],
         \A g \in Gate : row'[g] \in Action <=> row[g] \in Action
  PROVE  (Active(m)' <=> Active(m)) /\ (Front(m)' <=> Front(m))
<1>1. Active(m)' <=> Active(m)
  BY DEF Active
<1>2. ASSUME Active(m) PROVE Straggles(m)' <=> Straggles(m)
  <2>1. inv[m].stage \in Stage
    BY <1>2, ActiveStage
  <2>2. IsGate(inv[m].stage, Solo) => <<inv[m].stage, Solo>> \in Gate
    BY <2>1, GateFacts
  <2>3. IsGate(inv[m].stage, Solo)' = IsGate(inv[m].stage, Solo)
    BY GatesKept
  <2> QED  BY <2>2, <2>3 DEF Straggles
<1> QED  BY <1>1, <1>2 DEF Front

(* A straggler does nothing but interrupt, pause and die.                  *)
LEMMA StragglersGate ==
  ASSUME TypeInv, FrontInv, NEW i \in Invocation, Active(i), Straggles(i)
  PROVE  /\ Kind[inv[i].stage] \in {"plan_gate", "final_gate"}
         /\ \A b : IsGate(inv[i].stage, b) => b = Solo
BY ActiveStage, GateFacts DEF Straggles, IsGate

LEMMA FrontActs ==
  ASSUME TypeInv, FrontInv, NEW i \in Invocation,
         \/ Schedule(i) \/ CommitWave(i) \/ Deliver(i)
         \/ \E b \in Branch : Work(i, b)
         \/ \E b \in Branch \cup {Solo} : Announce(i, b) \/ Ensure(i, b) \/ Answer(i, b)
  PROVE  Front(i)
<1>1. Active(i)
  BY DEF Schedule, CommitWave, Deliver, Work, Announce, Ensure, Answer, At, AtGate, Has, Active
<1> SUFFICES ASSUME Straggles(i) PROVE FALSE
  BY <1>1 DEF Front
<1>2. Kind[inv[i].stage] \in {"plan_gate", "final_gate"}
  BY <1>1, StragglersGate
<1>3. \A b : IsGate(inv[i].stage, b) => b = Solo
  BY <1>1, StragglersGate
<1>4. ~Schedule(i) /\ ~CommitWave(i) /\ ~Deliver(i) /\ \A b \in Branch : ~Work(i, b)
  BY <1>2 DEF Schedule, CommitWave, Deliver, Work, At
<1>5. \A b \in Branch \cup {Solo} : ~Announce(i, b)
  BY <1>3 DEF Announce, AtGate, Has, Straggles
<1>6. \A b \in Branch \cup {Solo} : ~Ensure(i, b)
  BY <1>3 DEF Ensure, AtGate, Has, Straggles
<1>7. \A b \in Branch \cup {Solo} : ~Answer(i, b)
  BY DEF Answer, Straggles
<1> QED  BY <1>4, <1>5, <1>6, <1>7

(* A stage of the graph has one gate at most, and so has a wave unless     *)
(* several of its branches ask.                                            *)
LEMMA OneGate ==
  ASSUME TypeInv, NEW g \in Gate, NEW h \in Gate, g[1] = h[1], OfGraph(g) \/ ~Several
  PROVE  g = h
<1>1. g = <<g[1], g[2]>> /\ h = <<h[1], h[2]>>
  BY GateFacts
<1>2. CASE OfGraph(g)
  <2>1. OfGraph(h)
    BY <1>2 DEF OfGraph
  <2>2. g[2] = Solo /\ h[2] = Solo
    BY <1>2, <2>1, GateFacts
  <2> QED  BY <1>1, <2>2
<1>3. CASE ~OfGraph(g) /\ ~Several
  <2>1. ~OfGraph(h)
    BY <1>3 DEF OfGraph
  <2>2. g[2] \in Gated /\ h[2] \in Gated
    BY <1>3, <2>1, GateFacts
  <2>3. g[2] = h[2]
    BY <1>3, <2>2 DEF Several
  <2> QED  BY <1>1, <2>3
<1> QED  BY <1>2, <1>3

(* What holds beside a front.                                              *)
LEMMA FrontAlone ==
  ASSUME IInv, NEW i \in Invocation, Front(i)
  PROVE  /\ jobs = {}
         /\ \A r \in Reviewer : client[r] # <<>> => client[r][1] = "checked" /\ Hasty
         /\ \A m \in Invocation : m # i => ~Front(m)
         /\ ~Hasty => \A m \in Invocation : m # i => ~Active(m)
         /\ Active(i) /\ AtHead(i) /\ inv[i].stage = checkpoint.stage /\ inv[i].stage \in Stage
<1>1. jobs = {}
  BY DEF IInv, WayInv
<1>2. \A m \in Invocation : m # i => ~Front(m)
  BY DEF IInv, FrontInv
<1>3. Active(i) /\ AtHead(i) /\ Behind(i)
  BY DEF IInv, FrontInv, Front
<1>4. ~Idle
  BY <1>3 DEF Idle, Active
<1>5. ASSUME NEW r \in Reviewer, client[r] # <<>> PROVE client[r][1] = "checked" /\ Hasty
  <2>1. client[r] \in {"checked", "resolved"} \X Gate \X Action
    BY <1>5 DEF IInv, TypeInv
  <2>2. client[r][1] # "resolved"
    BY <1>5 DEF IInv, WayInv
  <2>3. Hasty
    BY <1>4, <1>5 DEF IInv, WayInv
  <2> QED  BY <2>1, <2>2, <2>3
<1>6. ~Hasty => \A m \in Invocation : m # i => ~Active(m)
  BY <1>2 DEF IInv, WayInv
<1>7. inv[i].stage = checkpoint.stage /\ inv[i].stage \in Stage
  BY <1>3 DEF AtHead, Behind
<1> QED  BY <1>1, <1>2, <1>3, <1>5, <1>6, <1>7

(* What a request on its way is about.                                     *)
LEMMA HeldGate ==
  ASSUME IInv, NEW r \in Reviewer, client[r] # <<>>
  PROVE  /\ client[r] \in {"checked", "resolved"} \X Gate \X Action
         /\ client[r][2] \in Gate /\ client[r][2][1] = checkpoint.stage /\ client[r][3] \in Action
         /\ client[r][1] = "checked" => row[client[r][2]] = "pending"
         /\ client[r][1] # "checked" => client[r][1] = "resolved" /\ row[client[r][2]] \in Action
<1>1. client[r] \in {"checked", "resolved"} \X Gate \X Action
  BY DEF IInv, TypeInv
<1>2. client[r][2] \in Gate /\ client[r][3] \in Action /\ client[r][1] \in {"checked", "resolved"}
  BY <1>1
<1>3. /\ client[r][2][1] = checkpoint.stage
      /\ row[client[r][2]] = IF client[r][1] = "checked" THEN "pending" ELSE client[r][3]
  BY DEF IInv, WayInv
<1> QED  BY <1>1, <1>2, <1>3

LEMMA NoGateHere ==
  ASSUME TypeInv, NEW k \in Stage, Kind[k] \in {"schedule", "deliver"}
  PROVE  \A g \in Gate : g[1] # k
BY GateFacts DEF OfGraph

LEMMA JobIsOfItsGate ==
  ASSUME IInv, NEW i \in Invocation, Front(i), inv[i].job # NoJob
  PROVE  /\ inv[i].job \in Decision /\ inv[i].job.gate \in Gate /\ inv[i].job.action \in Action
         /\ inv[i].job.gate[1] = checkpoint.stage
         /\ \A g \in Gate : g[1] = checkpoint.stage =>
              g = inv[i].job.gate /\ row[g] = inv[i].job.action
         /\ OfGraph(inv[i].job.gate) \/ ~Several
<1>1. TypeInv /\ AtHead(i)
  BY FrontAlone DEF IInv
<1>2. inv[i].job \in Decision
  BY <1>1 DEF TypeInv, InvocationType
<1>3. inv[i].job.gate \in Gate /\ inv[i].job.action \in Action
  BY <1>2 DEF Decision
<1>4. /\ inv[i].job.gate[1] = checkpoint.stage
      /\ inv[i].job.action = row[inv[i].job.gate]
      /\ OfGraph(inv[i].job.gate) \/ ~Several
  BY <1>1 DEF AtHead, JobInv
<1>5. ASSUME NEW g \in Gate, g[1] = checkpoint.stage PROVE g = inv[i].job.gate
  <2>1. OfGraph(g) \/ ~Several
    BY <1>4, <1>5 DEF OfGraph
  <2> QED  BY <1>1, <1>3, <1>4, <1>5, <2>1, OneGate
<1> QED  BY <1>2, <1>3, <1>4, <1>5

LEMMA NobodyAsks ==
  ASSUME IInv, NEW i \in Invocation, Front(i),
         \A g \in Gate : g[1] = checkpoint.stage => row[g] # "pending"
  PROVE  \A r \in Reviewer : client[r] = <<>>
BY FrontAlone, HeldGate

(* The front passes on to the next stage: all is settled at this one.      *)
LEMMA AdvanceStep ==
  ASSUME IInv, TypeInv', UNCHANGED setting, NEW i \in Invocation, Front(i), Advance(i),
         inv[i].stage # Last, UNCHANGED <<row, client, jobs, worked>>, status' # "completed",
         \A g \in Gate : g[1] = checkpoint.stage =>
           row[g] # "pending" /\ (OfGraph(g) => row[g] = "approve"),
         \A pair \in applied' : pair[1] = pair[2]
  PROVE  IInv'
<1> USE GatesKept
<1> DEFINE k == inv[i].stage
<1>1. TypeInv /\ FrontInv /\ RowInv
  BY DEF IInv
<1>2. /\ jobs = {} /\ k = checkpoint.stage /\ k \in Stage
      /\ \A m \in Invocation : m # i => ~Front(m)
      /\ Active(i)
  BY FrontAlone
<1>3. k + 1 \in Stage /\ k + 1 > k /\ k \in Nat /\ checkpoint.id \in Nat
  BY <1>1, <1>2, StageFacts DEF TypeInv, CheckpointType
<1>4. \A r \in Reviewer : client[r] = <<>>
  BY NobodyAsks
<1>5. /\ Others(i)
      /\ inv'[i].state = inv[i].state /\ inv'[i].base = checkpoint.id + 1
      /\ inv'[i].stage = k + 1 /\ inv'[i].job = NoJob
      /\ inv'[i].branch = Load(k + 1, {})
      /\ checkpoint' = [id |-> checkpoint.id + 1, stage |-> k + 1, done |-> {}, asked |-> {}]
  BY <1>1, AdvanceDoes
<1> HIDE DEF k
<1>6. /\ checkpoint'.id = checkpoint.id + 1 /\ checkpoint'.stage = k + 1
      /\ checkpoint'.done = {} /\ checkpoint'.asked = {}
  BY <1>5
<1>7. \A g \in Gate : g[1] \in Stage /\ g[1] \in Nat
  BY <1>1, GateFacts, StageFacts
<1>8. RowInv'
  <2>1. \A g \in Gate : g[1] > k + 1 => row[g] = "none"
    BY <1>1, <1>2, <1>3, <1>7 DEF RowInv
  <2>2. \A g \in Gate : g[1] < k + 1 => g[1] < k \/ g[1] = k
    BY <1>3, <1>7
  <2>3. \A g \in Gate : g[1] < k + 1 => row[g] # "pending" /\ (OfGraph(g) => row[g] = "approve")
    BY <1>1, <1>2, <2>2, StageFacts DEF RowInv
  <2> QED  BY <1>6, <2>1, <2>3 DEF RowInv, OfGraph
<1>9. ASSUME NEW m \in Invocation, m # i
      PROVE  ~Front(m)' /\ (Active(m)' <=> Active(m)) /\ inv'[m] = inv[m]
  BY <1>1, <1>2, <1>5, <1>9, FrontKept DEF Others
<1>10. Active(i)'
  BY <1>2, <1>5 DEF Active
<1>11. \A b \in Branch \cup {Solo} :
         inv'[i].branch[b] = IF b \in BranchesOf(k + 1) THEN "running" ELSE "idle"
  BY <1>5 DEF Load
<1>12. ~Straggles(i)'
  BY <1>11 DEF Straggles
<1>13. Front(i)'
  BY <1>10, <1>12 DEF Front
<1>14. \A b \in BranchesOf(k + 1) : b \in Branch \cup {Solo}
  BY DEF BranchesOf
<1>15. ASSUME NEW b \in BranchesOf(k + 1) PROVE BranchInv(i, b)'
  <2>1. inv'[i].branch[b] = "running"
    BY <1>11, <1>14, <1>15
  <2>2. <<k + 1, b>> \in Gate => row[<<k + 1, b>>] = "none"
    BY <1>1, <1>2, <1>3 DEF RowInv
  <2> QED  BY <1>5, <1>6, <2>1, <2>2 DEF BranchInv
<1>16. AtHead(i)'
  <2>1. JobInv(i)'
    BY <1>5 DEF JobInv
  <2>2. \A b \in BranchesOf(k + 1) : inv'[i].branch[b] # "idle" /\ BranchInv(i, b)'
    BY <1>11, <1>14, <1>15
  <2>3. \A b \in (Branch \cup {Solo}) \ BranchesOf(k + 1) : inv'[i].branch[b] = "idle"
    BY <1>11
  <2> QED  BY <1>3, <1>5, <1>6, <2>1, <2>2, <2>3 DEF AtHead
<1>17. FrontInv'
  <2>1. ASSUME NEW m \in Invocation, Active(m)' PROVE Behind(m)'
    <3>1. CASE m = i
      BY <1>3, <1>5, <1>6, <3>1 DEF Behind
    <3>2. CASE m # i
      <4>1. Behind(m) /\ inv'[m] = inv[m] /\ inv[m].base \in Nat
        BY <1>1, <1>9, <2>1, <3>2 DEF FrontInv, TypeInv, InvocationType
      <4> QED  BY <1>3, <1>6, <4>1 DEF Behind
    <3> QED  BY <3>1, <3>2
  <2> QED  BY <1>9, <1>16, <2>1 DEF FrontInv
<1>18. WayInv'
  <2>1. ~Hasty => \A m \in Invocation : Active(m)' => Front(m)'
    BY <1>9, <1>13, FrontAlone
  <2> QED  BY <1>2, <1>4, <2>1 DEF WayInv
<1>19. SeveralInv'
  BY <1>13 DEF SeveralInv
<1>20. WorkInv'
  <2>1. \A p \in DOMAIN worked : worked[p] <= 1
    BY DEF IInv, WorkInv
  <2>2. \A p \in DOMAIN worked : p[1] \in Nat
    <3>1. DOMAIN worked = Stage \X (Branch \cup {Solo})
      BY <1>1 DEF TypeInv
    <3>2. \A p \in Stage \X (Branch \cup {Solo}) : p[1] \in Stage
      OBVIOUS
    <3> QED  BY <3>1, <3>2, StageFacts
  <2>3. \A p \in DOMAIN worked : p[1] > k + 1 \/ p[1] = k + 1 => worked[p] = 0
    BY <1>2, <1>3, <2>2 DEF IInv, WorkInv
  <2> QED  BY <1>6, <2>1, <2>3 DEF WorkInv
<1>21. OutcomeInv'
  <2>1. k + 1 <= Last /\ ~(k + 1 > Last)
    BY <1>3, StageFacts
  <2> QED  BY <1>6, <2>1 DEF OutcomeInv
<1> QED  BY <1>8, <1>17, <1>18, <1>19, <1>20, <1>21 DEF IInv

(* The front ends the task.                                                *)
LEMMA FinishStep ==
  ASSUME IInv, TypeInv', UNCHANGED setting, NEW i \in Invocation, Front(i), Finish(i),
         UNCHANGED <<row, client, jobs>>,
         \A g \in Gate : g[1] = checkpoint.stage => row[g] # "pending",
         \/ status' = "completed" /\ \A g \in Gate : OfGraph(g) => row[g] = "approve"
         \/ status' = "rejected" /\ \E g \in Gate : OfGraph(g) /\ row[g] = "reject",
         \A p \in DOMAIN worked' : worked'[p] <= 1,
         \A pair \in applied' : pair[1] = pair[2]
  PROVE  IInv'
<1> USE GatesKept
<1>1. TypeInv /\ FrontInv /\ RowInv
  BY DEF IInv
<1>2. /\ jobs = {} /\ checkpoint.stage \in Stage
      /\ \A m \in Invocation : m # i => ~Front(m)
  BY FrontAlone
<1>3. \A r \in Reviewer : client[r] = <<>>
  BY NobodyAsks
<1>4. Others(i) /\ ~Active(i)'
  BY <1>1, OverDoes DEF Finish
<1>5. /\ checkpoint'.id = checkpoint.id + 1 /\ checkpoint'.stage = Last + 1
      /\ checkpoint'.done = {} /\ checkpoint'.asked = {}
  BY DEF Finish
<1>6. /\ \A g \in Gate : g[1] \in Stage /\ g[1] \in Nat /\ g[1] <= Last /\ g[1] < Last + 1
      /\ Last + 1 > Last /\ ~(Last + 1 <= Last) /\ Last \in Nat
  BY <1>1, GateFacts, StageFacts
<1>7. RowInv'
  <2>1. \A g \in Gate : row[g] # "pending"
    <3> TAKE g \in Gate
    <3>1. g[1] < checkpoint.stage \/ g[1] = checkpoint.stage \/ g[1] > checkpoint.stage
      BY <1>2, <1>6, StageNumbers
    <3> QED  BY <1>1, <3>1 DEF RowInv
  <2>2. \A g \in Gate : ~(g[1] > Last + 1)
    BY <1>6
  <2> QED  BY <1>5, <1>6, <2>1, <2>2 DEF RowInv
<1>8. ASSUME NEW m \in Invocation, m # i
      PROVE  ~Front(m)' /\ (Active(m)' <=> Active(m)) /\ inv'[m] = inv[m]
  BY <1>1, <1>2, <1>4, <1>8, FrontKept DEF Others
<1>9. \A m \in Invocation : ~Front(m)'
  BY <1>4, <1>8 DEF Front
<1>10. FrontInv'
  <2>1. ASSUME NEW m \in Invocation, Active(m)' PROVE Behind(m)'
    <3>1. m # i /\ Active(m) /\ inv'[m] = inv[m]
      BY <1>4, <1>8, <2>1
    <3>2. Behind(m) /\ inv[m].base \in Nat /\ checkpoint.id \in Nat
      BY <1>1, <3>1 DEF FrontInv, TypeInv, InvocationType, CheckpointType
    <3> QED  BY <1>5, <3>1, <3>2 DEF Behind
  <2> QED  BY <1>9, <2>1 DEF FrontInv
<1>11. WayInv'
  <2>1. ~Hasty => \A m \in Invocation : Active(m)' => Front(m)'
    BY <1>4, <1>8, FrontAlone
  <2> QED  BY <1>2, <1>3, <2>1 DEF WayInv
<1>12. SeveralInv'
  BY <1>5, <1>6 DEF SeveralInv
<1>13. WorkInv'
  <2>1. DOMAIN worked' = Stage \X (Branch \cup {Solo})
    BY DEF TypeInv
  <2>2. \A p \in Stage \X (Branch \cup {Solo}) : p[1] \in Stage
    OBVIOUS
  <2>3. \A p \in DOMAIN worked' : ~(p[1] > Last + 1) /\ p[1] # Last + 1
    BY <2>1, <2>2, StageNumbers
  <2> QED  BY <1>5, <2>3 DEF WorkInv
<1>14. OutcomeInv'
  BY <1>5, <1>6 DEF OutcomeInv
<1> QED  BY <1>7, <1>10, <1>11, <1>12, <1>13, <1>14 DEF IInv

(* The front goes on at the stage it is at.                                *)
LEMMA HeadStep ==
  ASSUME IInv, TypeInv', UNCHANGED setting, NEW i \in Invocation, Front(i), Others(i),
         checkpoint'.id = checkpoint.id, checkpoint'.stage = checkpoint.stage,
         inv'[i].state = inv[i].state, inv'[i].base = inv[i].base, inv'[i].stage = inv[i].stage,
         UNCHANGED <<client, jobs>>, status' # "completed",
         \A g \in Gate : row'[g] \in Action <=> row[g] \in Action,
         \A g \in Gate : row[g] = "pending" => row'[g] = "pending",
         ~Straggles(i)', AtHead(i)', RowInv', WorkInv'
  PROVE  IInv'
<1> USE GatesKept
<1>1. TypeInv /\ FrontInv /\ WayInv
  BY DEF IInv
<1>2. /\ jobs = {} /\ checkpoint.stage \in Stage
      /\ \A m \in Invocation : m # i => ~Front(m)
      /\ Active(i) /\ AtHead(i)
  BY FrontAlone
<1>3. Front(i)'
  BY <1>2 DEF Front, Active
<1>4. ASSUME NEW m \in Invocation, m # i
      PROVE  ~Front(m)' /\ (Active(m)' <=> Active(m)) /\ inv'[m] = inv[m]
  BY <1>1, <1>2, <1>4, FrontKept DEF Others
<1>5. FrontInv'
  <2>1. ASSUME NEW m \in Invocation, Active(m)' PROVE Behind(m)'
    <3>1. Behind(m)
      BY <1>1, <1>2, <1>4, <2>1 DEF FrontInv
    <3>2. inv'[m].base = inv[m].base /\ inv'[m].stage = inv[m].stage
      BY <1>4
    <3> QED  BY <3>1, <3>2 DEF Behind
  <2> QED  BY <1>3, <1>4, <2>1 DEF FrontInv
<1>6. WayInv'
  <2>1. ~Hasty => \A m \in Invocation : Active(m)' => Front(m)'
    BY <1>3, <1>4, FrontAlone
  <2>2. ASSUME NEW r \in Reviewer, client[r] # <<>>
        PROVE  /\ client[r][2][1] = checkpoint.stage /\ client[r][1] = "checked" /\ Hasty
               /\ row'[client[r][2]] = "pending"
    <3>1. client[r][1] = "checked" /\ Hasty
      BY <2>2, FrontAlone
    <3> QED  BY <2>2, <3>1, HeldGate
  <2> QED  BY <1>2, <2>1, <2>2 DEF WayInv
<1>7. SeveralInv'
  BY <1>3 DEF SeveralInv
<1>8. OutcomeInv'
  <2>1. checkpoint.stage <= Last /\ ~(checkpoint.stage > Last)
    BY <1>2, StageNumbers
  <2> QED  BY <2>1 DEF OutcomeInv
<1> QED  BY <1>5, <1>6, <1>7, <1>8 DEF IInv

-----------------------------------------------------------------------------
(* The nodes that do not ask anybody.                                      *)

LEMMA ScheduleStep ==
  ASSUME IInv, TypeInv', UNCHANGED setting, NEW i \in Invocation, Schedule(i)
  PROVE  IInv'
<1>1. TypeInv /\ FrontInv
  BY DEF IInv
<1>2. Front(i)
  BY <1>1, FrontActs
<1>3. inv[i].stage = checkpoint.stage /\ inv[i].stage \in Stage
  BY <1>2, FrontAlone
<1>4. Kind[inv[i].stage] = "schedule" /\ Advance(i) /\ status' # "completed"
      /\ UNCHANGED <<row, client, jobs, worked>> /\ UNCHANGED applied
  BY DEF Schedule, At
<1>5. inv[i].stage # Last
  BY <1>3, <1>4, StageFacts
<1>6. \A g \in Gate : g[1] # checkpoint.stage
  BY <1>1, <1>3, <1>4, NoGateHere
<1>7. \A g \in Gate : g[1] = checkpoint.stage =>
        row[g] # "pending" /\ (OfGraph(g) => row[g] = "approve")
  BY <1>6
<1>8. \A pair \in applied' : pair[1] = pair[2]
  BY <1>4 DEF IInv, WorkInv
<1> QED  BY <1>2, <1>4, <1>5, <1>7, <1>8, AdvanceStep

LEMMA CommitWaveStep ==
  ASSUME IInv, TypeInv', UNCHANGED setting, NEW i \in Invocation, CommitWave(i)
  PROVE  IInv'
<1>1. TypeInv /\ FrontInv /\ RowInv
  BY DEF IInv
<1>2. Front(i)
  BY <1>1, FrontActs
<1>3. inv[i].stage = checkpoint.stage /\ inv[i].stage \in Stage /\ AtHead(i)
  BY <1>2, FrontAlone
<1>4. Kind[inv[i].stage] = "wave" /\ Advance(i) /\ status' = status
      /\ UNCHANGED <<row, client, jobs, worked>> /\ UNCHANGED applied
      /\ \A b \in Branch : inv[i].branch[b] = "done"
  BY DEF CommitWave, At
<1>5. inv[i].stage # Last
  BY <1>3, <1>4, StageFacts
<1>6. status' # "completed"
  BY <1>3, <1>4, StageNumbers DEF IInv, OutcomeInv
<1>7. ASSUME NEW g \in Gate, g[1] = checkpoint.stage
      PROVE  row[g] # "pending" /\ (OfGraph(g) => row[g] = "approve")
  <2>1. g = <<checkpoint.stage, g[2]>> /\ g[2] \in BranchesOf(checkpoint.stage)
    BY <1>1, <1>7, GateFacts
  <2>2. g[2] \in Branch /\ ~OfGraph(g)
    BY <1>3, <1>4, <1>7, <2>1, StageNumbers DEF BranchesOf, OfGraph
  <2>3. g[2] \in checkpoint.done
    BY <1>3, <1>4, <2>1, <2>2 DEF AtHead, BranchInv
  <2>4. row[g] \in Action
    BY <1>1, <2>1, <2>3 DEF RowInv
  <2> QED  BY <2>2, <2>4 DEF Action
<1>8. \A pair \in applied' : pair[1] = pair[2]
  BY <1>4 DEF IInv, WorkInv
<1> QED  BY <1>2, <1>4, <1>5, <1>6, <1>7, <1>8, AdvanceStep

LEMMA DeliverStep ==
  ASSUME IInv, TypeInv', UNCHANGED setting, NEW i \in Invocation, Deliver(i)
  PROVE  IInv'
<1>1. TypeInv /\ FrontInv /\ RowInv /\ WorkInv
  BY DEF IInv
<1>2. Front(i)
  BY <1>1, FrontActs
<1>3. inv[i].stage = checkpoint.stage /\ inv[i].stage \in Stage /\ AtHead(i)
  BY <1>2, FrontAlone
<1>4. Kind[inv[i].stage] = "deliver" /\ Finish(i) /\ status' = "completed" /\ Worked(i, Solo)
      /\ UNCHANGED <<row, client, jobs>> /\ UNCHANGED applied
  BY DEF Deliver, At
<1>5. inv[i].stage = Last /\ checkpoint.stage = Last
  BY <1>3, <1>4, StageFacts
<1>6. \A g \in Gate : g[1] # checkpoint.stage
  BY <1>1, <1>3, <1>4, NoGateHere
<1>7. ASSUME NEW g \in Gate, OfGraph(g) PROVE row[g] = "approve"
  <2>1. g[1] \in Stage
    BY <1>1, GateFacts
  <2>2. g[1] < checkpoint.stage /\ checkpoint.stage <= Last
    BY <1>5, <1>6, <2>1, StagesAssumption DEF Stage
  <2> QED  BY <1>1, <1>7, <2>2 DEF RowInv
<1>8. ASSUME NEW p \in DOMAIN worked' PROVE worked'[p] <= 1
  <2>1. worked \in [Stage \X (Branch \cup {Solo}) -> Nat] /\ p \in DOMAIN worked
    BY <1>1, <1>4, <1>8 DEF Worked, TypeInv
  <2>2. <<Last, Solo>> \in DOMAIN worked
    BY <2>1, StageFacts
  <2>3. Solo \notin checkpoint.done
    BY <1>1, <1>3, <1>4, <1>5 DEF RowInv
  <2>4. worked[<<Last, Solo>>] = 0
    BY <1>1, <1>5, <2>2, <2>3 DEF WorkInv
  <2>5. worked[p] <= 1 /\ worked[p] \in Nat
    BY <1>1, <2>1 DEF WorkInv
  <2> QED  BY <1>4, <1>5, <2>1, <2>2, <2>4, <2>5 DEF Worked
<1>9. \A pair \in applied' : pair[1] = pair[2]
  BY <1>1, <1>4 DEF WorkInv
<1>10. \A g \in Gate : g[1] = checkpoint.stage => row[g] # "pending"
  BY <1>6
<1> QED  BY <1>2, <1>4, <1>7, <1>8, <1>9, <1>10, FinishStep

(* A branch nothing happened to.                                           *)
LEMMA BranchKept ==
  ASSUME UNCHANGED setting, NEW i \in Invocation, NEW c, BranchInv(i, c),
         inv'[i].branch[c] = inv[i].branch[c], inv'[i].job = inv[i].job,
         checkpoint'.stage = checkpoint.stage,
         c \in checkpoint'.done <=> c \in checkpoint.done,
         c \in checkpoint.asked => c \in checkpoint'.asked,
         row'[<<checkpoint.stage, c>>] = row[<<checkpoint.stage, c>>]
  PROVE  BranchInv(i, c)'
<1>1. Gate' = Gate
  BY GatesKept
<1> QED  BY <1>1 DEF BranchInv

(* One branch of the front goes on.                                        *)
LEMMA OneBranchStep ==
  ASSUME UNCHANGED setting, TypeInv, NEW i \in Invocation, AtHead(i), NEW b \in Branch \cup {Solo},
         inv'[i].branch[b] # "idle", BranchInv(i, b)', JobInv(i)',
         b \in BranchesOf(checkpoint.stage),
         inv'[i].base = inv[i].base,
         checkpoint'.id = checkpoint.id, checkpoint'.stage = checkpoint.stage,
         \A c \in Branch \cup {Solo} : c # b => inv'[i].branch[c] = inv[i].branch[c],
         \A c \in BranchesOf(checkpoint.stage) : c # b => BranchInv(i, c)'
  PROVE  AtHead(i)'
<1>1. inv'[i].base = checkpoint'.id /\ checkpoint'.stage \in Stage
  BY DEF AtHead
<1>2. \A c \in BranchesOf(checkpoint.stage) : c \in Branch \cup {Solo}
  BY DEF BranchesOf
<1>3. \A c \in BranchesOf(checkpoint.stage) : inv'[i].branch[c] # "idle" /\ BranchInv(i, c)'
  BY <1>2 DEF AtHead
<1>4. \A c \in (Branch \cup {Solo}) \ BranchesOf(checkpoint.stage) : inv'[i].branch[c] = "idle"
  BY DEF AtHead
<1> QED  BY <1>1, <1>3, <1>4 DEF AtHead

LEMMA WorkStep ==
  ASSUME IInv, TypeInv', UNCHANGED setting, NEW i \in Invocation, NEW b \in Branch, Work(i, b)
  PROVE  IInv'
<1> USE GatesKept
<1> DEFINE k == checkpoint.stage
<1>1. TypeInv /\ FrontInv /\ RowInv /\ WorkInv
  BY DEF IInv
<1>2. Front(i)
  BY <1>1, FrontActs
<1>3. inv[i].stage = k /\ k \in Stage /\ AtHead(i)
  BY <1>2, FrontAlone
<1>4. Kind[k] = "wave" /\ inv[i].branch[b] = "running" /\ b \notin Gated /\ status' = status
      /\ UNCHANGED <<row, client, jobs>> /\ UNCHANGED applied
      /\ worked' = [worked EXCEPT ![<<k, b>>] = @ + 1]
  BY <1>3 DEF Work, At, Has, Worked
<1>5. /\ Others(i)
      /\ inv'[i].state = inv[i].state /\ inv'[i].base = inv[i].base
      /\ inv'[i].stage = inv[i].stage /\ inv'[i].job = inv[i].job
      /\ inv'[i].branch[b] = "done"
      /\ \A c \in Branch \cup {Solo} : c # b => inv'[i].branch[c] = inv[i].branch[c]
      /\ checkpoint'.id = checkpoint.id /\ checkpoint'.stage = checkpoint.stage
  BY <1>1, ReturnDoes DEF Work
<1>6. checkpoint'.done = checkpoint.done \cup {b} /\ checkpoint'.asked = checkpoint.asked
  BY <1>1, <1>3 DEF Work, Return, AtHead, TypeInv, CheckpointType
<1>7. b \in BranchesOf(k) /\ BranchesOf(k) = Branch
  BY <1>3, <1>4, StageNumbers DEF BranchesOf
<1>8. <<k, b>> \notin Gate /\ ~IsGate(k, Solo)
  BY <1>1, <1>3, <1>4, GateFacts DEF IsGate
<1>9. b \notin checkpoint.done
  BY <1>3, <1>4, <1>7 DEF AtHead, BranchInv
<1>10. BranchInv(i, b)'
  BY <1>5, <1>6, <1>8 DEF BranchInv
<1>11. ASSUME NEW c \in BranchesOf(k), c # b PROVE BranchInv(i, c)'
  <2>1. BranchInv(i, c) /\ c \in Branch \cup {Solo}
    BY <1>3, <1>7 DEF AtHead
  <2>2. inv'[i].branch[c] = inv[i].branch[c]
    BY <1>5, <1>11, <2>1
  <2> QED  BY <1>4, <1>5, <1>6, <1>11, <2>1, <2>2, BranchKept
<1>12. JobInv(i)'
  <2> SUFFICES ASSUME inv[i].job # NoJob PROVE JobInv(i)'
    BY <1>5 DEF JobInv
  <2>1. inv[i].job.gate \in Gate /\ inv[i].job.gate[1] = k
    BY <1>2, JobIsOfItsGate
  <2>2. inv[i].job.gate[2] # b /\ inv[i].job.gate[2] \in Branch \cup {Solo}
    BY <1>1, <1>8, <2>1, GateFacts
  <2>3. inv'[i].branch[inv[i].job.gate[2]] = inv[i].branch[inv[i].job.gate[2]]
    BY <1>5, <2>2
  <2> QED  BY <1>3, <1>4, <1>5, <2>3 DEF AtHead, JobInv, OfGraph
<1>13. AtHead(i)'
  BY <1>1, <1>3, <1>5, <1>7, <1>10, <1>11, <1>12, OneBranchStep
<1>14. ~Straggles(i)'
  BY <1>3, <1>5, <1>8 DEF Straggles
<1>15. RowInv'
  BY <1>1, <1>3, <1>4, <1>5, <1>6, <1>8 DEF RowInv, OfGraph
<1>16. WorkInv'
  <2>1. worked \in [Stage \X (Branch \cup {Solo}) -> Nat] /\ <<k, b>> \in DOMAIN worked
    BY <1>1, <1>3 DEF TypeInv
  <2>2. worked[<<k, b>>] = 0 /\ worked'[<<k, b>>] = 1 /\ DOMAIN worked' = DOMAIN worked
    BY <1>1, <1>4, <1>9, <2>1 DEF WorkInv
  <2>3. \A p \in DOMAIN worked : p # <<k, b>> => worked'[p] = worked[p]
    BY <1>4, <2>1
  <2>4. ~(k > k)
    BY <1>3, StageNumbers
  <2>5. \A p \in DOMAIN worked : worked'[p] <= 1
    BY <1>1, <2>2, <2>3 DEF WorkInv
  <2>6. \A p \in DOMAIN worked : p[1] > k => worked'[p] = 0
    BY <1>1, <2>3, <2>4 DEF WorkInv
  <2>7. \A p \in DOMAIN worked : p[1] = k /\ p[2] \notin checkpoint'.done => worked'[p] = 0
    BY <1>1, <1>6, <2>3 DEF WorkInv
  <2> QED  BY <1>1, <1>4, <1>5, <2>2, <2>5, <2>6, <2>7 DEF WorkInv
<1>17. status' # "completed"
  BY <1>3, <1>4, StageNumbers DEF IInv, OutcomeInv
<1> QED  BY <1>2, <1>4, <1>5, <1>13, <1>14, <1>15, <1>16, <1>17, HeadStep

-----------------------------------------------------------------------------
(* The gates.                                                              *)

LEMMA AnnounceStep ==
  ASSUME IInv, TypeInv', UNCHANGED setting, NEW i \in Invocation,
         NEW b \in Branch \cup {Solo}, Announce(i, b)
  PROVE  IInv'
<1> USE GatesKept
<1> DEFINE k == checkpoint.stage
<1>1. TypeInv /\ FrontInv /\ RowInv /\ WorkInv
  BY DEF IInv
<1>2. Front(i)
  BY <1>1, FrontActs
<1>3. inv[i].stage = k /\ k \in Stage /\ AtHead(i)
  BY <1>2, FrontAlone
<1>4. /\ inv[i].branch[b] = "running" /\ IsGate(k, b) /\ status' = "awaiting_approval"
      /\ UNCHANGED <<row, client, jobs>> /\ UNCHANGED <<checkpoint, worked, applied>>
  BY <1>3 DEF Announce, AtGate, Has
<1>5. /\ Others(i)
      /\ inv'[i].state = inv[i].state /\ inv'[i].base = inv[i].base
      /\ inv'[i].stage = inv[i].stage /\ inv'[i].job = inv[i].job
      /\ inv'[i].branch[b] = "announced"
      /\ \A c \in Branch \cup {Solo} : c # b => inv'[i].branch[c] = inv[i].branch[c]
  BY <1>1, ToDoes DEF Announce
<1>6. <<k, b>> \in Gate /\ b \in BranchesOf(k)
  <2>1. <<k, b>> \in Gate
    BY <1>1, <1>3, <1>4, GateFacts
  <2> QED  BY <1>1, <2>1, GateFacts
<1>7. BranchInv(i, b)
  BY <1>3, <1>6 DEF AtHead
<1>8. BranchInv(i, b)'
  BY <1>4, <1>5, <1>6, <1>7 DEF BranchInv
<1>9. ASSUME NEW c \in BranchesOf(k), c # b PROVE BranchInv(i, c)'
  <2>1. BranchInv(i, c) /\ c \in Branch \cup {Solo}
    BY <1>3 DEF AtHead, BranchesOf
  <2>2. inv'[i].branch[c] = inv[i].branch[c]
    BY <1>5, <1>9, <2>1
  <2> QED  BY <1>4, <1>5, <1>9, <2>1, <2>2, BranchKept
<1>10. JobInv(i)'
  <2> SUFFICES ASSUME inv[i].job # NoJob PROVE JobInv(i)'
    BY <1>5 DEF JobInv
  <2>1. inv[i].job.gate = <<k, b>>
    BY <1>2, <1>6, JobIsOfItsGate
  <2> QED  BY <1>3, <1>4, <1>5, <2>1 DEF AtHead, JobInv, OfGraph
<1>11. AtHead(i)'
  BY <1>1, <1>3, <1>4, <1>5, <1>6, <1>8, <1>9, <1>10, OneBranchStep
<1>12. ~Straggles(i)'
  <2> SUFFICES ASSUME Straggles(i)' PROVE FALSE
    OBVIOUS
  <2>1. IsGate(k, Solo) /\ inv'[i].branch[Solo] \in {"asking", "waiting"}
    BY <1>3, <1>5 DEF Straggles
  <2>2. <<k, Solo>> \in Gate /\ <<k, Solo>> = <<k, b>>
    <3>1. <<k, Solo>> \in Gate /\ OfGraph(<<k, Solo>>)
      BY <1>1, <1>3, <2>1, GateFacts DEF OfGraph
    <3> QED  BY <1>1, <1>6, <3>1, OneGate
  <2> QED  BY <1>5, <2>1, <2>2
<1>13. RowInv' /\ WorkInv'
  BY <1>1, <1>4 DEF RowInv, WorkInv, OfGraph
<1>14. status' # "completed"
  BY <1>4
<1> QED  BY <1>2, <1>4, <1>5, <1>11, <1>12, <1>13, <1>14, HeadStep

LEMMA EnsureStep ==
  ASSUME IInv, TypeInv', UNCHANGED setting, NEW i \in Invocation,
         NEW b \in Branch \cup {Solo}, Ensure(i, b)
  PROVE  IInv'
<1> USE GatesKept
<1> DEFINE k == checkpoint.stage
           g == <<k, b>>
<1>1. TypeInv /\ FrontInv /\ RowInv /\ WorkInv
  BY DEF IInv
<1>2. Front(i)
  BY <1>1, FrontActs
<1>3. inv[i].stage = k /\ k \in Stage /\ AtHead(i)
  BY <1>2, FrontAlone
<1>4. /\ inv[i].branch[b] = "announced" /\ IsGate(k, b) /\ status' = status
      /\ UNCHANGED <<client, jobs>> /\ UNCHANGED <<checkpoint, worked, applied>>
      /\ row' = RowAsked(g)
  BY <1>3 DEF Ensure, AtGate, Has, AskedGate
<1>5. /\ Others(i)
      /\ inv'[i].state = inv[i].state /\ inv'[i].base = inv[i].base
      /\ inv'[i].stage = inv[i].stage /\ inv'[i].job = inv[i].job
      /\ inv'[i].branch[b] = "asking"
      /\ \A c \in Branch \cup {Solo} : c # b => inv'[i].branch[c] = inv[i].branch[c]
  BY <1>1, ToDoes DEF Ensure
<1>6. g \in Gate /\ b \in BranchesOf(k)
  <2>1. g \in Gate
    BY <1>1, <1>3, <1>4, GateFacts
  <2> QED  BY <1>1, <2>1, GateFacts
<1>7. BranchInv(i, b)
  BY <1>3, <1>6 DEF AtHead
<1>8. /\ row[g] = "none" => row'[g] = "pending"
      /\ row[g] # "none" => row'[g] = row[g]
      /\ \A h \in Gate : h # g => row'[h] = row[h]
      /\ row[<<k, b>>] \in {"none", "pending"} \cup Action
  BY <1>1, <1>4, <1>6 DEF RowAsked, TypeInv
<1>9. "none" \notin Action /\ "pending" \notin Action
  BY DEF Action
<1>10. \A h \in Gate : row'[h] \in Action <=> row[h] \in Action
  BY <1>8, <1>9
<1>11. \A h \in Gate : row[h] = "pending" => row'[h] = "pending"
  BY <1>8
<1>12. inv[i].job = NoJob => row'[g] = "pending"
  BY <1>4, <1>6, <1>7, <1>8 DEF BranchInv
<1>13. BranchInv(i, b)'
  BY <1>4, <1>5, <1>6, <1>7, <1>12 DEF BranchInv
<1>14. ASSUME NEW c \in BranchesOf(k), c # b PROVE BranchInv(i, c)'
  <2>1. BranchInv(i, c) /\ c \in Branch \cup {Solo}
    BY <1>3 DEF AtHead, BranchesOf
  <2>2. inv'[i].branch[c] = inv[i].branch[c]
    BY <1>5, <1>14, <2>1
  <2>3. row'[<<k, c>>] = row[<<k, c>>]
    BY <1>1, <1>4, <1>6, <1>14 DEF RowAsked, TypeInv
  <2> QED  BY <1>4, <1>5, <1>14, <2>1, <2>2, <2>3, BranchKept
<1>15. JobInv(i)'
  <2> SUFFICES ASSUME inv[i].job # NoJob PROVE JobInv(i)'
    BY <1>5 DEF JobInv
  <2>1. inv[i].job.gate = g /\ row[g] = inv[i].job.action /\ row[g] \in Action
    BY <1>2, <1>6, JobIsOfItsGate
  <2>2. row'[g] = row[g]
    BY <1>8, <1>9, <2>1
  <2> QED  BY <1>3, <1>4, <1>5, <2>1, <2>2 DEF AtHead, JobInv, OfGraph
<1>16. AtHead(i)'
  BY <1>1, <1>3, <1>4, <1>5, <1>6, <1>13, <1>14, <1>15, OneBranchStep
<1>17. ~Straggles(i)'
  <2> SUFFICES ASSUME Straggles(i)' PROVE FALSE
    OBVIOUS
  <2>1. IsGate(k, Solo) /\ row'[<<k, Solo>>] \in Action /\ inv[i].job = NoJob
    BY <1>3, <1>5 DEF Straggles
  <2>2. <<k, Solo>> = g
    <3>1. <<k, Solo>> \in Gate /\ OfGraph(<<k, Solo>>)
      BY <1>1, <1>3, <2>1, GateFacts DEF OfGraph
    <3> QED  BY <1>1, <1>6, <3>1, OneGate
  <2> QED  BY <1>9, <1>12, <2>1, <2>2
<1>18. RowInv'
  <2>1. g[1] = k /\ ~(k > k) /\ ~(k < k)
    BY <1>3, StageNumbers
  <2>2. \A h \in Gate : h[1] > k \/ h[1] < k => row'[h] = row[h]
    BY <1>8, <2>1
  <2>3. \A c \in checkpoint.done : <<k, c>> \in Gate => row'[<<k, c>>] \in Action
    BY <1>1, <1>10 DEF RowInv
  <2> QED  BY <1>1, <1>4, <2>2, <2>3 DEF RowInv, OfGraph
<1>19. WorkInv'
  BY <1>1, <1>4 DEF WorkInv
<1>20. status' # "completed"
  BY <1>3, <1>4, StageNumbers DEF IInv, OutcomeInv
<1> HIDE DEF k, g
<1>21. checkpoint'.id = checkpoint.id /\ checkpoint'.stage = checkpoint.stage
       /\ UNCHANGED <<client, jobs>>
  BY <1>4
<1> QED  BY <1>2, <1>5, <1>10, <1>11, <1>16, <1>17, <1>18, <1>19, <1>20, <1>21, HeadStep

(* The interrupt of the front.                                             *)
LEMMA FrontInterrupts ==
  ASSUME IInv, TypeInv', UNCHANGED setting, NEW i \in Invocation, Front(i),
         NEW b \in Branch \cup {Solo}, Interrupt(i, b)
  PROVE  IInv'
<1> USE GatesKept
<1> DEFINE k == checkpoint.stage
           g == <<k, b>>
<1>1. TypeInv /\ FrontInv /\ RowInv /\ WorkInv
  BY DEF IInv
<1>3. inv[i].stage = k /\ k \in Stage /\ AtHead(i)
  BY FrontAlone
<1>4. /\ inv[i].branch[b] = "asking" /\ IsGate(k, b) /\ status' = status
      /\ inv[i].job = NoJob
      /\ UNCHANGED <<row, client, jobs>> /\ UNCHANGED <<worked, applied>>
  BY <1>3 DEF Interrupt, AtGate, Has
<1>5. /\ Others(i)
      /\ inv'[i].state = inv[i].state /\ inv'[i].base = inv[i].base
      /\ inv'[i].stage = inv[i].stage /\ inv'[i].job = NoJob
      /\ inv'[i].branch[b] = "waiting"
      /\ \A c \in Branch \cup {Solo} : c # b => inv'[i].branch[c] = inv[i].branch[c]
      /\ checkpoint'.id = checkpoint.id /\ checkpoint'.stage = checkpoint.stage
  BY <1>1, ReturnDoes DEF Interrupt
<1>6. checkpoint'.done = checkpoint.done /\ checkpoint'.asked = checkpoint.asked \cup {b}
  BY <1>1, <1>3 DEF Interrupt, Return, AtHead, TypeInv, CheckpointType
<1>7. g \in Gate /\ b \in BranchesOf(k)
  <2>1. g \in Gate
    BY <1>1, <1>3, <1>4, GateFacts
  <2> QED  BY <1>1, <2>1, GateFacts
<1>8. BranchInv(i, b)
  BY <1>3, <1>7 DEF AtHead
<1>9. row[g] = "pending"
  BY <1>4, <1>7, <1>8 DEF BranchInv
<1>10. BranchInv(i, b)'
  BY <1>4, <1>5, <1>6, <1>7, <1>8, <1>9 DEF BranchInv
<1>11. ASSUME NEW c \in BranchesOf(k), c # b PROVE BranchInv(i, c)'
  <2>1. BranchInv(i, c) /\ c \in Branch \cup {Solo}
    BY <1>3 DEF AtHead, BranchesOf
  <2>2. inv'[i].branch[c] = inv[i].branch[c]
    BY <1>5, <1>11, <2>1
  <2> QED  BY <1>4, <1>5, <1>6, <1>11, <2>1, <2>2, BranchKept
<1>12. JobInv(i)'
  BY <1>5 DEF JobInv
<1>13. AtHead(i)'
  BY <1>1, <1>3, <1>5, <1>7, <1>10, <1>11, <1>12, OneBranchStep
<1>14. ~Straggles(i)'
  <2> SUFFICES ASSUME Straggles(i)' PROVE FALSE
    OBVIOUS
  <2>1. IsGate(k, Solo) /\ row[<<k, Solo>>] \in Action
    BY <1>3, <1>4, <1>5 DEF Straggles
  <2>2. <<k, Solo>> = g
    <3>1. <<k, Solo>> \in Gate /\ OfGraph(<<k, Solo>>)
      BY <1>1, <1>3, <2>1, GateFacts DEF OfGraph
    <3> QED  BY <1>1, <1>7, <3>1, OneGate
  <2> QED  BY <1>9, <2>1, <2>2 DEF Action
<1>15. RowInv'
  BY <1>1, <1>4, <1>5, <1>6, <1>7 DEF RowInv, OfGraph
<1>16. WorkInv'
  BY <1>1, <1>4, <1>5, <1>6 DEF WorkInv
<1>17. status' # "completed"
  BY <1>3, <1>4, StageNumbers DEF IInv, OutcomeInv
<1> QED  BY <1>4, <1>5, <1>13, <1>14, <1>15, <1>16, <1>17, HeadStep

(* A front keeps its place when nothing but the interrupts of the          *)
(* checkpoint grows.                                                       *)
LEMMA HeadKept ==
  ASSUME UNCHANGED setting, NEW m \in Invocation, AtHead(m), inv'[m] = inv[m], UNCHANGED row,
         checkpoint'.id = checkpoint.id, checkpoint'.stage = checkpoint.stage,
         checkpoint'.done = checkpoint.done, checkpoint.asked \subseteq checkpoint'.asked
  PROVE  AtHead(m)'
<1> USE GatesKept
<1>1. ASSUME NEW c \in BranchesOf(checkpoint.stage) PROVE BranchInv(m, c)'
  <2>1. BranchInv(m, c)
    BY <1>1 DEF AtHead
  <2> QED  BY <2>1, BranchKept
<1>2. JobInv(m)'
  BY DEF AtHead, JobInv, OfGraph
<1> QED  BY <1>1, <1>2 DEF AtHead

(* The interrupt of a straggler.                                           *)
LEMMA StragglerInterrupts ==
  ASSUME IInv, TypeInv', UNCHANGED setting, NEW i \in Invocation, ~Front(i),
         NEW b \in Branch \cup {Solo}, Interrupt(i, b)
  PROVE  IInv'
<1> USE GatesKept
<1>1. TypeInv /\ FrontInv /\ RowInv /\ WorkInv /\ WayInv
  BY DEF IInv
<1>2. /\ Active(i) /\ inv[i].branch[b] = "asking" /\ IsGate(inv[i].stage, b) /\ status' = status
      /\ inv[i].job = NoJob
      /\ UNCHANGED <<row, client, jobs>> /\ UNCHANGED <<worked, applied>>
  BY DEF Interrupt, AtGate, Has, Active
<1>3. Straggles(i)
  BY <1>2 DEF Front
<1>4. b = Solo /\ Behind(i)
  BY <1>1, <1>2, <1>3, StragglersGate DEF FrontInv
<1>5. /\ Others(i)
      /\ inv'[i].state = inv[i].state /\ inv'[i].base = inv[i].base
      /\ inv'[i].stage = inv[i].stage /\ inv'[i].job = NoJob
      /\ inv'[i].branch[b] = "waiting"
      /\ checkpoint'.id = checkpoint.id /\ checkpoint'.stage = checkpoint.stage
  BY <1>1, ReturnDoes DEF Interrupt
<1>6. checkpoint'.done = checkpoint.done /\ checkpoint.asked \subseteq checkpoint'.asked
  BY <1>1 DEF Interrupt, Return, TypeInv, CheckpointType
<1>7. \A c \in checkpoint'.asked : c \in checkpoint.asked \/ <<checkpoint.stage, c>> \in Gate
  <2>1. CASE checkpoint.id # inv[i].base
    BY <2>1 DEF Interrupt, Return
  <2>2. CASE checkpoint.id = inv[i].base
    <3>1. <<checkpoint.stage, b>> \in Gate
      BY <1>1, <1>2, <1>4, <2>2, GateFacts DEF Behind
    <3>2. checkpoint'.asked = checkpoint.asked \cup {b}
      BY <1>1, <2>2 DEF Interrupt, Return, TypeInv, CheckpointType
    <3> QED  BY <3>1, <3>2
  <2> QED  BY <2>1, <2>2
<1>8. RowInv'
  BY <1>1, <1>2, <1>5, <1>6, <1>7 DEF RowInv, OfGraph
<1>9. Active(i)' /\ Straggles(i)'
  BY <1>2, <1>3, <1>4, <1>5 DEF Straggles, Active
<1>10. ~Front(i)'
  BY <1>9 DEF Front
<1>11. ASSUME NEW m \in Invocation, m # i
       PROVE  (Front(m)' <=> Front(m)) /\ (Active(m)' <=> Active(m)) /\ inv'[m] = inv[m]
  BY <1>1, <1>2, <1>5, <1>11, FrontKept DEF Others
<1>12. \A m \in Invocation : Front(m)' <=> Front(m)
  BY <1>10, <1>11
<1>13. FrontInv'
  <2>1. ASSUME NEW m \in Invocation, Active(m)' PROVE Behind(m)'
    BY <1>1, <1>4, <1>5, <1>11, <2>1 DEF FrontInv, Behind
  <2>2. ASSUME NEW m \in Invocation, Front(m)' PROVE AtHead(m)'
    <3>1. m # i /\ AtHead(m)
      BY <1>1, <1>10, <1>12, <2>2 DEF FrontInv
    <3> QED  BY <1>2, <1>5, <1>6, <1>11, <3>1, HeadKept
  <2> QED  BY <1>1, <1>12, <2>1, <2>2 DEF FrontInv
<1>14. WayInv'
  <2>1. Hasty
    BY <1>1, <1>2 DEF WayInv
  <2> QED  BY <1>1, <1>2, <1>5, <1>6, <1>12, <2>1 DEF WayInv
<1>15. SeveralInv'
  <2>1. Ambiguous => Ambiguous'
    BY <1>6 DEF Ambiguous
  <2> QED  BY <1>5, <1>12, <2>1 DEF IInv, SeveralInv
<1>16. WorkInv'
  BY <1>1, <1>2, <1>5, <1>6 DEF WorkInv
<1>17. OutcomeInv'
  BY <1>2, <1>5 DEF IInv, OutcomeInv
<1> QED  BY <1>8, <1>13, <1>14, <1>15, <1>16, <1>17 DEF IInv

(* An invocation that is over.                                             *)
LEMMA OverStep ==
  ASSUME IInv, TypeInv', UNCHANGED setting, NEW i \in Invocation,
         inv' = [inv EXCEPT ![i].state = "over"],
         UNCHANGED <<checkpoint, row, client, worked, applied>>, jobs' \subseteq jobs,
         checkpoint.stage <= Last => status' # "completed",
         checkpoint.stage > Last => status' = status,
         Front(i) /\ Several /\ Kind[checkpoint.stage] = "wave" => Ambiguous
  PROVE  IInv'
<1> USE GatesKept
<1>1. TypeInv /\ FrontInv /\ RowInv /\ WorkInv /\ WayInv
  BY DEF IInv
<1>2. Others(i) /\ ~Active(i)'
  BY <1>1, OverDoes
<1>3. ASSUME NEW m \in Invocation, m # i
      PROVE  (Front(m)' <=> Front(m)) /\ (Active(m)' <=> Active(m)) /\ inv'[m] = inv[m]
  BY <1>1, <1>2, <1>3, FrontKept DEF Others
<1>4. \A m \in Invocation : (Front(m)' => Front(m)) /\ (Active(m)' => Active(m))
  BY <1>2, <1>3 DEF Front
<1>5. FrontInv'
  <2>1. ASSUME NEW m \in Invocation, Active(m)' PROVE Behind(m)'
    BY <1>1, <1>2, <1>3, <2>1 DEF FrontInv, Behind
  <2>2. ASSUME NEW m \in Invocation, Front(m)' PROVE AtHead(m)'
    <3>1. m # i /\ AtHead(m)
      BY <1>1, <1>2, <1>4, <2>2 DEF FrontInv, Front
    <3> QED  BY <1>3, <3>1, HeadKept
  <2> QED  BY <1>1, <1>4, <2>1, <2>2 DEF FrontInv
<1>6. WayInv'
  <2>1. ~Hasty => \A m \in Invocation : Active(m)' => Front(m)'
    BY <1>1, <1>2, <1>3 DEF WayInv
  <2>2. Idle => Idle'
    BY <1>4 DEF Idle, Active
  <2> QED  BY <1>1, <1>4, <2>1, <2>2 DEF WayInv
<1>7. SeveralInv'
  <2>1. Ambiguous' = Ambiguous
    BY DEF Ambiguous
  <2> QED  BY <1>3, <2>1 DEF IInv, SeveralInv
<1>8. RowInv' /\ WorkInv' /\ OutcomeInv'
  BY <1>1 DEF RowInv, WorkInv, OutcomeInv, IInv, OfGraph
<1> QED  BY <1>5, <1>6, <1>7, <1>8 DEF IInv

LEMMA PauseStep ==
  ASSUME IInv, TypeInv', UNCHANGED setting, NEW i \in Invocation, Pause(i)
  PROVE  IInv'
<1>1. TypeInv /\ FrontInv /\ RowInv /\ OutcomeInv
  BY DEF IInv
<1>2. checkpoint.stage <= Last => status' # "completed"
  BY <1>1 DEF Pause, OutcomeInv
<1>3. ASSUME Front(i), Several, Kind[checkpoint.stage] = "wave" PROVE Ambiguous
  <2>1. AtHead(i) /\ inv[i].stage = checkpoint.stage /\ checkpoint.stage \in Stage
    BY <1>3, FrontAlone
  <2>2. BranchesOf(checkpoint.stage) = Branch
    BY <1>3, <2>1, StageNumbers DEF BranchesOf
  <2>3. PICK a \in Gated, b \in Gated : a # b
    BY <1>3 DEF Several
  <2>4. ASSUME NEW c \in Gated PROVE c \in checkpoint.asked
    <3>1. c \in Branch /\ <<checkpoint.stage, c>> \in Gate
      BY <1>1, <1>3, <2>1, GateFacts DEF IsGate
    <3>2. inv[i].branch[c] \in {"waiting", "done"} /\ BranchInv(i, c)
      BY <2>1, <2>2, <3>1 DEF Pause, AtHead
    <3>3. c \notin checkpoint.done
      BY <1>1, <1>3, <3>1 DEF RowInv
    <3> QED  BY <3>1, <3>2, <3>3 DEF BranchInv
  <2> QED  BY <2>3, <2>4 DEF Ambiguous
<1> QED  BY <1>2, <1>3, OverStep DEF Pause

LEMMA WorkerDiesStep ==
  ASSUME Orderly, IInv, TypeInv', UNCHANGED setting, NEW i \in Invocation, WorkerDies(i)
  PROVE  IInv'
<1>1. checkpoint.stage <= Last => status' # "completed"
  BY DEF IInv, WorkerDies, OutcomeInv
<1>2. ~Several
  BY OrderlyFacts DEF IInv, WorkerDies, TypeInv
<1> QED  BY <1>1, <1>2, OverStep DEF WorkerDies

LEMMA AnswerStep ==
  ASSUME IInv, TypeInv', UNCHANGED setting, NEW i \in Invocation,
         NEW b \in Branch \cup {Solo}, Answer(i, b)
  PROVE  IInv'
<1> USE GatesKept
<1> DEFINE k == checkpoint.stage
           g == <<k, b>>
<1>1. TypeInv /\ FrontInv /\ RowInv /\ WorkInv
  BY DEF IInv
<1>2. Front(i)
  BY <1>1, FrontActs
<1>3. inv[i].stage = k /\ k \in Stage /\ AtHead(i) /\ Active(i)
  BY <1>2, FrontAlone
<1>4. /\ inv[i].branch[b] = "asking" /\ IsGate(k, b) /\ inv[i].job # NoJob
      /\ UNCHANGED <<row, client, jobs>>
      /\ applied' = applied \cup {<<g, inv[i].job.gate>>}
  BY <1>3 DEF Answer, AtGate, Has, AskedGate
<1>5. g \in Gate /\ b \in BranchesOf(k) /\ g[1] = k /\ g[2] = b
  <2>1. g \in Gate
    BY <1>1, <1>3, <1>4, GateFacts
  <2> QED  BY <1>1, <2>1, GateFacts
<1>6. /\ \A h \in Gate : h[1] = k => h = g
      /\ inv[i].job.gate = g /\ row[g] = inv[i].job.action /\ row[g] \in Action
      /\ OfGraph(g) \/ ~Several
  <2>1. inv[i].job.gate = g
    BY <1>2, <1>4, <1>5, JobIsOfItsGate
  <2> QED  BY <1>2, <1>4, <1>5, <2>1, JobIsOfItsGate
<1>7. \A pair \in applied' : pair[1] = pair[2]
  BY <1>1, <1>4, <1>6 DEF WorkInv
<1>8. \A h \in Gate : h[1] = k => row[h] # "pending"
  BY <1>6 DEF Action
<1>9. status # "completed"
  BY <1>3, StageNumbers DEF IInv, OutcomeInv
<1>10. CASE Kind[k] = "wave"
  <2>1. Return(i, b, "done", NoJob) /\ status' = "executing"
        /\ worked' = [worked EXCEPT ![g] = @ + 1]
    BY <1>3, <1>10 DEF Answer, Worked
  <2>2. /\ Others(i)
        /\ inv'[i].state = inv[i].state /\ inv'[i].base = inv[i].base
        /\ inv'[i].stage = inv[i].stage /\ inv'[i].job = NoJob
        /\ inv'[i].branch[b] = "done"
        /\ \A c \in Branch \cup {Solo} : c # b => inv'[i].branch[c] = inv[i].branch[c]
        /\ checkpoint'.id = checkpoint.id /\ checkpoint'.stage = checkpoint.stage
    BY <1>1, <2>1, ReturnDoes
  <2>3. checkpoint'.done = checkpoint.done \cup {b} /\ checkpoint'.asked = checkpoint.asked
    BY <1>1, <1>3, <2>1 DEF Return, AtHead, TypeInv, CheckpointType
  <2>4. b \notin checkpoint.done
    BY <1>3, <1>4, <1>5 DEF AtHead, BranchInv
  <2>5. ~Several /\ ~IsGate(k, Solo)
    BY <1>1, <1>3, <1>5, <1>6, <1>10, GateFacts DEF OfGraph
  <2>6. BranchInv(i, b)'
    BY <2>2, <2>3 DEF BranchInv
  <2>7. ASSUME NEW c \in BranchesOf(k), c # b PROVE BranchInv(i, c)'
    <3>1. BranchInv(i, c) /\ c \in Branch \cup {Solo}
      BY <1>3 DEF AtHead, BranchesOf
    <3>2. <<k, c>> \notin Gate
      BY <1>6, <2>7
    <3>3. inv'[i].branch[c] = inv[i].branch[c]
      BY <2>2, <2>7, <3>1
    <3> QED  BY <2>2, <2>3, <2>7, <3>1, <3>2, <3>3 DEF BranchInv
  <2>8. JobInv(i)'
    BY <2>2 DEF JobInv
  <2>9. AtHead(i)'
    BY <1>1, <1>3, <1>5, <2>2, <2>6, <2>7, <2>8, OneBranchStep
  <2>10. ~Straggles(i)'
    BY <1>3, <2>2, <2>5 DEF Straggles
  <2>11. RowInv'
    BY <1>1, <1>3, <1>4, <1>6, <1>10, <2>2, <2>3, <2>5 DEF RowInv, OfGraph
  <2>12. WorkInv'
    <3>1. worked \in [Stage \X (Branch \cup {Solo}) -> Nat] /\ g \in DOMAIN worked
      BY <1>1, <1>3 DEF TypeInv
    <3>2. worked[g] = 0 /\ worked'[g] = 1 /\ DOMAIN worked' = DOMAIN worked
      BY <1>1, <2>1, <2>4, <3>1 DEF WorkInv
    <3>3. \A p \in DOMAIN worked : p # g => worked'[p] = worked[p]
      BY <2>1, <3>1
    <3>4. ~(k > k)
      BY <1>3, StageNumbers
    <3>5. \A p \in DOMAIN worked : worked'[p] <= 1
      BY <1>1, <3>2, <3>3 DEF WorkInv
    <3>6. \A p \in DOMAIN worked : p[1] > k => worked'[p] = 0
      BY <1>1, <3>3, <3>4 DEF WorkInv
    <3>7. \A p \in DOMAIN worked : p[1] = k /\ p[2] \notin checkpoint'.done => worked'[p] = 0
      BY <1>1, <2>3, <3>3 DEF WorkInv
    <3> QED  BY <1>7, <2>2, <3>2, <3>5, <3>6, <3>7 DEF WorkInv
  <2>13. status' # "completed" /\ UNCHANGED <<client, jobs>> /\ row' = row
    BY <1>4, <2>1
  <2> HIDE DEF k, g
  <2> QED  BY <1>2, <2>2, <2>9, <2>10, <2>11, <2>12, <2>13, HeadStep
<1>11. CASE Kind[k] # "wave" /\ Refused(i)
  <2>1. Finish(i) /\ status' = "rejected" /\ UNCHANGED worked
    BY <1>3, <1>11 DEF Answer
  <2>2. OfGraph(g) /\ row[g] = "reject"
    BY <1>6, <1>11 DEF OfGraph, Refused
  <2>3. \A p \in DOMAIN worked' : worked'[p] <= 1
    BY <1>1, <2>1 DEF WorkInv
  <2>4. status' = "rejected" /\ \E h \in Gate : OfGraph(h) /\ row[h] = "reject"
    BY <1>5, <2>1, <2>2
  <2> QED  BY <1>2, <1>4, <1>7, <1>8, <2>1, <2>3, <2>4, FinishStep
<1>12. CASE Kind[k] # "wave" /\ ~Refused(i)
  <2>1. Advance(i) /\ status' # "completed" /\ UNCHANGED worked
    BY <1>3, <1>9, <1>12 DEF Answer
  <2>2. row[g] = "approve"
    BY <1>6, <1>12 DEF Refused, Action
  <2>3. \A h \in Gate : h[1] = k => row[h] # "pending" /\ (OfGraph(h) => row[h] = "approve")
    BY <1>6, <2>2
  <2>4. inv[i].stage # Last
    <3>1. Kind[k] # "deliver"
      BY <1>4, <1>12 DEF IsGate
    <3> QED  BY <1>3, <3>1, StageFacts
  <2> QED  BY <1>2, <1>4, <1>7, <2>1, <2>3, <2>4, AdvanceStep
<1> QED  BY <1>10, <1>11, <1>12

-----------------------------------------------------------------------------
(* Resolving and resuming.                                                 *)

(* A decision that waits for the worker is the only thing on its way,      *)
(* unless several branches of the wave ask.                                *)
LEMMA JobAlone ==
  ASSUME Orderly, IInv, NEW j \in jobs
  PROVE  /\ j \in Decision /\ j.gate \in Gate /\ j.action \in Action
         /\ j.gate[1] = checkpoint.stage /\ checkpoint.stage \in Stage
         /\ j.gate[2] \notin checkpoint.done /\ j.action = row[j.gate]
         /\ \A i \in Invocation : ~Front(i)
         /\ OfGraph(j.gate) \/ ~Several =>
              jobs \ {j} = {} /\ \A r \in Reviewer : client[r] = <<>>
<1>1. TypeInv /\ WayInv
  BY DEF IInv
<1>2. j \in Decision
  BY <1>1 DEF TypeInv
<1>3. j.gate \in Gate /\ j.action \in Action
  BY <1>2 DEF Decision
<1>4. /\ j.gate[1] = checkpoint.stage /\ j.gate[2] \notin checkpoint.done /\ j.action = row[j.gate]
      /\ \A i \in Invocation : ~Front(i)
  BY <1>1 DEF WayInv
<1>5. checkpoint.stage \in Stage
  BY <1>1, <1>3, <1>4, GateFacts
<1>6. ASSUME OfGraph(j.gate) \/ ~Several, NEW h \in Gate, h[1] = checkpoint.stage
      PROVE  h = j.gate
  <2>1. OfGraph(h) \/ ~Several
    BY <1>4, <1>6 DEF OfGraph
  <2> QED  BY <1>1, <1>3, <1>4, <1>6, <2>1, OneGate
<1>7. ASSUME OfGraph(j.gate) \/ ~Several, NEW n \in jobs PROVE n = j
  <2>1. n \in Decision
    BY <1>1 DEF TypeInv
  <2>2. n.gate \in Gate /\ n.gate[1] = checkpoint.stage
    BY <1>1, <2>1 DEF WayInv, Decision
  <2>3. n.gate = j.gate
    BY <1>6, <1>7, <2>2
  <2> QED  BY <1>1, <2>3 DEF WayInv
<1>8. ASSUME OfGraph(j.gate) \/ ~Several, NEW r \in Reviewer, client[r] # <<>> PROVE FALSE
  <2>1. client[r][2] \in Gate /\ client[r][2][1] = checkpoint.stage
        /\ (client[r][1] = "checked" => row[client[r][2]] = "pending")
        /\ (client[r][1] # "checked" => client[r][1] = "resolved")
    BY <1>8, HeldGate
  <2>2. client[r][2] = j.gate
    BY <1>6, <1>8, <2>1
  <2>3. row[j.gate] # "pending"
    BY <1>3, <1>4 DEF Action
  <2>4. client[r][1] = "resolved"
    BY <2>1, <2>2, <2>3
  <2> QED  BY <1>1, <1>8, <2>2, <2>4 DEF WayInv
<1> QED  BY <1>2, <1>3, <1>4, <1>5, <1>7, <1>8

LEMMA StartResumeStep ==
  ASSUME Orderly, IInv, TypeInv', UNCHANGED setting, NEW i \in Invocation, NEW j \in jobs,
         StartResume(i, j)
  PROVE  IInv'
<1> USE GatesKept
<1> DEFINE k == checkpoint.stage
<1>1. TypeInv /\ FrontInv /\ RowInv /\ WorkInv /\ WayInv
  BY DEF IInv
<1>2. /\ j \in Decision /\ j.gate \in Gate /\ j.action \in Action
      /\ j.gate[1] = k /\ k \in Stage
      /\ j.gate[2] \notin checkpoint.done /\ j.action = row[j.gate]
      /\ \A m \in Invocation : ~Front(m)
  BY JobAlone
<1>3. k <= Last /\ ~(k > Last)
  BY <1>2, StageNumbers
<1>4. /\ jobs' = jobs \ {j} /\ inv[i].state = "none"
      /\ UNCHANGED <<row, client, worked, applied>>
  BY DEF StartResume
<1>5. CASE Ambiguous
  <2>1. status' = "failed" /\ inv' = [inv EXCEPT ![i].state = "over"] /\ UNCHANGED checkpoint
    BY <1>5 DEF StartResume
  <2>2. jobs' \subseteq jobs /\ UNCHANGED <<checkpoint, row, client, worked, applied>>
    BY <1>4, <2>1
  <2> HIDE DEF k
  <2>3. checkpoint.stage <= Last => status' # "completed"
    BY <2>1
  <2>4. checkpoint.stage > Last => status' = status
    BY <1>3 DEF k
  <2> QED  BY <1>5, <2>1, <2>2, <2>3, <2>4, OverStep
<1>6. CASE ~Ambiguous
  <2>1. OfGraph(j.gate) \/ ~Several
    BY <1>2, <1>3, <1>6 DEF IInv, SeveralInv, OfGraph
  <2>2. jobs' = {} /\ \A r \in Reviewer : client[r] = <<>>
    BY <1>4, <2>1, JobAlone
  <2>3. /\ checkpoint' = [checkpoint EXCEPT !.asked = {}] /\ status' = status
        /\ inv' = [inv EXCEPT ![i] = [state |-> "active", base |-> checkpoint.id, stage |-> k,
                     job |-> j, branch |-> Load(k, checkpoint.done)]]
    BY <1>3, <1>6 DEF StartResume, Kept
  <2>4. /\ checkpoint'.id = checkpoint.id /\ checkpoint'.stage = k
        /\ checkpoint'.done = checkpoint.done /\ checkpoint'.asked = {}
    BY <1>1, <2>3 DEF TypeInv, CheckpointType
  <2>5. /\ Others(i)
        /\ inv'[i].state = "active" /\ inv'[i].base = checkpoint.id /\ inv'[i].stage = k
        /\ inv'[i].job = j /\ inv'[i].branch = Load(k, checkpoint.done)
    BY <1>1, <2>3 DEF Others, TypeInv
  <2>6. j # NoJob
    <3>1. j \in [gate : Stage \X (Branch \cup {Solo}), action : Action, by : Reviewer]
      BY <1>2 DEF Decision, Gate
    <3> QED  BY <3>1, NoJobAssumption
  <2>7. Front(i)'
    BY <2>5, <2>6 DEF Front, Active, Straggles
  <2>8. ASSUME NEW m \in Invocation, m # i
        PROVE  ~Front(m)' /\ (Active(m)' <=> Active(m)) /\ inv'[m] = inv[m]
    BY <1>1, <1>2, <1>4, <2>5, <2>8, FrontKept DEF Others
  <2>9. \A b \in Branch \cup {Solo} : inv'[i].branch[b] =
          IF b \notin BranchesOf(k) THEN "idle"
          ELSE IF b \in checkpoint.done THEN "done" ELSE "running"
    BY <2>5 DEF Load
  <2>10. \A b \in BranchesOf(k) : b \in Branch \cup {Solo}
    BY DEF BranchesOf
  <2>11. ASSUME NEW b \in BranchesOf(k) PROVE BranchInv(i, b)'
    <3>1. inv'[i].branch[b] = IF b \in checkpoint.done THEN "done" ELSE "running"
      BY <2>9, <2>10, <2>11
    <3> QED  BY <2>4, <2>5, <2>6, <3>1 DEF BranchInv
  <2>12. JobInv(i)'
    <3>1. j.gate[2] \in BranchesOf(k) /\ j.gate[2] \in Branch \cup {Solo}
      BY <1>1, <1>2, GateFacts
    <3>2. inv'[i].branch[j.gate[2]] = "running"
      BY <1>2, <2>9, <3>1
    <3> QED  BY <1>2, <1>4, <2>1, <2>4, <2>5, <3>2 DEF JobInv, OfGraph
  <2>13. AtHead(i)'
    <3>1. \A b \in BranchesOf(k) : inv'[i].branch[b] # "idle" /\ BranchInv(i, b)'
      BY <2>9, <2>10, <2>11
    <3>2. \A b \in (Branch \cup {Solo}) \ BranchesOf(k) : inv'[i].branch[b] = "idle"
      BY <2>9
    <3> QED  BY <1>2, <2>4, <2>5, <2>12, <3>1, <3>2 DEF AtHead
  <2>14. FrontInv'
    <3>1. ASSUME NEW m \in Invocation, Active(m)' PROVE Behind(m)'
      <4>1. CASE m = i
        BY <1>1, <1>2, <2>4, <2>5, <4>1 DEF Behind, TypeInv, CheckpointType
      <4>2. CASE m # i
        BY <1>1, <2>4, <2>8, <3>1, <4>2 DEF FrontInv, Behind
      <4> QED  BY <4>1, <4>2
    <3> QED  BY <2>8, <2>13, <3>1 DEF FrontInv
  <2>15. WayInv'
    <3>1. ~Hasty => \A m \in Invocation : Active(m)' => Front(m)'
      BY <1>1, <1>2, <2>7, <2>8 DEF WayInv
    <3> QED  BY <1>4, <2>2, <3>1 DEF WayInv
  <2>16. SeveralInv'
    BY <2>7 DEF SeveralInv
  <2>17. RowInv'
    BY <1>1, <1>4, <2>4 DEF RowInv, OfGraph
  <2>18. WorkInv'
    BY <1>1, <1>4, <2>4 DEF WorkInv
  <2>19. OutcomeInv'
    BY <1>4, <2>3, <2>4 DEF IInv, OutcomeInv, OfGraph
  <2> QED  BY <2>14, <2>15, <2>16, <2>17, <2>18, <2>19 DEF IInv
<1> QED  BY <1>5, <1>6

(* The resolve endpoint leaves the invocations alone.                      *)
LEMMA RequestStep ==
  ASSUME IInv, UNCHANGED <<setting, checkpoint, inv, row, status, worked, applied>>
  PROVE  /\ RowInv' /\ FrontInv' /\ SeveralInv' /\ WorkInv' /\ OutcomeInv'
         /\ \A i \in Invocation : (Front(i)' <=> Front(i)) /\ (Active(i)' <=> Active(i))
         /\ Idle' = Idle
<1> USE GatesKept
<1>1. \A i \in Invocation : (Front(i)' <=> Front(i)) /\ (Active(i)' <=> Active(i))
  BY FrontKept DEF IInv
<1>2. \A i \in Invocation : Front(i) => AtHead(i)'
  BY HeadKept DEF IInv, FrontInv
<1>3. FrontInv'
  <2>1. \A i \in Invocation : Active(i) => Behind(i)'
    BY DEF IInv, FrontInv, Behind
  <2> QED  BY <1>1, <1>2, <2>1 DEF IInv, FrontInv
<1>4. RowInv' /\ WorkInv' /\ OutcomeInv'
  BY DEF IInv, RowInv, WorkInv, OutcomeInv, OfGraph
<1>5. SeveralInv'
  <2>1. Ambiguous' = Ambiguous
    BY DEF Ambiguous
  <2> QED  BY <1>1, <2>1 DEF IInv, SeveralInv
<1>6. Idle' = Idle
  BY DEF Idle
<1> QED  BY <1>1, <1>3, <1>4, <1>5, <1>6

LEMMA CheckStep ==
  ASSUME Orderly, IInv, TypeInv', UNCHANGED setting, NEW r \in Reviewer, NEW g \in Gate,
         NEW a \in Action, Check(r, g, a)
  PROVE  IInv'
<1> USE GatesKept
<1>1. TypeInv /\ RowInv /\ WayInv
  BY DEF IInv
<1>2. /\ UNCHANGED <<checkpoint, inv, status, row, jobs, worked, applied>>
      /\ row[g] = "pending" /\ (Hasty \/ Idle)
      /\ client' = [client EXCEPT ![r] = <<"checked", g, a>>]
  BY DEF Check
<1>3. /\ RowInv' /\ FrontInv' /\ SeveralInv' /\ WorkInv' /\ OutcomeInv'
      /\ \A i \in Invocation : (Front(i)' <=> Front(i)) /\ (Active(i)' <=> Active(i))
      /\ Idle' = Idle
  BY <1>2, RequestStep
<1>4. g[1] = checkpoint.stage
  <2>1. g[1] \in Nat /\ checkpoint.stage \in Nat
    BY <1>1, GateFacts, StageNumbers, StageFacts, CheckpointsStage
  <2>2. ~(g[1] > checkpoint.stage) /\ ~(g[1] < checkpoint.stage)
    BY <1>1, <1>2 DEF RowInv
  <2> QED  BY <2>1, <2>2
<1>5. \A q \in Reviewer : q = r /\ client'[q] = <<"checked", g, a>>
  BY <1>1, <1>2, OrderlyFacts DEF TypeInv
<1>6. <<"checked", g, a>>[1] = "checked" /\ <<"checked", g, a>>[2] = g /\ "checked" # "resolved"
  OBVIOUS
<1>7. \A q \in Reviewer : client'[q] # <<>> =>
        /\ client'[q][2][1] = checkpoint.stage
        /\ client'[q][1] = "checked" /\ row[client'[q][2]] = "pending"
  BY <1>2, <1>4, <1>5, <1>6
<1>8. WayInv'
  <2>1. \A j \in jobs : /\ j.gate[1] = checkpoint.stage /\ j.gate[2] \notin checkpoint.done
                        /\ j.action = row[j.gate]
    BY <1>1 DEF WayInv
  <2>2. \A j, n \in jobs : j.gate = n.gate => j = n
    BY <1>1 DEF WayInv
  <2>3. jobs # {} => \A i \in Invocation : ~Front(i)'
    BY <1>1, <1>3 DEF WayInv
  <2>4. ~Hasty => (\A i \in Invocation : Active(i)' => Front(i)') /\ Idle'
    BY <1>1, <1>2, <1>3 DEF WayInv
  <2> QED  BY <1>2, <1>7, <2>1, <2>2, <2>3, <2>4 DEF WayInv
<1> QED  BY <1>3, <1>8 DEF IInv

LEMMA HandOverStep ==
  ASSUME Orderly, IInv, TypeInv', UNCHANGED setting, NEW r \in Reviewer, HandOver(r)
  PROVE  IInv'
<1> USE GatesKept
<1> DEFINE g == client[r][2]
           n == [gate |-> g, action |-> client[r][3], by |-> r]
<1>1. TypeInv /\ RowInv /\ WayInv
  BY DEF IInv
<1>2. /\ UNCHANGED <<checkpoint, inv, status, row, worked, applied>>
      /\ client[r] # <<>> /\ client[r][1] = "resolved"
      /\ jobs' = jobs \cup {n} /\ client' = [client EXCEPT ![r] = <<>>]
  BY DEF HandOver
<1>3. /\ RowInv' /\ FrontInv' /\ SeveralInv' /\ WorkInv' /\ OutcomeInv'
      /\ \A i \in Invocation : (Front(i)' <=> Front(i)) /\ (Active(i)' <=> Active(i))
  BY <1>2, RequestStep
<1>4. \A q \in Reviewer : client'[q] = <<>>
  BY <1>1, <1>2, OrderlyFacts DEF TypeInv
<1>5. /\ g[1] = checkpoint.stage /\ row[g] = client[r][3] /\ g[2] \notin checkpoint.done
      /\ \A i \in Invocation : ~Front(i)
      /\ \A j \in jobs : j.gate # g
  BY <1>1, <1>2 DEF WayInv
<1>6. n.gate = g /\ n.action = row[g]
  BY <1>5
<1> HIDE DEF n, g
<1>7. \A j \in jobs' : /\ j.gate[1] = checkpoint.stage /\ j.gate[2] \notin checkpoint.done
                       /\ j.action = row[j.gate]
  BY <1>1, <1>2, <1>5, <1>6 DEF WayInv
<1>8. \A j, m \in jobs' : j.gate = m.gate => j = m
  BY <1>1, <1>2, <1>5, <1>6 DEF WayInv
<1>9. WayInv'
  <2>1. ~Hasty => \A i \in Invocation : Active(i)' => Front(i)'
    BY <1>1, <1>3 DEF WayInv
  <2> QED  BY <1>2, <1>3, <1>4, <1>5, <1>7, <1>8, <2>1 DEF WayInv
<1> QED  BY <1>3, <1>9 DEF IInv

LEMMA ApiDiesStep ==
  ASSUME Orderly, IInv, TypeInv', UNCHANGED setting, NEW r \in Reviewer, ApiDies(r)
  PROVE  IInv'
<1> USE GatesKept
<1>1. TypeInv /\ WayInv
  BY DEF IInv
<1>2. /\ UNCHANGED <<checkpoint, inv, status, row, jobs, worked, applied>>
      /\ client' = [client EXCEPT ![r] = <<>>]
  BY DEF ApiDies
<1>3. /\ RowInv' /\ FrontInv' /\ SeveralInv' /\ WorkInv' /\ OutcomeInv'
      /\ \A i \in Invocation : (Front(i)' <=> Front(i)) /\ (Active(i)' <=> Active(i))
  BY <1>2, RequestStep
<1>4. \A q \in Reviewer : client'[q] = <<>>
  BY <1>1, <1>2, OrderlyFacts DEF TypeInv
<1>5. WayInv'
  BY <1>1, <1>2, <1>3, <1>4 DEF WayInv
<1> QED  BY <1>3, <1>5 DEF IInv

(* The row is resolved: who stood at the gate without the decision is left *)
(* behind from here on.                                                    *)
LEMMA CommitResolutionStep ==
  ASSUME Orderly, IInv, TypeInv', UNCHANGED setting, NEW r \in Reviewer, CommitResolution(r)
  PROVE  IInv'
<1> USE GatesKept
<1> DEFINE k == checkpoint.stage
           g == client[r][2]
           a == client[r][3]
<1>1. TypeInv /\ RowInv /\ FrontInv /\ WayInv
  BY DEF IInv
<1>2. /\ UNCHANGED <<checkpoint, inv, status, jobs, worked, applied>>
      /\ client[r] # <<>> /\ client[r][1] = "checked"
      /\ row' = [row EXCEPT ![g] = a]
      /\ client' = [client EXCEPT ![r] = <<"resolved", g, a>>]
  BY <1>1 DEF CommitResolution, TypeInv
<1>3. g \in Gate /\ g[1] = k /\ a \in Action /\ row[g] = "pending"
  BY <1>2, HeldGate
<1>4. k \in Stage /\ g = <<k, g[2]>> /\ g[2] \in BranchesOf(k) /\ g[2] \in Branch \cup {Solo}
  BY <1>1, <1>3, GateFacts
<1>5. row'[g] = a /\ \A h \in Gate : h # g => row'[h] = row[h]
  BY <1>1, <1>2, <1>3 DEF TypeInv
<1>6. "pending" \notin Action /\ "none" \notin Action
  BY DEF Action
<1>7. \A h \in Gate : row[h] \in Action => row'[h] \in Action /\ row'[h] = row[h]
  BY <1>3, <1>5, <1>6
<1> HIDE DEF g, a, k
<1>8. ASSUME NEW i \in Invocation PROVE ~Front(i)'
  <2>1. Active(i)' => Active(i)
    BY <1>2 DEF Active
  <2>2. ASSUME Active(i), Straggles(i) PROVE Straggles(i)'
    <3>1. inv[i].stage \in Stage
      BY <1>1, <2>2, ActiveStage
    <3>2. <<inv[i].stage, Solo>> \in Gate
      BY <1>1, <2>2, <3>1, GateFacts DEF Straggles
    <3> QED  BY <1>2, <1>7, <2>2, <3>2 DEF Straggles
  <2>3. ASSUME Front(i) PROVE Straggles(i)'
    <3>1. Hasty /\ Active(i) /\ AtHead(i) /\ inv[i].stage = k
      BY <1>2, <2>3, FrontAlone DEF k
    <3>2. OfGraph(g) /\ g[2] = Solo
      <4>1. OfGraph(g)
        BY <1>1, <1>3, <3>1, GateFacts, OrderlyFacts
      <4> QED  BY <1>1, <1>3, <4>1, GateFacts
    <3>3. inv[i].job = NoJob
      <4> SUFFICES ASSUME inv[i].job # NoJob PROVE FALSE
        OBVIOUS
      <4>1. row[g] = inv[i].job.action /\ inv[i].job.action \in Action
        BY <1>3, <2>3, JobIsOfItsGate DEF k
      <4> QED  BY <1>3, <1>6, <4>1
    <3>4. BranchInv(i, Solo) /\ inv[i].branch[Solo] # "idle" /\ <<k, Solo>> \in Gate
          /\ <<k, Solo>> = g
      BY <1>3, <1>4, <3>1, <3>2 DEF AtHead, k
    <3>5. Solo \notin checkpoint.done
      BY <1>1, <1>3, <1>6, <3>4 DEF RowInv, k
    <3>6. inv[i].branch[Solo] \in Progress \cup {"idle"}
      BY <1>1 DEF TypeInv, InvocationType
    <3>7. inv[i].branch[Solo] \in {"asking", "waiting"}
      BY <1>3, <3>3, <3>4, <3>5, <3>6 DEF BranchInv, Progress, k
    <3>8. IsGate(k, Solo)
      BY <1>1, <1>4, <3>4, GateFacts
    <3> QED  BY <1>2, <1>3, <1>5, <3>1, <3>3, <3>4, <3>7, <3>8 DEF Straggles
  <2> QED  BY <2>1, <2>2, <2>3 DEF Front
<1>9. RowInv'
  <2>1. ~(g[1] > k) /\ ~(g[1] < k)
    BY <1>3, <1>4, StageNumbers
  <2>2. \A h \in Gate : h[1] > k \/ h[1] < k => row'[h] = row[h]
    BY <1>5, <2>1
  <2>3. \A c \in checkpoint.done : <<k, c>> \in Gate => row'[<<k, c>>] \in Action
    BY <1>1, <1>7 DEF RowInv, k
  <2> QED  BY <1>1, <1>2, <2>2, <2>3 DEF RowInv, OfGraph, k
<1>10. FrontInv'
  <2>1. \A i \in Invocation : Active(i)' => Behind(i)'
    BY <1>1, <1>2 DEF FrontInv, Behind, Active
  <2> QED  BY <1>8, <2>1 DEF FrontInv
<1>11. WayInv'
  <2>1. \A q \in Reviewer : q = r /\ client'[q] = <<"resolved", g, a>>
    BY <1>1, <1>2, OrderlyFacts DEF TypeInv
  <2>2. <<"resolved", g, a>>[1] = "resolved" /\ <<"resolved", g, a>>[2] = g
        /\ <<"resolved", g, a>>[3] = a /\ "resolved" # "checked"
    OBVIOUS
  <2>3. g[2] \notin checkpoint.done
    BY <1>1, <1>3, <1>4, <1>6 DEF RowInv, k
  <2>4. \A j \in jobs : j.gate \in Gate /\ j.action \in Action
    BY <1>1 DEF TypeInv, Decision
  <2>5. \A j \in jobs : j.gate # g
    BY <1>1, <1>3, <1>6, <2>4 DEF WayInv
  <2>6. \A q \in Reviewer : client'[q] # <<>> =>
          /\ client'[q][2][1] = k /\ client'[q][1] = "resolved"
          /\ row'[client'[q][2]] = client'[q][3] /\ client'[q][2][2] \notin checkpoint.done
          /\ \A j \in jobs : j.gate # client'[q][2]
    BY <1>3, <1>5, <2>1, <2>2, <2>3, <2>5
  <2>7. \A j \in jobs : /\ j.gate[1] = k /\ j.gate[2] \notin checkpoint.done
                        /\ j.action = row'[j.gate]
    BY <1>1, <1>5, <2>4, <2>5 DEF WayInv, k
  <2>8. \A j, n \in jobs : j.gate = n.gate => j = n
    BY <1>1 DEF WayInv
  <2>9. ~Hasty => Idle
    BY <1>1, <1>2 DEF WayInv
  <2>10. ~Hasty => (\A i \in Invocation : Active(i)' => Front(i)') /\ Idle'
    BY <1>2, <2>9 DEF Idle, Active
  <2> QED  BY <1>2, <1>8, <2>6, <2>7, <2>8, <2>10 DEF WayInv, k
<1>12. SeveralInv'
  <2>1. Several => \A i \in Invocation : ~Front(i)
    <3>1. Several => Idle
      BY <1>1, <1>2, OrderlyFacts DEF WayInv
    <3> QED  BY <3>1 DEF Idle, Front, Active
  <2>2. Ambiguous' = Ambiguous
    BY <1>2 DEF Ambiguous
  <2> QED  BY <1>2, <2>1, <2>2 DEF IInv, SeveralInv
<1>13. WorkInv'
  BY <1>2 DEF IInv, WorkInv
<1>14. OutcomeInv'
  <2>1. checkpoint.stage <= Last /\ ~(checkpoint.stage > Last)
    BY <1>4, StageNumbers DEF k
  <2> QED  BY <1>2, <2>1 DEF IInv, OutcomeInv
<1> QED  BY <1>9, <1>10, <1>11, <1>12, <1>13, <1>14 DEF IInv

-----------------------------------------------------------------------------
(* The theorems.                                                           *)

LEMMA IInvInit == Orderly /\ Init => IInv
<1> SUFFICES ASSUME Orderly, Init PROVE IInv
  OBVIOUS
<1>1. TypeInv
  BY TypeInvInit
<1>2. /\ checkpoint.id = 0 /\ checkpoint.stage = 1
      /\ checkpoint.done = {} /\ checkpoint.asked = {}
      /\ row = [g \in Gate |-> "none"] /\ client = [r \in Reviewer |-> <<>>] /\ jobs = {}
      /\ status = "planning" /\ applied = {}
      /\ worked = [p \in Stage \X (Branch \cup {Solo}) |-> 0]
  BY DEF Init
<1>3. 1 \in Invocation /\ 1 \in Stage
  BY BoundsAssumption, StagesAssumption DEF Invocation, Stage
<1>4. \A i \in Invocation : i # 1 => inv[i].state = "none"
  BY DEF Init, Unstarted
<1>5. /\ inv[1].state = "active" /\ inv[1].base = 0 /\ inv[1].stage = 1 /\ inv[1].job = NoJob
      /\ inv[1].branch = Load(1, {})
  BY <1>3 DEF Init, Unstarted
<1>6. \A b \in Branch \cup {Solo} :
        inv[1].branch[b] = IF b \in BranchesOf(1) THEN "running" ELSE "idle"
  BY <1>5 DEF Load
<1>7. \A i \in Invocation : (Active(i) <=> i = 1) /\ (Front(i) <=> i = 1)
  BY <1>3, <1>4, <1>5, <1>6 DEF Active, Front, Straggles
<1>8. \A g \in Gate : g[1] \in Stage /\ g[1] \in Nat /\ ~(g[1] < 1)
  <2>1. \A k \in Stage : k \in Nat /\ ~(k < 1)
    BY StagesAssumption DEF Stage
  <2> QED  BY <1>1, <2>1, GateFacts
<1>9. RowInv
  BY <1>2, <1>8 DEF RowInv
<1>10. AtHead(1)
  <2>1. \A b \in BranchesOf(1) : b \in Branch \cup {Solo}
    BY DEF BranchesOf
  <2>2. \A b \in BranchesOf(1) : inv[1].branch[b] = "running"
    BY <1>6, <2>1
  <2>3. \A b \in BranchesOf(1) : BranchInv(1, b)
    BY <1>2, <1>5, <2>2 DEF BranchInv
  <2>4. \A b \in (Branch \cup {Solo}) \ BranchesOf(1) : inv[1].branch[b] = "idle"
    BY <1>6
  <2> QED  BY <1>2, <1>3, <1>5, <2>2, <2>3, <2>4 DEF AtHead, JobInv
<1>11. FrontInv
  BY <1>2, <1>3, <1>5, <1>7, <1>10 DEF FrontInv, Behind
<1>12. WayInv
  BY <1>2, <1>7 DEF WayInv
<1>13. SeveralInv
  BY <1>3, <1>7 DEF SeveralInv
<1>14. WorkInv
  BY <1>2 DEF WorkInv
<1>15. OutcomeInv
  <2>1. ~(1 > Last)
    BY StagesAssumption
  <2> QED  BY <1>2, <2>1 DEF OutcomeInv
<1> QED  BY <1>1, <1>9, <1>11, <1>12, <1>13, <1>14, <1>15 DEF IInv

LEMMA IInvNext ==
  ASSUME Orderly, IInv, [Next]_vars
  PROVE  IInv'
<1>1. TypeInv' /\ UNCHANGED setting
  BY TypeNext, SettingKept DEF IInv
<1>2. ASSUME NEW i \in Invocation, Steps(i) PROVE IInv'
  <2>1. CASE Schedule(i)
    BY <1>1, <2>1, ScheduleStep
  <2>2. CASE CommitWave(i)
    BY <1>1, <2>2, CommitWaveStep
  <2>3. CASE Deliver(i)
    BY <1>1, <2>3, DeliverStep
  <2>4. CASE Pause(i)
    BY <1>1, <2>4, PauseStep
  <2>5. CASE WorkerDies(i)
    BY <1>1, <2>5, WorkerDiesStep
  <2>6. ASSUME NEW b \in Branch, Work(i, b) PROVE IInv'
    BY <1>1, <2>6, WorkStep
  <2>7. ASSUME NEW b \in Branch \cup {Solo}, Announce(i, b) PROVE IInv'
    BY <1>1, <2>7, AnnounceStep
  <2>8. ASSUME NEW b \in Branch \cup {Solo}, Ensure(i, b) PROVE IInv'
    BY <1>1, <2>8, EnsureStep
  <2>9. ASSUME NEW b \in Branch \cup {Solo}, Interrupt(i, b) PROVE IInv'
    BY <1>1, <2>9, FrontInterrupts, StragglerInterrupts
  <2>10. ASSUME NEW b \in Branch \cup {Solo}, Answer(i, b) PROVE IInv'
    BY <1>1, <2>10, AnswerStep
  <2>11. ASSUME NEW j \in jobs, StartResume(i, j) PROVE IInv'
    BY <1>1, <2>11, StartResumeStep
  <2> QED  BY <1>2, <2>1, <2>2, <2>3, <2>4, <2>5, <2>6, <2>7, <2>8, <2>9, <2>10, <2>11 DEF Steps
<1>3. ASSUME NEW r \in Reviewer, Requests(r) PROVE IInv'
  <2>1. CASE CommitResolution(r)
    BY <1>1, <2>1, CommitResolutionStep
  <2>2. CASE HandOver(r)
    BY <1>1, <2>2, HandOverStep
  <2>3. CASE ApiDies(r)
    BY <1>1, <2>3, ApiDiesStep
  <2>4. ASSUME NEW g \in Gate, NEW a \in Action, Check(r, g, a) PROVE IInv'
    BY <1>1, <2>4, CheckStep
  <2> QED  BY <1>3, <2>1, <2>2, <2>3, <2>4 DEF Requests
<1>4. CASE UNCHANGED vars
  <2>1. /\ UNCHANGED <<setting, checkpoint, inv, row, status, worked, applied>>
        /\ UNCHANGED <<client, jobs>>
    BY <1>4 DEF vars
  <2>2. /\ RowInv' /\ FrontInv' /\ SeveralInv' /\ WorkInv' /\ OutcomeInv'
        /\ \A i \in Invocation : (Front(i)' <=> Front(i)) /\ (Active(i)' <=> Active(i))
        /\ Idle' = Idle
    BY <2>1, RequestStep
  <2>3. WayInv'
    BY <1>1, <2>1, <2>2, GatesKept DEF IInv, WayInv
  <2> QED  BY <1>1, <2>2, <2>3 DEF IInv
<1> QED  BY <1>2, <1>3, <1>4, NextIsStep

(* The inductive invariant: one front, at the latest checkpoint, holding   *)
(* the decision of the gate it stands at or none.                          *)
THEOREM OneFront ==
  ASSUME Orderly
  PROVE  Spec => []IInv
<1>1. Init => IInv
  BY IInvInit
<1>2. IInv /\ [Next]_vars => IInv'
  BY IInvNext
<1> QED  BY <1>1, <1>2, PTL DEF Spec

(* No branch of a wave and no delivery is done twice, and a gate is only   *)
(* given the decision on its own approval, however invocations overlap.    *)
THEOREM ResumingRepeatsNothing ==
  ASSUME Orderly
  PROVE  Spec => []WorkIsDoneOnce
<1>1. IInv => WorkIsDoneOnce
  BY DEF IInv, WorkInv, WorkIsDoneOnce
<1> QED  BY <1>1, OneFront, PTL

(* Once all is quiet the status of a task that ended tells how it came     *)
(* out: no straggler wrote over it.                                        *)
THEOREM StatusIsTheOutcome ==
  ASSUME Orderly
  PROVE  Spec => []StatusTellsOutcome
<1>1. IInv => StatusTellsOutcome
  BY DEF IInv, OutcomeInv, StatusTellsOutcome, OfGraph
<1> QED  BY <1>1, OneFront, PTL

(* A delivery presupposes that every gate of the graph was approved.       *)
THEOREM NothingIsDeliveredUnapproved ==
  ASSUME Orderly
  PROVE  Spec => []DeliveredIsApproved
<1>1. IInv => DeliveredIsApproved
  <2> SUFFICES ASSUME IInv, status = "completed" PROVE DeliveredIsApproved
    BY DEF DeliveredIsApproved
  <2>1. checkpoint.stage > Last
    <3>1. checkpoint.stage \in 1..Last + 1 /\ Last \in Nat
      BY CheckpointsStage, StagesAssumption DEF IInv
    <3>2. ~(checkpoint.stage <= Last)
      BY DEF IInv, OutcomeInv
    <3> QED  BY <3>1, <3>2
  <2> QED  BY <2>1 DEF IInv, OutcomeInv, DeliveredIsApproved, OfGraph
<1> QED  BY <1>1, OneFront, PTL
=============================================================================
