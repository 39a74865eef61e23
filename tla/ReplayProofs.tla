---------------------------- MODULE ReplayProofs ----------------------------
(***************************************************************************)
(* Theorems about Replay, for any subtasks, plans and failures of the      *)
(* provider.                                                               *)
(***************************************************************************)
EXTENDS Replay, TLAPS, SequenceTheorems, FiniteSetTheorems, WellFoundedInduction

(* A nonempty set of naturals has the minimum FiniteSetsExt chooses.       *)
LEMMA MinIsMember == ASSUME NEW S, S \subseteq Nat, S # {} PROVE Min(S) \in S
<1> DEFINE Below == {p \in Nat \X Nat : p[1] < p[2]}
<1>1. IsWellFoundedOn(Below, Nat)
  BY NatLessThanWellFounded DEF OpToRel
<1>2. PICK x \in S : \A y \in S : <<y, x>> \notin Below
  <2> HIDE DEF Below
  <2> QED  BY <1>1, WFMin
<1>3. \A y \in S : x <= y
  <2> SUFFICES ASSUME NEW y \in S PROVE ~ (y < x)
    OBVIOUS
  <2> QED  BY <1>2
<1> QED  BY <1>3 DEF Min

(* What is free and what is billed are all the rows.                       *)
LEMMA BillAddsUp ==
  ASSUME NEW rows, NEW n \in Nat, DOMAIN rows = 1..n
  PROVE  Total(rows) + Cardinality(Free(rows)) = n /\ Total(rows) \in Nat
<1>1. IsFiniteSet(1..n) /\ Cardinality(1..n) = n
  BY FS_Interval
<1>2. Free(rows) \subseteq 1..n
  BY DEF Free
<1>3. IsFiniteSet(Free(rows)) /\ 1..n \cap Free(rows) = Free(rows)
  BY <1>1, <1>2, FS_Subset
<1>4. Cardinality(1..n \ Free(rows)) = n - Cardinality(Free(rows))
  <2>1. Cardinality(1..n \ Free(rows)) = Cardinality(1..n) - Cardinality(1..n \cap Free(rows))
    BY <1>1, FS_Difference
  <2> QED  BY <1>1, <1>3, <2>1
<1>5. IsFiniteSet(1..n \ Free(rows)) /\ Cardinality(Free(rows)) \in Nat
  BY <1>1, <1>3, FS_Subset, FS_CardinalityType
<1> QED  BY <1>4, <1>5, FS_CardinalityType DEF Total

LEMMA FreeAppends ==
  ASSUME NEW R, NEW rows \in Seq(R), NEW row
  PROVE  /\ Append(rows, row) \in Seq(R \cup {row})
         /\ DOMAIN Append(rows, row) = 1..Len(rows) + 1
         /\ Free(Append(rows, row)) =
              IF row.model = "live" THEN Free(rows) ELSE Free(rows) \cup {Len(rows) + 1}
<1>1. rows \in Seq(R \cup {row})
  BY SeqMonotonic
<1>2. /\ Append(rows, row) \in Seq(R \cup {row})
      /\ Len(Append(rows, row)) = Len(rows) + 1
      /\ \A i \in 1..Len(rows) : Append(rows, row)[i] = rows[i]
      /\ Append(rows, row)[Len(rows) + 1] = row
  BY <1>1, AppendProperties
<1>3. /\ DOMAIN rows = 1..Len(rows) /\ Len(rows) \in Nat
      /\ DOMAIN Append(rows, row) = 1..Len(rows) + 1
  BY <1>1, <1>2
<1> QED  BY <1>2, <1>3 DEF Free

LEMMA FreeIsFinite == ASSUME NEW R, NEW rows \in Seq(R) PROVE IsFiniteSet(Free(rows))
<1>1. Free(rows) \subseteq 1..Len(rows) /\ Len(rows) \in Nat
  BY DEF Free
<1>2. IsFiniteSet(1..Len(rows))
  BY <1>1, FS_Interval
<1> QED  BY <1>1, <1>2, FS_Subset

(* A record that is served is one that was not: consumed grows.            *)
LEMMA NextIsFresh ==
  ASSUME NEW p, DOMAIN recorded \subseteq Nat, NextRecord(p) # 0
  PROVE  NextRecord(p) \in DOMAIN recorded \ consumed
<1> DEFINE free == DOMAIN recorded \ consumed
           exact == {i \in free : recorded[i].prompt = p}
           ofAgent == {i \in free : recorded[i].prompt.agent = p.agent}
<1>1. exact # {} => Min(exact) \in exact
  BY MinIsMember
<1>2. ofAgent # {} => Min(ofAgent) \in ofAgent
  BY MinIsMember
<1>3. NextRecord(p) = IF exact # {} THEN Min(exact) ELSE IF ofAgent # {} THEN Min(ofAgent) ELSE 0
  BY DEF NextRecord
<1> QED  BY <1>1, <1>2, <1>3
-----------------------------------------------------------------------------
(* The rows are sequences, and what a replay serves from are places in one. *)
RowsInv ==
  /\ DOMAIN calls = Task /\ \A t \in Task : \E R : calls[t] \in Seq(R)
  /\ DOMAIN recorded \subseteq Nat /\ step \in 0..Len(calls["original"])
  /\ consumed \subseteq Nat /\ IsFiniteSet(consumed)

(* The original is live; the replay has its client once it has started.    *)
ClientInv ==
  /\ DOMAIN client = Task /\ DOMAIN status = Task
  /\ client["original"] = "live"
  /\ status["again"] \in {"none", "pending"} <=> client["again"] = "none"

(* Until the replay is live or a fork it has nothing but free rows, waits  *)
(* for nobody and has taught nothing; a fork is not even asked to.         *)
SpendInv ==
  /\ DOMAIN asked = Task /\ DOMAIN learned = Task
  /\ client["again"] \in {"none", "strict"} =>
       Free(calls["again"]) = DOMAIN calls["again"] /\ asked["again"] = {}
  /\ client["again"] \in {"none", "strict", "fork"} =>
       ~learned["again"] /\ "learning" \notin asked["again"]
  /\ Cardinality(Free(calls["again"])) <= Cardinality(consumed)

BillInv == RowsInv /\ ClientInv /\ SpendInv

LEMMA BillInvInit == Init => BillInv
<1> SUFFICES ASSUME Init PROVE BillInv
  OBVIOUS
<1>1. RowsInv
  <2>1. \A t \in Task : calls[t] \in Seq({})
    BY EmptySeq DEF Init
  <2> QED  BY <2>1, FS_EmptySet DEF Init, RowsInv, Task
<1>2. ClientInv
  BY DEF Init, ClientInv, Task
<1>3. SpendInv
  <2>1. Free(calls["again"]) = {} /\ DOMAIN calls["again"] = {}
    BY DEF Init, Free, Task
  <2>2. asked["again"] = {} /\ learned["again"] = FALSE /\ consumed = {}
    BY DEF Init, Task
  <2>3. DOMAIN asked = Task /\ DOMAIN learned = Task
    BY DEF Init
  <2>4. Cardinality({}) = 0
    BY FS_EmptySet
  <2> QED  BY <2>1, <2>2, <2>3, <2>4 DEF SpendInv
<1> QED  BY <1>1, <1>2, <1>3 DEF BillInv

LEMMA ReadyNeeds ==
  ASSUME NEW t \in Task, NEW l, Ready(t, l)
  PROVE  /\ status[t] \in {"running", "completed"}
         /\ l = "learning" => client[t] = "live"
BY DEF Ready

(* What an answer adds: one row, at the end.                               *)
LEMMA TakeDoes ==
  ASSUME RowsInv, SpendInv, NEW t \in Task, NEW l, NEW a, NEW m, Take(t, l, a, m)
  PROVE  /\ DOMAIN calls' = Task /\ \A u \in Task : \E R : calls'[u] \in Seq(R)
         /\ DOMAIN learned' = Task
         /\ \A u \in Task \ {t} : calls'[u] = calls[u] /\ learned'[u] = learned[u]
         /\ learned'[t] => learned[t] \/ l = "learning"
         /\ Len(calls[t]) \in Nat /\ Len(calls'[t]) = Len(calls[t]) + 1
         /\ DOMAIN calls[t] = 1..Len(calls[t]) /\ DOMAIN calls'[t] = 1..Len(calls[t]) + 1
         /\ Free(calls'[t]) =
              IF m = "live" THEN Free(calls[t]) ELSE Free(calls[t]) \cup {Len(calls[t]) + 1}
<1> DEFINE new == [prompt |-> Prompt(t, l), answer |-> a, model |-> m, line |-> l]
<1>1. calls' = [calls EXCEPT ![t] = Append(@, new)]
  BY DEF Take
<1>2. PICK R : calls[t] \in Seq(R)
  BY DEF RowsInv
<1>3. new.model = m
  OBVIOUS
<1> HIDE DEF new
<1>4. calls'[t] = Append(calls[t], new) /\ DOMAIN calls' = Task
  BY <1>1 DEF RowsInv
<1>5. \A u \in Task \ {t} : calls'[u] = calls[u]
  BY <1>1 DEF RowsInv
<1>6. /\ calls'[t] \in Seq(R \cup {new})
      /\ DOMAIN calls'[t] = 1..Len(calls[t]) + 1
      /\ Free(calls'[t]) =
           IF m = "live" THEN Free(calls[t]) ELSE Free(calls[t]) \cup {Len(calls[t]) + 1}
  <2>1. /\ Append(calls[t], new) \in Seq(R \cup {new})
        /\ DOMAIN Append(calls[t], new) = 1..Len(calls[t]) + 1
        /\ Free(Append(calls[t], new)) =
             IF new.model = "live" THEN Free(calls[t]) ELSE Free(calls[t]) \cup {Len(calls[t]) + 1}
    BY <1>2, FreeAppends
  <2> QED  BY <1>3, <1>4, <2>1
<1>7. /\ Len(calls[t]) \in Nat /\ DOMAIN calls[t] = 1..Len(calls[t])
      /\ Len(calls'[t]) = Len(calls[t]) + 1
  BY <1>2, <1>6
<1>8. \A u \in Task : \E Q : calls'[u] \in Seq(Q)
  BY <1>5, <1>6 DEF RowsInv
<1>9. /\ DOMAIN learned' = Task
      /\ \A u \in Task \ {t} : learned'[u] = learned[u]
      /\ learned'[t] => learned[t] \/ l = "learning"
  BY DEF Take, SpendInv
<1> QED  BY <1>4, <1>5, <1>6, <1>7, <1>8, <1>9

(* A record that is served pays for the free row it leaves.                *)
LEMMA BillServe ==
  ASSUME BillInv, NEW t \in Task, NEW l \in Line, Serve(t, l)
  PROVE  BillInv'
<1> DEFINE i == NextRecord(Prompt(t, l))
<1>1. t = "again" /\ client[t] \in {"strict", "fork"}
  BY DEF Serve, BillInv, ClientInv, Task
<1>2. PICK a, m : Take(t, l, a, m) /\ m # "live"
  BY DEF Serve
<1>3. i \in DOMAIN recorded \ consumed /\ consumed' = consumed \cup {i}
  BY NextIsFresh DEF Serve, BillInv, RowsInv
<1>4. UNCHANGED <<client, status, asked, recorded, step>>
  BY DEF Serve
<1>5. l # "learning"
  BY <1>1, ReadyNeeds DEF Serve
<1> HIDE DEF i
<1>6. /\ IsFiniteSet(consumed') /\ consumed' \subseteq Nat
      /\ Cardinality(consumed') = Cardinality(consumed) + 1 /\ Cardinality(consumed) \in Nat
  BY <1>3, FS_AddElement, FS_CardinalityType DEF BillInv, RowsInv
<1>7. /\ DOMAIN calls' = Task /\ \A u \in Task : \E R : calls'[u] \in Seq(R)
      /\ DOMAIN learned' = Task /\ calls'["original"] = calls["original"]
      /\ learned'[t] => learned[t]
      /\ DOMAIN calls[t] = 1..Len(calls[t]) /\ DOMAIN calls'[t] = 1..Len(calls[t]) + 1
      /\ Len(calls[t]) \in Nat /\ Free(calls'[t]) = Free(calls[t]) \cup {Len(calls[t]) + 1}
  BY <1>1, <1>2, <1>5, TakeDoes DEF BillInv, Task
<1>8. /\ Cardinality(Free(calls'[t])) <= Cardinality(Free(calls[t])) + 1
      /\ Cardinality(Free(calls[t])) \in Nat
  <2>1. IsFiniteSet(Free(calls[t]))
    BY FreeIsFinite DEF BillInv, RowsInv
  <2>2. Cardinality(Free(calls[t])) \in Nat
    BY <2>1, FS_CardinalityType
  <2> DEFINE free == Free(calls[t])
             n == Len(calls[t]) + 1
  <2>3. Cardinality(free \cup {n}) = IF n \in free THEN Cardinality(free) ELSE Cardinality(free) + 1
    <3> HIDE DEF n
    <3> QED  BY <2>1, FS_AddElement
  <2> QED  BY <1>7, <2>2, <2>3
<1>9. Cardinality(Free(calls'[t])) <= Cardinality(consumed')
  <2>1. IsFiniteSet(Free(calls'[t]))
    BY <1>7, FreeIsFinite
  <2>2. Cardinality(Free(calls'[t])) \in Nat /\ Cardinality(Free(calls[t])) <= Cardinality(consumed)
    BY <1>1, <2>1, FS_CardinalityType DEF BillInv, SpendInv
  <2> QED  BY <1>6, <1>8, <2>2
<1>10. RowsInv'
  BY <1>4, <1>6, <1>7 DEF BillInv, RowsInv
<1>11. ClientInv'
  BY <1>4 DEF BillInv, ClientInv
<1>12. SpendInv'
  BY <1>1, <1>4, <1>7, <1>9 DEF BillInv, SpendInv
<1> QED  BY <1>10, <1>11, <1>12 DEF BillInv

(* What the provider answers is billed.                                    *)
LEMMA BillAnswer ==
  ASSUME BillInv, NEW t \in Task, NEW l \in Line, Answer(t, l)
  PROVE  BillInv'
<1>1. PICK a : Take(t, l, a, "live")
  BY DEF Answer
<1>2. UNCHANGED <<client, status, recorded, consumed, step>>
  BY DEF Answer, replayVars
<1>3. DOMAIN asked' = Task /\ asked'["again"] \subseteq asked["again"] /\ l \in asked[t]
  BY DEF Answer, BillInv, SpendInv, Task
<1>4. /\ DOMAIN calls' = Task /\ \A u \in Task : \E R : calls'[u] \in Seq(R)
      /\ DOMAIN learned' = Task
      /\ \A u \in Task \ {t} : calls'[u] = calls[u] /\ learned'[u] = learned[u]
      /\ learned'[t] => learned[t] \/ l = "learning"
      /\ Len(calls[t]) \in Nat /\ Len(calls'[t]) = Len(calls[t]) + 1
      /\ Free(calls'[t]) = Free(calls[t])
  <2>1. RowsInv /\ SpendInv
    BY DEF BillInv
  <2>2. Free(calls'[t]) = IF "live" = "live" THEN Free(calls[t]) ELSE Free(calls[t]) \cup {Len(calls[t]) + 1}
    BY <1>1, <2>1, TakeDoes
  <2>3. /\ DOMAIN calls' = Task /\ \A u \in Task : \E R : calls'[u] \in Seq(R)
        /\ DOMAIN learned' = Task
        /\ \A u \in Task \ {t} : calls'[u] = calls[u] /\ learned'[u] = learned[u]
    BY <1>1, <2>1, TakeDoes
  <2>4. Len(calls[t]) \in Nat /\ Len(calls'[t]) = Len(calls[t]) + 1
    BY <1>1, <2>1, TakeDoes
  <2>5. learned'[t] => learned[t] \/ l = "learning"
    BY <1>1, <2>1 DEF Take, SpendInv
  <2> QED  BY <2>2, <2>3, <2>4, <2>5
<1>5. RowsInv'
  BY <1>2, <1>4 DEF BillInv, RowsInv, Task
<1>6. ClientInv'
  BY <1>2 DEF BillInv, ClientInv
<1>7. SpendInv'
  <2>1. CASE t = "original"
    <3>1. calls'["again"] = calls["again"] /\ learned'["again"] = learned["again"]
      BY <1>4, <2>1 DEF Task
    <3> QED  BY <1>2, <1>3, <1>4, <3>1 DEF BillInv, SpendInv
  <2>2. CASE t = "again"
    <3>1. client["again"] \notin {"none", "strict"}
      BY <1>3, <2>2 DEF BillInv, SpendInv
    <3> QED  BY <1>2, <1>3, <1>4, <2>2, <3>1 DEF BillInv, SpendInv
  <2> QED  BY <2>1, <2>2 DEF Task
<1> QED  BY <1>5, <1>6, <1>7 DEF BillInv

(* A step that leaves no row and asks nobody new.                          *)
LEMMA BillKept ==
  ASSUME BillInv, UNCHANGED <<client, calls, recorded, consumed, step, learned>>,
         DOMAIN status' = Task,
         status'["again"] \in {"none", "pending"} <=> status["again"] \in {"none", "pending"},
         DOMAIN asked' = Task, asked'["again"] \subseteq asked["again"]
  PROVE  BillInv'
BY DEF BillInv, RowsInv, ClientInv, SpendInv

LEMMA BillRaises ==
  ASSUME BillInv, NEW t \in Task, NEW l \in Line, Diverge(t, l) \/ ProviderFails(t, l)
  PROVE  BillInv'
<1>1. PICK e : Raise(t, l, e)
  BY DEF Diverge, ProviderFails
<1>2. UNCHANGED <<client, calls, recorded, consumed, step, learned>>
  BY <1>1 DEF Raise, Diverge, ProviderFails
<1>3. DOMAIN asked' = Task /\ asked'["again"] \subseteq asked["again"]
  BY DEF Diverge, ProviderFails, BillInv, SpendInv, Task
<1>4. status' = status \/ status' = [status EXCEPT ![t] = IF l \in {"plan", "synthesis"} THEN "failed" ELSE @]
  BY <1>1 DEF Raise
<1>5. t = "again" => status["again"] \notin {"none", "pending"}
  <2>1. CASE Diverge(t, l)
    BY <2>1, ReadyNeeds DEF Diverge
  <2>2. CASE ProviderFails(t, l)
    BY <2>2 DEF ProviderFails, BillInv, ClientInv, SpendInv
  <2> QED  BY <2>1, <2>2
<1>6. /\ DOMAIN status' = Task
      /\ status'["again"] \in {"none", "pending"} <=> status["again"] \in {"none", "pending"}
  BY <1>4, <1>5 DEF BillInv, ClientInv, Task
<1> QED  BY <1>2, <1>3, <1>6, BillKept

LEMMA BillTurns ==
  ASSUME BillInv, NEW t \in Task, Deliver(t) \/ Gate(t)
  PROVE  BillInv'
<1>1. UNCHANGED <<client, calls, recorded, consumed, step, learned, asked>>
  BY DEF Deliver, Gate, graphVars, replayVars
<1>2. /\ DOMAIN status' = Task
      /\ status'["again"] \in {"none", "pending"} <=> status["again"] \in {"none", "pending"}
  BY DEF Deliver, Gate, BillInv, ClientInv, Task
<1>3. DOMAIN asked' = Task
  BY <1>1 DEF BillInv, SpendInv
<1> QED  BY <1>1, <1>2, <1>3, BillKept

(* Only a live client and a fork ask, and a fork not for memories.         *)
LEMMA BillAsk ==
  ASSUME BillInv, NEW t \in Task, NEW l \in Line, Ask(t, l)
  PROVE  BillInv'
<1>1. UNCHANGED <<client, status, calls, recorded, consumed, step, learned>>
  BY DEF Ask, replayVars
<1>2. asked' = [asked EXCEPT ![t] = @ \cup {l}] /\ client[t] \in {"live", "fork"}
  BY DEF Ask
<1>3. l = "learning" => client[t] = "live"
  BY ReadyNeeds DEF Ask
<1>4. RowsInv' /\ ClientInv'
  BY <1>1 DEF BillInv, RowsInv, ClientInv
<1>5. SpendInv'
  BY <1>1, <1>2, <1>3 DEF BillInv, SpendInv, Task
<1> QED  BY <1>4, <1>5 DEF BillInv

LEMMA BillResume ==
  ASSUME BillInv, NEW t \in Task, Resume(t)
  PROVE  BillInv'
<1>1. UNCHANGED <<calls, recorded, consumed, step, learned, asked>>
  BY DEF Resume, replayVars
<1>2. /\ status[t] = "awaiting_approval" /\ status' = [status EXCEPT ![t] = "running"]
      /\ client' = [client EXCEPT ![t] = "live"]
  BY DEF Resume
<1>3. RowsInv'
  BY <1>1 DEF BillInv, RowsInv
<1>4. ClientInv'
  BY <1>2 DEF BillInv, ClientInv, Task
<1>5. SpendInv'
  BY <1>1, <1>2 DEF BillInv, ClientInv, SpendInv, Task
<1> QED  BY <1>3, <1>4, <1>5 DEF BillInv

LEMMA BillLaunch ==
  ASSUME BillInv, NEW k \in 0..Len(calls["original"]), Launch(k)
  PROVE  BillInv'
<1>1. UNCHANGED <<client, calls, recorded, consumed, learned, asked>> /\ step' = k
  BY DEF Launch, graphVars
<1>2. status["again"] = "none" /\ status' = [status EXCEPT !["again"] = "pending"]
  BY DEF Launch
<1>3. RowsInv'
  BY <1>1 DEF BillInv, RowsInv
<1>4. ClientInv'
  BY <1>1, <1>2 DEF BillInv, ClientInv, Task
<1>5. SpendInv'
  BY <1>1 DEF BillInv, SpendInv
<1> QED  BY <1>3, <1>4, <1>5 DEF BillInv

(* What a replay serves from are the original's rows, or the first of them. *)
LEMMA BillStart ==
  ASSUME BillInv, NEW now, Start(now)
  PROVE  BillInv'
<1>1. UNCHANGED <<calls, consumed, step, learned, asked>>
  BY DEF Start, graphVars
<1>2. /\ status["again"] = "pending" /\ status' = [status EXCEPT !["again"] = "running"]
      /\ client' = [client EXCEPT !["again"] = IF step = 0 THEN "strict" ELSE "fork"]
      /\ recorded' = IF step = 0 THEN calls["original"] ELSE SubSeq(calls["original"], 1, step)
  BY DEF Start
<1>3. client["again"] = "none"
  BY <1>2 DEF BillInv, ClientInv
<1>4. DOMAIN recorded' \subseteq Nat
  <2>1. PICK R : calls["original"] \in Seq(R)
    BY DEF BillInv, RowsInv, Task
  <2>2. step \in 0..Len(calls["original"]) /\ Len(calls["original"]) \in Nat
    BY <2>1 DEF BillInv, RowsInv
  <2>3. SubSeq(calls["original"], 1, step) \in Seq(R)
    <3>1. \A n \in 1..step : calls["original"][n] \in R
      BY <2>1, <2>2, ElementOfSeq
    <3> QED  BY <2>2, <3>1, SubSeqProperties
  <2>4. recorded' \in Seq(R)
    BY <1>2, <2>1, <2>3
  <2> QED  BY <2>4
<1>5. RowsInv'
  BY <1>1, <1>4 DEF BillInv, RowsInv
<1>6. ClientInv'
  BY <1>2 DEF BillInv, ClientInv, Task
<1>7. SpendInv'
  BY <1>1, <1>2, <1>3 DEF BillInv, ClientInv, SpendInv, Task
<1> QED  BY <1>5, <1>6, <1>7 DEF BillInv

LEMMA BillInvNext == BillInv /\ [Next]_vars => BillInv'
<1> SUFFICES ASSUME BillInv, [Next]_vars PROVE BillInv'
  OBVIOUS
<1>1. ASSUME NEW t \in Task, Work(t) PROVE BillInv'
  BY <1>1, BillServe, BillRaises, BillAsk, BillAnswer, BillTurns DEF Work
<1>2. ASSUME NEW t \in Task, Resume(t) \/ \E l \in Line : ProviderFails(t, l) PROVE BillInv'
  BY <1>2, BillResume, BillRaises
<1>3. CASE \E k \in 0..Len(calls["original"]) : Launch(k)
  BY <1>3, BillLaunch
<1>4. CASE \E now \in {"then", "now"} : Start(now)
  BY <1>4, BillStart
<1>5. CASE UNCHANGED vars
  BY <1>5 DEF vars, graphVars, replayVars, BillInv, RowsInv, ClientInv, SpendInv
<1> QED  BY <1>1, <1>2, <1>3, <1>4, <1>5 DEF Next

(* Whatever the plan, the order of the calls, the failures of the provider *)
(* and the interventions of a human: a strict replay costs nothing, waits  *)
(* for nobody and teaches nothing, and no task has more unbilled rows than *)
(* records were served to it (observability/replay.py, ReplayLLMClient).   *)
THEOREM NoSpendAlways == Spec => []NoSpendOffTheRecord
<1>1. BillInv => NoSpendOffTheRecord
  <2> SUFFICES ASSUME BillInv PROVE NoSpendOffTheRecord
    OBVIOUS
  <2> DEFINE rows == calls["again"]
  <2>1. PICK R : rows \in Seq(R)
    BY DEF BillInv, RowsInv, Task
  <2>2. Len(rows) \in Nat /\ DOMAIN rows = 1..Len(rows)
    BY <2>1
  <2>3. Total(rows) + Cardinality(Free(rows)) = Len(rows) /\ Total(rows) \in Nat
    BY <2>2, BillAddsUp
  <2>4. Cardinality(Free(rows)) \in Nat /\ Cardinality(consumed) \in Nat
    BY <2>1, FreeIsFinite, FS_CardinalityType DEF BillInv, RowsInv
  <2>5. Free(rows) = DOMAIN rows => Total(rows) = 0
    BY FS_EmptySet DEF Total
  <2>6. Len(rows) - Total(rows) <= Cardinality(consumed)
    BY <2>2, <2>3, <2>4 DEF BillInv, SpendInv
  <2> QED  BY <2>5, <2>6 DEF BillInv, SpendInv, NoSpendOffTheRecord, Strict
<1> QED  BY <1>1, BillInvInit, BillInvNext, PTL DEF Spec
=============================================================================
