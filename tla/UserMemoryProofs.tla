-------------------------- MODULE UserMemoryProofs --------------------------
(***************************************************************************)
(* Theorems about UserMemory, for any tasks, users, facts and life of a    *)
(* key: the working_memory table as tasks, clock and purges use it         *)
(* implements WorkingMemory, by the invariant RowsInv (all rows of a task  *)
(* run out together); and the long-term memory keeps what it is taught.    *)
(***************************************************************************)
EXTENDS UserMemory, TLAPS, FiniteSetTheorems, FunctionTheorems

-----------------------------------------------------------------------------
(* The working_memory table.                                               *)

Row == [task : Task, field : Field \cup {NoField}, value : Value \cup {NoField}, id : Nat, expires : Int]

(* All rows of a task run out at the same time, a field has one row, and   *)
(* of the ids of a task's rows one is the largest.                         *)
RowsInv ==
  /\ IsFiniteSet(rows) /\ rows \subseteq Row /\ now \in Nat
  /\ \A r, s \in rows : r.task = s.task => r.expires = s.expires
  /\ \A r, s \in rows : r.task = s.task /\ r.field = s.field /\ r.id = s.id => r = s
  /\ \A r \in rows : r.field # NoField => r.id = 0
  /\ \A t \in Task : \E m \in {0} \cup {r.id : r \in Work!Of(t)} : \A r \in Work!Of(t) : r.id <= m

LiveOf(t) == {r \in Work!Of(t) : Work!Live(r)}
FieldRows(t) == {r \in LiveOf(t) : r.field # NoField}
ErrorRows(t) == {r \in LiveOf(t) : r.field = NoField}

(* What the reads of a task return.                                        *)
Reads(t) ==
  /\ Work!FieldsOf(t) = [f \in DOMAIN Work!FieldsOf(t) |-> Work!FieldsOf(t)[f]]
  /\ DOMAIN Work!FieldsOf(t) = {r.field : r \in FieldRows(t)}
  /\ \A r \in FieldRows(t) : Work!FieldsOf(t)[r.field] = r.value
  /\ IsFiniteSet(ErrorRows(t)) /\ Work!ErrorsOf(t) = Cardinality(ErrorRows(t))
  /\ \A r \in LiveOf(t) : Work!TimeLeft(t) = r.expires - now /\ r.expires - now \in Nat \ {0}
  /\ LiveOf(t) = {} => Work!TimeLeft(t) = 0

LEMMA SameCardinality == \A S : Work!Cardinality(S) = Cardinality(S)
  BY DEF Work!Cardinality, Cardinality

LEMMA MaxOf ==
  ASSUME NEW S, S \subseteq Int, NEW m \in S, \A x \in S : x <= m
  PROVE  Work!Max(S) = m
<1>1. PICK x \in S : Work!Max(S) = x /\ \A y \in S : x >= y
  <2>1. \E x \in S : \A y \in S : x >= y
    OBVIOUS
  <2> QED  BY <2>1 DEF Work!Max
<1>2. x \in Int /\ m \in Int /\ x >= m /\ x <= m
  BY <1>1
<1>3. x = m
  BY <1>2
<1> QED  BY <1>1, <1>3

(* What is read depends on the live rows alone.                            *)
LEMMA ReadsOf == RowsInv => \A t \in Task : Reads(t)
<1> SUFFICES ASSUME RowsInv, NEW t \in Task PROVE Reads(t)
  OBVIOUS
<1> DEFINE live == {r \in Work!Of(t) : Work!Live(r) /\ r.field # NoField}
<1>1. /\ Work!FieldsOf(t) = [f \in DOMAIN Work!FieldsOf(t) |-> Work!FieldsOf(t)[f]]
      /\ DOMAIN Work!FieldsOf(t) = {r.field : r \in live}
      /\ \A f \in {r.field : r \in live} : Work!FieldsOf(t)[f] = (CHOOSE r \in live : r.field = f).value
  BY DEF Work!FieldsOf
<1>2. \A r \in live : (CHOOSE s \in live : s.field = r.field) = r
  BY DEF RowsInv, Work!Of
<1>3. live = FieldRows(t)
  BY DEF LiveOf, FieldRows
<1>4. Work!ErrorsOf(t) = Cardinality(ErrorRows(t))
  <2>1. {r \in Work!Of(t) : Work!Live(r) /\ r.field = NoField} = ErrorRows(t)
    BY DEF LiveOf, ErrorRows
  <2> QED  BY <2>1, SameCardinality DEF Work!ErrorsOf
<1>5. IsFiniteSet(ErrorRows(t))
  BY FS_Subset DEF RowsInv, ErrorRows, LiveOf, Work!Of
<1>6. ASSUME NEW r \in LiveOf(t)
      PROVE  Work!TimeLeft(t) = r.expires - now /\ r.expires - now \in Nat \ {0}
  <2>1. r.expires \in Int /\ now \in Int /\ r.expires > now
    BY DEF LiveOf, Work!Of, Work!Live, RowsInv, Row
  <2>2. {s.expires - now : s \in {s \in Work!Of(t) : Work!Live(s)}} = {r.expires - now}
    BY DEF LiveOf, Work!Of, RowsInv
  <2>3. Work!Max({0} \cup {r.expires - now}) = r.expires - now
    BY <2>1, MaxOf
  <2>4. Work!TimeLeft(t) = Work!Max({0} \cup {s.expires - now : s \in {s \in Work!Of(t) : Work!Live(s)}})
    BY DEF Work!TimeLeft
  <2>5. Work!TimeLeft(t) = r.expires - now
    BY <2>2, <2>3, <2>4
  <2> QED  BY <2>1, <2>5
<1>7. LiveOf(t) = {} => Work!TimeLeft(t) = 0
  <2>1. Work!Max({0} \cup {}) = 0
    BY MaxOf
  <2> QED  BY <2>1 DEF Work!TimeLeft, LiveOf
<1>8. \A r \in FieldRows(t) : Work!FieldsOf(t)[r.field] = r.value
  BY <1>1, <1>2, <1>3
<1>9. DOMAIN Work!FieldsOf(t) = {r.field : r \in FieldRows(t)}
  BY <1>1, <1>3
<1> QED  BY <1>1, <1>4, <1>5, <1>6, <1>7, <1>8, <1>9 DEF Reads

-----------------------------------------------------------------------------
(* A write.                                                                *)

Kept(t, f) == {r \in Work!Of(t) : Work!Live(r) /\ (f = NoField \/ r.field # f)}
Stamp(r) == [r EXCEPT !.expires = now + TTL]
NewRow(t, f, v, i) == [task |-> t, field |-> f, value |-> v, id |-> i, expires |-> now + TTL]

(* The row that is written has an id of its own among the errors.          *)
LEMMA WriteRows ==
  ASSUME RowsInv, NEW t \in Task, NEW f, NEW v, Work!Set(t, f, v)
  PROVE  \E i \in Nat :
           /\ IF f = NoField THEN \A r \in Work!Of(t) : r.id < i ELSE i = 0
           /\ rows' = (rows \ Work!Of(t)) \cup {NewRow(t, f, v, i)} \cup {Stamp(r) : r \in Kept(t, f)}
           /\ now' = now
<1> DEFINE i == IF f = NoField THEN 1 + Work!Max({0} \cup {r.id : r \in Work!Of(t)}) ELSE 0
<1>1. rows' = (rows \ Work!Of(t)) \cup {NewRow(t, f, v, i)} \cup {Stamp(r) : r \in Kept(t, f)} /\ now' = now
  BY DEF Work!Set, Work!Written, NewRow, Stamp, Kept
<1>2. i \in Nat /\ IF f = NoField THEN \A r \in Work!Of(t) : r.id < i ELSE i = 0
  <2>1. PICK m \in {0} \cup {r.id : r \in Work!Of(t)} : \A r \in Work!Of(t) : r.id <= m
    BY DEF RowsInv
  <2>2. {0} \cup {r.id : r \in Work!Of(t)} \subseteq Nat
    BY DEF RowsInv, Row, Work!Of
  <2>3. Work!Max({0} \cup {r.id : r \in Work!Of(t)}) = m
    BY <2>1, <2>2, MaxOf
  <2>4. i = IF f = NoField THEN 1 + m ELSE 0
    BY <2>3
  <2> HIDE DEF i
  <2>5. m \in Nat /\ \A r \in Work!Of(t) : r.id \in Nat /\ r.id <= m
    BY <2>1, <2>2
  <2>6. \A r \in Work!Of(t) : r.id < 1 + m
    BY <2>5
  <2> QED  BY <2>4, <2>5, <2>6
<1> HIDE DEF i
<1> QED  BY <1>1, <1>2

LEMMA StampOf ==
  ASSUME RowsInv, NEW r \in rows
  PROVE  /\ Stamp(r) \in Row /\ Stamp(r).expires = now + TTL
         /\ Stamp(r).task = r.task /\ Stamp(r).field = r.field
         /\ Stamp(r).value = r.value /\ Stamp(r).id = r.id
<1>1. r \in Row /\ now + TTL \in Int
  BY TTLAssumption DEF RowsInv
<1> QED  BY <1>1 DEF Stamp, Row

LEMMA StampedSet ==
  ASSUME RowsInv, NEW S, S \subseteq rows
  PROVE  /\ IsFiniteSet(S) /\ IsFiniteSet({Stamp(r) : r \in S})
         /\ Cardinality({Stamp(r) : r \in S}) = Cardinality(S)
<1> DEFINE st == [r \in S |-> Stamp(r)]
<1>1. IsFiniteSet(S)
  BY FS_Subset DEF RowsInv
<1>2. \A r, s \in S : Stamp(r) = Stamp(s) => r = s
  BY StampOf DEF RowsInv
<1>3. st \in Bijection(S, {Stamp(r) : r \in S})
  BY <1>2, Fun_IsBij, Fun_IsInj, Fun_IsSurj
<1> QED  BY <1>1, <1>3, FS_Bijection DEF ExistsBijection

LEMMA WriteKeepsRows ==
  ASSUME RowsInv, NEW t \in Task, NEW f \in Field \cup {NoField}, NEW v \in Value \cup {NoField}, Work!Set(t, f, v)
  PROVE  RowsInv'
<1>1. PICK i \in Nat :
         /\ IF f = NoField THEN \A r \in Work!Of(t) : r.id < i ELSE i = 0
         /\ rows' = (rows \ Work!Of(t)) \cup {NewRow(t, f, v, i)} \cup {Stamp(r) : r \in Kept(t, f)}
         /\ now' = now
  BY WriteRows
<1> DEFINE new == NewRow(t, f, v, i)
           stamped == {Stamp(r) : r \in Kept(t, f)}
<1>2. /\ new \in Row /\ new.task = t /\ new.field = f /\ new.id = i /\ new.expires = now + TTL
  BY TTLAssumption DEF NewRow, Row, RowsInv
<1>3. Kept(t, f) \subseteq rows
  BY DEF Kept, Work!Of
<1>4. \A r \in stamped : \E s \in Kept(t, f) :
        r \in Row /\ r.task = t /\ r.field = s.field /\ r.id = s.id /\ r.expires = now + TTL /\ r = Stamp(s)
  BY StampOf, <1>3 DEF Kept, Work!Of
<1> HIDE DEF new, stamped
<1>5. rows' = (rows \ Work!Of(t)) \cup {new} \cup stamped
  BY <1>1 DEF new, stamped
<1>6. IsFiniteSet(rows')
  <2>1. IsFiniteSet(rows \ Work!Of(t)) /\ IsFiniteSet(stamped)
    BY <1>3, StampedSet, FS_Subset DEF RowsInv, stamped
  <2>2. IsFiniteSet((rows \ Work!Of(t)) \cup {new})
    BY <2>1, FS_AddElement
  <2> QED  BY <2>1, <2>2, <1>5, FS_Union
<1>7. rows' \subseteq Row /\ now' \in Nat
  BY <1>1, <1>2, <1>4, <1>5 DEF RowsInv
<1>8. Work!Of(t)' = {new} \cup stamped
  BY <1>2, <1>4, <1>5 DEF Work!Of
<1>9. \A r \in rows' : r \in {new} \cup stamped \/ (r \in rows /\ r.task # t)
  BY <1>5 DEF Work!Of
<1>10. \A r \in {new} \cup stamped : r.task = t /\ r.expires = now + TTL
  BY <1>2, <1>4
<1>11. \A r, s \in rows' : r.task = s.task => r.expires = s.expires
  BY <1>9, <1>10 DEF RowsInv
<1>12. \A r \in stamped : r.field # f \/ r.id # i
  <2> SUFFICES ASSUME NEW r \in stamped, r.field = f PROVE r.id # i
    OBVIOUS
  <2>1. PICK s \in Kept(t, f) : r.field = s.field /\ r.id = s.id
    BY <1>4
  <2>2. f = NoField /\ s \in Work!Of(t) /\ s.id \in Nat
    BY <2>1 DEF Kept, Work!Of, RowsInv, Row
  <2>3. s.id < i
    BY <1>1, <2>2
  <2> QED  BY <2>1, <2>2, <2>3
<1>13. \A r, s \in stamped : r.field = s.field /\ r.id = s.id => r = s
  BY <1>4, <1>3 DEF RowsInv, Kept, Work!Of
<1>14. \A r, s \in rows' : r.task = s.task /\ r.field = s.field /\ r.id = s.id => r = s
  BY <1>2, <1>9, <1>10, <1>12, <1>13 DEF RowsInv
<1>15. \A r \in rows' : r.field # NoField => r.id = 0
  BY <1>1, <1>2, <1>3, <1>4, <1>9 DEF RowsInv
<1>16. ASSUME NEW s \in Task
       PROVE  \E m \in {0} \cup {r.id : r \in Work!Of(s)'} : \A r \in Work!Of(s)' : r.id <= m
  <2>1. CASE s # t
    <3>1. Work!Of(s)' = Work!Of(s)
      BY <2>1, <1>5, <1>9, <1>10 DEF Work!Of
    <3> QED  BY <3>1 DEF RowsInv
  <2>2. CASE s = t /\ f = NoField
    <3>1. \A r \in stamped : r.id < i
      BY <1>1, <1>4, <2>2 DEF Kept
    <3>2. \A r \in stamped : r.id <= i
      BY <3>1, <1>4 DEF Row
    <3>3. new \in Work!Of(s)' /\ new.id = i
      BY <1>2, <1>8, <2>2
    <3>4. \A r \in Work!Of(s)' : r.id <= i
      BY <1>2, <1>8, <2>2, <3>2
    <3> QED  BY <3>3, <3>4
  <2>3. CASE s = t /\ f # NoField
    <3>1. CASE Kept(t, f) = {}
      <4>1. Work!Of(s)' = {new}
        BY <1>4, <1>8, <2>3, <3>1
      <4> QED  BY <4>1, <1>1, <1>2, <2>3
    <3>2. CASE Kept(t, f) # {}
      <4>1. \A r \in Work!Of(t) : Work!Live(r)
        BY <3>2 DEF Kept, Work!Live, RowsInv, Work!Of
      <4>2. PICK m \in {0} \cup {r.id : r \in Work!Of(t)} : \A r \in Work!Of(t) : r.id <= m
        BY DEF RowsInv
      <4>3. m \in Nat
        BY <4>2 DEF RowsInv, Row, Work!Of
      <4>4. \A r \in Work!Of(s)' : r.id <= m
        BY <1>1, <1>2, <1>4, <1>8, <2>3, <4>2, <4>3 DEF Kept
      <4>5. CASE m = 0
        BY <4>5, <4>4
      <4>6. CASE m # 0
        <5>1. PICK r \in Work!Of(t) : r.id = m
          BY <4>2, <4>6
        <5>2. r \in Kept(t, f)
          BY <5>1, <4>1, <4>6, <2>3 DEF Kept, RowsInv, Work!Of
        <5>3. Stamp(r) \in Work!Of(s)' /\ Stamp(r).id = m
          BY <5>1, <5>2, <1>3, <1>8, <2>3, StampOf DEF stamped
        <5> QED  BY <4>4, <5>3
      <4> QED  BY <4>5, <4>6
    <3> QED  BY <3>1, <3>2
  <2> QED  BY <2>1, <2>2, <2>3
<1> QED  BY <1>6, <1>7, <1>11, <1>14, <1>15, <1>16 DEF RowsInv

-----------------------------------------------------------------------------
(* What a task reads after a write, and what the others read.              *)

SameReads(t) ==
  /\ Work!FieldsOf(t)' = Work!FieldsOf(t)
  /\ Work!ErrorsOf(t)' = Work!ErrorsOf(t)
  /\ Work!TimeLeft(t)' = Work!TimeLeft(t)

LEMMA ReadsOfNext == RowsInv' => \A t \in Task : Reads(t)'
<1>1. (RowsInv => \A t \in Task : Reads(t))'
  BY ReadsOf, PTL
<1> QED  BY <1>1

LEMMA FieldsSame ==
  ASSUME RowsInv, RowsInv', NEW t \in Task, LiveOf(t)' = LiveOf(t)
  PROVE  Work!FieldsOf(t)' = Work!FieldsOf(t) /\ Work!ErrorsOf(t)' = Work!ErrorsOf(t)
<1>1. Reads(t) /\ Reads(t)'
  BY ReadsOf, ReadsOfNext
<1>2. FieldRows(t)' = FieldRows(t) /\ ErrorRows(t)' = ErrorRows(t)
  BY DEF FieldRows, ErrorRows
<1>3. Work!ErrorsOf(t)' = Work!ErrorsOf(t)
  BY <1>1, <1>2 DEF Reads
<1>4. DOMAIN Work!FieldsOf(t)' = DOMAIN Work!FieldsOf(t)
  BY <1>1, <1>2 DEF Reads
<1>5. \A g \in DOMAIN Work!FieldsOf(t) : Work!FieldsOf(t)'[g] = Work!FieldsOf(t)[g]
  BY <1>1, <1>2 DEF Reads
<1>6. /\ Work!FieldsOf(t) = [g \in DOMAIN Work!FieldsOf(t) |-> Work!FieldsOf(t)[g]]
      /\ Work!FieldsOf(t)' = [g \in DOMAIN Work!FieldsOf(t)' |-> Work!FieldsOf(t)'[g]]
  BY <1>1 DEF Reads
<1> QED  BY <1>3, <1>4, <1>5, <1>6

LEMMA LiveSame ==
  ASSUME RowsInv, RowsInv', NEW t \in Task, LiveOf(t)' = LiveOf(t), now' = now
  PROVE  SameReads(t)
<1>1. Reads(t) /\ Reads(t)'
  BY ReadsOf, ReadsOfNext
<1>2. Work!TimeLeft(t)' = Work!TimeLeft(t)
  <2>1. CASE LiveOf(t) = {}
    BY <1>1, <2>1 DEF Reads
  <2>2. CASE LiveOf(t) # {}
    BY <1>1, <2>2 DEF Reads
  <2> QED  BY <2>1, <2>2
<1> QED  BY <1>2, FieldsSame DEF SameReads

LEMMA NothingLive ==
  ASSUME RowsInv, NEW t \in Task, LiveOf(t) = {}
  PROVE  Work!FieldsOf(t) = <<>> /\ Work!ErrorsOf(t) = 0 /\ Work!TimeLeft(t) = 0
<1>1. Reads(t)
  BY ReadsOf
<1>2. FieldRows(t) = {} /\ ErrorRows(t) = {}
  BY DEF FieldRows, ErrorRows
<1>3. DOMAIN Work!FieldsOf(t) = {} /\ Work!FieldsOf(t) = [g \in DOMAIN Work!FieldsOf(t) |-> Work!FieldsOf(t)[g]]
  BY <1>1, <1>2 DEF Reads
<1>4. Work!FieldsOf(t) = <<>>
  BY <1>3
<1> QED  BY <1>1, <1>2, <1>4, FS_EmptySet DEF Reads

LEMMA NothingLiveNext ==
  RowsInv' => \A t \in Task : LiveOf(t)' = {} =>
    Work!FieldsOf(t)' = <<>> /\ Work!ErrorsOf(t)' = 0 /\ Work!TimeLeft(t)' = 0
<1>1. RowsInv => \A s \in Task : LiveOf(s) = {} =>
        Work!FieldsOf(s) = <<>> /\ Work!ErrorsOf(s) = 0 /\ Work!TimeLeft(s) = 0
  BY NothingLive
<1>2. (RowsInv => \A s \in Task : LiveOf(s) = {} =>
         Work!FieldsOf(s) = <<>> /\ Work!ErrorsOf(s) = 0 /\ Work!TimeLeft(s) = 0)'
  BY <1>1, PTL
<1> QED  BY <1>2

LEMMA WriteReads ==
  ASSUME RowsInv, NEW t \in Task, NEW f \in Field \cup {NoField}, NEW v \in Value \cup {NoField}, Work!Set(t, f, v)
  PROVE  /\ \A s \in Task \ {t} : SameReads(s)
         /\ Work!TimeLeft(t)' = TTL
         /\ f # NoField => Work!FieldsOf(t)' = Work!Abstract!Hset(Work!FieldsOf(t), f, v) /\ Work!ErrorsOf(t)' = Work!ErrorsOf(t)
         /\ f = NoField => Work!FieldsOf(t)' = Work!FieldsOf(t) /\ Work!ErrorsOf(t)' = Work!ErrorsOf(t) + 1
<1>1. PICK i \in Nat :
         /\ IF f = NoField THEN \A r \in Work!Of(t) : r.id < i ELSE i = 0
         /\ rows' = (rows \ Work!Of(t)) \cup {NewRow(t, f, v, i)} \cup {Stamp(r) : r \in Kept(t, f)}
         /\ now' = now
  BY WriteRows
<1> DEFINE new == NewRow(t, f, v, i)
           stamped == {Stamp(r) : r \in Kept(t, f)}
<1>2. new.task = t /\ new.field = f /\ new.id = i /\ new.expires = now + TTL /\ new.value = v
  BY DEF NewRow
<1>3. Kept(t, f) \subseteq rows
  BY DEF Kept, Work!Of
<1>4. \A r \in Kept(t, f) : Stamp(r) \in stamped /\ Stamp(r).task = t /\ Stamp(r).field = r.field
                            /\ Stamp(r).id = r.id /\ Stamp(r).value = r.value /\ Stamp(r).expires = now + TTL
  BY StampOf, <1>3 DEF Kept, Work!Of
<1>5. \A r \in stamped : \E s \in Kept(t, f) : r = Stamp(s)
  OBVIOUS
<1> HIDE DEF new, stamped
<1>6. RowsInv'
  BY WriteKeepsRows
<1>7. rows' = (rows \ Work!Of(t)) \cup {new} \cup stamped
  BY <1>1 DEF new, stamped
<1>8. LiveOf(t)' = {new} \cup stamped
  <2>1. Work!Of(t)' = {new} \cup stamped
    BY <1>2, <1>4, <1>5, <1>7 DEF Work!Of
  <2>2. now \in Int /\ now + TTL > now
    BY TTLAssumption DEF RowsInv
  <2> QED  BY <1>1, <1>2, <1>4, <1>5, <2>1, <2>2 DEF LiveOf, Work!Live
<1>9. ASSUME NEW s \in Task \ {t} PROVE SameReads(s)
  <2>1. Work!Of(s)' = Work!Of(s)
    BY <1>2, <1>4, <1>5, <1>7 DEF Work!Of
  <2>2. LiveOf(s)' = LiveOf(s)
    BY <1>1, <2>1 DEF LiveOf, Work!Live
  <2> QED  BY <1>1, <1>6, <2>2, LiveSame
<1>10. Reads(t) /\ Reads(t)'
  BY <1>6, ReadsOf, ReadsOfNext
<1>11. Work!TimeLeft(t)' = TTL
  <2>1. Work!TimeLeft(t)' = (now + TTL) - now
    BY <1>1, <1>2, <1>8, <1>10 DEF Reads
  <2> QED  BY <2>1, TTLAssumption DEF RowsInv
<1>12. ASSUME f # NoField
       PROVE  Work!FieldsOf(t)' = Work!Abstract!Hset(Work!FieldsOf(t), f, v) /\ Work!ErrorsOf(t)' = Work!ErrorsOf(t)
  <2>1. Kept(t, f) = {r \in LiveOf(t) : r.field # f}
    BY <1>12 DEF Kept, LiveOf
  <2>2. FieldRows(t)' = {new} \cup {Stamp(r) : r \in {r \in FieldRows(t) : r.field # f}}
    BY <1>2, <1>4, <1>5, <1>8, <1>12, <2>1 DEF FieldRows
  <2>3. ErrorRows(t)' = {Stamp(r) : r \in ErrorRows(t)}
    BY <1>2, <1>4, <1>5, <1>8, <1>12, <2>1 DEF ErrorRows
  <2>4. Work!ErrorsOf(t)' = Work!ErrorsOf(t)
    BY <1>10, <2>3, StampedSet DEF Reads, ErrorRows, LiveOf, Work!Of
  <2>5. DOMAIN Work!FieldsOf(t)' = {f} \cup DOMAIN Work!FieldsOf(t)
    BY <1>2, <1>4, <1>10, <2>1, <2>2 DEF Reads, FieldRows
  <2>6. Work!FieldsOf(t)'[f] = v
    BY <1>2, <1>10, <2>2 DEF Reads
  <2>7. ASSUME NEW g \in DOMAIN Work!FieldsOf(t), g # f PROVE Work!FieldsOf(t)'[g] = Work!FieldsOf(t)[g]
    <3>1. PICK r \in FieldRows(t) : r.field = g
      BY <1>10 DEF Reads
    <3>2. Stamp(r) \in FieldRows(t)' /\ Stamp(r).field = g /\ Stamp(r).value = r.value
      BY <1>4, <2>1, <2>2, <2>7, <3>1 DEF FieldRows
    <3> QED  BY <1>10, <3>1, <3>2 DEF Reads
  <2>8. Work!FieldsOf(t)' = [g \in DOMAIN Work!FieldsOf(t)' |-> Work!FieldsOf(t)'[g]]
    BY <1>10 DEF Reads
  <2> QED  BY <2>4, <2>5, <2>6, <2>7, <2>8 DEF Work!Abstract!Hset
<1>13. ASSUME f = NoField
       PROVE  Work!FieldsOf(t)' = Work!FieldsOf(t) /\ Work!ErrorsOf(t)' = Work!ErrorsOf(t) + 1
  <2>1. Kept(t, f) = LiveOf(t)
    BY <1>13 DEF Kept, LiveOf
  <2>2. FieldRows(t)' = {Stamp(r) : r \in FieldRows(t)}
    BY <1>2, <1>4, <1>5, <1>8, <1>13, <2>1 DEF FieldRows
  <2>3. ErrorRows(t)' = {Stamp(r) : r \in ErrorRows(t)} \cup {new}
    BY <1>2, <1>4, <1>5, <1>8, <1>13, <2>1 DEF ErrorRows
  <2>4. new \notin {Stamp(r) : r \in ErrorRows(t)}
    BY <1>1, <1>2, <1>4, <1>13, <2>1 DEF ErrorRows, LiveOf
  <2>5. ErrorRows(t) \subseteq rows
    BY DEF ErrorRows, LiveOf, Work!Of
  <2>6. Work!ErrorsOf(t)' = Work!ErrorsOf(t) + 1
    <3>1. /\ IsFiniteSet({Stamp(r) : r \in ErrorRows(t)})
          /\ Cardinality({Stamp(r) : r \in ErrorRows(t)}) = Cardinality(ErrorRows(t))
      BY <2>5, StampedSet
    <3>2. Cardinality(ErrorRows(t)') = Cardinality(ErrorRows(t)) + 1
      BY <2>3, <2>4, <3>1, FS_AddElement
    <3> QED  BY <1>10, <3>2 DEF Reads
  <2>7. DOMAIN Work!FieldsOf(t)' = DOMAIN Work!FieldsOf(t)
    BY <1>4, <1>10, <2>1, <2>2 DEF Reads, FieldRows
  <2>8. ASSUME NEW g \in DOMAIN Work!FieldsOf(t) PROVE Work!FieldsOf(t)'[g] = Work!FieldsOf(t)[g]
    <3>1. PICK r \in FieldRows(t) : r.field = g
      BY <1>10 DEF Reads
    <3>2. Stamp(r) \in FieldRows(t)' /\ Stamp(r).field = g /\ Stamp(r).value = r.value
      BY <1>4, <2>1, <2>2, <3>1 DEF FieldRows
    <3> QED  BY <1>10, <3>1, <3>2 DEF Reads
  <2>9. /\ Work!FieldsOf(t) = [g \in DOMAIN Work!FieldsOf(t) |-> Work!FieldsOf(t)[g]]
        /\ Work!FieldsOf(t)' = [g \in DOMAIN Work!FieldsOf(t)' |-> Work!FieldsOf(t)'[g]]
    BY <1>10 DEF Reads
  <2> QED  BY <2>6, <2>7, <2>8, <2>9
<1> QED  BY <1>9, <1>11, <1>12, <1>13

-----------------------------------------------------------------------------
(* Every operation of the table is one of WorkingMemory's.                 *)

LEMMA SetImplements ==
  ASSUME RowsInv, NEW t \in Task, NEW f \in Field, NEW v \in Value, Work!Set(t, f, v)
  PROVE  Work!Abstract!Set(t, f, v)
<1>1. f # NoField
  BY NoFieldAssumption DEF Field
<1> DEFINE hset == Work!Abstract!Hset(Work!FieldsOf(t), f, v)
<1>2. /\ Work!FieldsOf(t)' = hset /\ Work!ErrorsOf(t)' = Work!ErrorsOf(t) /\ Work!TimeLeft(t)' = TTL
      /\ \A s \in Task \ {t} : SameReads(s)
  BY <1>1, WriteReads
<1>3. [s \in Task |-> Work!FieldsOf(s)][t] = Work!FieldsOf(t)
  OBVIOUS
<1>4. Work!Abstract!Hset([s \in Task |-> Work!FieldsOf(s)][t], f, v) = hset
  BY <1>3
<1> HIDE DEF hset
<1> QED  BY <1>2, <1>4 DEF SameReads, Work!Abstract!Set, Work!Abstract!Touch

LEMMA RecordErrorImplements ==
  ASSUME RowsInv, NEW t \in Task, Work!RecordError(t)
  PROVE  Work!Abstract!RecordError(t)
<1>1. Work!Set(t, NoField, NoField)
  BY DEF Work!RecordError
<1> QED  BY <1>1, WriteReads DEF SameReads, Work!Abstract!RecordError, Work!Abstract!Touch

(* Deleting every row of some tasks, or some rows that have expired.       *)
LEMMA DeleteKeepsRows ==
  ASSUME RowsInv, NEW gone \in SUBSET Task, rows' = {r \in rows : r.task \notin gone}, now' = now
  PROVE  /\ RowsInv'
         /\ \A t \in gone : LiveOf(t)' = {}
         /\ \A t \in Task \ gone : LiveOf(t)' = LiveOf(t)
<1>1. \A t \in Task : Work!Of(t)' = IF t \in gone THEN {} ELSE Work!Of(t)
  BY DEF Work!Of
<1>2. IsFiniteSet(rows') /\ rows' \subseteq rows
  BY FS_Subset DEF RowsInv
<1>3. \A t \in Task : \E m \in {0} \cup {r.id : r \in Work!Of(t)'} : \A r \in Work!Of(t)' : r.id <= m
  BY <1>1 DEF RowsInv
<1>4. RowsInv'
  BY <1>2, <1>3 DEF RowsInv
<1> QED  BY <1>1, <1>4 DEF LiveOf, Work!Live

LEMMA SweepStutters ==
  ASSUME RowsInv, Work!Sweep
  PROVE  RowsInv' /\ \A t \in Task : SameReads(t)
<1>1. rows' = {r \in rows : Work!Live(r)} /\ now' = now
  BY DEF Work!Sweep
<1> DEFINE gone == {t \in Task : \E r \in Work!Of(t) : ~Work!Live(r)}
<1>2. rows' = {r \in rows : r.task \notin gone}
  BY <1>1 DEF RowsInv, Row, Work!Of, Work!Live
<1>3. \A t \in gone : LiveOf(t) = {}
  BY DEF LiveOf, Work!Of, Work!Live, RowsInv
<1> HIDE DEF gone
<1>4. gone \in SUBSET Task
  BY DEF gone
<1>5. RowsInv' /\ \A t \in Task : LiveOf(t)' = LiveOf(t)
  BY <1>1, <1>2, <1>3, <1>4, DeleteKeepsRows
<1> QED  BY <1>1, <1>5, LiveSame

LEMMA ClearImplements ==
  ASSUME RowsInv, NEW t \in Task, Work!Clear(t)
  PROVE  RowsInv' /\ Work!Abstract!Clear(t)
<1>1. rows' = {r \in rows : r.task \notin {t}} /\ now' = now
  BY DEF Work!Clear, Work!Of
<1>2. RowsInv' /\ LiveOf(t)' = {} /\ \A s \in Task \ {t} : LiveOf(s)' = LiveOf(s)
  BY <1>1, DeleteKeepsRows
<1>3. Work!FieldsOf(t)' = <<>> /\ Work!ErrorsOf(t)' = 0 /\ Work!TimeLeft(t)' = 0
  BY <1>2, NothingLiveNext
<1>4. \A s \in Task \ {t} : SameReads(s)
  BY <1>1, <1>2, LiveSame
<1> QED  BY <1>2, <1>3, <1>4 DEF SameReads, Work!Abstract!Clear, Work!Abstract!Drop, Work!Abstract!Empty

(* The expired rows that go as well were not read any more.                *)
LEMMA ClearUserImplements ==
  ASSUME RowsInv, NEW u \in Value, Work!ClearUser(u)
  PROVE  RowsInv' /\ Work!Abstract!ClearUser(u)
<1> DEFINE gone == {t \in Task : \E r \in Work!Of(t) : r.field = "user_id" /\ r.value = u}
           owned == {t \in Task : "user_id" \in DOMAIN Work!FieldsOf(t) /\ Work!FieldsOf(t)["user_id"] = u}
<1>1. rows' = {r \in rows : r.task \notin gone} /\ now' = now
  BY DEF Work!ClearUser, Work!OwnedRows, Work!Of, RowsInv, Row
<1>2. \A t \in owned : t \in gone
  <2> SUFFICES ASSUME NEW t \in owned PROVE t \in gone
    OBVIOUS
  <2>1. Reads(t)
    BY ReadsOf
  <2>2. PICK r \in FieldRows(t) : r.field = "user_id" /\ r.value = u
    BY <2>1 DEF Reads
  <2> QED  BY <2>2 DEF FieldRows, LiveOf
<1>3. ASSUME NEW t \in gone, t \notin owned PROVE LiveOf(t) = {}
  <2>1. Reads(t)
    BY ReadsOf
  <2>2. PICK r \in Work!Of(t) : r.field = "user_id" /\ r.value = u
    OBVIOUS
  <2>3. r \notin FieldRows(t)
    BY <1>3, <2>1, <2>2 DEF Reads
  <2>4. ~Work!Live(r)
    BY <2>2, <2>3, NoFieldAssumption DEF FieldRows, LiveOf
  <2> QED  BY <2>2, <2>4 DEF LiveOf, Work!Of, Work!Live, RowsInv
<1> HIDE DEF gone
<1>4. gone \in SUBSET Task
  BY DEF gone
<1>5. /\ RowsInv'
      /\ \A t \in gone : LiveOf(t)' = {}
      /\ \A s \in Task \ gone : LiveOf(s)' = LiveOf(s)
  BY <1>1, <1>4, DeleteKeepsRows
<1>6. \A t \in owned : Work!FieldsOf(t)' = <<>> /\ Work!ErrorsOf(t)' = 0 /\ Work!TimeLeft(t)' = 0
  BY <1>2, <1>5, NothingLiveNext
<1>7. \A t \in Task \ owned : SameReads(t)
  <2> SUFFICES ASSUME NEW t \in Task, t \notin owned PROVE SameReads(t)
    OBVIOUS
  <2>1. LiveOf(t)' = LiveOf(t)
    <3>1. CASE t \in gone
      BY <1>3, <1>5, <3>1
    <3>2. CASE t \notin gone
      BY <1>5, <3>2
    <3> QED  BY <3>1, <3>2
  <2> QED  BY <1>1, <1>5, <2>1, LiveSame
<1>8. Work!Abstract!Owned(u) = owned
  BY DEF Work!Abstract!Owned
<1> HIDE DEF owned
<1> QED  BY <1>5, <1>6, <1>7, <1>8 DEF SameReads, Work!Abstract!ClearUser, Work!Abstract!Drop, Work!Abstract!Empty

(* A tick takes the last moment from the tasks that had one left.          *)
LEMMA TickImplements ==
  ASSUME RowsInv, Work!Tick
  PROVE  RowsInv' /\ Work!Abstract!Tick
<1>1. now' = now + 1 /\ rows' = rows /\ now \in Nat
  BY DEF Work!Tick, RowsInv
<1>2. RowsInv'
  BY <1>1 DEF RowsInv, Work!Of
<1>3. \A t \in Task : Reads(t) /\ Reads(t)'
  BY <1>2, ReadsOf, ReadsOfNext
<1>4. \A r \in rows : r.expires \in Int
  BY DEF RowsInv, Row
<1>5. ASSUME NEW t \in Task, LiveOf(t) = {}
      PROVE  LiveOf(t)' = {} /\ Work!TimeLeft(t) = 0
  <2>1. \A r \in Work!Of(t) : r \in rows /\ ~(r.expires > now)
    BY <1>5 DEF LiveOf, Work!Live, Work!Of
  <2>2. Work!Of(t)' = Work!Of(t)
    BY <1>1 DEF Work!Of
  <2>3. LiveOf(t)' = {}
    BY <1>1, <1>4, <2>1, <2>2 DEF LiveOf, Work!Live
  <2> QED  BY <1>3, <1>5, <2>3 DEF Reads
<1>6. ASSUME NEW t \in Task, NEW r \in LiveOf(t)
      PROVE  /\ Work!TimeLeft(t) = r.expires - now /\ Work!TimeLeft(t) \in Nat \ {0}
             /\ IF Work!TimeLeft(t) <= 1 THEN LiveOf(t)' = {}
                ELSE LiveOf(t)' = LiveOf(t) /\ Work!TimeLeft(t)' = Work!TimeLeft(t) - 1
  <2>1. Work!TimeLeft(t) = r.expires - now /\ r.expires - now \in Nat \ {0}
    BY <1>3 DEF Reads
  <2>2. \A s \in Work!Of(t) : s.expires = r.expires
    BY DEF LiveOf, Work!Of, RowsInv
  <2>3. Work!Of(t)' = Work!Of(t)
    BY <1>1 DEF Work!Of
  <2>4. r.expires \in Int /\ r \in rows
    BY <1>4 DEF LiveOf, Work!Of
  <2>5. CASE r.expires - now <= 1
    <3>1. LiveOf(t)' = {}
      BY <1>1, <2>2, <2>3, <2>4, <2>5 DEF LiveOf, Work!Live
    <3> QED  BY <2>1, <2>5, <3>1
  <2>6. CASE ~(r.expires - now <= 1)
    <3>1. LiveOf(t)' = Work!Of(t) /\ LiveOf(t) = Work!Of(t)
      BY <1>1, <2>2, <2>3, <2>4, <2>6 DEF LiveOf, Work!Live
    <3>2. Work!TimeLeft(t)' = r.expires - (now + 1)
      BY <1>1, <1>3, <3>1 DEF Reads
    <3> QED  BY <1>1, <2>1, <2>4, <2>6, <3>1, <3>2
  <2> QED  BY <2>5, <2>6
<1> DEFINE gone == {t \in Task : Work!TimeLeft(t) <= 1}
<1>7. ASSUME NEW t \in gone PROVE LiveOf(t)' = {} /\ Work!TimeLeft(t) \in {0, 1}
  BY <1>5, <1>6
<1>8. \A t \in gone : Work!FieldsOf(t)' = <<>> /\ Work!ErrorsOf(t)' = 0 /\ Work!TimeLeft(t)' = 0
  BY <1>2, <1>7, NothingLiveNext
<1>9. ASSUME NEW t \in Task \ gone
      PROVE  /\ Work!FieldsOf(t)' = Work!FieldsOf(t) /\ Work!ErrorsOf(t)' = Work!ErrorsOf(t)
             /\ Work!TimeLeft(t) # 0 /\ Work!TimeLeft(t)' = Work!TimeLeft(t) - 1
  <2>1. LiveOf(t)' = LiveOf(t) /\ Work!TimeLeft(t) # 0 /\ Work!TimeLeft(t)' = Work!TimeLeft(t) - 1
    BY <1>5, <1>6
  <2> QED  BY <1>2, <2>1, FieldsSame
<1>10. \A t \in Task : Work!TimeLeft(t)' = IF Work!TimeLeft(t) = 0 THEN 0 ELSE Work!TimeLeft(t) - 1
  <2> SUFFICES ASSUME NEW t \in Task
               PROVE  Work!TimeLeft(t)' = IF Work!TimeLeft(t) = 0 THEN 0 ELSE Work!TimeLeft(t) - 1
    OBVIOUS
  <2>1. CASE t \in gone
    BY <1>7, <1>8, <2>1
  <2>2. CASE t \notin gone
    BY <1>9, <2>2
  <2> QED  BY <2>1, <2>2
<1>11. \A t \in Task : /\ Work!FieldsOf(t)' = IF t \in gone THEN <<>> ELSE Work!FieldsOf(t)
                       /\ Work!ErrorsOf(t)' = IF t \in gone THEN 0 ELSE Work!ErrorsOf(t)
  BY <1>8, <1>9
<1> HIDE DEF gone
<1>12. {t \in Task : [s \in Task |-> Work!TimeLeft(s)][t] <= 1} = gone
  BY DEF gone
<1> QED  BY <1>2, <1>10, <1>11, <1>12 DEF Work!Abstract!Tick, Work!Abstract!Drop, Work!Abstract!Empty

-----------------------------------------------------------------------------
(* The tasks, the clock and the purge.                                     *)

Reading == <<[t \in Task |-> Work!FieldsOf(t)], [t \in Task |-> Work!ErrorsOf(t)], [t \in Task |-> Work!TimeLeft(t)]>>

LEMMA SameReading ==
  ASSUME \A t \in Task : SameReads(t)
  PROVE  UNCHANGED Reading
BY DEF Reading, SameReads

LEMMA NothingWritten ==
  ASSUME RowsInv, UNCHANGED workVars
  PROVE  RowsInv' /\ UNCHANGED Reading
<1>1. rows' = rows /\ now' = now
  BY DEF workVars
<1>2. RowsInv'
  BY <1>1 DEF RowsInv, Work!Of
<1>3. \A t \in Task : LiveOf(t)' = LiveOf(t)
  BY <1>1 DEF LiveOf, Work!Of, Work!Live
<1> QED  BY <1>1, <1>2, <1>3, LiveSame, SameReading

LEMMA TaskImplements ==
  ASSUME RowsInv, NEW t \in Task, TaskStep(t)
  PROVE  RowsInv' /\ (Work!Abstract!Next \/ UNCHANGED Reading)
<1> DEFINE Good == RowsInv' /\ (Work!Abstract!Next \/ UNCHANGED Reading)
<1>1. ASSUME NEW f \in Field, NEW v \in Value, Work!Set(t, f, v) PROVE Good
  BY <1>1, WriteKeepsRows, SetImplements DEF Work!Abstract!Next
<1>2. CASE Intake(t)
  BY <1>2, SweepStutters, SameReading DEF Intake
<1>3. CASE StartWork(t)
  <2>1. Work!Set(t, "user_id", OwnerOf[t]) /\ OwnerOf[t] \in Value
    BY <1>3, OwnerAssumption DEF StartWork, Work!Start, Value
  <2> QED  BY <1>1, <2>1 DEF Field
<1>4. CASE WritePlan(t)
  <2>1. Work!Set(t, "plan", "text")
    BY <1>4 DEF WritePlan
  <2> QED  BY <1>1, <2>1 DEF Field, Value
<1>5. CASE RecordError(t)
  <2>1. Work!RecordError(t) /\ Work!Set(t, NoField, NoField)
    BY <1>5 DEF RecordError, Work!RecordError
  <2> QED  BY <2>1, WriteKeepsRows, RecordErrorImplements DEF Work!Abstract!Next
<1>6. CASE RecordOutput(t)
  <2>1. Work!Set(t, "output", "text")
    BY <1>6 DEF RecordOutput
  <2> QED  BY <1>1, <2>1 DEF Field, Value
<1>7. CASE ClearWork(t)
  BY <1>7, ClearImplements DEF ClearWork, Work!Abstract!Next
<1>8. CASE Query(t) \/ MarkRetrieved(t) \/ Learn(t) \/ LearnNothing(t) \/ Fail(t)
  BY <1>8, NothingWritten DEF Query, MarkRetrieved, Learn, LearnNothing, Fail
<1> QED  BY <1>2, <1>3, <1>4, <1>5, <1>6, <1>7, <1>8 DEF TaskStep

LEMMA StepImplements ==
  ASSUME RowsInv, [Next]_vars
  PROVE  RowsInv' /\ (Work!Abstract!Next \/ UNCHANGED Reading)
<1>1. ASSUME NEW t \in Task, TaskStep(t) PROVE RowsInv' /\ (Work!Abstract!Next \/ UNCHANGED Reading)
  BY <1>1, TaskImplements
<1>2. ASSUME NEW j \in Job, Maintain(j) PROVE RowsInv' /\ UNCHANGED Reading
  BY <1>2, NothingWritten DEF Maintain
<1>3. ASSUME NEW u \in User, PurgeLongTerm(u) \/ PurgeEvents(u) PROVE RowsInv' /\ UNCHANGED Reading
  BY <1>3, NothingWritten DEF PurgeLongTerm, PurgeEvents
<1>4. ASSUME NEW u \in User, PurgeWorking(u) PROVE RowsInv' /\ Work!Abstract!Next
  <2>1. u \in Value
    BY DEF Value
  <2> QED  BY <1>4, <2>1, ClearUserImplements DEF PurgeWorking, Work!Abstract!Next
<1>5. CASE Tick
  BY <1>5, TickImplements DEF Tick, Work!Abstract!Next
<1>6. CASE UNCHANGED vars
  BY <1>6, NothingWritten DEF vars, workVars
<1> QED  BY <1>1, <1>2, <1>3, <1>4, <1>5, <1>6 DEF Next

LEMMA RowsInit == Init => RowsInv /\ Work!Abstract!Init
<1> SUFFICES ASSUME Init PROVE RowsInv /\ Work!Abstract!Init
  OBVIOUS
<1>1. rows = {} /\ now = 0
  BY DEF Init, Work!Init
<1>2. RowsInv
  BY <1>1, FS_EmptySet DEF RowsInv, Work!Of
<1>3. \A t \in Task : LiveOf(t) = {}
  BY <1>1 DEF LiveOf, Work!Of
<1> QED  BY <1>2, <1>3, NothingLive DEF Work!Abstract!Init, Work!Abstract!Empty

LEMMA RowsAlways == Spec => []RowsInv
<1>1. RowsInv /\ [Next]_vars => RowsInv'
  BY StepImplements
<1> QED  BY <1>1, RowsInit, PTL DEF Spec

(* The working_memory table implements what the Redis store does with a    *)
(* hash and a list per task (PostgresWorkingMemory, memory/working.py):    *)
(* for all tasks, users and lives of a key, whatever the tasks, the clock  *)
(* and the purges do to the table is a step of WorkingMemory on what the   *)
(* reads return, or not to be seen in it.                                  *)
THEOREM TableImplementsWorkingMemory == Spec => ImplementsWorkingMemory
<1>1. RowsInv /\ [Next]_vars =>
        [Work!Abstract!Next]_<<[t \in Task |-> Work!FieldsOf(t)], [t \in Task |-> Work!ErrorsOf(t)],
                               [t \in Task |-> Work!TimeLeft(t)]>>
  BY StepImplements DEF Reading
<1> QED  BY <1>1, RowsInit, RowsAlways, PTL DEF Spec, ImplementsWorkingMemory, Work!Abstract!Spec

-----------------------------------------------------------------------------
(* The inductive invariant of the long-term memory.                        *)

IsRow(r) == r \in [user : User, facts : {r.facts}, count : {r.count}, last : {r.last}]

(* A table of memories, or a snapshot of it.                               *)
IsTable(rs) ==
  /\ rs = [m \in DOMAIN rs |-> rs[m]]
  /\ DOMAIN rs \subseteq 1..used
  /\ \A m \in DOMAIN rs : IsRow(rs[m])

(* Groups are of one user's memories, and of those that were read.         *)
OfOne(c, seen) == c \subseteq DOMAIN seen /\ c # {} /\ \A m, n \in c : seen[m].user = seen[n].user

Jobs == {"idle", "merge", "drop", "recompute", "expire"}

JobInv(j) ==
  /\ job[j] \in [pc : Jobs, seen : {job[j].seen}, todo : {job[j].todo}, members : {job[j].members}]
  /\ job[j].pc = "idle" => job[j] = Idle
  /\ IsTable(job[j].seen)
  /\ \A c \in job[j].todo : OfOne(c, job[j].seen)
  /\ job[j].members \subseteq DOMAIN job[j].seen
  /\ job[j].pc = "drop" => OfOne(job[j].members, job[j].seen)

(* Whose memory it is and what it says never changes.                      *)
SnapshotInv(j) ==
  \A m \in DOMAIN job[j].seen \cap DOMAIN memory :
    job[j].seen[m].user = memory[m].user /\ job[j].seen[m].facts = memory[m].facts

StoreTypes ==
  /\ used \in 0..MaxMemory /\ IsTable(memory)
  /\ job = [j \in Job |-> job[j]] /\ \A j \in Job : JobInv(j) /\ SnapshotInv(j)
  /\ accesses = [m \in Id |-> accesses[m]] /\ \A m \in Id : m > used => accesses[m] = 0

TaskTypes ==
  /\ task = [t \in Task |-> task[t]]
  /\ \A t \in Task : task[t] \in [pc : {task[t].pc}, hits : {task[t].hits}]
  /\ purge \in [User -> {"none", "working", "events", "done"}]

(* What the members said that a job is about to delete stands in memories  *)
(* that are newer than anything the job has read.                          *)
NewerThan(seen) == {m \in DOMAIN memory : \A n \in DOMAIN seen : m > n}
MergedInv ==
  \A j \in Job : job[j].pc = "drop" =>
    UNION {job[j].seen[m].facts : m \in job[j].members} \subseteq FactsOf(NewerThan(job[j].seen)) \cup forgotten

(* Nobody's memories state what somebody else's tasks taught.              *)
Taught(u) ==
  (UNION {Lesson[t] : t \in {t \in Task : OwnerOf[t] = u}})
  \cup (UNION {Known[n].facts : n \in {n \in DOMAIN Known : Known[n].user = u}})
OwnFacts(rs) == \A m \in DOMAIN rs : rs[m].facts \subseteq Taught(rs[m].user)
FactsInv == OwnFacts(memory) /\ \A j \in Job : OwnFacts(job[j].seen)

KeptInv == learned \ forgotten \subseteq FactsOf(DOMAIN memory) /\ MergedInv /\ FactsInv

(* An expiry run writes back a count only if it is still the memory's.     *)
CountInv ==
  /\ \A m \in DOMAIN memory \ overtaken : memory[m].count = accesses[m]
  /\ \A j \in Job : job[j].pc = "recompute" =>
       \A m \in (DOMAIN job[j].seen \cap DOMAIN memory) \ overtaken : job[j].seen[m].count = memory[m].count

(* A task's rows come with a row that says whose they are, unless it wrote *)
(* after that row was gone.                                                *)
OwnerInv ==
  /\ \A r \in rows : r.field = "user_id" => r.value = OwnerOf[r.task]
  /\ \A r \in rows : r.task \in adrift \/ \E s \in Work!Of(r.task) : s.field = "user_id"

(* A user whose purge is undisturbed.                                      *)
CalmInv ==
  \A u \in calm :
    /\ u \in User /\ purge[u] # "none"
    /\ \A t \in Task : OwnerOf[t] = u => task[t].pc \in {"new", "over"}
    /\ OwnedBy(u) = {}
    /\ \A j \in Job : purge[u] # "done" => job[j].pc = "idle"
    /\ \A j \in Job : \A m \in DOMAIN job[j].seen : job[j].seen[m].user # u
    /\ purge[u] # "working" => \A r \in rows : OwnerOf[r.task] = u => r.task \in adrift
    /\ purge[u] = "done" => u \notin events


-----------------------------------------------------------------------------
(* What the store's operations do to the memories.                         *)

(* No memory changes hands or text, and only new ones come in.             *)
Moves ==
  /\ used' \in used..MaxMemory /\ IsTable(memory)'
  /\ \A m \in DOMAIN memory' :
       \/ m \in DOMAIN memory /\ memory'[m].user = memory[m].user /\ memory'[m].facts = memory[m].facts
       \/ m > used

LEMMA BumpMoves ==
  ASSUME StoreTypes, NEW seen, NEW n, Bump(seen, n), used' = used
  PROVE  /\ Moves /\ DOMAIN memory' = DOMAIN memory
         /\ \A m \in DOMAIN memory :
              /\ memory'[m].user = memory[m].user /\ memory'[m].facts = memory[m].facts
              /\ memory'[m].count = IF m \in DOMAIN seen THEN memory[m].count + 1 ELSE memory[m].count
<1>1. memory' = [m \in DOMAIN memory |-> IF m \in DOMAIN seen THEN Accessed(memory[m], n) ELSE memory[m]]
  BY DEF Bump
<1>2. \A m \in DOMAIN memory : IsRow(memory[m])
  BY DEF StoreTypes, IsTable
<1>3. ASSUME NEW m \in DOMAIN memory
      PROVE  /\ IsRow(Accessed(memory[m], n))
             /\ Accessed(memory[m], n).user = memory[m].user /\ Accessed(memory[m], n).facts = memory[m].facts
             /\ Accessed(memory[m], n).count = memory[m].count + 1
  BY <1>2 DEF Accessed, IsRow
<1>4. /\ DOMAIN memory' = DOMAIN memory
      /\ \A m \in DOMAIN memory :
           /\ IsRow(memory'[m]) /\ memory'[m].user = memory[m].user /\ memory'[m].facts = memory[m].facts
           /\ memory'[m].count = IF m \in DOMAIN seen THEN memory[m].count + 1 ELSE memory[m].count
  BY <1>1, <1>2, <1>3
<1>5. IsTable(memory)'
  BY <1>1, <1>4 DEF IsTable, StoreTypes
<1> QED  BY <1>4, <1>5 DEF Moves, StoreTypes

LEMMA SetMetadataMoves ==
  ASSUME StoreTypes, NEW seen, NEW ids, SetMetadata(ids, seen), used' = used
  PROVE  /\ Moves /\ DOMAIN memory' = DOMAIN memory
         /\ \A m \in DOMAIN memory :
              /\ memory'[m].user = memory[m].user /\ memory'[m].facts = memory[m].facts
              /\ memory'[m].count = IF m \in ids THEN seen[m].count ELSE memory[m].count
<1> DEFINE set(m) == [memory[m] EXCEPT !.count = seen[m].count, !.last = seen[m].last]
<1>1. memory' = [m \in DOMAIN memory |-> IF m \in ids THEN set(m) ELSE memory[m]]
  BY DEF SetMetadata
<1>2. \A m \in DOMAIN memory : IsRow(memory[m])
  BY DEF StoreTypes, IsTable
<1>3. ASSUME NEW m \in DOMAIN memory
      PROVE  /\ IsRow(set(m)) /\ set(m).user = memory[m].user /\ set(m).facts = memory[m].facts
             /\ set(m).count = seen[m].count
  BY <1>2 DEF IsRow
<1> HIDE DEF set
<1>4. /\ DOMAIN memory' = DOMAIN memory
      /\ \A m \in DOMAIN memory :
           /\ IsRow(memory'[m]) /\ memory'[m].user = memory[m].user /\ memory'[m].facts = memory[m].facts
           /\ memory'[m].count = IF m \in ids THEN seen[m].count ELSE memory[m].count
  BY <1>1, <1>2, <1>3
<1>5. IsTable(memory)'
  BY <1>1, <1>4 DEF IsTable, StoreTypes
<1> QED  BY <1>4, <1>5 DEF Moves, StoreTypes

LEMMA DeleteMoves ==
  ASSUME StoreTypes, NEW ids, Delete(ids), used' = used
  PROVE  /\ Moves /\ DOMAIN memory' = DOMAIN memory \ ids
         /\ \A m \in DOMAIN memory' : memory'[m] = memory[m]
<1>1. memory' = [m \in DOMAIN memory \ ids |-> memory[m]]
  BY DEF Delete, Restrict
<1>2. IsTable(memory)'
  BY <1>1 DEF IsTable, StoreTypes, IsRow
<1> QED  BY <1>1, <1>2 DEF Moves, StoreTypes

LEMMA AddMoves ==
  ASSUME StoreTypes, NEW id, NEW user \in User, NEW facts, NEW count, NEW n, Add(id, user, facts, count, n)
  PROVE  /\ Moves /\ id = used + 1 /\ used' = id /\ id \in Id /\ id \notin DOMAIN memory
         /\ DOMAIN memory' = DOMAIN memory \cup {id}
         /\ memory'[id].user = user /\ memory'[id].facts = facts /\ memory'[id].count = count
         /\ \A m \in DOMAIN memory : memory'[m] = memory[m]
<1> DEFINE row == [user |-> user, facts |-> facts, count |-> count, last |-> n]
<1>1. /\ id = used + 1 /\ used' = id /\ id \in Id
      /\ memory' = [m \in DOMAIN memory \cup {id} |-> IF m = id THEN row ELSE memory[m]]
  BY DEF Add
<1>2. DOMAIN memory \subseteq 1..used /\ used \in 0..MaxMemory /\ MaxMemory \in Nat
  BY BoundAssumption DEF StoreTypes, IsTable
<1>3. id \notin DOMAIN memory /\ DOMAIN memory \cup {id} \subseteq 1..used' /\ used' \in used..MaxMemory
  BY <1>1, <1>2 DEF Id
<1>4. IsRow(row) /\ row.user = user /\ row.facts = facts /\ row.count = count
  BY DEF IsRow
<1> HIDE DEF row
<1>5. IsTable(memory)'
  <2>1. \A m \in DOMAIN memory : IsRow(memory[m])
    BY DEF StoreTypes, IsTable
  <2>2. memory' = [m \in DOMAIN memory' |-> memory'[m]]
    BY <1>1
  <2>3. \A m \in DOMAIN memory' : IsRow(memory'[m])
    BY <1>1, <1>4, <2>1
  <2> QED  BY <1>1, <1>3, <2>2, <2>3 DEF IsTable, IsRow
<1>6. \A m \in DOMAIN memory' : m \in DOMAIN memory \/ m > used
  BY <1>1, <1>2
<1> QED  BY <1>1, <1>3, <1>4, <1>5, <1>6 DEF Moves

LEMMA StayMoves ==
  ASSUME StoreTypes, UNCHANGED <<memory, used>>
  PROVE  Moves
BY DEF StoreTypes, IsTable, IsRow, Moves

-----------------------------------------------------------------------------
(* Types.                                                                  *)

LEMMA OtherJob ==
  ASSUME StoreTypes, Moves, NEW j \in Job, job'[j] = job[j]
  PROVE  JobInv(j)' /\ SnapshotInv(j)'
<1>1. JobInv(j) /\ SnapshotInv(j) /\ used \in Int /\ used' \in Int /\ used <= used'
  BY BoundAssumption DEF StoreTypes, Moves
<1>2. IsTable(job[j].seen)'
  BY <1>1 DEF JobInv, IsTable, IsRow
<1>3. JobInv(j)'
  BY <1>1, <1>2 DEF JobInv, OfOne, Idle
<1>4. SnapshotInv(j)'
  <2>1. \A m \in DOMAIN job[j].seen : m \in 1..used
    BY <1>1 DEF JobInv, IsTable
  <2> QED  BY <1>1, <2>1 DEF SnapshotInv, Moves
<1> QED  BY <1>3, <1>4

LEMMA SameJobs ==
  ASSUME StoreTypes, Moves, job' = job, accesses' = [m \in Id |-> accesses'[m]],
         \A m \in Id : m > used' => accesses'[m] = 0
  PROVE  StoreTypes'
<1>1. \A j \in Job : JobInv(j)' /\ SnapshotInv(j)'
  BY OtherJob
<1> QED  BY <1>1, BoundAssumption DEF StoreTypes, Moves

(* One job moves on.                                                       *)
LEMMA OneJob ==
  ASSUME StoreTypes, Moves, NEW j \in Job, NEW next, job' = [job EXCEPT ![j] = next],
         JobInv(j)', SnapshotInv(j)',
         accesses' = [m \in Id |-> accesses'[m]], \A m \in Id : m > used' => accesses'[m] = 0
  PROVE  StoreTypes'
<1>1. \A k \in Job : k # j => JobInv(k)' /\ SnapshotInv(k)'
  BY OtherJob DEF StoreTypes
<1>2. job' = [k \in Job |-> job'[k]]
  BY DEF StoreTypes
<1> QED  BY <1>1, <1>2, BoundAssumption DEF StoreTypes, Moves

(* A job that read the memories just now.                                  *)
LEMMA FreshSnapshot ==
  ASSUME StoreTypes, NEW j \in Job, UNCHANGED <<memory, used, accesses>>, NEW pc \in {"merge", "recompute"}, NEW todo,
         \A c \in todo : OfOne(c, memory),
         job' = [job EXCEPT ![j] = [pc |-> pc, seen |-> memory, todo |-> todo, members |-> {}]]
  PROVE  StoreTypes' /\ Moves
<1>1. Moves
  BY StayMoves
<1>2. job'[j] = [pc |-> pc, seen |-> memory, todo |-> todo, members |-> {}]
  BY DEF StoreTypes
<1>3. JobInv(j)'
  BY <1>2 DEF JobInv, Jobs, OfOne, StoreTypes, IsTable, IsRow
<1>4. SnapshotInv(j)'
  BY <1>2 DEF SnapshotInv
<1>5. accesses' = [m \in Id |-> accesses'[m]] /\ \A m \in Id : m > used' => accesses'[m] = 0
  BY DEF StoreTypes
<1> QED  BY <1>1, <1>3, <1>4, <1>5, OneJob

(* A job that is done, or dies.                                            *)
LEMMA JobEnds ==
  ASSUME StoreTypes, Moves, NEW j \in Job, UNCHANGED <<used, accesses>>, job' = [job EXCEPT ![j] = Idle]
  PROVE  StoreTypes'
<1>1. job'[j] = Idle
  BY DEF StoreTypes
<1>2. JobInv(j)' /\ SnapshotInv(j)'
  BY <1>1 DEF JobInv, SnapshotInv, Idle, Jobs, IsTable
<1>3. accesses' = [m \in Id |-> accesses'[m]] /\ \A m \in Id : m > used' => accesses'[m] = 0
  BY DEF StoreTypes
<1> QED  BY <1>2, <1>3, OneJob

(* A job goes on with what it has read.                                    *)
LEMMA JobGoesOn ==
  ASSUME StoreTypes, Moves, NEW j \in Job, job' = [k \in Job |-> job'[k]], \A k \in Job \ {j} : job'[k] = job[k],
         accesses' = [m \in Id |-> accesses'[m]], \A m \in Id : m > used' => accesses'[m] = 0,
         job'[j] \in [pc : Jobs \ {"idle"}, seen : {job[j].seen}, todo : SUBSET job[j].todo, members : SUBSET DOMAIN job[j].seen],
         job'[j].pc = "drop" => OfOne(job'[j].members, job[j].seen)
  PROVE  StoreTypes'
<1>1. JobInv(j) /\ SnapshotInv(j)
  BY DEF StoreTypes
<1>2. job'[j].seen = job[j].seen
  OBVIOUS
<1>3. IsTable(job[j].seen)'
  BY <1>1, <1>2, BoundAssumption DEF JobInv, IsTable, IsRow, StoreTypes, Moves
<1>4. JobInv(j)'
  BY <1>1, <1>3 DEF JobInv, Jobs, OfOne
<1>5. SnapshotInv(j)'
  <2>1. \A m \in DOMAIN job[j].seen : m \in 1..used
    BY <1>1 DEF JobInv, IsTable
  <2>2. used \in Int
    BY DEF StoreTypes
  <2> QED  BY <1>1, <1>2, <2>1, <2>2 DEF SnapshotInv, Moves
<1>6. \A k \in Job : k # j => JobInv(k)' /\ SnapshotInv(k)'
  BY OtherJob
<1> QED  BY <1>4, <1>5, <1>6, BoundAssumption DEF StoreTypes, Moves

LEMMA GroupsOfOne ==
  ASSUME NEW seen, NEW c \in Groups(seen)
  PROVE  OfOne(c, seen)
<1>1. PICK u \in User : c \in Clusters({m \in DOMAIN seen : seen[m].user = u}, seen)
  BY DEF Groups
<1>2. c \subseteq {m \in DOMAIN seen : seen[m].user = u} /\ c # {}
  BY <1>1 DEF Clusters
<1> QED  BY <1>2 DEF OfOne

LEMMA RetrievedTypes ==
  ASSUME StoreTypes, NEW u, NEW seen, NEW n, Retrieved(u, seen, n)
  PROVE  StoreTypes'
<1>1. Bump(seen, n) /\ used' = used /\ job' = job
      /\ accesses' = [m \in Id |-> IF m \in DOMAIN seen \cap DOMAIN memory THEN accesses[m] + 1 ELSE accesses[m]]
  BY DEF Retrieved
<1>2. \A m \in DOMAIN memory : ~(m > used)
  BY DEF StoreTypes, IsTable
<1>3. accesses' = [m \in Id |-> accesses'[m]] /\ \A m \in Id : m > used' => accesses'[m] = 0
  BY <1>1, <1>2 DEF StoreTypes
<1> QED  BY <1>1, <1>3, BumpMoves, SameJobs

LEMMA StoredTypes ==
  ASSUME StoreTypes, NEW u \in User, NEW facts, NEW n, Stored(u, facts, n)
  PROVE  StoreTypes'
<1>1. PICK id \in Id : Add(id, u, facts, 0, n)
  BY DEF Stored
<1>2. accesses' = accesses /\ job' = job
  BY DEF Stored
<1>3. Moves /\ used' = used + 1 /\ used \in Int /\ Id \subseteq Int
  <2>1. Moves /\ used' = used + 1
    BY <1>1, AddMoves
  <2> QED  BY <2>1 DEF StoreTypes, Id
<1>4. accesses' = [m \in Id |-> accesses'[m]] /\ \A m \in Id : m > used' => accesses'[m] = 0
  BY <1>2, <1>3 DEF StoreTypes
<1> QED  BY <1>2, <1>3, <1>4, SameJobs

LEMMA DeletedTypes ==
  ASSUME StoreTypes, NEW ids, Delete(ids), UNCHANGED <<used, job, accesses>>
  PROVE  StoreTypes'
<1>1. accesses' = [m \in Id |-> accesses'[m]] /\ \A m \in Id : m > used' => accesses'[m] = 0
  BY DEF StoreTypes
<1> QED  BY <1>1, DeleteMoves, SameJobs

LEMMA SameTypes ==
  ASSUME StoreTypes, UNCHANGED <<memory, used, job, accesses>>
  PROVE  StoreTypes'
<1>1. accesses' = [m \in Id |-> accesses'[m]] /\ \A m \in Id : m > used' => accesses'[m] = 0
  BY DEF StoreTypes
<1> QED  BY <1>1, StayMoves, SameJobs

LEMMA StartConsolidationTypes ==
  ASSUME StoreTypes, NEW j \in Job, StartConsolidation(j)
  PROVE  StoreTypes' /\ job'[j].seen = memory /\ job'[j].pc = "merge" /\ \A k \in Job \ {j} : job'[k] = job[k]
<1>1. UNCHANGED <<memory, used, accesses>>
      /\ job' = [job EXCEPT ![j] = [pc |-> "merge", seen |-> memory, todo |-> Groups(memory), members |-> {}]]
  BY DEF StartConsolidation, AllItems
<1>2. StoreTypes'
  BY <1>1, GroupsOfOne, FreshSnapshot
<1>3. job'[j] = [pc |-> "merge", seen |-> memory, todo |-> Groups(memory), members |-> {}]
  BY <1>1 DEF StoreTypes
<1> QED  BY <1>1, <1>2, <1>3

LEMMA StartExpiryTypes ==
  ASSUME StoreTypes, NEW j \in Job, StartExpiry(j)
  PROVE  StoreTypes' /\ job'[j].seen = memory /\ job'[j].pc = "recompute" /\ \A k \in Job \ {j} : job'[k] = job[k]
<1>1. UNCHANGED <<memory, used, accesses>>
      /\ job' = [job EXCEPT ![j] = [pc |-> "recompute", seen |-> memory, todo |-> {}, members |-> {}]]
  BY DEF StartExpiry, AllItems
<1>2. StoreTypes'
  <2> DEFINE todo == {}
  <2>1. \A c \in todo : OfOne(c, memory)
    OBVIOUS
  <2>2. job' = [job EXCEPT ![j] = [pc |-> "recompute", seen |-> memory, todo |-> todo, members |-> {}]]
    BY <1>1
  <2> HIDE DEF todo
  <2> QED  BY <1>1, <2>1, <2>2, FreshSnapshot
<1>3. job'[j] = [pc |-> "recompute", seen |-> memory, todo |-> {}, members |-> {}]
  BY <1>1 DEF StoreTypes
<1> QED  BY <1>1, <1>2, <1>3

(* The summary takes its owner from its members and its id from the store. *)
Summarised(j, c, id, u, n) ==
  /\ OfOne(c, job[j].seen) /\ c \in job[j].todo /\ \A m \in c : job[j].seen[m].user = u
  /\ Add(id, u, UNION {job[j].seen[m].facts : m \in c}, Accesses(c, job[j].seen), n)
  /\ accesses' = [accesses EXCEPT ![id] = Accesses(c, job[j].seen)]
  /\ job[j].pc = "merge" /\ job'[j].pc = "drop" /\ job'[j].seen = job[j].seen /\ job'[j].members = c
  /\ \A k \in Job \ {j} : job'[k] = job[k]
  /\ UNCHANGED <<events, overtaken, forgotten>>

LEMMA AddSummaryTypes ==
  ASSUME StoreTypes, NEW j \in Job, NEW n, AddSummary(j, n)
  PROVE  StoreTypes' /\ \E c, id : \E u \in User : Summarised(j, c, id, u, n)
<1> DEFINE seen == job[j].seen
           owner(c) == CHOOSE u \in User : \E m \in c : seen[m].user = u
<1>1. PICK c \in job[j].todo, id \in Id :
        /\ Add(id, owner(c), UNION {seen[m].facts : m \in c}, Accesses(c, seen), n)
        /\ accesses' = [accesses EXCEPT ![id] = Accesses(c, seen)]
        /\ job' = [job EXCEPT ![j].pc = "drop", ![j].members = c, ![j].todo = @ \ {c}]
  BY DEF AddSummary
<1>2. JobInv(j) /\ job[j].pc = "merge" /\ UNCHANGED <<events, overtaken, forgotten>>
  BY DEF AddSummary, StoreTypes
<1>3. OfOne(c, seen)
  BY <1>2 DEF JobInv
<1>4. owner(c) \in User /\ \A m \in c : seen[m].user = owner(c)
  <2>1. PICK m \in c : m \in DOMAIN seen
    BY <1>3 DEF OfOne
  <2>2. seen[m].user \in User
    BY <1>2, <2>1 DEF JobInv, IsTable, IsRow
  <2>3. owner(c) \in User /\ \E k \in c : seen[k].user = owner(c)
    BY <2>1, <2>2
  <2> HIDE DEF owner
  <2> QED  BY <1>3, <2>3 DEF OfOne
<1> HIDE DEF owner
<1>5. Moves /\ used' = used + 1 /\ id = used + 1 /\ id \in Id
  <2> DEFINE facts == UNION {seen[m].facts : m \in c}
             u == owner(c)
             count == Accesses(c, seen)
  <2>1. Add(id, u, facts, count, n) /\ u \in User
    BY <1>1, <1>4
  <2> HIDE DEF facts, u, count
  <2> QED  BY <2>1, AddMoves
<1>6. /\ job' = [k \in Job |-> job'[k]] /\ \A k \in Job \ {j} : job'[k] = job[k]
      /\ job'[j] \in [pc : {"drop"}, seen : {seen}, todo : SUBSET job[j].todo, members : {c}]
  BY <1>1, <1>2 DEF StoreTypes, JobInv
<1>7. accesses' = [m \in Id |-> accesses'[m]] /\ \A m \in Id : m > used' => accesses'[m] = 0
  <2>1. used \in Int /\ Id \subseteq Int
    BY DEF StoreTypes, Id
  <2> QED  BY <1>1, <1>5, <2>1 DEF StoreTypes
<1>8. job'[j] \in [pc : Jobs \ {"idle"}, seen : {job[j].seen}, todo : SUBSET job[j].todo, members : SUBSET DOMAIN job[j].seen]
  BY <1>3, <1>6 DEF OfOne, Jobs
<1>9. StoreTypes'
  BY <1>3, <1>5, <1>6, <1>7, <1>8, JobGoesOn
<1>10. Summarised(j, c, id, owner(c), n)
  BY <1>1, <1>2, <1>3, <1>4, <1>6 DEF Summarised
<1> QED  BY <1>4, <1>9, <1>10

LEMMA DropMembersTypes ==
  ASSUME StoreTypes, NEW j \in Job, DropMembers(j)
  PROVE  /\ StoreTypes' /\ job'[j].pc \in {"idle", "merge"}
         /\ job'[j].seen \in {<<>>, job[j].seen}
         /\ \A k \in Job \ {j} : job'[k] = job[k]
<1>1. /\ Delete(job[j].members) /\ UNCHANGED <<used, accesses>>
      /\ job' = [job EXCEPT ![j] = IF job[j].todo = {} THEN Idle ELSE [job[j] EXCEPT !.pc = "merge", !.members = {}]]
  BY DEF DropMembers
<1>2. JobInv(j)
  BY DEF StoreTypes
<1>3. Moves
  BY <1>1, DeleteMoves
<1>4. job' = [k \in Job |-> job'[k]] /\ \A k \in Job \ {j} : job'[k] = job[k]
  BY <1>1 DEF StoreTypes
<1>5. CASE job[j].todo = {}
  <2>1. job' = [job EXCEPT ![j] = Idle]
    BY <1>1, <1>5
  <2>2. job'[j] = Idle
    BY <2>1 DEF StoreTypes
  <2>3. StoreTypes'
    BY <1>1, <1>3, <2>1, JobEnds
  <2> QED  BY <1>4, <2>2, <2>3 DEF Idle
<1>6. CASE job[j].todo # {}
  <2> DEFINE next == [job[j] EXCEPT !.pc = "merge", !.members = {}]
  <2>1. job'[j] = next
    BY <1>1, <1>6 DEF StoreTypes
  <2>2. next \in [pc : {"merge"}, seen : {job[j].seen}, todo : {job[j].todo}, members : {{}}]
    BY <1>2 DEF JobInv
  <2> HIDE DEF next
  <2>3. job'[j] \in [pc : Jobs \ {"idle"}, seen : {job[j].seen}, todo : SUBSET job[j].todo, members : SUBSET DOMAIN job[j].seen]
        /\ job'[j].pc = "merge" /\ job'[j].seen = job[j].seen
    BY <2>1, <2>2 DEF Jobs
  <2>4. accesses' = [m \in Id |-> accesses'[m]] /\ \A m \in Id : m > used' => accesses'[m] = 0
    BY <1>1 DEF StoreTypes
  <2> QED  BY <1>3, <1>4, <2>3, <2>4, JobGoesOn
<1> QED  BY <1>5, <1>6

LEMMA RecomputeTypes ==
  ASSUME StoreTypes, NEW j \in Job, NEW n, Recompute(j, n)
  PROVE  /\ StoreTypes' /\ job'[j].pc = "expire" /\ job'[j].seen = job[j].seen
         /\ \A k \in Job \ {j} : job'[k] = job[k]
<1> DEFINE kept == {m \in DOMAIN job[j].seen : Important(job[j].seen[m], n)}
<1>1. /\ SetMetadata(kept, job[j].seen) /\ UNCHANGED <<used, accesses>>
      /\ job' = [job EXCEPT ![j].pc = "expire", ![j].members = DOMAIN job[j].seen \ kept]
  BY DEF Recompute
<1> HIDE DEF kept
<1>2. JobInv(j) /\ Moves
  BY <1>1, SetMetadataMoves DEF StoreTypes
<1>3. /\ job' = [k \in Job |-> job'[k]] /\ \A k \in Job \ {j} : job'[k] = job[k]
      /\ job'[j] \in [pc : {"expire"}, seen : {job[j].seen}, todo : {job[j].todo}, members : {DOMAIN job[j].seen \ kept}]
  BY <1>1, <1>2 DEF StoreTypes, JobInv
<1>4. job'[j] \in [pc : Jobs \ {"idle"}, seen : {job[j].seen}, todo : SUBSET job[j].todo, members : SUBSET DOMAIN job[j].seen]
      /\ job'[j].pc = "expire" /\ job'[j].seen = job[j].seen
  BY <1>3 DEF Jobs
<1>5. accesses' = [m \in Id |-> accesses'[m]] /\ \A m \in Id : m > used' => accesses'[m] = 0
  BY <1>1 DEF StoreTypes
<1> QED  BY <1>2, <1>3, <1>4, <1>5, JobGoesOn

LEMMA JobEndTypes ==
  ASSUME StoreTypes, NEW j \in Job, DeleteExpired(j) \/ JobDies(j)
  PROVE  StoreTypes' /\ job'[j] = Idle /\ \A k \in Job \ {j} : job'[k] = job[k]
<1>1. job' = [job EXCEPT ![j] = Idle] /\ UNCHANGED <<used, accesses>>
  BY DEF DeleteExpired, JobDies
<1>2. Moves
  BY DeleteMoves, StayMoves DEF DeleteExpired, JobDies
<1> QED  BY <1>1, <1>2, JobEnds DEF StoreTypes

LEMMA InStore ==
  ASSUME StoreTypes
  PROVE  /\ \A m \in DOMAIN memory : m \in Id /\ m \in Int /\ ~(m > used)
         /\ \A j \in Job : \A m \in DOMAIN job[j].seen : m \in Id /\ m \in Int /\ ~(m > used)
         /\ used \in Int /\ Id \subseteq Int
<1>1. used \in 0..MaxMemory /\ MaxMemory \in Nat
  BY BoundAssumption DEF StoreTypes
<1>2. DOMAIN memory \subseteq 1..used /\ \A j \in Job : DOMAIN job[j].seen \subseteq 1..used
  BY DEF StoreTypes, IsTable, JobInv
<1> QED  BY <1>1, <1>2 DEF Id

-----------------------------------------------------------------------------
(* Counting retrievals.                                                    *)

LEMMA RetrievedCount ==
  ASSUME StoreTypes, CountInv, NEW u, NEW seen, NEW n, Retrieved(u, seen, n)
  PROVE  CountInv'
<1> DEFINE hits == DOMAIN seen \cap DOMAIN memory
<1>1. /\ Bump(seen, n) /\ used' = used /\ job' = job /\ overtaken' = overtaken \cup (hits \cap Expiring)
      /\ accesses' = [m \in Id |-> IF m \in hits THEN accesses[m] + 1 ELSE accesses[m]]
  BY DEF Retrieved
<1>2. /\ DOMAIN memory' = DOMAIN memory
      /\ \A m \in DOMAIN memory : memory'[m].count = IF m \in DOMAIN seen THEN memory[m].count + 1 ELSE memory[m].count
  BY <1>1, BumpMoves
<1>3. \A m \in DOMAIN memory' \ overtaken' : memory'[m].count = accesses'[m]
  BY <1>1, <1>2, InStore DEF CountInv
<1>4. \A j \in Job : job[j].pc = "recompute" => DOMAIN job[j].seen \subseteq Expiring
  BY DEF Expiring
<1>5. \A j \in Job : job'[j].pc = "recompute" =>
        \A m \in (DOMAIN job'[j].seen \cap DOMAIN memory') \ overtaken' : job'[j].seen[m].count = memory'[m].count
  BY <1>1, <1>2, <1>4 DEF CountInv
<1> QED  BY <1>3, <1>5 DEF CountInv

LEMMA AddedCount ==
  ASSUME StoreTypes, CountInv, NEW id, NEW u \in User, NEW facts, NEW count, NEW n, Add(id, u, facts, count, n),
         overtaken' = overtaken, accesses' = [accesses EXCEPT ![id] = count],
         \A j \in Job : job'[j] = job[j] \/ job'[j].pc # "recompute"
  PROVE  CountInv'
<1>1. /\ id = used + 1 /\ id \in Id /\ id \notin DOMAIN memory /\ DOMAIN memory' = DOMAIN memory \cup {id}
      /\ memory'[id].count = count /\ \A m \in DOMAIN memory : memory'[m] = memory[m]
  BY AddMoves
<1>2. \A m \in DOMAIN memory' \ overtaken' : memory'[m].count = accesses'[m]
  BY <1>1, InStore DEF CountInv, StoreTypes
<1>3. \A j \in Job : id \notin DOMAIN job[j].seen
  BY <1>1, InStore
<1> QED  BY <1>1, <1>2, <1>3 DEF CountInv

LEMMA StoredCount ==
  ASSUME StoreTypes, CountInv, NEW u \in User, NEW facts, NEW n, Stored(u, facts, n)
  PROVE  CountInv'
<1>1. PICK id \in Id : Add(id, u, facts, 0, n)
  BY DEF Stored
<1>2. accesses' = accesses /\ job' = job /\ overtaken' = overtaken
  BY DEF Stored
<1>3. id = used + 1
  BY <1>1, AddMoves
<1>4. accesses' = [accesses EXCEPT ![id] = 0]
  BY <1>2, <1>3, InStore DEF StoreTypes
<1> QED  BY <1>1, <1>2, <1>4, AddedCount

(* Nothing is counted, and memories may go.                                *)
LEMMA LeftCount ==
  ASSUME StoreTypes, CountInv, UNCHANGED <<accesses, overtaken>>, DOMAIN memory' \subseteq DOMAIN memory,
         \A m \in DOMAIN memory' : memory'[m] = memory[m],
         \A j \in Job : job'[j] = job[j] \/ job'[j].pc # "recompute" \/ job'[j].seen = memory
  PROVE  CountInv'
BY DEF CountInv

(* What an expiry run writes back is the count the memory has.             *)
LEMMA RecomputeCount ==
  ASSUME StoreTypes, CountInv, NEW j \in Job, NEW n, Recompute(j, n)
  PROVE  CountInv'
<1> DEFINE kept == {m \in DOMAIN job[j].seen : Important(job[j].seen[m], n)}
<1>1. job[j].pc = "recompute" /\ SetMetadata(kept, job[j].seen) /\ UNCHANGED <<used, accesses, overtaken>>
  BY DEF Recompute
<1>2. kept \subseteq DOMAIN job[j].seen
  OBVIOUS
<1> HIDE DEF kept
<1>3. /\ DOMAIN memory' = DOMAIN memory
      /\ \A m \in DOMAIN memory : memory'[m].count = IF m \in kept THEN job[j].seen[m].count ELSE memory[m].count
  BY <1>1, SetMetadataMoves
<1>4. \A m \in DOMAIN memory \ overtaken : memory'[m].count = memory[m].count
  BY <1>1, <1>2, <1>3 DEF CountInv
<1>5. \A k \in Job : job'[k].pc = "recompute" => job'[k] = job[k]
  BY RecomputeTypes
<1> QED  BY <1>1, <1>3, <1>4, <1>5 DEF CountInv

LEMMA JobCount ==
  ASSUME StoreTypes, CountInv, NEW j \in Job, NEW n, JobStep(j, n)
  PROVE  CountInv'
<1>1. CASE StartConsolidation(j)
  BY <1>1, StartConsolidationTypes, LeftCount DEF StartConsolidation
<1>2. CASE StartExpiry(j)
  BY <1>2, StartExpiryTypes, LeftCount DEF StartExpiry
<1>3. CASE AddSummary(j, n)
  <2>1. PICK c, id : \E u \in User : Summarised(j, c, id, u, n)
    BY <1>3, AddSummaryTypes
  <2>2. PICK u \in User : Summarised(j, c, id, u, n)
    BY <2>1
  <2> DEFINE facts == UNION {job[j].seen[m].facts : m \in c}
             count == Accesses(c, job[j].seen)
  <2>3. /\ Add(id, u, facts, count, n) /\ overtaken' = overtaken /\ accesses' = [accesses EXCEPT ![id] = count]
        /\ \A k \in Job : job'[k] = job[k] \/ job'[k].pc # "recompute"
    BY <2>2 DEF Summarised
  <2> HIDE DEF facts, count
  <2> QED  BY <2>3, AddedCount
<1>4. CASE DropMembers(j)
  <2>1. Delete(job[j].members) /\ UNCHANGED <<used, accesses, overtaken>>
    BY <1>4 DEF DropMembers
  <2>2. DOMAIN memory' \subseteq DOMAIN memory /\ \A m \in DOMAIN memory' : memory'[m] = memory[m]
    BY <2>1, DeleteMoves
  <2> QED  BY <1>4, <2>1, <2>2, DropMembersTypes, LeftCount
<1>5. CASE Recompute(j, n)
  BY <1>5, RecomputeCount
<1>6. CASE DeleteExpired(j)
  <2>1. Delete(job[j].members) /\ UNCHANGED <<used, accesses, overtaken>>
    BY <1>6 DEF DeleteExpired
  <2>2. DOMAIN memory' \subseteq DOMAIN memory /\ \A m \in DOMAIN memory' : memory'[m] = memory[m]
    BY <2>1, DeleteMoves
  <2> QED  BY <1>6, <2>1, <2>2, JobEndTypes, LeftCount DEF Idle
<1>7. CASE JobDies(j)
  <2>1. UNCHANGED <<memory, accesses, overtaken>>
    BY <1>7 DEF JobDies
  <2> QED  BY <1>7, <2>1, JobEndTypes, LeftCount DEF Idle
<1> QED  BY <1>1, <1>2, <1>3, <1>4, <1>5, <1>6, <1>7 DEF JobStep

-----------------------------------------------------------------------------
(* Keeping what was learned.                                               *)

LEMMA FactsOfSome ==
  ASSUME NEW ms, NEW f
  PROVE  f \in FactsOf(ms) <=> \E m \in ms : f \in memory[m].facts
BY DEF FactsOf

(* The facts stay where they are.                                          *)
LEMMA FactsStay ==
  ASSUME StoreTypes, KeptInv, UNCHANGED <<learned, forgotten>>, DOMAIN memory' = DOMAIN memory,
         \A m \in DOMAIN memory : memory'[m].user = memory[m].user /\ memory'[m].facts = memory[m].facts,
         \A j \in Job : \/ job'[j] = job[j]
                        \/ job'[j].pc # "drop" /\ job'[j].seen \in {<<>>, job[j].seen, memory}
  PROVE  KeptInv'
<1>1. FactsOf(DOMAIN memory)' = FactsOf(DOMAIN memory)
  BY DEF FactsOf
<1>2. ASSUME NEW j \in Job, job'[j].pc = "drop"
      PROVE  UNION {job'[j].seen[m].facts : m \in job'[j].members} \subseteq FactsOf(NewerThan(job[j].seen))' \cup forgotten'
  <2>1. job'[j] = job[j]
    BY <1>2
  <2>2. FactsOf(NewerThan(job[j].seen))' = FactsOf(NewerThan(job[j].seen))
    BY <2>1 DEF FactsOf, NewerThan
  <2> QED  BY <1>2, <2>1, <2>2 DEF KeptInv, MergedInv
<1>3. MergedInv'
  BY <1>2 DEF MergedInv, NewerThan, FactsOf
<1>4. FactsInv'
  <2>1. OwnFacts(memory)'
    BY DEF KeptInv, FactsInv, OwnFacts, Taught
  <2>2. ASSUME NEW j \in Job PROVE OwnFacts(job[j].seen)'
    BY DEF KeptInv, FactsInv, OwnFacts, Taught
  <2> QED  BY <2>1, <2>2 DEF FactsInv
<1> QED  BY <1>1, <1>3, <1>4 DEF KeptInv

(* Something new is stored.                                                *)
LEMMA FactsComeIn ==
  ASSUME StoreTypes, KeptInv, NEW id, NEW u \in User, NEW facts, NEW count, NEW n, Add(id, u, facts, count, n),
         facts \subseteq Taught(u), forgotten' = forgotten, learned' \subseteq learned \cup facts,
         \A j \in Job : \/ job'[j] = job[j]
                        \/ /\ job'[j].seen = job[j].seen
                           /\ \A m \in job'[j].members : job[j].seen[m].facts \subseteq facts
  PROVE  KeptInv'
<1>1. /\ id = used + 1 /\ id \notin DOMAIN memory /\ DOMAIN memory' = DOMAIN memory \cup {id}
      /\ memory'[id].user = u /\ memory'[id].facts = facts /\ \A m \in DOMAIN memory : memory'[m] = memory[m]
  BY AddMoves
<1>2. FactsOf(DOMAIN memory)' = FactsOf(DOMAIN memory) \cup facts
  BY <1>1 DEF FactsOf
<1>3. ASSUME NEW j \in Job, job'[j].pc = "drop", NEW f \in UNION {job'[j].seen[m].facts : m \in job'[j].members}
      PROVE  f \in forgotten' \/ \E m \in DOMAIN memory' : f \in memory'[m].facts /\ \A k \in DOMAIN job'[j].seen : m > k
  <2>1. CASE job'[j] = job[j]
    <3>1. f \in forgotten \/ \E m \in NewerThan(job[j].seen) : f \in memory[m].facts
      BY <1>3, <2>1, FactsOfSome DEF KeptInv, MergedInv
    <3> QED  BY <1>1, <2>1, <3>1 DEF NewerThan
  <2>2. CASE job'[j] # job[j]
    <3>1. f \in facts
      BY <1>3, <2>2
    <3>2. \A k \in DOMAIN job'[j].seen : id > k
      BY <1>1, <2>2, InStore
    <3> QED  BY <1>1, <3>1, <3>2
  <2> QED  BY <2>1, <2>2
<1>4. MergedInv'
  BY <1>3 DEF MergedInv, NewerThan, FactsOf
<1>5. FactsInv'
  <2>1. OwnFacts(memory)'
    BY <1>1 DEF KeptInv, FactsInv, OwnFacts, Taught
  <2>2. ASSUME NEW j \in Job PROVE OwnFacts(job[j].seen)'
    BY DEF KeptInv, FactsInv, OwnFacts, Taught
  <2> QED  BY <2>1, <2>2 DEF FactsInv
<1> QED  BY <1>2, <1>4, <1>5 DEF KeptInv

(* Memories go whose facts are forgotten or stand in a newer one.          *)
LEMMA FactsMoveOn ==
  ASSUME StoreTypes, KeptInv, NEW ids, Delete(ids), used' = used, learned' = learned, forgotten \subseteq forgotten',
         \A m \in ids \cap DOMAIN memory : \A f \in memory[m].facts :
           f \in forgotten' \/ \E n \in DOMAIN memory \ ids : n > m /\ f \in memory[n].facts,
         \A j \in Job : \/ job'[j] = job[j]
                        \/ job'[j].pc # "drop" /\ job'[j].seen \in {<<>>, job[j].seen}
  PROVE  KeptInv'
<1>1. DOMAIN memory' = DOMAIN memory \ ids /\ \A m \in DOMAIN memory' : memory'[m] = memory[m]
  BY DeleteMoves
<1>2. ASSUME NEW m \in DOMAIN memory, NEW f \in memory[m].facts
      PROVE  f \in forgotten' \/ \E n \in DOMAIN memory' : (n = m \/ n > m) /\ f \in memory'[n].facts
  BY <1>1
<1>3. learned' \ forgotten' \subseteq FactsOf(DOMAIN memory)'
  <2> SUFFICES ASSUME NEW f \in learned' \ forgotten' PROVE f \in FactsOf(DOMAIN memory)'
    OBVIOUS
  <2>1. PICK m \in DOMAIN memory : f \in memory[m].facts
    BY FactsOfSome DEF KeptInv
  <2>2. PICK n \in DOMAIN memory' : f \in memory'[n].facts
    BY <1>2, <2>1
  <2> QED  BY <2>2 DEF FactsOf
<1>4. ASSUME NEW j \in Job, job'[j].pc = "drop", NEW f \in UNION {job'[j].seen[m].facts : m \in job'[j].members}
      PROVE  f \in forgotten' \/ \E m \in DOMAIN memory' : f \in memory'[m].facts /\ \A k \in DOMAIN job'[j].seen : m > k
  <2>1. job'[j] = job[j]
    BY <1>4
  <2>2. f \in forgotten \/ \E m \in NewerThan(job[j].seen) : f \in memory[m].facts
    BY <1>4, <2>1, FactsOfSome DEF KeptInv, MergedInv
  <2>3. CASE f \in forgotten
    BY <2>3
  <2>4. CASE \E m \in NewerThan(job[j].seen) : f \in memory[m].facts
    <3>1. PICK m \in DOMAIN memory : f \in memory[m].facts /\ \A k \in DOMAIN job[j].seen : m > k
      BY <2>4 DEF NewerThan
    <3>2. CASE \E n \in DOMAIN memory' : (n = m \/ n > m) /\ f \in memory'[n].facts
      <4>1. PICK n \in DOMAIN memory' : (n = m \/ n > m) /\ f \in memory'[n].facts
        BY <3>2
      <4>2. \A k \in DOMAIN job[j].seen : n > k
        BY <1>1, <3>1, <4>1, InStore
      <4> QED  BY <2>1, <4>1, <4>2
    <3> QED  BY <1>2, <3>1, <3>2
  <2> QED  BY <2>2, <2>3, <2>4
<1>5. MergedInv'
  BY <1>4 DEF MergedInv, NewerThan, FactsOf
<1>6. FactsInv'
  <2>1. OwnFacts(memory)'
    BY <1>1 DEF KeptInv, FactsInv, OwnFacts, Taught
  <2>2. ASSUME NEW j \in Job PROVE OwnFacts(job[j].seen)'
    BY DEF KeptInv, FactsInv, OwnFacts, Taught
  <2> QED  BY <2>1, <2>2 DEF FactsInv
<1> QED  BY <1>3, <1>5, <1>6 DEF KeptInv

LEMMA RetrievedKeeps ==
  ASSUME StoreTypes, KeptInv, NEW u, NEW seen, NEW n, Retrieved(u, seen, n), learned' = learned
  PROVE  KeptInv'
BY BumpMoves, FactsStay DEF Retrieved

LEMMA StoredKeeps ==
  ASSUME StoreTypes, KeptInv, NEW t \in Task, NEW n, Stored(OwnerOf[t], Lesson[t], n), learned' = learned \cup Lesson[t]
  PROVE  KeptInv'
<1>1. PICK id \in Id : Add(id, OwnerOf[t], Lesson[t], 0, n)
  BY DEF Stored
<1>2. forgotten' = forgotten /\ job' = job
  BY DEF Stored
<1>3. OwnerOf[t] \in User /\ Lesson[t] \subseteq Taught(OwnerOf[t])
  BY OwnerAssumption DEF Taught
<1> QED  BY <1>1, <1>2, <1>3, FactsComeIn

LEMMA JobKeeps ==
  ASSUME StoreTypes, KeptInv, NEW j \in Job, NEW n, JobStep(j, n), learned' = learned
  PROVE  KeptInv'
<1>1. CASE StartConsolidation(j)
  BY <1>1, StartConsolidationTypes, FactsStay DEF StartConsolidation
<1>2. CASE StartExpiry(j)
  BY <1>2, StartExpiryTypes, FactsStay DEF StartExpiry
<1>3. CASE AddSummary(j, n)
  <2>1. PICK c, id : \E u \in User : Summarised(j, c, id, u, n)
    BY <1>3, AddSummaryTypes
  <2>2. PICK u \in User : Summarised(j, c, id, u, n)
    BY <2>1
  <2> DEFINE facts == UNION {job[j].seen[m].facts : m \in c}
             count == Accesses(c, job[j].seen)
  <2>3. /\ Add(id, u, facts, count, n) /\ forgotten' = forgotten
        /\ \A k \in Job \ {j} : job'[k] = job[k]
        /\ job'[j].seen = job[j].seen /\ job'[j].members = c
    BY <2>2 DEF Summarised
  <2>4. facts \subseteq Taught(u)
    BY <2>2 DEF Summarised, OfOne, KeptInv, FactsInv, OwnFacts
  <2>5. \A m \in c : job[j].seen[m].facts \subseteq facts
    OBVIOUS
  <2> HIDE DEF facts, count
  <2> QED  BY <2>3, <2>4, <2>5, FactsComeIn
<1>4. CASE DropMembers(j)
  <2> DEFINE ids == job[j].members
  <2>1. job[j].pc = "drop" /\ Delete(ids) /\ used' = used /\ forgotten' = forgotten
    BY <1>4 DEF DropMembers
  <2>2. ids \subseteq DOMAIN job[j].seen /\ SnapshotInv(j)
    BY DEF StoreTypes, JobInv
  <2>3. ASSUME NEW m \in ids \cap DOMAIN memory, NEW f \in memory[m].facts
        PROVE  f \in forgotten' \/ \E k \in DOMAIN memory \ ids : k > m /\ f \in memory[k].facts
    <3>1. f \in job[j].seen[m].facts
      BY <2>2 DEF SnapshotInv
    <3>2. f \in forgotten \/ \E k \in NewerThan(job[j].seen) : f \in memory[k].facts
      BY <2>1, <3>1, FactsOfSome DEF KeptInv, MergedInv
    <3>3. CASE \E k \in NewerThan(job[j].seen) : f \in memory[k].facts
      <4>1. PICK k \in DOMAIN memory : f \in memory[k].facts /\ \A l \in DOMAIN job[j].seen : k > l
        BY <3>3 DEF NewerThan
      <4>2. k \notin ids /\ k > m
        BY <2>2, <4>1, InStore
      <4> QED  BY <4>1, <4>2
    <3> QED  BY <2>1, <3>2, <3>3
  <2>4. \A k \in Job : job'[k] = job[k] \/ (job'[k].pc # "drop" /\ job'[k].seen \in {<<>>, job[k].seen})
    BY <1>4, DropMembersTypes
  <2> HIDE DEF ids
  <2> QED  BY <2>1, <2>3, <2>4, FactsMoveOn
<1>5. CASE Recompute(j, n)
  <2>1. /\ DOMAIN memory' = DOMAIN memory /\ forgotten' = forgotten
        /\ \A m \in DOMAIN memory : memory'[m].user = memory[m].user /\ memory'[m].facts = memory[m].facts
    <3> DEFINE kept == {m \in DOMAIN job[j].seen : Important(job[j].seen[m], n)}
    <3>1. SetMetadata(kept, job[j].seen) /\ used' = used /\ forgotten' = forgotten
      BY <1>5 DEF Recompute
    <3> HIDE DEF kept
    <3> QED  BY <3>1, SetMetadataMoves
  <2> QED  BY <1>5, <2>1, RecomputeTypes, FactsStay
<1>6. CASE DeleteExpired(j)
  <2> DEFINE ids == job[j].members
  <2>1. /\ Delete(ids) /\ used' = used
        /\ forgotten' = forgotten \cup UNION {job[j].seen[m].facts : m \in ids}
    BY <1>6 DEF DeleteExpired
  <2>2. ids \subseteq DOMAIN job[j].seen /\ SnapshotInv(j)
    BY DEF StoreTypes, JobInv
  <2>3. \A m \in ids \cap DOMAIN memory : \A f \in memory[m].facts : f \in forgotten'
    BY <2>1, <2>2 DEF SnapshotInv
  <2>4. \A k \in Job : job'[k] = job[k] \/ (job'[k].pc # "drop" /\ job'[k].seen \in {<<>>, job[k].seen})
    BY <1>6, JobEndTypes DEF Idle
  <2> HIDE DEF ids
  <2> QED  BY <2>1, <2>3, <2>4, FactsMoveOn
<1>7. CASE JobDies(j)
  <2>1. UNCHANGED <<memory, forgotten>>
    BY <1>7 DEF JobDies
  <2> QED  BY <1>7, <2>1, JobEndTypes, FactsStay DEF Idle
<1> QED  BY <1>1, <1>2, <1>3, <1>4, <1>5, <1>6, <1>7 DEF JobStep

LEMMA JobTypes ==
  ASSUME StoreTypes, NEW j \in Job, NEW n, JobStep(j, n)
  PROVE  StoreTypes'
BY StartConsolidationTypes, StartExpiryTypes, AddSummaryTypes, DropMembersTypes, RecomputeTypes, JobEndTypes DEF JobStep

-----------------------------------------------------------------------------
(* The steps of the system.                                                *)

StoreInv == StoreTypes /\ KeptInv /\ CountInv

LEMMA NothingMoves ==
  ASSUME StoreInv, UNCHANGED <<memory, used, job, accesses, overtaken, forgotten, learned>>
  PROVE  StoreInv'
BY SameTypes, FactsStay, LeftCount DEF StoreInv

LEMMA StoreStep ==
  ASSUME StoreInv, [Next]_vars
  PROVE  StoreInv'
<1>1. ASSUME NEW t \in Task, MarkRetrieved(t) PROVE StoreInv'
  <2>1. Retrieved(OwnerOf[t], task[t].hits, now) /\ learned' = learned
    BY <1>1 DEF MarkRetrieved
  <2> QED  BY <2>1, RetrievedTypes, RetrievedKeeps, RetrievedCount DEF StoreInv
<1>2. ASSUME NEW t \in Task, Learn(t) PROVE StoreInv'
  <2>1. Stored(OwnerOf[t], Lesson[t], now) /\ learned' = learned \cup Lesson[t] /\ OwnerOf[t] \in User
    BY <1>2, OwnerAssumption DEF Learn
  <2> QED  BY <2>1, StoredTypes, StoredKeeps, StoredCount DEF StoreInv
<1>3. ASSUME NEW t \in Task, TaskStep(t), ~MarkRetrieved(t), ~Learn(t) PROVE StoreInv'
  BY <1>3, NothingMoves
  DEF TaskStep, Intake, StartWork, Query, WritePlan, RecordError, RecordOutput, LearnNothing, ClearWork, Fail, memoryVars
<1>4. ASSUME NEW j \in Job, Maintain(j) PROVE StoreInv'
  <2>1. JobStep(j, now) /\ learned' = learned
    BY <1>4 DEF Maintain
  <2> QED  BY <2>1, JobTypes, JobKeeps, JobCount DEF StoreInv
<1>5. ASSUME NEW u \in User, PurgeLongTerm(u) PROVE StoreInv'
  <2>1. /\ Delete(OwnedBy(u)) /\ UNCHANGED <<used, job, accesses, overtaken, learned>>
        /\ forgotten' = forgotten \cup FactsOf(OwnedBy(u))
    BY <1>5 DEF PurgeLongTerm
  <2>2. \A m \in OwnedBy(u) \cap DOMAIN memory : \A f \in memory[m].facts : f \in forgotten'
    BY <2>1 DEF FactsOf
  <2>3. DOMAIN memory' \subseteq DOMAIN memory /\ \A m \in DOMAIN memory' : memory'[m] = memory[m]
    BY <2>1, DeleteMoves DEF StoreInv
  <2>4. StoreTypes' /\ CountInv'
    BY <2>1, <2>3, DeletedTypes, LeftCount DEF StoreInv
  <2>5. KeptInv'
    BY <2>1, <2>2, FactsMoveOn DEF StoreInv
  <2> QED  BY <2>4, <2>5 DEF StoreInv
<1>6. ASSUME NEW u \in User, PurgeWorking(u) \/ PurgeEvents(u) PROVE StoreInv'
  BY <1>6, NothingMoves DEF PurgeWorking, PurgeEvents, memoryVars
<1>7. CASE Tick
  BY <1>7, NothingMoves DEF Tick, memoryVars
<1>8. CASE UNCHANGED vars
  BY <1>8, NothingMoves DEF vars, memoryVars
<1> QED  BY <1>1, <1>2, <1>3, <1>4, <1>5, <1>6, <1>7, <1>8 DEF Next

LEMMA StoreInit == Init => StoreInv
<1> SUFFICES ASSUME Init PROVE StoreInv
  OBVIOUS
<1>1. PICK n \in 0..MaxMemory : Known \in [1..n -> [user : User, facts : SUBSET Fact, count : Nat, last : Int]]
  BY KnownAssumption
<1>2. /\ memory = Known /\ used = Cardinality(DOMAIN Known) /\ job = [j \in Job |-> Idle] /\ forgotten = {}
      /\ accesses = [m \in Id |-> IF m \in DOMAIN Known THEN Known[m].count ELSE 0]
      /\ overtaken = {} /\ learned = FactsOf(DOMAIN memory)
  BY DEF Init
<1>3. DOMAIN Known = 1..n /\ used = n
  BY <1>1, <1>2, FS_Interval, BoundAssumption
<1>4. StoreTypes
  BY <1>1, <1>2, <1>3, BoundAssumption DEF StoreTypes, IsTable, IsRow, JobInv, SnapshotInv, Idle, Jobs, Id
<1>5. KeptInv
  <2>1. MergedInv
    BY <1>2 DEF MergedInv, Idle
  <2>2. OwnFacts(memory)
    <3>1. \A u : \A m \in DOMAIN Known : Known[m].user = u => Known[m].facts \subseteq Taught(u)
      <4> SUFFICES ASSUME NEW u, NEW m \in DOMAIN Known, Known[m].user = u, NEW f \in Known[m].facts PROVE f \in Taught(u)
        OBVIOUS
      <4> DEFINE own == {k \in DOMAIN Known : Known[k].user = u}
      <4>1. m \in own
        OBVIOUS
      <4> HIDE DEF own
      <4>2. f \in UNION {Known[k].facts : k \in own}
        BY <4>1
      <4> QED  BY <4>2 DEF own, Taught
    <3>2. \A m \in DOMAIN Known : Known[m].facts \subseteq Taught(Known[m].user)
      BY <3>1
    <3> QED  BY <1>2, <3>2 DEF OwnFacts
  <2>3. \A j \in Job : OwnFacts(job[j].seen)
    BY <1>2 DEF OwnFacts, Idle
  <2> QED  BY <1>2, <2>1, <2>2, <2>3 DEF KeptInv, FactsInv
<1>6. CountInv
  BY <1>1, <1>2, <1>3, BoundAssumption DEF CountInv, Idle, Id
<1> QED  BY <1>4, <1>5, <1>6 DEF StoreInv

LEMMA StoreAlways == Spec => []StoreInv
<1>1. StoreInv /\ [Next]_vars => StoreInv'
  BY StoreStep
<1> QED  BY <1>1, StoreInit, PTL DEF Spec

(* However consolidations overlap, wherever they die and whatever is       *)
(* alike, for all users, tasks and numbers of runs: what was learned is in *)
(* some memory until it expires or its user is purged, and no memory       *)
(* states what another user's tasks taught (management.py, consolidate).   *)
THEOREM MemoriesAreKeptAlways == Spec => []MemoriesAreKept
<1>1. StoreInv => MemoriesAreKept
  BY DEF StoreInv, KeptInv, FactsInv, OwnFacts, Taught, MemoriesAreKept
<1> QED  BY <1>1, StoreAlways, PTL

(* Retrieval is access (retrieval.py): the count of every memory is the    *)
(* number of times it, or a memory it merges, was retrieved, unless an     *)
(* expiry run was about to write back what it had read.                    *)
THEOREM RetrievalsCountAlways == Spec => []RetrievalsCount
<1>1. StoreInv => RetrievalsCount
  BY DEF StoreInv, CountInv, RetrievalsCount
<1> QED  BY <1>1, StoreAlways, PTL

-----------------------------------------------------------------------------
(* The purge.                                                              *)

SystemInv == RowsInv /\ StoreInv /\ TaskTypes /\ OwnerInv /\ CalmInv

LEMMA StepOf ==
  ASSUME TaskTypes, NEW t \in Task, NEW from, NEW to, Step(t, from, to)
  PROVE  /\ task[t].pc = from /\ task'[t].pc = to /\ \A s \in Task \ {t} : task'[s] = task[s]
         /\ task' = [s \in Task |-> task'[s]] /\ \A s \in Task : task'[s] \in [pc : {task'[s].pc}, hits : {task'[s].hits}]
BY DEF TaskTypes, Step

LEMMA TaskStepTypes ==
  ASSUME TaskTypes, [Next]_vars
  PROVE  TaskTypes'
<1>1. ASSUME NEW t \in Task, TaskStep(t) PROVE TaskTypes'
  <2>1. purge' = purge
    BY <1>1 DEF TaskStep, Intake, StartWork, Query, MarkRetrieved, WritePlan, RecordError, RecordOutput, Learn,
                LearnNothing, ClearWork, Fail
  <2>2. CASE Query(t)
    BY <2>1, <2>2 DEF Query, TaskTypes
  <2>3. CASE ~Query(t)
    <3>1. PICK from, to : Step(t, from, to)
      BY <1>1, <2>3 DEF TaskStep, Intake, StartWork, MarkRetrieved, WritePlan, RecordError, RecordOutput, Learn,
                        LearnNothing, ClearWork, Fail
    <3> QED  BY <2>1, <3>1, StepOf DEF TaskTypes
  <2> QED  BY <2>2, <2>3
<1>2. ASSUME NEW j \in Job, Maintain(j) PROVE TaskTypes'
  BY <1>2 DEF Maintain, TaskTypes
<1>3. ASSUME NEW u \in User, PurgeLongTerm(u) \/ PurgeWorking(u) \/ PurgeEvents(u) PROVE TaskTypes'
  BY <1>3 DEF PurgeLongTerm, PurgeWorking, PurgeEvents, TaskTypes
<1>4. CASE Tick \/ UNCHANGED vars
  BY <1>4 DEF Tick, vars, TaskTypes
<1> QED  BY <1>1, <1>2, <1>3, <1>4 DEF Next

(* A write keeps the owner's row, or finds that it is gone.                *)
LEMMA WriteOwner ==
  ASSUME RowsInv, OwnerInv, NEW t \in Task, NEW f \in Field \cup {NoField}, NEW v \in Value \cup {NoField}, Work!Set(t, f, v),
         f = "user_id" => v = OwnerOf[t], f # "user_id" => Writes(t), adrift \subseteq adrift'
  PROVE  OwnerInv' /\ \A r \in rows' : r.task # t => r \in rows
<1>1. PICK i \in Nat :
         /\ rows' = (rows \ Work!Of(t)) \cup {NewRow(t, f, v, i)} \cup {Stamp(r) : r \in Kept(t, f)}
         /\ now' = now
  BY WriteRows
<1> DEFINE new == NewRow(t, f, v, i)
           stamped == {Stamp(r) : r \in Kept(t, f)}
<1>2. new.task = t /\ new.field = f /\ new.value = v
  BY DEF NewRow
<1>3. \A r \in Kept(t, f) : Stamp(r) \in stamped /\ Stamp(r).task = t /\ Stamp(r).field = r.field /\ Stamp(r).value = r.value
  BY StampOf DEF Kept, Work!Of
<1>4. \A r \in stamped : \E s \in Kept(t, f) : r = Stamp(s)
  OBVIOUS
<1>5. rows' = (rows \ Work!Of(t)) \cup {new} \cup stamped
  BY <1>1
<1> HIDE DEF new, stamped
<1>6. \A r \in rows' : r.task # t => r \in rows
  BY <1>2, <1>3, <1>4, <1>5
<1>7. ASSUME NEW r \in rows', r.field = "user_id" PROVE r.value = OwnerOf[r.task]
  <2>1. CASE r \in rows
    BY <1>7, <2>1 DEF OwnerInv
  <2>2. CASE r = new
    BY <1>2, <1>7, <2>2
  <2>3. CASE r \in stamped
    <3>1. PICK s \in Kept(t, f) : r = Stamp(s)
      BY <1>4, <2>3
    <3>2. s \in rows /\ s.field = "user_id" /\ s.task = t
      BY <1>3, <1>7, <3>1 DEF Kept, Work!Of
    <3> QED  BY <1>3, <3>1, <3>2 DEF OwnerInv
  <2> QED  BY <1>5, <2>1, <2>2, <2>3
<1>8. t \in adrift' \/ \E s \in Work!Of(t)' : s.field = "user_id"
  <2>1. CASE f = "user_id"
    <3>1. new \in Work!Of(t)'
      BY <1>2, <1>5 DEF Work!Of
    <3> QED  BY <1>2, <2>1, <3>1
  <2>2. CASE f # "user_id" /\ "user_id" \in DOMAIN Work!FieldsOf(t)
    <3>1. Reads(t)
      BY ReadsOf
    <3>2. PICK r \in FieldRows(t) : r.field = "user_id"
      BY <2>2, <3>1 DEF Reads
    <3>3. r \in Kept(t, f)
      BY <2>2, <3>2 DEF FieldRows, LiveOf, Kept
    <3>4. Stamp(r) \in Work!Of(t)' /\ Stamp(r).field = "user_id"
      BY <1>3, <1>5, <3>2, <3>3 DEF Work!Of
    <3> QED  BY <3>4
  <2>3. CASE f # "user_id" /\ "user_id" \notin DOMAIN Work!FieldsOf(t)
    BY <2>3 DEF Writes
  <2> QED  BY <2>1, <2>2, <2>3
<1>9. ASSUME NEW r \in rows', r.task # t
      PROVE  r.task \in adrift' \/ \E s \in Work!Of(r.task)' : s.field = "user_id"
  <2>1. r \in rows /\ (r.task \in adrift \/ \E s \in Work!Of(r.task) : s.field = "user_id")
    BY <1>6, <1>9 DEF OwnerInv
  <2>2. Work!Of(r.task) \subseteq Work!Of(r.task)'
    BY <1>5, <1>9 DEF Work!Of
  <2> QED  BY <2>1, <2>2
<1>10. \A r \in rows' : r.task \in adrift' \/ \E s \in Work!Of(r.task)' : s.field = "user_id"
  BY <1>8, <1>9
<1> QED  BY <1>6, <1>7, <1>10 DEF OwnerInv, Work!Of

(* A task's rows go together.                                              *)
LEMMA DeleteOwner ==
  ASSUME RowsInv, OwnerInv, NEW gone, rows' = {r \in rows : r.task \notin gone}, adrift' = adrift
  PROVE  OwnerInv'
<1>1. \A r \in rows' : Work!Of(r.task)' = Work!Of(r.task)
  BY DEF Work!Of
<1> QED  BY <1>1 DEF OwnerInv

LEMMA SweptRows ==
  ASSUME RowsInv, Work!Sweep
  PROVE  rows' = {r \in rows : r.task \notin {s.task : s \in {s \in rows : ~Work!Live(s)}}}
BY DEF RowsInv, Work!Sweep, Work!Live

(* What a task's step does to memories, rows and events is about its user. *)
LEMMA TaskTouches ==
  ASSUME RowsInv, StoreTypes, TaskTypes, OwnerInv, NEW t \in Task, TaskStep(t)
  PROVE  /\ OwnerInv' /\ \A r \in rows' : r.task # t => r \in rows
         /\ \A m \in DOMAIN memory' : memory'[m].user = OwnerOf[t] \/ (m \in DOMAIN memory /\ memory'[m].user = memory[m].user)
         /\ job' = job /\ purge' = purge /\ events' \subseteq events \cup {OwnerOf[t]} /\ adrift \subseteq adrift'
         /\ \A s \in Task \ {t} : task'[s] = task[s]
         /\ calm' \subseteq calm /\ (OwnerOf[t] \in calm' => task[t].pc \notin {"new", "over"})
<1> DEFINE Same == UNCHANGED <<memory, job, purge, events>> /\ adrift \subseteq adrift'
<1>1. CASE Intake(t)
  <2>1. Step(t, "new", "start") /\ Work!Sweep /\ calm' = calm \ {OwnerOf[t]} /\ Same /\ adrift' = adrift
    BY <1>1 DEF Intake, memoryVars
  <2>2. rows' \subseteq rows /\ OwnerInv'
    BY <2>1, SweptRows, DeleteOwner
  <2> QED  BY <2>1, <2>2, StepOf
<1>2. ASSUME NEW f \in Field, NEW v \in Value, Work!Set(t, f, v), f = "user_id" => v = OwnerOf[t],
             f # "user_id" => Writes(t), Same
      PROVE  OwnerInv' /\ \A r \in rows' : r.task # t => r \in rows
  BY <1>2, WriteOwner
<1>3. CASE StartWork(t)
  <2>1. Step(t, "start", "query") /\ Work!Set(t, "user_id", OwnerOf[t]) /\ Same /\ calm' = calm
    BY <1>3 DEF StartWork, Work!Start, memoryVars
  <2>2. "user_id" \in Field /\ OwnerOf[t] \in Value
    BY OwnerAssumption DEF Field, Value
  <2> QED  BY <1>2, <2>1, <2>2, StepOf
<1>4. CASE Query(t)
  <2>1. /\ task[t].pc = "query" /\ Same /\ calm' = calm /\ rows' = rows /\ adrift' = adrift
        /\ task' = [task EXCEPT ![t] = [pc |-> "bump", hits |-> Restrict(memory, OwnedBy(OwnerOf[t]))]]
    BY <1>4 DEF Query, memoryVars, workVars
  <2>2. OwnerInv'
    BY <2>1 DEF OwnerInv, Work!Of
  <2> QED  BY <2>1, <2>2 DEF TaskTypes
<1>5. CASE MarkRetrieved(t)
  <2>1. /\ Step(t, "bump", "plan") /\ Bump(task[t].hits, now) /\ UNCHANGED <<used, job, purge, calm, rows, adrift>>
        /\ events' \subseteq events \cup {OwnerOf[t]}
    BY <1>5 DEF MarkRetrieved, Retrieved, workVars
  <2>2. OwnerInv'
    BY <2>1 DEF OwnerInv, Work!Of
  <2> QED  BY <2>1, <2>2, StepOf, BumpMoves
<1>6. CASE WritePlan(t)
  <2>1. Step(t, "plan", "work") /\ Work!Set(t, "plan", "text") /\ Writes(t) /\ Same /\ calm' = calm
    BY <1>6 DEF WritePlan, Writes, memoryVars
  <2> QED  BY <1>2, <2>1, StepOf DEF Field, Value
<1>7. CASE RecordError(t)
  <2>1. Step(t, "work", "work") /\ Work!Set(t, NoField, NoField) /\ Writes(t) /\ Same /\ calm' = calm
    BY <1>7 DEF RecordError, Work!RecordError, Writes, memoryVars
  <2>2. NoField # "user_id"
    BY NoFieldAssumption
  <2> QED  BY <2>1, <2>2, StepOf, WriteOwner
<1>8. CASE RecordOutput(t)
  <2>1. Step(t, "work", "extract") /\ Work!Set(t, "output", "text") /\ Writes(t) /\ Same /\ calm' = calm
    BY <1>8 DEF RecordOutput, Writes, memoryVars
  <2> QED  BY <1>2, <2>1, StepOf DEF Field, Value
<1>9. CASE Learn(t)
  <2>1. /\ Step(t, "extract", "clear") /\ UNCHANGED <<job, purge, calm, rows, adrift>> /\ events' = events \cup {OwnerOf[t]}
        /\ \E id \in Id : Add(id, OwnerOf[t], Lesson[t], 0, now)
    BY <1>9 DEF Learn, Stored, workVars
  <2>2. OwnerInv'
    BY <2>1 DEF OwnerInv, Work!Of
  <2>3. \A m \in DOMAIN memory' : memory'[m].user = OwnerOf[t] \/ (m \in DOMAIN memory /\ memory'[m].user = memory[m].user)
    <3>1. PICK id \in Id : Add(id, OwnerOf[t], Lesson[t], 0, now)
      BY <2>1
    <3>2. OwnerOf[t] \in User
      BY OwnerAssumption
    <3>3. /\ DOMAIN memory' = DOMAIN memory \cup {id} /\ memory'[id].user = OwnerOf[t]
          /\ \A m \in DOMAIN memory : memory'[m] = memory[m]
      BY <3>1, <3>2, AddMoves
    <3> QED  BY <3>3
  <2> QED  BY <2>1, <2>2, <2>3, StepOf
<1>10. CASE LearnNothing(t) \/ Fail(t)
  <2>1. /\ Same /\ calm' = calm /\ rows' = rows /\ adrift' = adrift
        /\ Step(t, "extract", "clear") \/ Step(t, "work", "over")
    BY <1>10 DEF LearnNothing, Fail, memoryVars, workVars
  <2>2. OwnerInv'
    BY <2>1 DEF OwnerInv, Work!Of
  <2> QED  BY <2>1, <2>2, StepOf
<1>11. CASE ClearWork(t)
  <2>1. Step(t, "clear", "over") /\ rows' = {r \in rows : r.task \notin {t}} /\ Same /\ calm' = calm /\ adrift' = adrift
    BY <1>11 DEF ClearWork, Work!Clear, Work!Of, memoryVars
  <2>2. OwnerInv'
    BY <2>1, DeleteOwner
  <2> QED  BY <2>1, <2>2, StepOf
<1> QED  BY <1>1, <1>3, <1>4, <1>5, <1>6, <1>7, <1>8, <1>9, <1>10, <1>11 DEF TaskStep

LEMMA TaskCalm ==
  ASSUME SystemInv, NEW t \in Task, TaskStep(t)
  PROVE  OwnerInv' /\ CalmInv'
<1>1. /\ OwnerInv' /\ \A r \in rows' : r.task # t => r \in rows
      /\ \A m \in DOMAIN memory' : memory'[m].user = OwnerOf[t] \/ (m \in DOMAIN memory /\ memory'[m].user = memory[m].user)
      /\ job' = job /\ purge' = purge /\ events' \subseteq events \cup {OwnerOf[t]} /\ adrift \subseteq adrift'
      /\ \A s \in Task \ {t} : task'[s] = task[s]
      /\ calm' \subseteq calm /\ (OwnerOf[t] \in calm' => task[t].pc \notin {"new", "over"})
  BY TaskTouches DEF SystemInv, StoreInv
<1>2. OwnerOf[t] \notin calm'
  BY <1>1 DEF SystemInv, CalmInv
<1> SUFFICES ASSUME NEW u \in calm'
             PROVE  /\ u \in User /\ purge'[u] # "none"
                    /\ \A s \in Task : OwnerOf[s] = u => task'[s].pc \in {"new", "over"}
                    /\ OwnedBy(u)' = {}
                    /\ \A j \in Job : purge'[u] # "done" => job'[j].pc = "idle"
                    /\ \A j \in Job : \A m \in DOMAIN job'[j].seen : job'[j].seen[m].user # u
                    /\ purge'[u] # "working" => \A r \in rows' : OwnerOf[r.task] = u => r.task \in adrift'
                    /\ purge'[u] = "done" => u \notin events'
  BY <1>1 DEF CalmInv
<1>3. u \in calm /\ u # OwnerOf[t]
  BY <1>1, <1>2
<1>4. OwnedBy(u)' = {}
  BY <1>1, <1>3 DEF OwnedBy, SystemInv, CalmInv
<1> QED  BY <1>1, <1>3, <1>4 DEF SystemInv, CalmInv

(* A job touches what it has read: it reads nothing else of anybody.       *)
LEMMA JobTouches ==
  ASSUME StoreTypes, NEW j \in Job, NEW n, JobStep(j, n)
  PROVE  /\ job'[j].seen \in {<<>>, job[j].seen, memory} /\ \A k \in Job \ {j} : job'[k] = job[k]
         /\ \A m \in DOMAIN memory' : \/ m \in DOMAIN memory /\ memory'[m].user = memory[m].user
                                      \/ \E k \in DOMAIN job[j].seen : memory'[m].user = job[j].seen[k].user
         /\ events' \subseteq events \cup {job[j].seen[m].user : m \in DOMAIN job[j].seen}
<1>0. job[j].members \subseteq DOMAIN job[j].seen
  BY DEF StoreTypes, JobInv
<1>1. CASE StartConsolidation(j)
  BY <1>1, StartConsolidationTypes DEF StartConsolidation
<1>2. CASE StartExpiry(j)
  BY <1>2, StartExpiryTypes DEF StartExpiry
<1>3. CASE AddSummary(j, n)
  <2>1. PICK c, id : \E u \in User : Summarised(j, c, id, u, n)
    BY <1>3, AddSummaryTypes
  <2>2. PICK u \in User : Summarised(j, c, id, u, n)
    BY <2>1
  <2> DEFINE facts == UNION {job[j].seen[m].facts : m \in c}
             count == Accesses(c, job[j].seen)
  <2>3. /\ Add(id, u, facts, count, n) /\ events' = events
        /\ job'[j].seen = job[j].seen /\ \A k \in Job \ {j} : job'[k] = job[k]
        /\ \E k \in DOMAIN job[j].seen : u = job[j].seen[k].user
    BY <2>2 DEF Summarised, OfOne
  <2> HIDE DEF facts, count
  <2>4. /\ DOMAIN memory' = DOMAIN memory \cup {id} /\ memory'[id].user = u
        /\ \A m \in DOMAIN memory : memory'[m] = memory[m]
    BY <2>3, AddMoves
  <2> QED  BY <2>3, <2>4
<1>4. CASE DropMembers(j)
  <2>1. /\ Delete(job[j].members) /\ used' = used
        /\ events' = events \cup {job[j].seen[m].user : m \in job[j].members}
    BY <1>4 DEF DropMembers
  <2>2. DOMAIN memory' \subseteq DOMAIN memory /\ \A m \in DOMAIN memory' : memory'[m] = memory[m]
    BY <2>1, DeleteMoves
  <2> QED  BY <1>0, <1>4, <2>1, <2>2, DropMembersTypes
<1>5. CASE Recompute(j, n)
  <2> DEFINE kept == {m \in DOMAIN job[j].seen : Important(job[j].seen[m], n)}
  <2>1. /\ SetMetadata(kept, job[j].seen) /\ used' = used
        /\ events' = events \cup {job[j].seen[m].user : m \in DOMAIN job[j].seen \ kept}
    BY <1>5 DEF Recompute
  <2> HIDE DEF kept
  <2> QED  BY <1>5, <2>1, SetMetadataMoves, RecomputeTypes
<1>6. CASE DeleteExpired(j)
  <2>1. Delete(job[j].members) /\ UNCHANGED <<used, events>>
    BY <1>6 DEF DeleteExpired
  <2>2. DOMAIN memory' \subseteq DOMAIN memory /\ \A m \in DOMAIN memory' : memory'[m] = memory[m]
    BY <2>1, DeleteMoves
  <2> QED  BY <1>6, <2>1, <2>2, JobEndTypes DEF Idle
<1>7. CASE JobDies(j)
  BY <1>7, JobEndTypes DEF JobDies, Idle
<1> QED  BY <1>1, <1>2, <1>3, <1>4, <1>5, <1>6, <1>7 DEF JobStep

LEMMA MaintainCalm ==
  ASSUME SystemInv, NEW j \in Job, Maintain(j)
  PROVE  OwnerInv' /\ CalmInv'
<1>1. /\ JobStep(j, now) /\ UNCHANGED <<rows, task, purge, adrift>>
      /\ calm' = {u \in calm : purge[u] = "done" \/ job[j].pc # "idle"}
  BY DEF Maintain, workVars
<1>2. /\ job'[j].seen \in {<<>>, job[j].seen, memory} /\ \A k \in Job \ {j} : job'[k] = job[k]
      /\ \A m \in DOMAIN memory' : \/ m \in DOMAIN memory /\ memory'[m].user = memory[m].user
                                   \/ \E k \in DOMAIN job[j].seen : memory'[m].user = job[j].seen[k].user
      /\ events' \subseteq events \cup {job[j].seen[m].user : m \in DOMAIN job[j].seen}
  BY <1>1, JobTouches DEF SystemInv, StoreInv
<1>3. OwnerInv'
  BY <1>1 DEF SystemInv, OwnerInv, Work!Of
<1>4. ASSUME NEW u \in calm'
      PROVE  /\ u \in User /\ purge'[u] = "done"
             /\ \A s \in Task : OwnerOf[s] = u => task'[s].pc \in {"new", "over"}
             /\ OwnedBy(u)' = {}
             /\ \A k \in Job : \A m \in DOMAIN job'[k].seen : job'[k].seen[m].user # u
             /\ \A r \in rows' : OwnerOf[r.task] = u => r.task \in adrift'
             /\ u \notin events'
  <2>1. u \in calm /\ purge[u] = "done"
    BY <1>1 DEF SystemInv, CalmInv
  <2>2. OwnedBy(u)' = {}
    BY <1>2, <2>1 DEF OwnedBy, SystemInv, CalmInv
  <2>3. \A k \in Job : \A m \in DOMAIN job'[k].seen : job'[k].seen[m].user # u
    BY <1>2, <2>1 DEF OwnedBy, SystemInv, CalmInv
  <2> QED  BY <1>1, <1>2, <2>1, <2>2, <2>3 DEF SystemInv, CalmInv
<1> QED  BY <1>3, <1>4 DEF CalmInv

LEMMA PurgeLongTermCalm ==
  ASSUME SystemInv, NEW u \in User, PurgeLongTerm(u)
  PROVE  OwnerInv' /\ CalmInv'
<1>1. /\ purge[u] = "none" /\ purge' = [purge EXCEPT ![u] = "working"] /\ Delete(OwnedBy(u))
      /\ calm' = (IF Busy(u) THEN calm ELSE calm \cup {u})
      /\ UNCHANGED <<used, job, events, task, rows, adrift>>
  BY DEF PurgeLongTerm, workVars
<1>2. DOMAIN memory' = DOMAIN memory \ OwnedBy(u) /\ \A m \in DOMAIN memory' : memory'[m] = memory[m]
  BY <1>1, DeleteMoves DEF SystemInv, StoreInv
<1>3. OwnerInv'
  BY <1>1 DEF SystemInv, OwnerInv, Work!Of
<1>4. purge'[u] = "working" /\ \A w \in User \ {u} : purge'[w] = purge[w]
  BY <1>1 DEF SystemInv, TaskTypes
<1> DEFINE Calm(w) ==
    /\ w \in User /\ purge'[w] # "none"
    /\ \A s \in Task : OwnerOf[s] = w => task'[s].pc \in {"new", "over"}
    /\ OwnedBy(w)' = {}
    /\ \A j \in Job : purge'[w] # "done" => job'[j].pc = "idle"
    /\ \A j \in Job : \A m \in DOMAIN job'[j].seen : job'[j].seen[m].user # w
    /\ purge'[w] # "working" => \A r \in rows' : OwnerOf[r.task] = w => r.task \in adrift'
    /\ purge'[w] = "done" => w \notin events'
<1>5. ASSUME NEW w \in calm PROVE Calm(w)
  <2>1. w # u
    BY <1>1 DEF SystemInv, CalmInv
  <2>2. OwnedBy(w)' = {}
    BY <1>2 DEF OwnedBy, SystemInv, CalmInv
  <2>3. w \in User /\ purge'[w] = purge[w]
    BY <1>4, <2>1 DEF SystemInv, CalmInv
  <2> QED  BY <1>1, <2>2, <2>3 DEF SystemInv, CalmInv
<1>6. ASSUME ~Busy(u) PROVE Calm(u)
  <2>1. /\ \A t \in Task : OwnerOf[t] = u => task[t].pc \in {"new", "over"}
        /\ \A j \in Job : job[j].pc = "idle"
    BY <1>6 DEF Busy
  <2>2. \A j \in Job : job[j].seen = <<>>
    BY <2>1 DEF SystemInv, StoreInv, StoreTypes, JobInv, Idle
  <2>3. OwnedBy(u)' = {}
    BY <1>2 DEF OwnedBy
  <2> QED  BY <1>1, <1>4, <2>1, <2>2, <2>3
<1>7. \A w \in calm' : Calm(w)
  BY <1>1, <1>5, <1>6
<1> QED  BY <1>3, <1>7 DEF CalmInv

(* The rows of a purged user's tasks go with the row that says so.         *)
LEMMA PurgeWorkingCalm ==
  ASSUME SystemInv, NEW u \in User, PurgeWorking(u)
  PROVE  OwnerInv' /\ CalmInv'
<1>1. /\ purge[u] = "working" /\ purge' = [purge EXCEPT ![u] = "events"] /\ rows' = rows \ Work!OwnedRows(u)
      /\ UNCHANGED <<memory, used, job, events, task, calm, adrift>>
  BY DEF PurgeWorking, Work!ClearUser, memoryVars
<1>2. rows' = {r \in rows : r.task \notin {q.task : q \in {s \in rows : s.field = "user_id" /\ s.value = u}}}
  BY <1>1 DEF Work!OwnedRows
<1>3. OwnerInv'
  BY <1>1, <1>2, DeleteOwner DEF SystemInv
<1>4. \A r \in rows' : OwnerOf[r.task] = u => r.task \in adrift'
  BY <1>1, <1>2 DEF SystemInv, OwnerInv, Work!Of
<1>5. purge'[u] = "events" /\ \A w \in User \ {u} : purge'[w] = purge[w]
  BY <1>1 DEF SystemInv, TaskTypes
<1>6. ASSUME NEW w \in calm'
      PROVE  /\ w \in User /\ purge'[w] # "none"
             /\ \A j \in Job : purge'[w] # "done" => job'[j].pc = "idle"
             /\ purge'[w] # "working" => \A r \in rows' : OwnerOf[r.task] = w => r.task \in adrift'
             /\ purge'[w] = "done" => w \notin events'
  BY <1>1, <1>4, <1>5 DEF SystemInv, CalmInv
<1>7. ASSUME NEW w \in calm'
      PROVE  /\ \A s \in Task : OwnerOf[s] = w => task'[s].pc \in {"new", "over"}
             /\ OwnedBy(w)' = {}
             /\ \A j \in Job : \A m \in DOMAIN job'[j].seen : job'[j].seen[m].user # w
  BY <1>1 DEF SystemInv, CalmInv, OwnedBy
<1> QED  BY <1>3, <1>6, <1>7 DEF CalmInv

LEMMA PurgeEventsCalm ==
  ASSUME SystemInv, NEW u \in User, PurgeEvents(u)
  PROVE  OwnerInv' /\ CalmInv'
<1>1. /\ purge[u] = "events" /\ purge' = [purge EXCEPT ![u] = "done"] /\ events' = events \ {u}
      /\ UNCHANGED <<memory, used, job, task, calm, adrift, rows>>
  BY DEF PurgeEvents, workVars
<1>2. purge'[u] = "done" /\ \A w \in User \ {u} : purge'[w] = purge[w]
  BY <1>1 DEF SystemInv, TaskTypes
<1>3. OwnerInv'
  BY <1>1 DEF SystemInv, OwnerInv, Work!Of
<1>4. ASSUME NEW w \in calm'
      PROVE  /\ w \in User /\ purge'[w] # "none"
             /\ \A j \in Job : purge'[w] # "done" => job'[j].pc = "idle"
             /\ purge'[w] # "working" => \A r \in rows' : OwnerOf[r.task] = w => r.task \in adrift'
             /\ purge'[w] = "done" => w \notin events'
  BY <1>1, <1>2 DEF SystemInv, CalmInv
<1>5. ASSUME NEW w \in calm'
      PROVE  /\ \A s \in Task : OwnerOf[s] = w => task'[s].pc \in {"new", "over"}
             /\ OwnedBy(w)' = {}
             /\ \A j \in Job : \A m \in DOMAIN job'[j].seen : job'[j].seen[m].user # w
  BY <1>1 DEF SystemInv, CalmInv, OwnedBy
<1> QED  BY <1>3, <1>4, <1>5 DEF CalmInv

LEMMA ClockCalm ==
  ASSUME SystemInv, Tick \/ UNCHANGED vars
  PROVE  OwnerInv' /\ CalmInv'
<1>1. UNCHANGED <<memory, job, events, rows, task, purge, calm, adrift>>
  BY DEF Tick, Work!Tick, memoryVars, vars
<1>2. OwnerInv'
  BY <1>1 DEF SystemInv, OwnerInv, Work!Of
<1>3. CalmInv'
  BY <1>1 DEF SystemInv, CalmInv, OwnedBy
<1> QED  BY <1>2, <1>3

LEMMA SystemAlways == Spec => []SystemInv
<1>1. Init => SystemInv
  <2> SUFFICES ASSUME Init PROVE SystemInv
    OBVIOUS
  <2>1. RowsInv /\ StoreInv
    BY RowsInit, StoreInit
  <2>2. rows = {} /\ calm = {} /\ purge = [u \in User |-> "none"] /\ task = [t \in Task |-> [pc |-> "new", hits |-> <<>>]]
    BY DEF Init, Work!Init
  <2> QED  BY <2>1, <2>2 DEF SystemInv, OwnerInv, CalmInv, TaskTypes
<1>2. SystemInv /\ [Next]_vars => SystemInv'
  <2> SUFFICES ASSUME SystemInv, [Next]_vars PROVE SystemInv'
    OBVIOUS
  <2>1. RowsInv' /\ StoreInv' /\ TaskTypes'
    BY StepImplements, StoreStep, TaskStepTypes DEF SystemInv
  <2>2. OwnerInv' /\ CalmInv'
    BY TaskCalm, MaintainCalm, PurgeLongTermCalm, PurgeWorkingCalm, PurgeEventsCalm, ClockCalm DEF Next
  <2> QED  BY <2>1, <2>2 DEF SystemInv
<1> QED  BY <1>1, <1>2, PTL DEF Spec

(* Purge everything remembered about a user (api/routes/memory.py): for    *)
(* any number of users, tasks and maintenance runs, a purge in three       *)
(* transactions during which nobody works on the user's data leaves no     *)
(* memory, no event and no row, but for what tasks wrote after their owner *)
(* row had expired.                                                        *)
THEOREM PurgeLeavesNothingAlways == Spec => []PurgeLeavesNothing
<1>1. SystemInv => PurgeLeavesNothing
  BY DEF SystemInv, CalmInv, PurgeLeavesNothing
<1> QED  BY <1>1, SystemAlways, PTL
=============================================================================
