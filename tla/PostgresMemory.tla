--------------------------- MODULE PostgresMemory ---------------------------
(***************************************************************************)
(* Working memory on the working_memory table (PostgresWorkingMemory in    *)
(* memory/working.py): a row per task and field, a row without a field for *)
(* an error, and a time on each row at which it stops counting.  Expired   *)
(* rows stay until somebody deletes them.  Every operation is one          *)
(* transaction, but for start, which is two.                               *)
(***************************************************************************)
EXTENDS Integers, FiniteSets, FiniteSetsExt

CONSTANTS Task, Field, Value, TTL, NoField

VARIABLES
  rows, \* [task, field, value, id, expires]
  now

Live(r) == r.expires > now
Of(t) == {r \in rows : r.task = t}

Init == rows = {} /\ now = 0

WrittenAlone(t, f, v) ==
  LET kept == {r \in Of(t) : Live(r) /\ (f = NoField \/ r.field # f)}
      id == IF f = NoField THEN 1 + Max({0} \cup {r.id : r \in Of(t)}) ELSE 0
      row == [task |-> t, field |-> f, value |-> v, id |-> id, expires |-> now + TTL]
  IN (rows \ Of(t)) \cup {row} \cup kept

(* The transaction of _write: what has expired of the task goes, the field *)
(* is inserted or overwritten, an error is added, and everything the task  *)
(* has gets the new time.  ids tell errors apart.                          *)
Written(t, f, v) ==
  LET kept == {r \in Of(t) : Live(r) /\ (f = NoField \/ r.field # f)}
      id == IF f = NoField THEN 1 + Max({0} \cup {r.id : r \in Of(t)}) ELSE 0
      row == [task |-> t, field |-> f, value |-> v, id |-> id, expires |-> now + TTL]
  IN (rows \ Of(t)) \cup {row} \cup {[r EXCEPT !.expires = now + TTL] : r \in kept}

Set(t, f, v) == rows' = Written(t, f, v) /\ UNCHANGED now
RecordError(t) == Set(t, NoField, NoField)

(* start first deletes every task's expired rows, then writes the owner.   *)
Sweep == rows' = {r \in rows : Live(r)} /\ UNCHANGED now
Start(t, u) == Set(t, "user_id", u)

Clear(t) == rows' = rows \ Of(t) /\ UNCHANGED now

LiveOwnedRows(u) ==
  LET owned == {r.task : r \in {r \in rows : r.field = "user_id" /\ r.value = u /\ Live(r)}} IN
  {r \in rows : r.task \in owned}

(* Expired rows included: nobody else would delete those of a dead task.   *)
OwnedRows(u) ==
  LET owned == {r.task : r \in {r \in rows : r.field = "user_id" /\ r.value = u}} IN
  {r \in rows : r.task \in owned}
ClearUser(u) == rows' = rows \ OwnedRows(u) /\ UNCHANGED now

(* Time passes.                                                            *)
Tick == now' = now + 1 /\ UNCHANGED rows

-----------------------------------------------------------------------------
(* What the reads return is the state of WorkingMemory.                    *)

(* _hgetall, and get_plan, get_user and the others that read one field.    *)
FieldsOf(t) ==
  LET live == {r \in Of(t) : Live(r) /\ r.field # NoField} IN
  [f \in {r.field : r \in live} |-> (CHOOSE r \in live : r.field = f).value]

ErrorsOf(t) == Cardinality({r \in Of(t) : Live(r) /\ r.field = NoField})

TimeLeft(t) == Max({0} \cup {r.expires - now : r \in {r \in Of(t) : Live(r)}})

Abstract == INSTANCE WorkingMemory WITH
  fields <- [t \in Task |-> FieldsOf(t)],
  errors <- [t \in Task |-> ErrorsOf(t)],
  left <- [t \in Task |-> TimeLeft(t)]
=============================================================================
