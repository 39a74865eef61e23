---------------------------- MODULE WorkingMemory ----------------------------
(***************************************************************************)
(* What working memory promises the graph's nodes (memory/working.py, the  *)
(* Redis store): a hash and a list of errors per task, which live TTL      *)
(* longer with every write and disappear together.                         *)
(*                                                                         *)
(* A write is one step here.  Redis takes three commands, the last two of  *)
(* them EXPIRE; PostgresMemory is the store that writes in one transaction *)
(* and implements this module.                                             *)
(***************************************************************************)
EXTENDS Integers

CONSTANTS
  Task,
  Field,  \* "user_id", "plan", "subtask:..." and "intermediate:..."
  Value,
  TTL     \* working_memory_ttl_s, in steps of the clock

VARIABLES
  fields, \* the hash of each task
  errors, \* how many errors it has recorded
  left    \* the time its keys have left, 0 if it has none

Empty == <<>>

Init ==
  /\ fields = [t \in Task |-> Empty]
  /\ errors = [t \in Task |-> 0]
  /\ left = [t \in Task |-> 0]

Hset(hash, f, v) == [g \in DOMAIN hash \cup {f} |-> IF g = f THEN v ELSE hash[g]]

Touch(t) == left' = [left EXCEPT ![t] = TTL]

(* start, set_plan, record_subtask_output, set_intermediate                *)
Set(t, f, v) ==
  /\ fields' = [fields EXCEPT ![t] = Hset(@, f, v)]
  /\ Touch(t) /\ UNCHANGED errors

RecordError(t) ==
  /\ errors' = [errors EXCEPT ![t] = @ + 1]
  /\ Touch(t) /\ UNCHANGED fields

(* The keys of the tasks in gone are no more.                              *)
Drop(gone) ==
  /\ fields' = [t \in Task |-> IF t \in gone THEN Empty ELSE fields[t]]
  /\ errors' = [t \in Task |-> IF t \in gone THEN 0 ELSE errors[t]]

Clear(t) == Drop({t}) /\ left' = [left EXCEPT ![t] = 0]

Owned(u) == {t \in Task : "user_id" \in DOMAIN fields[t] /\ fields[t]["user_id"] = u}
ClearUser(u) ==
  /\ Drop(Owned(u))
  /\ left' = [t \in Task |-> IF t \in Owned(u) THEN 0 ELSE left[t]]

(* Redis drops a key whose time is up.                                     *)
Tick ==
  /\ left' = [t \in Task |-> IF left[t] = 0 THEN 0 ELSE left[t] - 1]
  /\ Drop({t \in Task : left[t] <= 1})

Next ==
  \/ \E t \in Task :
       (\E f \in Field, v \in Value : Set(t, f, v)) \/ RecordError(t) \/ Clear(t)
  \/ \E v \in Value : ClearUser(v)
  \/ Tick

Spec == Init /\ [][Next]_<<fields, errors, left>>
==============================================================================
