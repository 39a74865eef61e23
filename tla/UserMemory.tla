----------------------------- MODULE UserMemory -----------------------------
(***************************************************************************)
(* What the system remembers about its users: running tasks that write     *)
(* working memory and leave long-term memories (graph/builder.py),         *)
(* maintenance runs, the clock, and the purge of a user                    *)
(* (api/routes/memory.py), which is three transactions in three stores.    *)
(***************************************************************************)
EXTENDS LongTermMemory, Sequences, TLC

CONSTANTS
  Task,
  OwnerOf,  \* the user of each task
  Lesson,   \* the facts extraction finds in each task
  Known,    \* the memories at the start
  TTL, NoField,
  MaxNow,   \* bound: the clock
  MaxErrors, \* bound: errors one task records
  Casts     \* bound: the tasks, maintenance runs and users to purge that meet

VARIABLES
  cast,      \* those that meet in this behaviour
  rows, now, \* the working_memory table, the clock
  task,      \* where each task is
  purge,     \* where the purge of each user is
  calm,      \* history: users whose data nobody else had in hand since their purge began
  adrift,    \* history: tasks that wrote after their owner row had expired
  learned    \* history: facts stored

workVars == <<rows, now>>
vars == <<memoryVars, cast, rows, now, task, purge, calm, adrift, learned>>

ASSUME TTLAssumption == TTL \in Nat \ {0}
ASSUME NoFieldAssumption == NoField \notin {"user_id", "plan", "output"}
ASSUME OwnerAssumption == OwnerOf \in [Task -> User]
ASSUME LessonAssumption == Lesson \in [Task -> SUBSET Fact]
ASSUME KnownAssumption ==
  \E n \in 0..MaxMemory : Known \in [1..n -> [user : User, facts : SUBSET Fact, count : Nat, last : Int]]

Field == {"user_id", "plan", "output"}
Value == User \cup {"text"}
Work == INSTANCE PostgresMemory

Init ==
  /\ cast \in Casts
  /\ memory = Known /\ used = Cardinality(DOMAIN Known)
  /\ job = [j \in Job |-> Idle] /\ events = {}
  /\ accesses = [m \in Id |-> IF m \in DOMAIN Known THEN Known[m].count ELSE 0]
  /\ overtaken = {} /\ forgotten = {}
  /\ Work!Init
  /\ task = [t \in Task |-> [pc |-> "new", hits |-> <<>>]]
  /\ purge = [u \in User |-> "none"] /\ calm = {} /\ adrift = {}
  /\ learned = FactsOf(DOMAIN memory)

Step(t, from, to) == task[t].pc = from /\ task' = [task EXCEPT ![t].pc = to]

(* Writing to a task whose owner is no longer on record.                   *)
Writes(t) == adrift' = IF "user_id" \in DOMAIN Work!FieldsOf(t) THEN adrift ELSE adrift \cup {t}

-----------------------------------------------------------------------------
(* A task, as far as memory is concerned.                                  *)

Intake(t) ==
  /\ Step(t, "new", "start") /\ Work!Sweep
  /\ calm' = calm \ {OwnerOf[t]}
  /\ UNCHANGED memoryVars /\ UNCHANGED <<purge, adrift, learned>>

StartWork(t) ==
  /\ Step(t, "start", "query") /\ Work!Start(t, OwnerOf[t])
  /\ UNCHANGED memoryVars /\ UNCHANGED <<purge, calm, adrift, learned>>

(* Only the user's own memories are searched; fewer than k hits are all of *)
(* them.                                                                   *)
Query(t) ==
  /\ task[t].pc = "query"
  /\ task' = [task EXCEPT ![t] = [pc |-> "bump", hits |-> Restrict(memory, OwnedBy(OwnerOf[t]))]]
  /\ UNCHANGED memoryVars /\ UNCHANGED workVars /\ UNCHANGED <<purge, calm, adrift, learned>>

MarkRetrieved(t) ==
  /\ Step(t, "bump", "plan")
  /\ Retrieved(OwnerOf[t], task[t].hits, now)
  /\ UNCHANGED workVars /\ UNCHANGED <<purge, calm, adrift, learned>>

WritePlan(t) ==
  /\ Step(t, "plan", "work") /\ Work!Set(t, "plan", "text") /\ Writes(t)
  /\ UNCHANGED memoryVars /\ UNCHANGED <<purge, calm, learned>>

RecordError(t) ==
  /\ Step(t, "work", "work") /\ Work!ErrorsOf(t) < MaxErrors
  /\ Work!RecordError(t) /\ Writes(t)
  /\ UNCHANGED memoryVars /\ UNCHANGED <<purge, calm, learned>>

RecordOutput(t) ==
  /\ Step(t, "work", "extract") /\ Work!Set(t, "output", "text") /\ Writes(t)
  /\ UNCHANGED memoryVars /\ UNCHANGED <<purge, calm, learned>>

(* The task is delivered and the model has extracted what it teaches.      *)
Learn(t) ==
  /\ Step(t, "extract", "clear")
  /\ Stored(OwnerOf[t], Lesson[t], now) /\ learned' = learned \cup Lesson[t]
  /\ UNCHANGED workVars /\ UNCHANGED <<purge, calm, adrift>>

(* Extraction failed: the delivery stands all the same.                    *)
LearnNothing(t) ==
  /\ Step(t, "extract", "clear")
  /\ UNCHANGED memoryVars /\ UNCHANGED workVars /\ UNCHANGED <<purge, calm, adrift, learned>>

ClearWork(t) ==
  /\ Step(t, "clear", "over") /\ Work!Clear(t)
  /\ UNCHANGED memoryVars /\ UNCHANGED <<purge, calm, adrift, learned>>

(* A task that fails leaves its working memory to the clock.               *)
Fail(t) ==
  /\ Step(t, "work", "over")
  /\ UNCHANGED memoryVars /\ UNCHANGED workVars /\ UNCHANGED <<purge, calm, adrift, learned>>

TaskStep(t) ==
  \/ Intake(t) \/ StartWork(t) \/ Query(t) \/ MarkRetrieved(t) \/ WritePlan(t)
  \/ RecordError(t) \/ RecordOutput(t) \/ Learn(t) \/ LearnNothing(t) \/ ClearWork(t) \/ Fail(t)

-----------------------------------------------------------------------------
(* The purge of a user.                                                    *)

Busy(u) ==
  \/ \E t \in Task : OwnerOf[t] = u /\ task[t].pc \notin {"new", "over"}
  \/ \E j \in Job : job[j].pc # "idle"

PurgeLongTerm(u) ==
  /\ purge[u] = "none" /\ purge' = [purge EXCEPT ![u] = "working"]
  /\ Delete(OwnedBy(u))
  /\ forgotten' = forgotten \cup FactsOf(OwnedBy(u))
  /\ calm' = IF Busy(u) THEN calm ELSE calm \cup {u}
  /\ UNCHANGED <<used, job, events, accesses, overtaken, task, adrift, learned>> /\ UNCHANGED workVars

PurgeWorking(u) ==
  /\ purge[u] = "working" /\ purge' = [purge EXCEPT ![u] = "events"]
  /\ Work!ClearUser(u)
  /\ UNCHANGED memoryVars /\ UNCHANGED <<task, calm, adrift, learned>>

PurgeEvents(u) ==
  /\ purge[u] = "events" /\ purge' = [purge EXCEPT ![u] = "done"]
  /\ events' = events \ {u}
  /\ UNCHANGED <<memory, used, job, accesses, overtaken, forgotten, task, calm, adrift, learned>>
  /\ UNCHANGED workVars

Maintain(j) ==
  /\ JobStep(j, now)
  /\ calm' = {u \in calm : purge[u] = "done" \/ job[j].pc # "idle"}
  /\ UNCHANGED workVars /\ UNCHANGED <<task, purge, adrift, learned>>

Tick ==
  /\ now < MaxNow /\ Work!Tick
  /\ UNCHANGED memoryVars /\ UNCHANGED <<task, purge, calm, adrift, learned>>

Next ==
  /\ \/ \E t \in Task \cap cast : TaskStep(t)
     \/ \E j \in Job \cap cast : Maintain(j)
     \/ \E u \in User \cap cast : PurgeLongTerm(u) \/ PurgeWorking(u) \/ PurgeEvents(u)
     \/ Tick
  /\ UNCHANGED cast

Spec == Init /\ [][Next]_vars

-----------------------------------------------------------------------------
(* Properties.                                                             *)

(* Whatever was learned stays in some memory until it expires or its user  *)
(* is purged, however consolidations overlap and wherever they die: the    *)
(* summary is stored before its members go (management.py, consolidate).   *)
(* And it stays with its user: no memory states facts of two.              *)
MemoriesAreKept ==
  /\ learned \ forgotten \subseteq FactsOf(DOMAIN memory)
  /\ \A m \in DOMAIN memory :
       memory[m].facts \subseteq
         (UNION {Lesson[t] : t \in {t \in Task : OwnerOf[t] = memory[m].user}})
         \cup (UNION {Known[n].facts : n \in {n \in DOMAIN Known : Known[n].user = memory[m].user}})

(* Every retrieval counts ("retrieval is access: importance goes up",      *)
(* retrieval.py), also of tasks at the same time; except for a memory that *)
(* is retrieved while an expiry run is about to write back what it read.   *)
RetrievalsCount ==
  \A m \in DOMAIN memory \ overtaken : memory[m].count = accesses[m]

(* "Purge everything remembered about a user (long-term, working, audit)": *)
(* a purge during which nobody works on the user's data leaves nothing,    *)
(* not even expired rows, but for what a task wrote after its owner row    *)
(* had expired.                                                            *)
PurgeLeavesNothing ==
  \A u \in calm : purge[u] = "done" =>
    /\ OwnedBy(u) = {}
    /\ u \notin events
    /\ \A r \in rows : OwnerOf[r.task] = u => r.task \in adrift

(* "The Redis store's behaviour on the working_memory table": what the     *)
(* tasks, the clock and the purge do to the table is what they would do    *)
(* to the Redis store.                                                     *)
ImplementsWorkingMemory == Work!Abstract!Spec
=============================================================================
