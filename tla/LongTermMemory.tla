--------------------------- MODULE LongTermMemory ---------------------------
(***************************************************************************)
(* The memories kept about users (memory/longterm.py): what retrieval,     *)
(* extraction and the two maintenance jobs do to them (retrieval.py,       *)
(* extraction.py, management.py).  A job reads a snapshot, decides on it,  *)
(* and writes in transactions of their own: other jobs, tasks and a purge  *)
(* come in between, and the process may die.                               *)
(*                                                                         *)
(* A memory's text is the set of facts it states.  One kind of memory      *)
(* stands for the three, which the jobs treat one after another.           *)
(***************************************************************************)
EXTENDS Integers, FiniteSets, FiniteSetsExt, Functions

CONSTANTS
  User,
  Fact,
  Alike,     \* pairs of facts whose embeddings reach the consolidation threshold
  Needed,    \* by age: the least access count that keeps a memory of that age
  Job,       \* maintenance runs: the daily ones and those started by hand
  MaxMemory  \* bound: memories ever added

ASSUME AlikeAssumption == Alike \subseteq Fact \X Fact
ASSUME BoundAssumption == MaxMemory \in Nat \ {0}

Id == 1..MaxMemory

VARIABLES
  memory,    \* the rows: id -> [user, facts, count, last]
  used,      \* ids handed out
  job,       \* where each maintenance run is
  events,    \* the users the audit log has entries of
  accesses,  \* history: retrievals of each memory, with those of what it merges
  overtaken, \* history: memories retrieved behind the back of an expiry run
  forgotten  \* history: facts dropped on purpose

memoryVars == <<memory, used, job, events, accesses, overtaken, forgotten>>

Idle == [pc |-> "idle", seen |-> <<>>, todo |-> {}, members |-> {}]
OwnedBy(u) == {m \in DOMAIN memory : memory[m].user = u}
FactsOf(ms) == UNION {memory[m].facts : m \in ms}

-----------------------------------------------------------------------------
(* The store.                                                              *)

Add(id, user, facts, count, now) ==
  /\ id = used + 1 /\ id \in Id /\ used' = id
  /\ memory' = [m \in DOMAIN memory \cup {id} |->
                  IF m = id THEN [user |-> user, facts |-> facts, count |-> count, last |-> now]
                  ELSE memory[m]]

Delete(ids) == memory' = Restrict(memory, DOMAIN memory \ ids)

(* set_metadata, with what was read: everything but a memory's identity.   *)
SetMetadata(ids, seen) ==
  memory' = [m \in DOMAIN memory |->
    IF m \in ids THEN [memory[m] EXCEPT !.count = seen[m].count, !.last = seen[m].last]
    ELSE memory[m]]

(* all_items: the rows as one statement finds them.                        *)
AllItems == memory

(* Importance falls by half with every half life since the last access and *)
(* rises with the accesses: at a given age it takes so many.               *)
Important(m, now) == m.count >= Needed[now - m.last]

-----------------------------------------------------------------------------
(* Tasks: what planning retrieves and delivery stores.                     *)

BumpSeen(seen, now) ==
  memory' = [m \in DOMAIN memory |->
    IF m \in DOMAIN seen THEN [memory[m] EXCEPT !.count = seen[m].count + 1, !.last = now]
    ELSE memory[m]]

(* bump_access: under the rows' locks, on what they hold now.              *)
Accessed(row, now) == [row EXCEPT !.count = @ + 1, !.last = now]
Bump(seen, now) ==
  memory' = [m \in DOMAIN memory |->
    IF m \in DOMAIN seen THEN Accessed(memory[m], now) ELSE memory[m]]

Expiring == UNION {DOMAIN job[j].seen : j \in {j \in Job : job[j].pc = "recompute"}}

(* The memories a query found are marked as accessed, those still there.   *)
Retrieved(user, seen, now) ==
  LET hits == DOMAIN seen \cap DOMAIN memory IN
  /\ Bump(seen, now)
  /\ accesses' = [m \in Id |-> IF m \in hits THEN accesses[m] + 1 ELSE accesses[m]]
  /\ overtaken' = overtaken \cup (hits \cap Expiring)
  /\ events' = IF seen = <<>> THEN events ELSE events \cup {user}
  /\ UNCHANGED <<used, job, forgotten>>

(* One extracted text is stored.                                           *)
Stored(user, facts, now) ==
  /\ \E id \in Id : Add(id, user, facts, 0, now)
  /\ events' = events \cup {user}
  /\ UNCHANGED <<job, accesses, overtaken, forgotten>>

-----------------------------------------------------------------------------
(* Consolidation.                                                          *)

Near(m, n) == \E f \in m.facts, g \in n.facts : f = g \/ <<f, g>> \in Alike \/ <<g, f>> \in Alike

(* Connected components over the pairs that are near enough.               *)
Clusters(ms, seen) ==
  LET Closed == {c \in SUBSET ms : \A m \in c : \A n \in ms \ c : ~Near(seen[m], seen[n])} IN
  {c \in Closed \ {{}} : \A d \in Closed : d \subseteq c => d \in {{}, c}}

(* Only a user's own memories are merged.                                  *)
Groups(seen) ==
  {c \in UNION {Clusters({m \in DOMAIN seen : seen[m].user = u}, seen) : u \in User} :
     Cardinality(c) > 1}

StartConsolidation(j) ==
  /\ job[j].pc = "idle" /\ Groups(memory) # {}
  /\ job' = [job EXCEPT ![j] = [pc |-> "merge", seen |-> AllItems, todo |-> Groups(AllItems), members |-> {}]]
  /\ UNCHANGED <<memory, used, events, accesses, overtaken, forgotten>>

Accesses(c, seen) == MapThenSumSet(LAMBDA m : seen[m].count, c)

(* The model has answered with a summary, of the texts as they were read.  *)
AddSummary(j, now) ==
  /\ job[j].pc = "merge"
  /\ \E c \in job[j].todo, id \in Id :
       LET seen == job[j].seen
           owner == (CHOOSE u \in User : \E m \in c : seen[m].user = u)
       IN
       /\ Add(id, owner, UNION {seen[m].facts : m \in c}, Accesses(c, seen), now)
       /\ accesses' = [accesses EXCEPT ![id] = Accesses(c, seen)]
       /\ job' = [job EXCEPT ![j].pc = "drop", ![j].members = c, ![j].todo = @ \ {c}]
  /\ UNCHANGED <<events, overtaken, forgotten>>

DropAllRead(j) ==
  /\ job[j].pc = "drop"
  /\ Delete(DOMAIN job[j].seen)
  /\ events' = events \cup {job[j].seen[m].user : m \in job[j].members}
  /\ job' = [job EXCEPT ![j] = IF @.todo = {} THEN Idle ELSE [@ EXCEPT !.pc = "merge", !.members = {}]]
  /\ UNCHANGED <<used, accesses, overtaken, forgotten>>

DropMembers(j) ==
  /\ job[j].pc = "drop"
  /\ Delete(job[j].members)
  /\ events' = events \cup {job[j].seen[m].user : m \in job[j].members}
  /\ job' = [job EXCEPT ![j] = IF @.todo = {} THEN Idle ELSE [@ EXCEPT !.pc = "merge", !.members = {}]]
  /\ UNCHANGED <<used, accesses, overtaken, forgotten>>

-----------------------------------------------------------------------------
(* Expiry.                                                                 *)

StartExpiry(j) ==
  /\ job[j].pc = "idle" /\ memory # <<>>
  /\ job' = [job EXCEPT ![j] = [pc |-> "recompute", seen |-> AllItems, todo |-> {}, members |-> {}]]
  /\ UNCHANGED <<memory, used, events, accesses, overtaken, forgotten>>

(* The kept ones are written back: importance, and with it everything else *)
(* that was read.                                                          *)
Recompute(j, now) ==
  /\ job[j].pc = "recompute"
  /\ LET seen == job[j].seen
         kept == {m \in DOMAIN seen : Important(seen[m], now)}
     IN
     /\ SetMetadata(kept, seen)
     /\ events' = events \cup {seen[m].user : m \in DOMAIN seen \ kept}
     /\ job' = [job EXCEPT ![j].pc = "expire", ![j].members = DOMAIN seen \ kept]
  /\ UNCHANGED <<used, accesses, overtaken, forgotten>>

DeleteExpired(j) ==
  /\ job[j].pc = "expire"
  /\ Delete(job[j].members)
  /\ forgotten' = forgotten \cup UNION {job[j].seen[m].facts : m \in job[j].members}
  /\ job' = [job EXCEPT ![j] = Idle]
  /\ UNCHANGED <<used, events, accesses, overtaken>>

(* The worker dies, or a step raises: what is committed stays.             *)
JobDies(j) ==
  /\ job[j].pc # "idle"
  /\ job' = [job EXCEPT ![j] = Idle]
  /\ UNCHANGED <<memory, used, events, accesses, overtaken, forgotten>>

JobStep(j, now) ==
  \/ StartConsolidation(j) \/ AddSummary(j, now) \/ DropMembers(j)
  \/ StartExpiry(j) \/ Recompute(j, now) \/ DeleteExpired(j) \/ JobDies(j)
=============================================================================
