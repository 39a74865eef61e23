---------------------------- MODULE MCTaskGraph ----------------------------
(* Instances of TaskGraph for TLC: small plans over at most three subtasks. *)
EXTENDS TaskGraph

CONSTANTS a, b, c

NoDeps == [s \in Sid |-> {}]
OnePlan == [subtasks |-> {a}, deps |-> NoDeps, low |-> FALSE]
UnsurePlan == [OnePlan EXCEPT !.low = TRUE]
ParallelPlan == [OnePlan EXCEPT !.subtasks = {a, b}]
ChainPlan == [ParallelPlan EXCEPT !.deps = [s \in Sid |-> IF s = b THEN {a} ELSE {}]]
JoinPlan == [subtasks |-> {a, b, c}, 
             deps |-> [s \in Sid |-> IF s = c THEN {a, b} ELSE {}], low |-> TRUE]

SortedRank == [s \in Sid |-> CASE s = a -> 0 [] s = b -> 1 [] OTHER -> 2]

EndedPlans == {UnsurePlan, ParallelPlan}
ParallelPlans == {ParallelPlan}
CorePlans == {UnsurePlan, ChainPlan, JoinPlan}

(* Which subtasks make a sensitive call. *)
GateOfEach == [s \in Sid |-> 1]
GateOfJoin == [s \in Sid |-> IF s = c THEN 1 ELSE 0]
=============================================================================
