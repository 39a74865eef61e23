------------------------------ MODULE MCReplay ------------------------------
(* An instance of Replay for TLC.                                          *)
EXTENDS Replay

(* Two subtasks of one specialist side by side, and one after the other.   *)
Parallel == [after |-> [l \in Subtask |-> {}], specialist |-> [l \in Subtask |-> "research"],
             about |-> [l \in Subtask |-> l], informed |-> TRUE, attempts |-> 2,
             may |-> [l \in Subtask |-> IF l = "a" THEN Texts ELSE {"sure"}],
             turns |-> [l \in Subtask |-> IF l = "a" THEN 2 ELSE 1]]
InTurn == [Parallel EXCEPT !.after = [l \in Subtask |-> IF l = "b" THEN {"a"} ELSE {}],
                           !.informed = FALSE, !.attempts = 1]
BothWays == {Parallel, InTurn}
=============================================================================
