---------------------------- MODULE MCResumption ----------------------------
(* Instances of Resumption for TLC.                                        *)
EXTENDS Resumption

(* A task whose plan and deliverable are reviewed.                         *)
Reviewed == <<"plan_gate", "schedule", "wave", "schedule", "final_gate", "deliver">>

(* A hasty reviewer at the gates of the graph; one who waits for the pause, *)
(* with one sensitive call and processes that die, and with two calls.      *)
CONSTANTS x, y
AllSettings == {[gated |-> {}, hasty |-> TRUE, crashes |-> 0],
                [gated |-> {x}, hasty |-> FALSE, crashes |-> 2],
                [gated |-> {x, y}, hasty |-> FALSE, crashes |-> 0]}
(* A hasty reviewer and one death.                                          *)
OneDeath == {[gated |-> {}, hasty |-> TRUE, crashes |-> 1]}
=============================================================================
