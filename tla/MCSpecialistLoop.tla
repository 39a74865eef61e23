-------------------------- MODULE MCSpecialistLoop --------------------------
(* Instances of SpecialistLoop for TLC.                                    *)
EXTENDS SpecialistLoop

CONSTANTS x, y, api, rag

Get == [tool |-> api, arg |-> "get"]
Post == [tool |-> api, arg |-> "post"]
Ask == [tool |-> rag, arg |-> "get"]

(* One branch makes two calls in a turn, then perhaps another; beside it   *)
(* one makes a sensitive call of its own, and its provider fails after it. *)
Turns == [b \in Branch |->
  IF b = x THEN <<{<<Get, Ask>>, <<Post, Post>>}, {<<>>, <<Post>>}>>
           ELSE <<{<<Post>>}, {}>>]
TurnsFrom0 == [b \in Branch |-> [n \in 0..Budget - 1 |-> Turns[b][n + 1]]]
Limits == [t \in Tool |-> IF t = api THEN 2 ELSE 1]
=============================================================================
