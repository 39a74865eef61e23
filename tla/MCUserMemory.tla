---------------------------- MODULE MCUserMemory ----------------------------
(* An instance of UserMemory for TLC.                                      *)
EXTENDS UserMemory

CONSTANTS alice, bob, t1, t2, j1, j2, f1, f2, g

Owners == [t \in Task |-> alice]
Lessons == [t \in Task |-> {IF t = t1 THEN f1 ELSE f2}]
AllAlike == Fact \X Fact
(* A memory that was never retrieved goes after two steps, one that was    *)
(* once after three.                                                       *)
Patience == [age \in 0..MaxNow |-> CASE age <= 1 -> 0 [] age = 2 -> 1 [] OTHER -> 2]
Past == <<[user |-> alice, facts |-> {f1}, count |-> 0, last |-> 0],
          [user |-> bob, facts |-> {g}, count |-> 0, last |-> 0]>>
(* Who works at the same time.                                             *)
Meetings == {{t1, t2}, {t1, j1, j2}, {t1, j1, alice}}
=============================================================================
