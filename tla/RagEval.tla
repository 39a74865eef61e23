------------------------------ MODULE RagEval -------------------------------
(***************************************************************************)
(* rag_eval collect: commands that put every golden question to the RAG     *)
(* service and to a judge, and append what they get to the two files of one *)
(* run; and what score makes of those files.  Commands are separate         *)
(* processes over one directory.  They may be killed and started again, may *)
(* overlap, and the service may be redeployed with other settings.          *)
(***************************************************************************)
EXTENDS Naturals, Sequences, SequencesExt, Functions, FiniteSets

CONSTANTS Items,        \* the (question, mode) pairs, in the order they are asked
          Answerable,   \* those whose question is not of category no_answer
          Configs,      \* what /v1/config may say: [collection, llm]
          Answers,      \* what /v1/ask may reply: [refused, contexts, cost]
          Collects,     \* the commands, 1..n
          Stage,        \* command -> the stage it collects
          Cap,          \* command -> --max-cost-usd
          AskReserve, JudgeWorst, JudgeProvider,
          Troubles,     \* of "overlap", "redeploy", "kill", "fault"
          MaxTrouble    \* bound on how many of them happen
STAGES == {"retrieval", "answers"}
NoConfig == [collection |-> "none", llm |-> "none"]

(* A command line names no question and no mode twice; NoConfig says that    *)
(* there is no snapshot; what an ask costs at worst is known (rag_eval.py).  *)
ASSUME ItemsAssumption ==
  Items \in Seq(ToSet(Items)) /\ \A m, n \in DOMAIN Items : Items[m] = Items[n] => m = n
ASSUME ConfigsAssumption == NoConfig \notin Configs
ASSUME AnswersAssumption ==
  Answers \subseteq [refused : BOOLEAN, contexts : BOOLEAN, cost : 0..AskReserve]
ASSUME BudgetAssumption ==
  AskReserve \in Nat /\ JudgeWorst \in Nat /\ Cap \in [Collects -> Nat]
ASSUME StageAssumption == Stage \in [Collects -> STAGES]

Fresh == [item |-> "none", error |-> TRUE]     \* nothing recorded yet

VARIABLES config,    \* the service's settings
          runJson,   \* stage -> its snapshot in run.json, or NoConfig
          file,      \* stage -> its .jsonl, a sequence of records
          torn,      \* the files a kill has left half written
          cache,     \* the judged prompts: <<answer, kind>>
          collect,   \* command -> its locals
          trouble,
          answered, orphaned,     \* item -> how many answers it got, and were lost
          met, moved, raced       \* history: who overlapped, what changed under whom
ragVars == <<config, runJson, file, torn, cache, collect, trouble,
             answered, orphaned, met, moved, raced>>

NoReturn == 9     \* no exit status of these commands
Idle == [pc |-> "idle", config |-> NoConfig, run |-> [s \in STAGES |-> NoConfig],
         queue |-> <<>>, record |-> Fresh, todo |-> {}, stop |-> FALSE, errors |-> FALSE,
         spent |-> 0, paid |-> 0, lost |-> 0, rc |-> NoReturn]
Over == {"idle", "done", "refused", "dead"}
Busy(c) == collect[c].pc \notin Over

RagInit == /\ config \in Configs
           /\ runJson = [s \in STAGES |-> NoConfig]
           /\ file = [s \in STAGES |-> <<>>]
           /\ torn = {} /\ cache = {}
           /\ collect = [c \in Collects |-> Idle]
           /\ trouble = 0
           /\ answered = [i \in ToSet(Items) |-> 0] /\ orphaned = answered
           /\ met = {} /\ moved = {} /\ raced = FALSE

History == <<answered, orphaned, met, moved, raced>>
Files == <<runJson, file, torn, cache>>
Trouble(kind) == /\ kind \in Troubles
                 /\ trouble < MaxTrouble /\ trouble' = trouble + 1

(* A command that has ended: its locals are gone. *)
Ended(p, pc) == [Idle EXCEPT !.pc = pc, !.paid = p.paid, !.lost = p.lost]
Returned(p, rc) == [Ended(p, "done") EXCEPT !.rc = rc]

-----------------------------------------------------------------------------
(* What was recorded, and what it lacks.                                    *)
(* latest: later lines supersede earlier ones. *)
Latest(stage, item) ==
  LET of == {n \in DOMAIN file[stage] : file[stage][n].item = item}
  IN  IF of = {} THEN Fresh ELSE file[stage][CHOOSE n \in of : \A m \in of : m <= n]

needs_verdicts(r) ==
  IF r.refused THEN {}
  ELSE {k \in {"correctness", "faithfulness"} \ r.verdicts :
          IF k = "correctness" THEN r.item \in Answerable ELSE r.contexts}

(* Mutant: an answer that lacks a verdict counts as recorded. *)
RecordedUnjudged(stage, item) == ~Latest(stage, item).error

Recorded(stage, item) ==
  LET r == Latest(stage, item)
  IN  ~r.error /\ (stage = "retrieval" \/ needs_verdicts(r) = {})

SameCollection(c1, c2) == c1.collection = c2.collection       \* SHARED_CONFIG

-----------------------------------------------------------------------------
(* open_stage: the settings are asked for, run.json is read, and the file is *)
(* written whole if this is the stage's first collect.                       *)
Starts(c) ==
  /\ collect[c].pc = "idle"
  /\ \A d \in Collects : d < c => collect[d].pc # "idle"
  /\ collect' = [collect EXCEPT ![c].pc = "opening", ![c].config = config]
  /\ LET others == {d \in Collects : Busy(d)}
         twins == {d \in others : Stage[d] = Stage[c]}
     IN  /\ met' = met \cup (IF twins = {} THEN {} ELSE twins \cup {c})
         /\ IF others = {} THEN UNCHANGED trouble ELSE Trouble("overlap")
  /\ UNCHANGED <<config, Files, answered, orphaned, moved, raced>>

ReadRun(c) ==
  /\ collect[c].pc = "opening"
  /\ collect' = [collect EXCEPT ![c] = IF "run.json" \in torn THEN Ended(collect[c], "dead")
                                      ELSE [collect[c] EXCEPT !.pc = "checking", !.run = runJson]]
  /\ UNCHANGED <<config, Files, trouble, History>>

(* Mutant: the other stages' collection is not compared. *)
FitsOwnStage(c) ==
  LET p == collect[c]
      mine == p.run[Stage[c]]
  IN  mine # NoConfig => mine = p.config

Fits(c) ==
  LET p == collect[c]
      mine == p.run[Stage[c]]
  IN  IF mine # NoConfig THEN mine = p.config
      ELSE \A s \in STAGES : p.run[s] # NoConfig => SameCollection(p.run[s], p.config)

OpenStage(c) ==
  /\ collect[c].pc = "checking"
  /\ IF ~Fits(c) THEN
       /\ collect' = [collect EXCEPT ![c] = Ended(collect[c], "refused")]
       /\ UNCHANGED <<runJson, torn, raced>>
     ELSE
       /\ collect' = [collect EXCEPT ![c].pc = "begin", ![c].run = Idle.run]
       /\ IF collect[c].run[Stage[c]] = NoConfig
          THEN /\ runJson' = [collect[c].run EXCEPT ![Stage[c]] = collect[c].config]
               /\ torn' = torn \ {"run.json"}
               /\ raced' = (raced \/ runJson # collect[c].run)
          ELSE UNCHANGED <<runJson, torn, raced>>
  /\ UNCHANGED <<config, file, cache, trouble, answered, orphaned, met, moved>>

(* The records so far are read once: what they lack is this command's work. *)
(* A line that does not parse ends it, and a judge of the generator's        *)
(* provider is refused.                                                      *)
Begin(c) ==
  /\ collect[c].pc = "begin"
  /\ LET s == Stage[c]
         own == s = "answers" /\ JudgeProvider = collect[c].config.llm
         lacking == {n \in DOMAIN Items : ~Recorded(s, Items[n])}
     IN  collect' = [collect EXCEPT ![c] =
           IF own THEN Ended(collect[c], "refused")
           ELSE IF s \in torn THEN Ended(collect[c], "dead")
           ELSE [collect[c] EXCEPT !.pc = "next", !.config = NoConfig,
                          !.queue = [n \in lacking |-> Latest(s, Items[n])]]]
  /\ UNCHANGED <<config, Files, trouble, History>>

Finish(c) ==
  /\ collect[c].pc = "next" /\ collect[c].queue = <<>>
  /\ collect' = [collect EXCEPT ![c] = Returned(collect[c], IF collect[c].errors THEN 1 ELSE 0)]
  /\ UNCHANGED <<config, Files, trouble, History>>

-----------------------------------------------------------------------------
(* One question.  Nothing is read again in between, whatever changed.       *)
Working(c) == collect[c].pc = "next" /\ collect[c].queue # <<>>
First(queue) == CHOOSE n \in DOMAIN queue : \A m \in DOMAIN queue : n <= m
Rest(queue) == Restrict(queue, DOMAIN queue \ {First(queue)})
Item(c) == Items[First(collect[c].queue)]
(* Mutant: only a complete record is taken up again. *)
BeforeIfComplete(c) == Fresh

Before(c) == collect[c].queue[First(collect[c].queue)]
Failed(c) == [item |-> Item(c), error |-> TRUE]

Search(c) ==
  /\ Working(c) /\ Stage[c] = "retrieval"
  /\ \/ /\ collect' = [collect EXCEPT ![c].pc = "append", ![c].record =
                          [item |-> Item(c), error |-> FALSE, under |-> config]]
        /\ UNCHANGED trouble
     \/ /\ Trouble("fault")
        /\ collect' = [collect EXCEPT ![c].pc = "append", ![c].record = Failed(c),
                                     ![c].errors = TRUE]
  /\ UNCHANGED <<config, Files, History>>

(* Mutant: the call is refused only when the cap is already spent. *)
OverSpent(p, cap, worst) == p.spent >= cap

(* Budget.check *)
OverCap(p, cap, worst) == p.spent + worst > cap

(* One /v1/ask.  A reply that never comes (the client gives up after 120 s)  *)
(* may have been paid for all the same, and no budget hears of it.          *)
Ask(c) ==
  LET p == collect[c] IN
  /\ Working(c) /\ Stage[c] = "answers" /\ Before(c).error
  /\ IF OverCap(p, Cap[c], AskReserve) THEN
       /\ collect' = [collect EXCEPT ![c] = Returned(p, 1)]
       /\ UNCHANGED <<trouble, answered>>
     ELSE
       \/ \E a \in Answers :
            LET r == [item |-> Item(c), error |-> FALSE, refused |-> a.refused,
                      contexts |-> a.contexts, verdicts |-> {},
                      id |-> <<Item(c), answered[Item(c)]>>, under |-> config]
            IN  /\ collect' = [collect EXCEPT ![c].pc = "judge", ![c].record = r,
                     ![c].todo = needs_verdicts(r),
                     ![c].spent = @ + a.cost, ![c].paid = @ + a.cost]
                /\ answered' = [answered EXCEPT ![Item(c)] = @ + 1]
                /\ UNCHANGED trouble
       \/ \E billed \in {0, AskReserve} :
            /\ Trouble("fault")
            /\ collect' = [collect EXCEPT ![c].pc = "append", ![c].record = Failed(c),
                 ![c].errors = TRUE, ![c].paid = @ + billed, ![c].lost = @ + 1]
            /\ UNCHANGED answered
  /\ UNCHANGED <<config, Files, orphaned, met, moved, raced>>

(* An answer that lacks a verdict is not asked again. *)
Rejudge(c) ==
  /\ Working(c) /\ Stage[c] = "answers" /\ ~Before(c).error
  /\ collect' = [collect EXCEPT ![c].pc = "judge", ![c].record = Before(c),
                               ![c].todo = needs_verdicts(Before(c))]
  /\ UNCHANGED <<config, Files, trouble, History>>

(* The command ends with a paid answer in hand that no file holds. *)
InHand(c) == collect[c].pc \in {"judge", "append"} /\ Stage[c] = "answers"
             /\ ~collect[c].record.error /\ Before(c).error
Orphan(c) == orphaned' = [i \in DOMAIN orphaned |->
                            orphaned[i] + (IF InHand(c) /\ i = Item(c) THEN 1 ELSE 0)]

(* Judge._verdict: what was judged before is known by the whole prompt.      *)
Prompt(p, kind) == <<p.record.id, kind>>

(* LLM.complete: a reply is billed before anything is made of it. *)
Billed(p) == [p EXCEPT !.spent = @ + JudgeWorst, !.paid = @ + JudgeWorst]

(* The verdicts, correctness first.  A cached one is free; one the budget    *)
(* has no room for ends the command once what was judged is recorded; a      *)
(* reply that is no verdict is billed and left for another run; an error of  *)
(* the provider's client is not caught.                                      *)
Judge(c) ==
  LET p == collect[c]
      kind == IF "correctness" \in p.todo THEN "correctness" ELSE "faithfulness"
      Judged == [p EXCEPT !.todo = @ \ {kind}, !.record.verdicts = @ \cup {kind}]
  IN
  /\ p.pc = "judge" /\ p.todo # {}
  /\ IF Prompt(p, kind) \in cache THEN
       /\ collect' = [collect EXCEPT ![c] = Judged]
       /\ UNCHANGED <<cache, trouble, orphaned>>
     ELSE IF OverCap(p, Cap[c], JudgeWorst) THEN
       /\ collect' = [collect EXCEPT ![c].pc = "append", ![c].stop = TRUE]
       /\ UNCHANGED <<cache, trouble, orphaned>>
     ELSE
       \/ /\ collect' = [collect EXCEPT ![c] = Billed(Judged)]
          /\ cache' = cache \cup {Prompt(p, kind)}
          /\ UNCHANGED <<trouble, orphaned>>
       \/ /\ Trouble("fault")
          /\ collect' = [collect EXCEPT ![c] =
               Billed([p EXCEPT !.todo = @ \ {kind}, !.errors = TRUE])]
          /\ UNCHANGED <<cache, orphaned>>
       \/ /\ Trouble("fault")
          /\ collect' = [collect EXCEPT ![c] = Ended(collect[c], "dead")]
          /\ Orphan(c)
          /\ UNCHANGED cache
  /\ UNCHANGED <<config, runJson, file, torn, answered, met, moved, raced>>

RecordLine(c) ==
  LET p == collect[c] IN
  /\ p.pc = "append" \/ (p.pc = "judge" /\ p.todo = {})
  /\ file' = [file EXCEPT ![Stage[c]] = Append(@, p.record)]
  /\ collect' = [collect EXCEPT ![c] =
       IF p.stop THEN Returned(p, 1) ELSE [p EXCEPT !.pc = "next", !.queue = Rest(p.queue), !.record = Fresh]]
  /\ UNCHANGED <<config, runJson, torn, cache, trouble, History>>

-----------------------------------------------------------------------------
(* What happens around the commands.                                        *)
Redeploy ==
  /\ Trouble("redeploy")
  /\ config' \in Configs \ {config}
  /\ moved' = moved \cup {Stage[c] : c \in {d \in Collects : Busy(d)}}
  /\ UNCHANGED <<Files, collect, answered, orphaned, met, raced>>

(* A kill may come in the middle of a write: of run.json, or of a line. *)
Kill(c) ==
  /\ Busy(c) /\ Trouble("kill")
  /\ \/ UNCHANGED torn
     \/ /\ collect[c].pc = "append" \/ (collect[c].pc = "judge" /\ collect[c].todo = {})
        /\ torn' = torn \cup {Stage[c]}
     \/ /\ collect[c].pc = "checking" /\ Fits(c) /\ collect[c].run[Stage[c]] = NoConfig
        /\ torn' = torn \cup {"run.json"}
  /\ collect' = [collect EXCEPT ![c] = Ended(collect[c], "dead")]
  /\ Orphan(c)
  /\ UNCHANGED <<config, runJson, file, cache, answered, met, moved, raced>>

RagNext ==
  \/ \E c \in Collects :
       \/ Starts(c) \/ ReadRun(c) \/ OpenStage(c) \/ Begin(c) \/ Finish(c)
       \/ Search(c) \/ Ask(c) \/ Rejudge(c) \/ Judge(c) \/ RecordLine(c) \/ Kill(c)
  \/ Redeploy

RagSpec == RagInit /\ [][RagNext]_ragVars

-----------------------------------------------------------------------------
(* score: the run joined with the golden set (build_records).               *)
ModesOf(stage) == {r.item[2] : r \in ToSet(file[stage])}
Scored(stage) == {i \in ToSet(Items) : i[2] \in ModesOf(stage)}
Rows(stage) == {Latest(stage, i) : i \in {j \in Scored(stage) : ~Latest(stage, j).error}}
Header(stage) ==
  [config   |-> runJson[stage],
   missing  |-> Cardinality({i \in Scored(stage) : Latest(stage, i).error}),
   unjudged |-> IF stage = "retrieval" THEN 0
                ELSE Cardinality({r \in Rows(stage) : needs_verdicts(r) # {}})]

-----------------------------------------------------------------------------
(* Everything a run holds was measured under the one set of settings that    *)
(* its stage's snapshot names, and both stages saw the same collection: what *)
(* open_stage is for (rag_eval.py:133).  A service that is redeployed while  *)
(* a command works, or two commands that open the run at once, escape it.    *)
OneConfigPerStage ==
  ~raced =>
    /\ \A s \in STAGES \ moved : \A r \in Rows(s) : r.under = Header(s).config
    /\ \A s, t \in STAGES : NoConfig \notin {runJson[s], runJson[t]} =>
         SameCollection(runJson[s], runJson[t])

(* A command spends at most its --max-cost-usd on the RAG and the judge      *)
(* together (rag_eval.py:18, budget.py:1-8), but for the asks that were paid *)
(* for and never answered.                                                   *)
CapHolds == \A c \in Collects : collect[c].paid <= Cap[c] + collect[c].lost * AskReserve

(* A question the service answered is not asked again, except when the       *)
(* command that had the answer died before recording it (rag_eval.py:19-21): *)
(* across errors, budget stops and resumed commands that do not overlap.     *)
AnsweredOnce ==
  met = {} => \A i \in ToSet(Items) : answered[i] <= 1 + orphaned[i]

(* A command that returns 0 leaves nothing to collect: the score of its      *)
(* stage misses no answer and no verdict, now and ever after.                *)
ZeroMeansComplete ==
  \A c \in Collects \ met : collect[c].rc = 0 =>
    /\ Scored(Stage[c]) = ToSet(Items)
    /\ Header(Stage[c]).missing = 0 /\ Header(Stage[c]).unjudged = 0
    /\ Stage[c] \notin torn
=============================================================================
