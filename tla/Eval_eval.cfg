SPECIFICATION Spec
CONSTANTS
  Items <- MCItems
  Answerable <- MCAnswerable
  Configs <- MCConfigs
  Answers <- MCAnswers
  Collects = {1, 2, 3}
  Stage <- MCStage
  Cap <- MCCap
  AskReserve = 2
  JudgeWorst = 1
  JudgeProvider = "anthropic"
  Troubles = {"overlap", "redeploy", "kill", "fault"}
  MaxTrouble = 2
  EvalTasks <- MCEvalTasks
  Commands = {1, 2}
  AgentConfigs <- MCAgentConfigs
  TaskCap = 5
  TaskReserve = 2
  RubricWorst = 1
  RubricProvider = "anthropic"
  TaskMax = 3
  Gates = 2
  MaxApprovals = 1
  Mishaps = {"http", "timeout", "judge", "someone", "kill", "redeploy"}
  MaxMishaps = 1
  Sources = {"f1", "f2"}
  Categories = {"lookup", "no_answer"}
  MaxHand = 1
  MaxCommands = 3
  Asked = {"p1", "p2"}
  Texts = {"a", "b"}
  GradedRuns = {"r1", "r2"}
  Sessions = {1, 2}
  SampleSize = 2
CHECK_DEADLOCK FALSE
INVARIANTS
  OneConfigPerStage
  
  
  ZeroMeansComplete
  OneTaskAtATime
  
  ScoresAreSound
