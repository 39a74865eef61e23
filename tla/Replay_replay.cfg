\* Two subtasks that share a specialist, a provider that fails once, tools that change their answer.
CONSTANTS
  Subtask = {"a", "b"}
  Plans <- BothWays
  LaunchedAt = {"completed", "failed"}
  MaxFailures = 1
  Failing = {"plan", "b", "learning"}
SPECIFICATION Spec
INVARIANTS
  ReplayReproduces
  ComparisonIsFair
  
  NoSpendOffTheRecord
CHECK_DEADLOCK FALSE
