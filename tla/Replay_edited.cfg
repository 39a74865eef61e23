\* A fork of a task whose subtasks ran side by side.
CONSTANTS
  Subtask = {"a", "b"}
  Plans <- BothWays
  LaunchedAt = {"completed", "failed"}
  MaxFailures = 1
  Failing = {"plan", "b", "learning"}
SPECIFICATION Spec
INVARIANT EditGoesToItsStep
CHECK_DEADLOCK FALSE
