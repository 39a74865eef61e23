\* Single, chained and joined subtasks; failures, reworks and escalations; a sensitive
\* call, which only notifies, in the joining subtask.
CONSTANTS
  a = a
  b = b
  c = c
  NoSid = NoSid
  NoPlan = NoPlan
  Sid = {a, b, c}
  Rank <- SortedRank
  Plans <- CorePlans
  MaxFailures = 2
  MaxRetries = 1
  MaxGates <- GateOfJoin
  MaxAttempts = 2
  RecursionLimit = 25
  Notify = {"sensitive_operation"}
  Faults = {}
  RefuseMultiple = TRUE
SPECIFICATION Spec
INVARIANTS
  PausedIsResumable
  DispatchRespectsDependencies
  DeliverableIsComplete
  ReviewedBeforeWork
  ReviewerDecides
