\* Collaborators that raise anywhere, also beside a branch at its gate.  Stuck tasks are not the question here.
CONSTANTS
  a = a
  b = b
  c = c
  NoSid = NoSid
  NoPlan = NoPlan
  Sid = {a, b}
  Rank <- SortedRank
  Plans <- ParallelPlans
  MaxFailures = 2
  MaxRetries = 2
  MaxGates <- GateOfEach
  MaxAttempts = 0
  RecursionLimit = 7
  Notify = {}
  Faults = {"llm", "working"}
  RefuseMultiple = TRUE
SPECIFICATION Spec
INVARIANTS
  IInv
PROPERTIES
  CompletedIsFrozen
CHECK_DEADLOCK FALSE
