\* A reviewer who answers; parallel subtasks that pause at sensitive calls, and a single one
\* whose plan only notifies.  A stuck task is left to TaskEnds to find.
CONSTANTS
  a = a
  b = b
  c = c
  NoSid = NoSid
  NoPlan = NoPlan
  Sid = {a, b}
  Rank <- SortedRank
  Plans <- EndedPlans
  MaxFailures = 1
  MaxRetries = 1
  MaxGates <- GateOfEach
  MaxAttempts = 1
  RecursionLimit = 25
  Notify = {"low_plan_confidence", "low_review_score"}
  Faults = {}
  RefuseMultiple = TRUE
SPECIFICATION ReviewedSpec
INVARIANTS
  DecisionReachesItsGate
  TablesTellTheState

  
CHECK_DEADLOCK FALSE
