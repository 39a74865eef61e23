\* One task under each of its circumstances.
CONSTANTS
  Last = 6
  Kind <- Reviewed
  x = x
  y = y
  Branch = {x, y}
  Solo = Solo
  Reviewer = {r}
  MaxInv = 4
  Settings <- AllSettings
  NoJob = NoJob
SPECIFICATION FairSpec
INVARIANTS
  
  StatusTellsOutcome
  DeliveredIsApproved
PROPERTIES
  DecisionsTakeEffect
