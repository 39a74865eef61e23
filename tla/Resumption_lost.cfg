\* A process that dies.
CONSTANTS
  Last = 6
  Kind <- Reviewed
  x = x
  y = y
  Branch = {x, y}
  Solo = Solo
  Reviewer = {r}
  MaxInv = 3
  Settings <- OneDeath
  NoJob = NoJob
SPECIFICATION FairSpec
PROPERTIES
  ResolvedIsApplied
