SPECIFICATION Spec
CONSTANTS
  Files = {"f1", "f2"}
  Near <- MCNear
  Drafts <- MCDrafts
  Runs = {1, 2, 3}
  Settings <- MCSettings
  Paths <- MCPaths
  MaxWork = 6
  MaxBusy = 2
  Asks = {1, 2}
  Questions = {"b"}
  ServedModel = "m"
  TopK = 2
  Candidates = 2
  Replies <- MCReplies
CHECK_DEADLOCK FALSE
INVARIANTS
  StoreIsCoherent
  ReseedCostsOnlySkipped
  
  ConfidenceIsEarned
  
