\* Two branches that share a tool, one of them with sensitive calls; two other runs discover the RAG tools.
CONSTANTS
  x = x
  y = y
  api = api
  rag = rag
  Branch = {x, y}
  Tool = {api, rag}
  Local = {api}
  Rag = {rag}
  Owned = {api, rag}
  Limit <- Limits
  Replies <- TurnsFrom0
  Budget = 2
  Levels = {"notify", "approve"}
  Rewrites = {"bad"}
  Run = {r, q}
  MaxLost = 1
SPECIFICATION FairSpec
INVARIANTS
  
  
  
  
  DiscoveryFailsNoRun
PROPERTIES
  LoopsEnd
