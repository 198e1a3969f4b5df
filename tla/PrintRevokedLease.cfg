CONSTANTS
  a1 = a1
  None = None
  Agents = {a1}
  Printers = {p1}
  Documents = {art}
  Artifacts = {art}
  Jobs = {j1}
  AgentOf <- OneAgent
  Revocable = {a1}
  Tearing = {}
  MaxLate = 0
SPECIFICATION FairSpec
PROPERTY GrantedIsResolved
