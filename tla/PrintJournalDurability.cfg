CONSTANTS
  a1 = a1
  None = None
  Agents = {a1}
  Printers = {p1}
  Documents = {art}
  Artifacts = {art}
  Jobs = {j1, j2}
  AgentOf <- OneAgent
  Revocable = {}
  Tearing = {a1}
  MaxLate = 0
SPECIFICATION Spec
INVARIANT RecordedSurvivesRestart
