CONSTANTS
  a1 = a1
  None = None
  Agents = {a1}
  Printers = {p1}
  Documents = {lib}
  Artifacts = {}
  Jobs = {j1, j2}
  AgentOf <- OneAgent
  Revocable = {a1}
  Tearing = {a1}
  MaxLate = 1
SPECIFICATION Spec
INVARIANTS TypeOK AtMostOnce StatusIsTrue ClaimIsNew
PROPERTIES RevokedIsSelectedNothing ImplementsDelivery
SYMMETRY JobSymmetry
