CONSTANTS
  None = None
  o1 = o1
  o2 = o2
  i1 = i1
  i2 = i2
  p1 = p1
  Products = {p1}
  Sources = {}
  References = {r1, r2}
  Keys = {k1}
  MaxQuantity = 2
  Orders = {o1}
  Resolved = {o1}
  Items = {i1, i2}
  OrderItem <- TwoLines
  Batches = {}
  Returns = {r1, r2}
  Clerks = {e1, e2}
SPECIFICATION Spec
INVARIANTS TypeOK ExpectedIsBounded RestocksAreInLedger ClosedIsSettled
PROPERTY ImplementsCustody
SYMMETRY Interchangeable
