CONSTANTS
  None = None
  o1 = o1
  o2 = o2
  i1 = i1
  i2 = i2
  p1 = p1
  Products = {p1}
  Sources = {}
  References = {b1, b2}
  Keys = {k1}
  MaxQuantity = 2
  Orders = {o1, o2, o3}
  Resolved = {o1, o2}
  Items = {i1, i2}
  OrderItem <- TwoOrders
  Batches = {b1, b2}
  Returns = {}
  Clerks = {e1, e2}
SPECIFICATION Spec
INVARIANTS CancellationKnowsOutbound ShipmentsAreInLedger
PROPERTIES ReadyIsClean ImplementsCustody
SYMMETRY Interchangeable
