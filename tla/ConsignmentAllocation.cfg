CONSTANTS
  None = None
  Products = {p1}
  Consignments = {c1}
  References = {c1}
  Sources = {c1}
  Departments = {d1}
  Workers = {w1}
  Keys = {k1}
  MaxQuantity = 1
  MaxVersion = 3
SPECIFICATION Spec
INVARIANT AllocationIsHeld
