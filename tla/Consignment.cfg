CONSTANTS
  None = None
  Products = {p1, p2}
  Consignments = {c1}
  References = {c1}
  Sources = {c1, other}
  Departments = {d1, d2}
  Workers = {w1, w2}
  Keys = {k1, k2}
  MaxQuantity = 1
  MaxVersion = 3
SPECIFICATION Spec
INVARIANTS TypeOK ReservedCountsActive LedgerExplainsBalance ShipsInFullOrNotAtAll StatusIsEarned
PROPERTIES ImplementsAccount NoLostProgress
SYMMETRY Interchangeable
