CONSTANTS
  Batches = {b1}
  Jobs = {k1, k2}
  Requests = {q1, q2}
  Reliable = TRUE
  None = None
SPECIFICATION Spec
INVARIANT FailuresArePersisted
CHECK_DEADLOCK FALSE
