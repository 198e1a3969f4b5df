CONSTANTS
  f1 = f1
  f2 = f2
  a = a
  b = b
  x = x
  s1 = s1
  s2 = s2
  w1 = w1
  w2 = w2
  w3 = w3
  r1 = r1
  r2 = r2
  k1 = k1
  None = None
  Files = {f1, f2}
  Identifiers = {a, b, x}
  Labels <- TwoFiles
  Requests = {r1, r2}
  Contents <- TwoRequests
  Keys = {k1}
  Servers = {s1, s2}
  Workers = {w1, w2, w3}
  ServerOf <- ThreeWorkers
SPECIFICATION FairSpec
INVARIANTS TypeOK OneAuthoritativeOrder OrdersAreOfOneExecution AcceptedIsStored
PROPERTIES StaleProcessCannotFinish AllJobsEnd
CHECK_DEADLOCK FALSE
