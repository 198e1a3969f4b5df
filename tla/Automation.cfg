CONSTANTS
  r1 = r1
  u1 = u1
  w1 = w1
  w2 = w2
  e1 = e1
  t1 = t1
  utc = utc
  late = late
  None = None
  Rules = {r1}
  Users = {u1}
  Workers = {w1, w2}
  Events = {e1}
  KindOf <- BatchReady
  Tests = {t1}
  Zones = {utc, late}
  Horizon = 3
  Walls <- TwoDays
  Wall <- TwoClocks
  DateOf <- DateOfWall
  Forms <- TwoForms
  MaxVersion = 3
  MaxJobs = 2
SYMMETRY TwoWorkers
SPECIFICATION Spec
INVARIANTS TypeOK EventsUseTheirConfiguration
PROPERTIES LimitIsKept UnseenPauseStays ImplementsOccurrence
CHECK_DEADLOCK FALSE
