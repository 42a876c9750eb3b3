\* The demo's executor: three runs, two testers, two sponsors, one vault, starts spaced.
SPECIFICATION Spec
CONSTANTS
  None = None
  r1 = r1
  r2 = r2
  r3 = r3
  t1 = t1
  t2 = t2
  w1 = w1
  w2 = w2
  v1 = v1
  Runs = {r1, r2, r3}
  Testers = {t1, t2}
  Sponsors = {w1, w2}
  Vaults = {v1}
  Wanted = 3
  MaxQueue = 3
  MaxPerTester = 2
  MaxPerDay = 2
  SecondLife = TRUE
  JobsOutliveWaits = FALSE
INVARIANTS
  CapsHold
  LeasesAreExclusive
  QueueInvariant
  NextStartIsComing
  InFlightIsCarried
SYMMETRY
  Symmetric
CHECK_DEADLOCK FALSE
