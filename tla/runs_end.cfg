\* Two runs of the demo's executor end, whatever restarts.
SPECIFICATION FairSpec
CONSTANTS
  None = None
  r1 = r1
  r2 = r2
  t1 = t1
  w1 = w1
  w2 = w2
  v1 = v1
  Runs = {r1, r2}
  Testers = {t1}
  Sponsors = {w1, w2}
  Vaults = {v1}
  Wanted = 3
  MaxQueue = 3
  MaxPerTester = 2
  MaxPerDay = 2
  SecondLife = TRUE
  JobsOutliveWaits = TRUE
PROPERTY
  RunsEnd
CHECK_DEADLOCK FALSE
