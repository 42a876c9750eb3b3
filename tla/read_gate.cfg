\* One partner, two payloads, three requests on either lane.
SPECIFICATION Spec
CONSTANTS
  g1 = g1
  g2 = g2
  p1 = p1
  p2 = p2
  Grantees = {g1}
  Payloads = {p1, p2}
  MaxLevel = 0
  MaxRows = 3
  Lanes = {"server", "wallet"}
  Ordered = TRUE
  Migrations = TRUE
  Restarts = TRUE
SYMMETRY Symmetric
INVARIANTS
  AccessWasGranted
  RevocationReachesReader
CHECK_DEADLOCK FALSE
