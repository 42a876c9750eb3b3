\* An anchor and a cart that follows it, two attempts each.
SPECIFICATION FairSpec
CONSTANTS
  a1 = a1
  c1 = c1
  Anchors = {a1}
  Carts = {c1}
  MaxAttempts = 2
INVARIANTS
  BuildsSeeTheAnchor
PROPERTIES
  SettledLaneIsSilent
  JobsEnd
CHECK_DEADLOCK FALSE
