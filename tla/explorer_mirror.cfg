\* A passport of two contents, two publishes and one round at a time.
SPECIFICATION FairSpec
CONSTANTS
  None = None
  p1 = p1
  p2 = p2
  s1 = s1
  MaxContent = 2
  MaxVault = 2
  Publishes = {p1, p2}
  Syncs = {s1}
CONSTRAINT Overlaps
INVARIANTS
  
  PublishedIsServed
PROPERTIES
  MirrorCatchesUp
CHECK_DEADLOCK FALSE
