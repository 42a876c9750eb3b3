\* One sponsor wallet, three names for its sessions, a monitor.
SPECIFICATION FairSpec
CONSTANTS
  None = None
  w1 = w1
  s1 = s1
  s2 = s2
  s3 = s3
  m1 = m1
  Wallets = {w1}
  Sessions = {s1, s2, s3}
  Readers = {m1}
INVARIANTS
  OneOpening
PROPERTIES
  SponsorHeals
  WarmthSettles
CHECK_DEADLOCK FALSE
