\* Both lanes on one passport, two wallets, with crashes and boot sweeps.
SPECIFICATION WalletSpec
SYMMETRY Symmetric
CONSTANTS
  None = None
  p1 = p1
  a1 = a1
  a2 = a2
  c1 = c1
  r1 = r1
  w1 = w1
  w2 = w2
  Passports = {p1}
  Attesters = {a1, a2}
  Payloads = {c1}
  Runs = {r1}
  Seeds = {r1, w1, w2}
  q1 = q1
  Requests = {q1}
  RootBuilt = {TRUE, FALSE}
  StampFails = TRUE
  ChainConfirmed = TRUE
  MarkFails = TRUE
  Crashes = TRUE
  Approvals = {w1, w2}
  Crawler = TRUE
INVARIANTS
  StrandedByLossOnly
  WalletRowIsAttested
  WalletSeedKept
CHECK_DEADLOCK FALSE
