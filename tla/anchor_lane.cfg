\* Two passports of one content, two wallets, two anchor runs, two open requests.
SPECIFICATION Spec
SYMMETRY Symmetric
CONSTANTS
  None = None
  p1 = p1
  p2 = p2
  a1 = a1
  a2 = a2
  c1 = c1
  r1 = r1
  r2 = r2
  Passports = {p1, p2}
  Attesters = {a1, a2}
  Payloads = {c1}
  Runs = {r1, r2}
  Seeds = {r1, r2}
  q1 = q1
  q2 = q2
  Requests = {q1, q2}
  RootBuilt = {TRUE, FALSE}
  StampFails = TRUE
  ChainConfirmed = TRUE
  MarkFails = TRUE
  Crashes = TRUE
INVARIANTS
  AnchoredIsAttested
  AnchoredTreeOpens
  RecordsAreNotShared
  LogAgrees
  LaneInvariant
CHECK_DEADLOCK FALSE
