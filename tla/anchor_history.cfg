\* The lane implements AnchorHistory over three anchors of one passport, and
\* settles what it starts.
SPECIFICATION FairSpec
CONSTANTS
  None = None
  p1 = p1
  a1 = a1
  c1 = c1
  c2 = c2
  q1 = q1
  Passports = {p1}
  Attesters = {a1}
  Payloads = {c1, c2}
  Runs = {1, 2, 3}
  Seeds = {1, 2, 3}
  Requests = {q1}
  RootBuilt = {TRUE}
  StampFails = FALSE
  ChainConfirmed = TRUE
  MarkFails = FALSE
  Crashes = TRUE
INVARIANTS
  VersionsStayVerifiable
PROPERTIES
  PublishesHistory
  AnchoringSettles
CONSTRAINT
  InOrder
CHECK_DEADLOCK FALSE
