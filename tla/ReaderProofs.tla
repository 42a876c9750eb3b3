------------------------------ MODULE ReaderProofs ------------------------------
(***************************************************************************)
(* What readers of a passport are shown: partners behind the read gate     *)
(* (ReadGate), and visitors of a public explorer (ExplorerMirror).         *)
(*                                                                         *)
(* The gate: nobody is served what was never granted, and a revoke that    *)
(* the server saw succeed reaches the reader, for any partners, payloads   *)
(* and levels and any number of requests, whatever times out, is dropped,  *)
(* reported late or swept.  The second one needs that the transactions of  *)
(* a lane land in their order: without it, an older grant may land after   *)
(* the revoke.                                                             *)
(*                                                                         *)
(* The mirror: what is listed is on the chain, and a publish that no other *)
(* one overlapped is served, for any number of publishes and sync rounds   *)
(* that overtake each other or fail half-way.                              *)
(***************************************************************************)
EXTENDS ReadGate, ExplorerMirror, FiniteSetTheorems, NaturalsInduction, WellFoundedInduction, TLAPS

IsGrant(r) == log[r].op = "grant"

\* What a row, its transaction and its runner say of each other: only a runner
\* settles, only of a row the server knows, and a grant that landed or counts
\* was granted.
RowIsHonest(r) ==
  /\ r \notin Used => tx[r] = "none" /\ runner[r] = "none" /\ r \notin reported
  /\ r \in Used \ reported => log[r].status = "pending" /\ runner[r] = "none"
  /\ r \in Used /\ log[r].lane = "server" => r \in reported
  /\ runner[r] = "tracks" => log[r].lane = "wallet"
  /\ log[r].status = "succeeded" /\ log[r].lane = "server" => tx[r] = "landed"
  /\ tx[r] = "landed" /\ IsGrant(r) => <<log[r].grantee, log[r].level>> \in granted
  /\ Counts(r) /\ IsGrant(r) => \E l \in Levels : <<log[r].grantee, l>> \in granted

\* Every level a copy of the ACL shows was granted.
ShowsGranted(copy) ==
  \A p \in Payloads, g \in Grantees :
    copy[p][g] # NoLevel => <<g, copy[p][g]>> \in granted

\* Rows are used from the first on.
RowsAreNumbered == \E n \in 0..MaxRows : Used = 1..n

GateInvariant ==
  /\ GateTypeOK
  /\ RowsAreNumbered
  /\ \A r \in Rows : RowIsHonest(r)
  /\ ShowsGranted(acl) /\ ShowsGranted(index)

\* The rows of a lane land in their order.
LandsInOrder ==
  \A q, r \in Rows :
    q < r /\ log[q].lane = log[r].lane /\ tx[r] = "landed" => tx[q] # "inflight"

\* All requests for the grantee are the server's.
OnServer(g) == \A q \in Used : log[q].grantee = g => log[q].lane = "server"

\* Of the rows of its grantee and payload, r landed last.
LandedLast(r) ==
  /\ tx[r] = "landed"
  /\ \A q \in Rows : q > r /\ log[q].grantee = log[r].grantee /\ log[q].hash = log[r].hash =>
                       tx[q] # "landed"

\* The ACL shows what landed last.
AclShowsLast ==
  \A r \in Rows :
    LandedLast(r) /\ OnServer(log[r].grantee) =>
      acl[log[r].hash][log[r].grantee] = IF IsGrant(r) THEN log[r].level ELSE NoLevel

OrderInvariant == LandsInOrder /\ AclShowsLast

-----------------------------------------------------------------------------
(* Numbers *)

LEMMA LeastNumber ==
  ASSUME NEW N \in SUBSET Nat, N # {}
  PROVE  \E x \in N : \A y \in N : x <= y
<1> DEFINE Less == {ss \in Nat \X Nat : ss[1] < ss[2]}
<1>1. IsWellFoundedOn(Less, Nat)
  BY NatLessThanWellFounded DEF OpToRel
<1> HIDE DEF Less
<1>2. PICK x \in N : \A y \in N : ~ (<<y, x>> \in Less)
  BY <1>1, WFMin
<1>3. ASSUME NEW y \in N, y < x
      PROVE  FALSE
  <2>1. <<y, x>> \in Nat \X Nat /\ <<y, x>>[1] < <<y, x>>[2]
    BY <1>3
  <2> QED
    BY <1>2, <2>1 DEF Less
<1> QED
  BY <1>3

\* What is not exceeded is the greatest.
LEMMA GreatestIs ==
  ASSUME NEW S \in SUBSET Int, NEW m \in S, \A k \in S : k <= m
  PROVE  Greatest(S) = m
<1>1. Greatest(S) \in S /\ \A k \in S : k <= Greatest(S)
  BY DEF Greatest
<1>2. m \in Int /\ Greatest(S) \in Int /\ m <= Greatest(S) /\ Greatest(S) <= m
  BY <1>1
<1> QED
  BY <1>2

LEMMA GreatestOfTwo ==
  ASSUME NEW a \in Int, NEW b \in Int
  PROVE  Greatest({a, b}) \in {a, b}
<1>1. CASE a <= b
  <2>1. \A k \in {a, b} : k <= b
    BY <1>1
  <2>2. {a, b} \in SUBSET Int /\ b \in {a, b}
    OBVIOUS
  <2> QED
    BY <2>1, <2>2, GreatestIs
<1>2. CASE ~ (a <= b)
  <2>1. \A k \in {a, b} : k <= a
    BY <1>2
  <2>2. {a, b} \in SUBSET Int /\ a \in {a, b}
    OBVIOUS
  <2> QED
    BY <2>1, <2>2, GreatestIs
<1> QED
  BY <1>1, <1>2

\* Of some rows, one is the latest.
LEMMA LatestRow ==
  ASSUME NEW S \in SUBSET Rows, S # {}
  PROVE  Greatest(S) \in S /\ \A k \in S : k <= Greatest(S)
<1>1. MaxRows \in Nat
  BY GateAssumption
<1> DEFINE N == {MaxRows - k : k \in S}
<1>2. N \in SUBSET Nat /\ N # {}
  <2>1. \A k \in S : k \in 1..MaxRows
    BY DEF Rows
  <2>2. \A k \in S : MaxRows - k \in Nat
    BY <1>1, <2>1
  <2> QED
    BY <2>2
<1>3. PICK x \in N : \A y \in N : x <= y
  BY <1>2, LeastNumber
<1>4. PICK m \in S : x = MaxRows - m
  BY <1>3
<1>5. \A k \in S : k <= m
  BY <1>1, <1>3, <1>4 DEF Rows
<1>6. \E l \in S : \A k \in S : k <= l
  BY <1>5
<1> HIDE DEF N
<1> QED
  BY <1>6 DEF Greatest

\* The next row is the first that is not used.
LEMMA NextRowIsFree ==
  ASSUME RowsAreNumbered
  PROVE  NextRow \in Nat \ {0} /\ Used = 1..(NextRow - 1)
<1>1. PICK n \in 0..MaxRows : Used = 1..n
  BY DEF RowsAreNumbered
<1>2. n \in Nat
  BY <1>1, GateAssumption
<1>3. Cardinality(Used) = n
  BY <1>1, <1>2, FS_Interval
<1>4. NextRow = n + 1
  BY <1>3 DEF NextRow
<1>5. (n + 1) - 1 = n /\ n + 1 \in Nat \ {0}
  BY <1>2
<1> QED
  BY <1>1, <1>4, <1>5

-----------------------------------------------------------------------------
(* What steps keep *)

\* A step that changes one row at most, and takes no grant back.
LEMMA OneRowChanges ==
  ASSUME GateInvariant, GateTypeOK', RowsAreNumbered',
         ShowsGranted(acl)', ShowsGranted(index)', granted \subseteq granted', NEW r \in Rows,
         \A q \in Rows \ {r} : /\ log'[q] = log[q] /\ tx'[q] = tx[q] /\ runner'[q] = runner[q]
                               /\ q \in reported' <=> q \in reported,
         RowIsHonest(r)'
  PROVE  GateInvariant'
<1>1. ASSUME NEW q \in Rows \ {r}
      PROVE  RowIsHonest(q)'
  <2>1. RowIsHonest(q)
    BY DEF GateInvariant
  <2> QED
    BY <2>1 DEF RowIsHonest, Used, Counts, IsGrant
<1> QED
  BY <1>1 DEF GateInvariant

\* The rows in use stay so when a row that is in use keeps a status.
LEMMA NumberingStays ==
  ASSUME RowsAreNumbered, \A r \in Rows : r \in Used' <=> r \in Used
  PROVE  RowsAreNumbered'
<1>1. Used' = Used
  BY DEF Used
<1> QED
  BY <1>1 DEF RowsAreNumbered

\* A copy of the ACL that stays, and grants that are never taken back.
LEMMA CopiesStay ==
  ASSUME GateInvariant, granted \subseteq granted'
  PROVE  /\ UNCHANGED acl => ShowsGranted(acl)'
         /\ UNCHANGED index => ShowsGranted(index)'
         /\ index' = acl => ShowsGranted(index)'
BY DEF GateInvariant, ShowsGranted

-----------------------------------------------------------------------------
(* Asking *)

\* A request takes the next row.
LEMMA RequestTakesRow ==
  ASSUME GateInvariant,
         NEW lane \in {"server", "wallet"}, NEW status \in {"offline", "pending"},
         NEW op \in {"grant", "revoke"}, NEW g \in Grantees, NEW l \in Levels,
         Request(lane, status, op, g, l)
  PROVE  /\ log' \in [Rows -> RowType]
         /\ RowsAreNumbered'
         /\ \E n \in Rows \ Used :
              /\ n = NextRow /\ \A q \in Used : q < n
              /\ \A q \in Rows \ {n} : log'[q] = log[q]
              /\ log'[n] = [status |-> status, grantee |-> g, op |-> op, level |-> l,
                            hash |-> payload, verified |-> payload, lane |-> lane]
<1>1. NextRow \in Nat \ {0} /\ Used = 1..(NextRow - 1)
  BY NextRowIsFree DEF GateInvariant
<1>2. PICK n \in Rows \ Used : n = NextRow
  BY <1>1 DEF Request
<1>3. log \in [Rows -> RowType] /\ payload \in Payloads
  BY DEF GateInvariant, GateTypeOK
<1> DEFINE new == [status |-> status, grantee |-> g, op |-> op, level |-> l,
                   hash |-> payload, verified |-> payload, lane |-> lane]
<1>4. new \in RowType
  BY <1>3 DEF RowType
<1>5. log' = [log EXCEPT ![n] = new]
  BY <1>2 DEF Request
<1>6. new.status = status
  OBVIOUS
<1> HIDE DEF new
<1>7. log' \in [Rows -> RowType] /\ log'[n] = new /\ \A q \in Rows \ {n} : log'[q] = log[q]
  BY <1>2, <1>3, <1>4, <1>5
<1>8. Used' = Used \cup {n}
  BY <1>2, <1>6, <1>7 DEF Used
<1>9. Used' = 1..n
  BY <1>1, <1>2, <1>8
<1>10. n \in 0..MaxRows
  BY <1>2, GateAssumption DEF Rows
<1>11. \A q \in Used : q < n
  BY <1>1, <1>2
<1> QED
  BY <1>2, <1>7, <1>9, <1>10, <1>11 DEF RowsAreNumbered, new

\* What an asking action leaves in the row that is new.
LEMMA AskingKeepsInvariant ==
  ASSUME GateInvariant, NEW op \in {"grant", "revoke"}, NEW g \in Grantees, NEW l \in Levels,
         GrantOffline(op, g, l) \/ AskDisclosure(op, g, l) \/ WalletDiscloses(op, g, l)
  PROVE  GateInvariant'
<1>1. /\ payload \in Payloads
      /\ acl \in [Payloads -> [Grantees -> Levels \cup {NoLevel}]]
      /\ index \in [Payloads -> [Grantees -> Levels \cup {NoLevel}]]
      /\ tx \in [Rows -> {"none", "inflight", "landed", "dropped"}]
      /\ runner \in [Rows -> {"none", "waits", "tracks"}]
      /\ reported \subseteq Rows /\ granted \subseteq Grantees \X Levels
  BY DEF GateInvariant, GateTypeOK
<1>2. CASE GrantOffline(op, g, l)
  <2>1. log' \in [Rows -> RowType] /\ RowsAreNumbered'
    BY <1>2, RequestTakesRow DEF GrantOffline
  <2>2. PICK n \in Rows \ Used :
          /\ n = NextRow
          /\ \A q \in Rows \ {n} : log'[q] = log[q]
          /\ log'[n] = [status |-> "offline", grantee |-> g, op |-> op, level |-> l,
                        hash |-> payload, verified |-> payload, lane |-> "server"]
    BY <1>2, RequestTakesRow DEF GrantOffline
  <2>3. RowIsHonest(n)
    BY DEF GateInvariant
  <2>4. granted \subseteq granted' /\ granted' \subseteq Grantees \X Levels
    BY <1>1, <1>2 DEF GrantOffline
  <2>5. GateTypeOK'
    BY <1>1, <1>2, <2>1, <2>2, <2>4 DEF GrantOffline, GateTypeOK
  <2>6. ShowsGranted(acl)' /\ ShowsGranted(index)'
    BY <1>2, <2>4, CopiesStay DEF GrantOffline
  <2>7. RowIsHonest(n)'
    BY <1>1, <1>2, <2>2, <2>3 DEF GrantOffline, RowIsHonest, Used, Counts, IsGrant
  <2>8. \A q \in Rows \ {n} : /\ tx'[q] = tx[q] /\ runner'[q] = runner[q]
                              /\ q \in reported' <=> q \in reported
    BY <1>1, <1>2, <2>2 DEF GrantOffline
  <2> QED
    BY <2>1, <2>2, <2>4, <2>5, <2>6, <2>7, <2>8, OneRowChanges
<1>3. CASE AskDisclosure(op, g, l)
  <2>1. log' \in [Rows -> RowType] /\ RowsAreNumbered'
    BY <1>3, RequestTakesRow DEF AskDisclosure
  <2>2. PICK n \in Rows \ Used :
          /\ n = NextRow
          /\ \A q \in Rows \ {n} : log'[q] = log[q]
          /\ log'[n] = [status |-> "pending", grantee |-> g, op |-> op, level |-> l,
                        hash |-> payload, verified |-> payload, lane |-> "server"]
    BY <1>3, RequestTakesRow DEF AskDisclosure
  <2>3. RowIsHonest(n)
    BY DEF GateInvariant
  <2>4. granted \subseteq granted' /\ granted' \subseteq Grantees \X Levels
    BY <1>1, <1>3 DEF AskDisclosure
  <2>5. GateTypeOK'
    BY <1>1, <1>3, <2>1, <2>2, <2>4 DEF AskDisclosure, GateTypeOK
  <2>6. ShowsGranted(acl)' /\ ShowsGranted(index)'
    BY <1>3, <2>4, CopiesStay DEF AskDisclosure
  <2>7. RowIsHonest(n)'
    BY <1>1, <1>3, <2>2, <2>3 DEF AskDisclosure, RowIsHonest, Used, Counts, IsGrant
  <2>8. \A q \in Rows \ {n} : /\ tx'[q] = tx[q] /\ runner'[q] = runner[q]
                              /\ q \in reported' <=> q \in reported
    BY <1>1, <1>3, <2>2 DEF AskDisclosure
  <2> QED
    BY <2>1, <2>2, <2>4, <2>5, <2>6, <2>7, <2>8, OneRowChanges
<1>4. CASE WalletDiscloses(op, g, l)
  <2>1. log' \in [Rows -> RowType] /\ RowsAreNumbered'
    BY <1>4, RequestTakesRow DEF WalletDiscloses
  <2>2. PICK n \in Rows \ Used :
          /\ n = NextRow
          /\ \A q \in Rows \ {n} : log'[q] = log[q]
          /\ log'[n] = [status |-> "pending", grantee |-> g, op |-> op, level |-> l,
                        hash |-> payload, verified |-> payload, lane |-> "wallet"]
    BY <1>4, RequestTakesRow DEF WalletDiscloses
  <2>3. RowIsHonest(n)
    BY DEF GateInvariant
  <2>4. granted \subseteq granted' /\ granted' \subseteq Grantees \X Levels
    BY <1>1, <1>4 DEF WalletDiscloses
  <2>5. GateTypeOK'
    BY <1>1, <1>4, <2>1, <2>2, <2>4 DEF WalletDiscloses, GateTypeOK
  <2>6. ShowsGranted(acl)' /\ ShowsGranted(index)'
    BY <1>4, <2>4, CopiesStay DEF WalletDiscloses
  <2>7. RowIsHonest(n)'
    BY <1>1, <1>4, <2>2, <2>3 DEF WalletDiscloses, RowIsHonest, Used, Counts, IsGrant
  <2>8. \A q \in Rows \ {n} : /\ tx'[q] = tx[q] /\ runner'[q] = runner[q]
                              /\ q \in reported' <=> q \in reported
    BY <1>1, <1>4, <2>2 DEF WalletDiscloses
  <2> QED
    BY <2>1, <2>2, <2>4, <2>5, <2>6, <2>7, <2>8, OneRowChanges
<1> QED
  BY <1>2, <1>3, <1>4

-----------------------------------------------------------------------------
(* The rest of the steps *)

\* Only the row r, or nothing of the log, changes; it stays in use.
LEMMA RowSettles ==
  ASSUME GateInvariant, NEW r \in Used, NEW status \in {"succeeded", "failed"}, Settle(r, status)
  PROVE  /\ log' \in [Rows -> RowType]
         /\ runner' \in [Rows -> {"none", "waits", "tracks"}]
         /\ RowsAreNumbered'
         /\ log'[r] = [log[r] EXCEPT !.status = status] /\ runner'[r] = "none"
         /\ \A q \in Rows \ {r} : log'[q] = log[q] /\ runner'[q] = runner[q]
<1>1. /\ log \in [Rows -> RowType] /\ runner \in [Rows -> {"none", "waits", "tracks"}]
      /\ r \in Rows
  BY DEF GateInvariant, GateTypeOK, Used
<1>2. log[r] \in RowType
  BY <1>1
<1> DEFINE new == [log[r] EXCEPT !.status = status]
<1>3. new \in RowType /\ new.status = status
  BY <1>2 DEF RowType
<1>4. log' = [log EXCEPT ![r] = new]
  BY <1>1 DEF Settle
<1> HIDE DEF new
<1>5. log' \in [Rows -> RowType] /\ log'[r] = new /\ \A q \in Rows \ {r} : log'[q] = log[q]
  BY <1>1, <1>3, <1>4
<1>6. \A q \in Rows : q \in Used' <=> q \in Used
  BY <1>3, <1>5 DEF Used
<1>7. RowsAreNumbered'
  BY <1>6, NumberingStays DEF GateInvariant
<1> QED
  BY <1>1, <1>5, <1>7 DEF Settle, new

LEMMA RecordKeepsInvariant ==
  ASSUME GateInvariant, NEW r \in Rows, RecordWalletDisclosure(r)
  PROVE  GateInvariant'
<1>1. /\ payload \in Payloads /\ log \in [Rows -> RowType]
      /\ tx \in [Rows -> {"none", "inflight", "landed", "dropped"}]
      /\ runner \in [Rows -> {"none", "waits", "tracks"}]
      /\ reported \subseteq Rows
  BY DEF GateInvariant, GateTypeOK
<1>2. log[r] \in RowType
  BY <1>1
<1> DEFINE new == [log[r] EXCEPT !.verified = payload]
<1>3. /\ new \in RowType
      /\ new.status = log[r].status /\ new.lane = log[r].lane /\ new.op = log[r].op
      /\ new.grantee = log[r].grantee /\ new.level = log[r].level
  BY <1>1, <1>2 DEF RowType
<1>4. log' = [log EXCEPT ![r] = new]
  BY <1>1 DEF RecordWalletDisclosure
<1> HIDE DEF new
<1>5. log' \in [Rows -> RowType] /\ log'[r] = new /\ \A q \in Rows \ {r} : log'[q] = log[q]
  BY <1>1, <1>3, <1>4
<1>6. \A q \in Rows : q \in Used' <=> q \in Used
  BY <1>3, <1>5 DEF Used
<1>7. RowsAreNumbered'
  BY <1>6, NumberingStays DEF GateInvariant
<1>8. GateTypeOK'
  BY <1>1, <1>5 DEF GateInvariant, GateTypeOK, RecordWalletDisclosure
<1>9. granted' = granted /\ ShowsGranted(acl)' /\ ShowsGranted(index)'
  BY CopiesStay DEF RecordWalletDisclosure
<1>10. RowIsHonest(r)
  BY DEF GateInvariant
<1>11. r \in Used /\ r \in Used' /\ log[r].lane = "wallet"
  <2>1. r \in Used \ reported
    BY DEF RecordWalletDisclosure
  <2>2. log[r].lane # "server"
    BY <2>1, <1>10 DEF RowIsHonest
  <2> QED
    BY <1>2, <1>6, <2>1, <2>2 DEF RowType
<1>12. RowIsHonest(r)'
  BY <1>1, <1>3, <1>5, <1>9, <1>10, <1>11 DEF RecordWalletDisclosure, RowIsHonest, Counts, IsGrant, Used
<1>13. \A q \in Rows \ {r} : /\ tx'[q] = tx[q] /\ runner'[q] = runner[q]
                             /\ q \in reported' <=> q \in reported
  BY <1>1 DEF RecordWalletDisclosure
<1> QED
  BY <1>5, <1>7, <1>8, <1>9, <1>12, <1>13, OneRowChanges

LEMMA LandingKeepsInvariant ==
  ASSUME GateInvariant, NEW r \in Rows, LandDisclosure(r) \/ DropDisclosure(r)
  PROVE  GateInvariant'
<1>1. /\ log \in [Rows -> RowType]
      /\ acl \in [Payloads -> [Grantees -> Levels \cup {NoLevel}]]
      /\ index \in [Payloads -> [Grantees -> Levels \cup {NoLevel}]]
      /\ tx \in [Rows -> {"none", "inflight", "landed", "dropped"}]
      /\ granted \subseteq Grantees \X Levels
  BY DEF GateInvariant, GateTypeOK
<1>2. /\ log[r].hash \in Payloads /\ log[r].grantee \in Grantees /\ log[r].level \in Levels
      /\ log[r].op \in {"grant", "revoke"}
  BY <1>1 DEF RowType
<1>3. UNCHANGED <<payload, index, log, runner, reported>> /\ tx[r] = "inflight"
  BY DEF LandDisclosure, DropDisclosure
<1>4. RowsAreNumbered'
  BY <1>3, NumberingStays DEF GateInvariant, Used
<1>5. RowIsHonest(r)
  BY DEF GateInvariant
<1>6. \A q \in Rows \ {r} : /\ log'[q] = log[q] /\ tx'[q] = tx[q] /\ runner'[q] = runner[q]
                            /\ q \in reported' <=> q \in reported
  BY <1>1, <1>3 DEF LandDisclosure, DropDisclosure
<1>7. CASE DropDisclosure(r)
  <2>1. tx' \in [Rows -> {"none", "inflight", "landed", "dropped"}] /\ tx'[r] = "dropped"
    BY <1>1, <1>7 DEF DropDisclosure
  <2>2. granted' = granted /\ GateTypeOK'
    BY <1>7, <2>1 DEF DropDisclosure, GateInvariant, GateTypeOK
  <2>3. ShowsGranted(acl)' /\ ShowsGranted(index)'
    BY <1>7, <2>2, CopiesStay DEF DropDisclosure
  <2>4. RowIsHonest(r)'
    BY <1>1, <1>3, <1>5, <2>1, <2>2 DEF RowIsHonest, Counts, IsGrant, Used
  <2> QED
    BY <1>4, <1>6, <2>2, <2>3, <2>4, OneRowChanges
<1>8. CASE LandDisclosure(r)
  <2> DEFINE entry == IF log[r].op = "grant" THEN log[r].level ELSE NoLevel
  <2>1. tx' \in [Rows -> {"none", "inflight", "landed", "dropped"}] /\ tx'[r] = "landed"
    BY <1>1, <1>8 DEF LandDisclosure
  <2>2. /\ granted \subseteq granted' /\ granted' \subseteq Grantees \X Levels
        /\ log[r].op = "grant" => <<log[r].grantee, log[r].level>> \in granted'
    BY <1>1, <1>2, <1>8 DEF LandDisclosure
  <2>3. entry \in Levels \cup {NoLevel}
    BY <1>2
  <2>4. acl' = [acl EXCEPT ![log[r].hash] = [acl[log[r].hash] EXCEPT ![log[r].grantee] = entry]]
    BY <1>8 DEF LandDisclosure
  <2>5. entry # NoLevel => log[r].op = "grant" /\ entry = log[r].level
    OBVIOUS
  <2> HIDE DEF entry
  <2>6. acl' \in [Payloads -> [Grantees -> Levels \cup {NoLevel}]]
    BY <1>1, <1>2, <2>3, <2>4
  <2>7. \A p \in Payloads, g \in Grantees :
          acl'[p][g] = IF p = log[r].hash /\ g = log[r].grantee THEN entry ELSE acl[p][g]
    BY <1>1, <1>2, <2>4
  <2>8. GateTypeOK'
    BY <1>3, <2>1, <2>2, <2>6 DEF GateInvariant, GateTypeOK
  <2>9. ShowsGranted(acl)'
    <3>1. SUFFICES ASSUME NEW p \in Payloads, NEW g \in Grantees, acl'[p][g] # NoLevel
                   PROVE  <<g, acl'[p][g]>> \in granted'
      BY DEF ShowsGranted
    <3>2. CASE p = log[r].hash /\ g = log[r].grantee
      BY <2>2, <2>5, <2>7, <3>1, <3>2
    <3>3. CASE ~ (p = log[r].hash /\ g = log[r].grantee)
      BY <2>2, <2>7, <3>1, <3>3 DEF GateInvariant, ShowsGranted
    <3> QED
      BY <3>2, <3>3
  <2>10. ShowsGranted(index)'
    BY <1>3, <2>2, CopiesStay
  <2>11. RowIsHonest(r)'
    BY <1>1, <1>3, <1>5, <2>1, <2>2 DEF RowIsHonest, Counts, IsGrant, Used
  <2> QED
    BY <1>4, <1>6, <2>2, <2>8, <2>9, <2>10, <2>11, OneRowChanges
<1> QED
  BY <1>7, <1>8

\* Who settles knows: the job that its transaction landed, the tracker that the
\* ACL shows the grant or that the transaction landed.
LEMMA SettlingKeepsInvariant ==
  ASSUME GateInvariant, NEW r \in Rows, RunnerSucceeds(r) \/ RunnerFails(r) \/ TrackerSettles(r)
  PROVE  GateInvariant'
<1>1. /\ log \in [Rows -> RowType]
      /\ acl \in [Payloads -> [Grantees -> Levels \cup {NoLevel}]]
      /\ index \in [Payloads -> [Grantees -> Levels \cup {NoLevel}]]
      /\ tx \in [Rows -> {"none", "inflight", "landed", "dropped"}]
      /\ reported \subseteq Rows
  BY DEF GateInvariant, GateTypeOK
<1>2. log[r] \in RowType
  BY <1>1
<1>3. RowIsHonest(r)
  BY DEF GateInvariant
<1>4. runner[r] \in {"waits", "tracks"} /\ UNCHANGED <<payload, acl, tx, reported, granted>>
  BY DEF RunnerSucceeds, RunnerFails, TrackerSettles
<1>5. r \in Used /\ r \in reported
  BY <1>3, <1>4 DEF RowIsHonest
<1>6. PICK status \in {"succeeded", "failed"} :
        /\ Settle(r, status)
        /\ status = "succeeded" =>
             \/ tx[r] = "landed"
             \/ runner[r] = "tracks" /\ Reflected(r)
  BY DEF RunnerSucceeds, RunnerFails, TrackerSettles
<1>7. /\ log' \in [Rows -> RowType]
      /\ runner' \in [Rows -> {"none", "waits", "tracks"}]
      /\ RowsAreNumbered'
      /\ log'[r] = [log[r] EXCEPT !.status = status] /\ runner'[r] = "none"
      /\ \A q \in Rows \ {r} : log'[q] = log[q] /\ runner'[q] = runner[q]
  BY <1>5, <1>6, RowSettles
<1>8. /\ log'[r].status = status /\ log'[r].grantee = log[r].grantee /\ log'[r].op = log[r].op
      /\ log'[r].level = log[r].level /\ log'[r].lane = log[r].lane
  BY <1>2, <1>7 DEF RowType
<1>9. index' \in {index, acl}
  BY DEF RunnerSucceeds, RunnerFails, TrackerSettles
<1>10. index' \in [Payloads -> [Grantees -> Levels \cup {NoLevel}]]
  BY <1>1, <1>9
<1>11. GateTypeOK'
  BY <1>1, <1>4, <1>7, <1>10 DEF GateInvariant, GateTypeOK
<1>12. ShowsGranted(acl)' /\ ShowsGranted(index)'
  BY <1>4, <1>9, CopiesStay
<1>13. status = "succeeded" /\ log[r].lane = "server" => tx[r] = "landed"
  BY <1>3, <1>6 DEF RowIsHonest
<1>14. status = "succeeded" /\ IsGrant(r) => \E l \in Levels : <<log[r].grantee, l>> \in granted
  <2>1. SUFFICES ASSUME status = "succeeded", IsGrant(r)
                 PROVE  \E l \in Levels : <<log[r].grantee, l>> \in granted
    OBVIOUS
  <2>2. log[r].verified \in Payloads /\ log[r].grantee \in Grantees /\ log[r].level \in Levels
    BY <1>2 DEF RowType
  <2>3. CASE tx[r] = "landed"
    BY <1>3, <2>1, <2>2, <2>3 DEF RowIsHonest
  <2>4. CASE Reflected(r)
    <3>1. acl[log[r].verified][log[r].grantee] # NoLevel
      BY <2>1, <2>4 DEF Reflected, IsGrant
    <3>2. acl[log[r].verified][log[r].grantee] \in Levels
      BY <1>1, <2>2, <3>1
    <3>3. <<log[r].grantee, acl[log[r].verified][log[r].grantee]>> \in granted
      BY <2>2, <3>1 DEF GateInvariant, ShowsGranted
    <3> QED
      BY <3>2, <3>3
  <2> QED
    BY <1>6, <2>1, <2>3, <2>4
<1>15. r \in Used'
  BY <1>6, <1>8 DEF Used
<1>16. RowIsHonest(r)'
  BY <1>3, <1>4, <1>5, <1>6, <1>7, <1>8, <1>13, <1>14, <1>15 DEF RowIsHonest, Counts, IsGrant
<1> QED
  BY <1>4, <1>7, <1>11, <1>12, <1>16, OneRowChanges

LEMMA ExpiryKeepsInvariant ==
  ASSUME GateInvariant, NEW r \in Rows, TrackerExpires(r)
  PROVE  GateInvariant'
<1>1. runner \in [Rows -> {"none", "waits", "tracks"}]
  BY DEF GateInvariant, GateTypeOK
<1>2. /\ UNCHANGED <<payload, acl, index, log, tx, reported, granted>>
      /\ runner' \in [Rows -> {"none", "waits", "tracks"}]
      /\ runner'[r] = "none" /\ \A q \in Rows \ {r} : runner'[q] = runner[q]
  BY <1>1 DEF TrackerExpires
<1>3. RowIsHonest(r)
  BY DEF GateInvariant
<1>4. RowIsHonest(r)'
  BY <1>2, <1>3 DEF RowIsHonest, Counts, IsGrant, Used
<1>5. GateTypeOK'
  BY <1>2 DEF GateInvariant, GateTypeOK
<1>6. ShowsGranted(acl)' /\ ShowsGranted(index)'
  BY <1>2, CopiesStay
<1>7. RowsAreNumbered'
  BY <1>2, NumberingStays DEF GateInvariant, Used
<1> QED
  BY <1>2, <1>4, <1>5, <1>6, <1>7, OneRowChanges

\* What leaves the log, its transactions and its runners alone.
LEMMA LogStays ==
  ASSUME GateInvariant, UNCHANGED <<acl, log, tx, runner, reported, granted>>,
         index' \in {index, acl}, payload' \in Payloads
  PROVE  GateInvariant'
<1>1. GateTypeOK'
  BY DEF GateInvariant, GateTypeOK
<1>2. ShowsGranted(acl)' /\ ShowsGranted(index)'
  BY CopiesStay
<1>3. RowsAreNumbered'
  BY NumberingStays DEF GateInvariant, Used
<1>4. ASSUME NEW r \in Rows
      PROVE  RowIsHonest(r)'
  <2>1. RowIsHonest(r)
    BY DEF GateInvariant
  <2> QED
    BY <2>1 DEF RowIsHonest, Counts, IsGrant, Used
<1> QED
  BY <1>1, <1>2, <1>3, <1>4 DEF GateInvariant

\* The sweep gives up rows the server knows; nobody tracks them any more.
LEMMA RestartKeepsInvariant ==
  ASSUME GateInvariant, Restart
  PROVE  GateInvariant'
<1>1. /\ log \in [Rows -> RowType]
      /\ UNCHANGED <<payload, acl, index, tx, reported, granted>>
      /\ runner' \in [Rows -> {"none", "waits", "tracks"}]
      /\ \A r \in Rows : runner'[r] = "none"
  BY DEF GateInvariant, GateTypeOK, Restart
<1>2. PICK old \in SUBSET {r \in reported : log[r].status = "pending"} :
        log' = [r \in Rows |-> IF r \in old THEN [log[r] EXCEPT !.status = "failed"] ELSE log[r]]
  BY DEF Restart
<1>3. ASSUME NEW r \in Rows
      PROVE  /\ log'[r] \in RowType
             /\ log'[r].grantee = log[r].grantee /\ log'[r].op = log[r].op
             /\ log'[r].level = log[r].level /\ log'[r].lane = log[r].lane
             /\ log'[r].hash = log[r].hash
             /\ log'[r].status # log[r].status =>
                  r \in reported /\ log[r].status = "pending" /\ log'[r].status = "failed"
  <2>1. log[r] \in RowType /\ log'[r] = IF r \in old THEN [log[r] EXCEPT !.status = "failed"] ELSE log[r]
    BY <1>1, <1>2
  <2>2. r \in old => r \in reported /\ log[r].status = "pending"
    BY <1>2
  <2> QED
    BY <2>1, <2>2 DEF RowType
<1>4. log' \in [Rows -> RowType]
  BY <1>2, <1>3
<1>5. GateTypeOK'
  BY <1>1, <1>4 DEF GateInvariant, GateTypeOK
<1>6. ShowsGranted(acl)' /\ ShowsGranted(index)'
  BY <1>1, CopiesStay
<1>7. \A r \in Rows : r \in Used' <=> r \in Used
  BY <1>3 DEF Used
<1>8. RowsAreNumbered'
  BY <1>7, NumberingStays DEF GateInvariant
<1>9. ASSUME NEW r \in Rows
      PROVE  RowIsHonest(r)'
  <2>1. RowIsHonest(r)
    BY DEF GateInvariant
  <2>2. r \in Used' <=> r \in Used
    BY <1>7
  <2>3. Counts(r)' => Counts(r)
    BY <1>1, <1>3 DEF Counts
  <2> QED
    BY <1>1, <1>3, <2>1, <2>2, <2>3 DEF RowIsHonest, IsGrant
<1> QED
  BY <1>5, <1>6, <1>8, <1>9 DEF GateInvariant

LEMMA GateStarts ==
  ASSUME Init
  PROVE  GateInvariant
<1>1. NoRow \in RowType /\ NoRow.status = "none"
  <2>1. NoRow.grantee \in Grantees /\ NoRow.hash \in Payloads
    BY GateAssumption DEF NoRow
  <2>2. (CHOOSE p \in Payloads : TRUE) \in Payloads /\ (CHOOSE g \in Grantees : TRUE) \in Grantees
    BY GateAssumption
  <2>3. 0 \in Levels
    BY GateAssumption DEF Levels
  <2> QED
    BY <2>2, <2>3 DEF NoRow, RowType
<1>2. /\ payload \in Payloads /\ acl = NoGrants /\ index = NoGrants
      /\ log = [r \in Rows |-> NoRow] /\ tx = [r \in Rows |-> "none"]
      /\ runner = [r \in Rows |-> "none"] /\ reported = {} /\ granted = {}
  BY DEF Init
<1>3. \A r \in Rows : log[r].status = "none" /\ tx[r] = "none" /\ runner[r] = "none"
  BY <1>1, <1>2
<1>4. GateTypeOK
  <2>1. log \in [Rows -> RowType]
    BY <1>1, <1>2
  <2>2. NoGrants \in [Payloads -> [Grantees -> Levels \cup {NoLevel}]]
    BY DEF NoGrants
  <2> QED
    BY <1>2, <2>1, <2>2 DEF GateTypeOK
<1>5. Used = {}
  BY <1>3 DEF Used
<1>6. RowsAreNumbered
  <2>1. 0 \in 0..MaxRows /\ 1..0 = {}
    BY GateAssumption
  <2> QED
    BY <1>5, <2>1 DEF RowsAreNumbered
<1>7. \A r \in Rows : RowIsHonest(r)
  BY <1>2, <1>3, <1>5 DEF RowIsHonest, Counts
<1>8. ShowsGranted(acl) /\ ShowsGranted(index)
  BY <1>2 DEF ShowsGranted, NoGrants
<1> QED
  BY <1>4, <1>6, <1>7, <1>8 DEF GateInvariant

\* A step of whichever action keeps the rows honest and the ACL granted.
LEMMA GateKeeps ==
  ASSUME GateInvariant, [Next]_vars
  PROVE  GateInvariant'
<1>1. payload \in Payloads
  BY DEF GateInvariant, GateTypeOK
<1>2. CASE Next
  <2>1. CASE \E op \in {"grant", "revoke"}, g \in Grantees, l \in Levels :
               GrantOffline(op, g, l) \/ AskDisclosure(op, g, l) \/ WalletDiscloses(op, g, l)
    BY <2>1, AskingKeepsInvariant
  <2>2. CASE \E r \in Rows : RecordWalletDisclosure(r)
    BY <2>2, RecordKeepsInvariant
  <2>3. CASE \E r \in Rows : LandDisclosure(r) \/ DropDisclosure(r)
    BY <2>3, LandingKeepsInvariant
  <2>4. CASE \E r \in Rows : RunnerSucceeds(r) \/ RunnerFails(r) \/ TrackerSettles(r)
    BY <2>4, SettlingKeepsInvariant
  <2>5. CASE \E r \in Rows : TrackerExpires(r)
    BY <2>5, ExpiryKeepsInvariant
  <2>6. CASE Reindex
    BY <1>1, <2>6, LogStays DEF Reindex
  <2>7. CASE Reanchor
    BY <2>7, LogStays DEF Reanchor
  <2>8. CASE Restart
    BY <2>8, RestartKeepsInvariant
  <2> QED
    BY <1>2, <2>1, <2>2, <2>3, <2>4, <2>5, <2>6, <2>7, <2>8 DEF Next
<1>3. CASE UNCHANGED vars
  BY <1>1, <1>3, LogStays DEF vars
<1> QED
  BY <1>2, <1>3

-----------------------------------------------------------------------------
(* Nobody is served what was not granted *)

\* The rows of the log, their transactions and runners, and both copies of the
\* ACL speak of each other as RowIsHonest and ShowsGranted say, at all times.
THEOREM GateIsHonest == Spec => []GateInvariant
<1>1. Init => GateInvariant
  BY GateStarts
<1>2. GateInvariant /\ [Next]_vars => GateInvariant'
  BY GateKeeps
<1> QED
  BY <1>1, <1>2, PTL DEF Spec

\* The variables of the gate keep their types.
THEOREM GateTypeCorrect == Spec => []GateTypeOK
<1>1. GateInvariant => GateTypeOK
  BY DEF GateInvariant
<1> QED
  BY <1>1, GateIsHonest, PTL

\* The tier a partner gets is that of his latest row that counts, or the one
\* indexed for the current payload.
LEMMA TierIsEither ==
  ASSUME GateInvariant, NEW g \in Grantees
  PROVE  /\ LocalLevel(g) \in Levels \cup {NoLevel}
         /\ index[payload][g] \in Levels \cup {NoLevel}
         /\ GrantLevel(g) \in {LocalLevel(g), index[payload][g]}
         /\ LocalLevel(g) = NoLevel /\ index[payload][g] = NoLevel => GrantLevel(g) = NoLevel
<1> DEFINE rows == {r \in Rows : Counts(r) /\ log[r].grantee = g}
<1>1. LocalLevel(g) = IF rows # {} /\ log[Greatest(rows)].op = "grant"
                      THEN log[Greatest(rows)].level ELSE NoLevel
  BY DEF LocalLevel
<1>2. rows # {} => Greatest(rows) \in rows
  BY LatestRow
<1>3. log \in [Rows -> RowType]
  BY DEF GateInvariant, GateTypeOK
<1>4. LocalLevel(g) \in Levels \cup {NoLevel}
  <2>1. rows # {} => Greatest(rows) \in Rows
    BY <1>2
  <2> HIDE DEF rows
  <2>2. rows # {} => log[Greatest(rows)].level \in Levels
    BY <1>3, <2>1 DEF RowType
  <2> QED
    BY <1>1, <2>2
<1>5. index[payload][g] \in Levels \cup {NoLevel}
  BY DEF GateInvariant, GateTypeOK
<1>6. LocalLevel(g) \in Int /\ index[payload][g] \in Int
  BY <1>4, <1>5, GateAssumption DEF Levels, NoLevel
<1>7. GrantLevel(g) \in {LocalLevel(g), index[payload][g]}
  BY <1>6, GreatestOfTwo DEF GrantLevel
<1> QED
  BY <1>4, <1>5, <1>7

LEMMA HonestGateServesGranted ==
  ASSUME GateInvariant
  PROVE  AccessWasGranted
<1>1. SUFFICES ASSUME NEW g \in Grantees, Serves(g)
               PROVE  \E l \in Levels : <<g, l>> \in granted
  BY DEF AccessWasGranted
<1>2. payload \in Payloads
  BY DEF GateInvariant, GateTypeOK
<1>3. GrantLevel(g) # NoLevel
  BY <1>1 DEF Serves
<1>4. CASE GrantLevel(g) = index[payload][g]
  <2>1. <<g, index[payload][g]>> \in granted
    BY <1>2, <1>3, <1>4 DEF GateInvariant, ShowsGranted
  <2>2. index[payload][g] \in Levels
    BY <1>3, <1>4, TierIsEither
  <2> QED
    BY <2>1, <2>2
<1>5. CASE GrantLevel(g) = LocalLevel(g)
  <2> DEFINE rows == {r \in Rows : Counts(r) /\ log[r].grantee = g}
  <2>1. rows # {} /\ log[Greatest(rows)].op = "grant"
    BY <1>3, <1>5 DEF LocalLevel
  <2>2. Greatest(rows) \in rows
    BY <2>1, LatestRow
  <2>3. PICK r \in Rows : Counts(r) /\ log[r].grantee = g /\ IsGrant(r)
    BY <2>1, <2>2 DEF IsGrant
  <2>4. RowIsHonest(r)
    BY DEF GateInvariant
  <2> QED
    BY <2>3, <2>4 DEF RowIsHonest
<1> QED
  BY <1>4, <1>5, TierIsEither

\* The READ of Passports serves nobody to whom nothing was ever granted, on the
\* chain or offline: requests that are pending, refused, dropped or swept open
\* nothing, in whatever order they settle.
THEOREM NobodyIsServedUngranted == Spec => []AccessWasGranted
<1>1. GateInvariant => AccessWasGranted
  BY HonestGateServesGranted
<1> QED
  BY <1>1, GateIsHonest, PTL

-----------------------------------------------------------------------------
(* A revoke reaches the reader, where the transactions of a lane land in order *)

\* What lands nothing and changes no request leaves the order alone.
LEMMA OrderStays ==
  ASSUME OrderInvariant, acl' = acl,
         \A r \in Rows : /\ r \in Used' <=> r \in Used
                         /\ log'[r].grantee = log[r].grantee /\ log'[r].hash = log[r].hash
                         /\ log'[r].op = log[r].op /\ log'[r].level = log[r].level
                         /\ log'[r].lane = log[r].lane
                         /\ \/ tx'[r] = tx[r]
                            \/ tx'[r] = "dropped" /\ tx[r] = "inflight"
  PROVE  OrderInvariant'
<1>1. LandsInOrder'
  BY DEF OrderInvariant, LandsInOrder
<1>2. ASSUME NEW r \in Rows, LandedLast(r)', OnServer(log[r].grantee)'
      PROVE  LandedLast(r) /\ OnServer(log[r].grantee)
  <2>1. LandedLast(r)
    BY <1>2 DEF LandedLast
  <2>2. Used' = Used /\ Used \subseteq Rows
    BY DEF Used
  <2>3. OnServer(log[r].grantee)
    BY <1>2, <2>2 DEF OnServer
  <2> QED
    BY <2>1, <2>3
<1>3. AclShowsLast'
  BY <1>2 DEF OrderInvariant, AclShowsLast, IsGrant
<1> QED
  BY <1>1, <1>3 DEF OrderInvariant

\* A new request is later than all there are, and has not landed.
LEMMA AskingKeepsOrder ==
  ASSUME GateInvariant, OrderInvariant,
         NEW op \in {"grant", "revoke"}, NEW g \in Grantees, NEW l \in Levels,
         GrantOffline(op, g, l) \/ AskDisclosure(op, g, l) \/ WalletDiscloses(op, g, l)
  PROVE  OrderInvariant'
<1>1. PICK lane \in {"server", "wallet"}, status \in {"offline", "pending"} :
        Request(lane, status, op, g, l)
  BY DEF GrantOffline, AskDisclosure, WalletDiscloses
<1>2. PICK n \in Rows \ Used :
        /\ n = NextRow /\ \A q \in Used : q < n
        /\ \A q \in Rows \ {n} : log'[q] = log[q]
        /\ log'[n] = [status |-> status, grantee |-> g, op |-> op, level |-> l,
                      hash |-> payload, verified |-> payload, lane |-> lane]
  BY <1>1, RequestTakesRow
<1>3. tx \in [Rows -> {"none", "inflight", "landed", "dropped"}]
  BY DEF GateInvariant, GateTypeOK
<1>4. \A q \in Rows : tx[q] = "landed" => q \in Used
  BY DEF GateInvariant, RowIsHonest
<1>5. acl' = acl /\ tx' \in {tx, [tx EXCEPT ![n] = "inflight"]}
  BY <1>2 DEF GrantOffline, AskDisclosure, WalletDiscloses
<1>6. tx'[n] # "landed" /\ \A q \in Rows \ {n} : tx'[q] = tx[q]
  BY <1>2, <1>3, <1>4, <1>5
<1>7. ASSUME NEW r \in Rows, tx'[r] = "landed"
      PROVE  r # n /\ r \in Used /\ r < n /\ tx[r] = "landed" /\ log'[r] = log[r]
  BY <1>2, <1>4, <1>6, <1>7
<1>8. LandsInOrder'
  <2>1. SUFFICES ASSUME NEW q \in Rows, NEW r \in Rows, q < r, log'[q].lane = log'[r].lane,
                        tx'[r] = "landed"
                 PROVE  tx'[q] # "inflight"
    BY DEF LandsInOrder
  <2>2. r \in Int /\ q \in Int /\ n \in Int /\ r < n
    BY <1>7, <2>1 DEF Rows
  <2>3. q # n
    BY <2>1, <2>2
  <2> QED
    BY <1>2, <1>6, <1>7, <2>1, <2>3 DEF OrderInvariant, LandsInOrder
<1>9. AclShowsLast'
  <2>1. SUFFICES ASSUME NEW r \in Rows, LandedLast(r)', OnServer(log[r].grantee)'
                 PROVE  acl'[log'[r].hash][log'[r].grantee] =
                          IF IsGrant(r)' THEN log'[r].level ELSE NoLevel
    BY DEF AclShowsLast
  <2>2. r # n /\ r \in Used /\ tx[r] = "landed" /\ log'[r] = log[r]
    BY <1>7, <2>1 DEF LandedLast
  <2>3. LandedLast(r)
    <3>1. SUFFICES ASSUME NEW q \in Rows, q > r, log[q].grantee = log[r].grantee,
                          log[q].hash = log[r].hash, tx[q] = "landed"
                   PROVE  FALSE
      BY <2>2 DEF LandedLast
    <3>2. q # n
      BY <1>2, <1>4, <3>1
    <3> QED
      BY <1>2, <1>6, <2>1, <2>2, <3>1, <3>2 DEF LandedLast
  <2>4. OnServer(log[r].grantee)
    <3>1. \A q \in Used : q \in Used' /\ log'[q] = log[q]
      BY <1>2 DEF Used
    <3> QED
      BY <2>1, <2>2, <3>1 DEF OnServer
  <2>5. acl[log[r].hash][log[r].grantee] = IF IsGrant(r) THEN log[r].level ELSE NoLevel
    BY <2>3, <2>4 DEF OrderInvariant, AclShowsLast
  <2> QED
    BY <1>5, <2>2, <2>5 DEF IsGrant
<1> QED
  BY <1>8, <1>9 DEF OrderInvariant

\* What lands is the latest of its lane that landed, and the ACL shows it.
LEMMA LandingKeepsOrder ==
  ASSUME GateInvariant, OrderInvariant, Ordered, NEW r \in Rows, LandDisclosure(r)
  PROVE  OrderInvariant'
<1>1. /\ log \in [Rows -> RowType] /\ tx \in [Rows -> {"none", "inflight", "landed", "dropped"}]
      /\ acl \in [Payloads -> [Grantees -> Levels \cup {NoLevel}]]
  BY DEF GateInvariant, GateTypeOK
<1>2. /\ log' = log /\ tx[r] = "inflight" /\ tx'[r] = "landed"
      /\ \A q \in Rows \ {r} : tx'[q] = tx[q]
      /\ \A q \in Rows : q < r /\ log[q].lane = log[r].lane => tx[q] # "inflight"
  <2>1. \A q \in Earlier(r) : tx[q] # "inflight"
    BY DEF LandDisclosure
  <2>2. \A q \in Rows : q < r /\ log[q].lane = log[r].lane => q \in Earlier(r)
    BY DEF Rows, Earlier
  <2> QED
    BY <1>1, <2>1, <2>2 DEF LandDisclosure
<1> DEFINE entry == IF log[r].op = "grant" THEN log[r].level ELSE NoLevel
<1>3. \A q \in Rows : log[q].hash \in Payloads /\ log[q].grantee \in Grantees
  BY <1>1 DEF RowType
<1>4. \A p \in Payloads, g \in Grantees :
        acl'[p][g] = IF p = log[r].hash /\ g = log[r].grantee THEN entry ELSE acl[p][g]
  <2>1. acl' = [acl EXCEPT ![log[r].hash] = [acl[log[r].hash] EXCEPT ![log[r].grantee] = entry]]
    BY DEF LandDisclosure
  <2> HIDE DEF entry
  <2> QED
    BY <1>1, <1>3, <2>1
<1>5. LandsInOrder'
  <2>1. SUFFICES ASSUME NEW q \in Rows, NEW s \in Rows, q < s, log[q].lane = log[s].lane,
                        tx'[s] = "landed"
                 PROVE  tx'[q] # "inflight"
    BY <1>2 DEF LandsInOrder
  <2>2. CASE q = r
    BY <1>2, <2>2
  <2>3. CASE q # r /\ s = r
    BY <1>2, <2>1, <2>3
  <2>4. CASE q # r /\ s # r
    BY <1>2, <2>1, <2>4 DEF OrderInvariant, LandsInOrder
  <2> QED
    BY <2>2, <2>3, <2>4
<1>6. AclShowsLast'
  <2>1. SUFFICES ASSUME NEW s \in Rows, LandedLast(s)', OnServer(log[s].grantee)'
                 PROVE  acl'[log[s].hash][log[s].grantee] =
                          IF log[s].op = "grant" THEN log[s].level ELSE NoLevel
    BY <1>2 DEF AclShowsLast, IsGrant
  <2>2. CASE s = r
    BY <1>3, <1>4, <2>2
  <2>3. CASE s # r
    <3>1. tx[s] = "landed" /\ \A q \in Rows :
            q > s /\ log[q].grantee = log[s].grantee /\ log[q].hash = log[s].hash =>
              tx'[q] # "landed"
      BY <1>2, <2>1, <2>3 DEF LandedLast
    <3>2. LandedLast(s)
      BY <1>2, <3>1 DEF LandedLast
    <3>3. OnServer(log[s].grantee)
      BY <1>2, <2>1 DEF OnServer, Used
    <3>4. ~ (log[s].hash = log[r].hash /\ log[s].grantee = log[r].grantee)
      <4>1. SUFFICES ASSUME log[s].hash = log[r].hash, log[s].grantee = log[r].grantee
                     PROVE  FALSE
        OBVIOUS
      <4>2. r \in Used /\ s \in Used
        BY <1>2, <3>1 DEF GateInvariant, RowIsHonest
      <4>3. log[r].lane = log[s].lane
        BY <3>3, <4>1, <4>2 DEF OnServer
      <4>4. ~ (r > s)
        BY <1>2, <3>1, <4>1
      <4>5. r < s
        BY <2>3, <4>4 DEF Rows
      <4> QED
        BY <1>2, <3>1, <4>3, <4>5 DEF OrderInvariant, LandsInOrder
    <3>5. acl[log[s].hash][log[s].grantee] = IF log[s].op = "grant" THEN log[s].level ELSE NoLevel
      BY <3>2, <3>3 DEF OrderInvariant, AclShowsLast, IsGrant
    <3> QED
      BY <1>3, <1>4, <3>4, <3>5
  <2> QED
    BY <2>2, <2>3
<1> QED
  BY <1>5, <1>6 DEF OrderInvariant

LEMMA OrderKeeps ==
  ASSUME GateInvariant, OrderInvariant, Ordered, [Next]_vars
  PROVE  OrderInvariant'
<1>1. log \in [Rows -> RowType] /\ tx \in [Rows -> {"none", "inflight", "landed", "dropped"}]
  BY DEF GateInvariant, GateTypeOK
<1>2. \A r \in Rows : log[r] \in RowType
  BY <1>1
<1>3. CASE \E op \in {"grant", "revoke"}, g \in Grantees, l \in Levels :
             GrantOffline(op, g, l) \/ AskDisclosure(op, g, l) \/ WalletDiscloses(op, g, l)
  BY <1>3, AskingKeepsOrder
<1>4. CASE \E r \in Rows : LandDisclosure(r)
  BY <1>4, LandingKeepsOrder
<1>5. CASE \E r \in Rows : RecordWalletDisclosure(r)
  <2>1. PICK r \in Rows : RecordWalletDisclosure(r)
    BY <1>5
  <2>2. acl' = acl /\ tx' = tx /\ log' = [log EXCEPT ![r] = [log[r] EXCEPT !.verified = payload]]
    BY <1>1, <2>1 DEF RecordWalletDisclosure
  <2>3. \A q \in Rows : log'[q] = IF q = r THEN [log[q] EXCEPT !.verified = payload] ELSE log[q]
    BY <1>1, <2>2
  <2> QED
    BY <1>2, <2>2, <2>3, OrderStays DEF RowType, Used
<1>6. CASE \E r \in Rows : DropDisclosure(r)
  <2>1. PICK r \in Rows : DropDisclosure(r)
    BY <1>6
  <2>2. /\ acl' = acl /\ log' = log
        /\ \A q \in Rows : \/ tx'[q] = tx[q]
                           \/ tx'[q] = "dropped" /\ tx[q] = "inflight"
    BY <1>1, <2>1 DEF DropDisclosure
  <2> QED
    BY <2>2, OrderStays DEF Used
<1>7. CASE \E r \in Rows : RunnerSucceeds(r) \/ RunnerFails(r) \/ TrackerSettles(r)
  <2>1. PICK r \in Rows : RunnerSucceeds(r) \/ RunnerFails(r) \/ TrackerSettles(r)
    BY <1>7
  <2>2. /\ acl' = acl /\ tx' = tx /\ r \in Used
        /\ \E status \in {"succeeded", "failed"} : Settle(r, status)
    <3>1. RowIsHonest(r)
      BY DEF GateInvariant
    <3>2. runner[r] # "none"
      BY <2>1 DEF RunnerSucceeds, RunnerFails, TrackerSettles
    <3> QED
      BY <2>1, <3>1, <3>2 DEF RowIsHonest, RunnerSucceeds, RunnerFails, TrackerSettles
  <2>3. PICK status \in {"succeeded", "failed"} :
          /\ log'[r] = [log[r] EXCEPT !.status = status]
          /\ \A q \in Rows \ {r} : log'[q] = log[q]
    BY <2>2, RowSettles
  <2> QED
    BY <1>2, <2>2, <2>3, OrderStays DEF RowType, Used
<1>8. CASE \E r \in Rows : TrackerExpires(r)
  BY <1>8, OrderStays DEF TrackerExpires, Used
<1>9. CASE Reindex \/ Reanchor \/ UNCHANGED vars
  BY <1>9, OrderStays DEF Reindex, Reanchor, vars, Used
<1>10. CASE Restart
  <2>1. PICK old \in SUBSET {r \in reported : log[r].status = "pending"} :
          log' = [r \in Rows |-> IF r \in old THEN [log[r] EXCEPT !.status = "failed"] ELSE log[r]]
    BY <1>10 DEF Restart
  <2>2. \A q \in Rows :
          \/ log'[q] = log[q]
          \/ log[q].status = "pending" /\ log'[q] = [log[q] EXCEPT !.status = "failed"]
    BY <2>1
  <2>3. acl' = acl /\ tx' = tx
    BY <1>10 DEF Restart
  <2>4. ASSUME NEW q \in Rows
        PROVE  /\ q \in Used' <=> q \in Used
               /\ log'[q].grantee = log[q].grantee /\ log'[q].hash = log[q].hash
               /\ log'[q].op = log[q].op /\ log'[q].level = log[q].level
               /\ log'[q].lane = log[q].lane
    <3>1. log[q] \in RowType
      BY <1>2
    <3>2. CASE log'[q] = log[q]
      BY <3>2 DEF Used
    <3>3. CASE log[q].status = "pending" /\ log'[q] = [log[q] EXCEPT !.status = "failed"]
      <4>1. log'[q].status = "failed"
        BY <3>1, <3>3 DEF RowType
      <4>2. q \in Used' /\ q \in Used
        BY <3>3, <4>1 DEF Used
      <4> QED
        BY <3>1, <3>3, <4>2 DEF RowType
    <3> QED
      BY <2>2, <3>2, <3>3
  <2> QED
    BY <2>3, <2>4, OrderStays
<1> QED
  BY <1>3, <1>4, <1>5, <1>6, <1>7, <1>8, <1>9, <1>10 DEF Next

LEMMA OrderRevokes ==
  ASSUME GateInvariant, OrderInvariant
  PROVE  RevocationReachesReader
<1>1. SUFFICES ASSUME NEW r \in Used, NEW g, g = log[r].grantee,
                      NEW rows, rows = {q \in Used : log[q].grantee = g},
                      r = Greatest(rows), \A q \in rows : log[q].lane = "server",
                      log[r].op = "revoke", log[r].status = "succeeded", log[r].hash = payload,
                      index = acl
               PROVE  ~Serves(g)
  BY DEF RevocationReachesReader
<1>2. r \in Rows /\ log[r] \in RowType /\ g \in Grantees /\ r \in rows /\ rows \subseteq Rows
  <2>1. r \in Rows
    BY DEF Used
  <2>2. log[r] \in RowType
    BY <2>1 DEF GateInvariant, GateTypeOK
  <2> QED
    BY <1>1, <2>1, <2>2 DEF RowType, Used
<1>3. \A q \in rows : q <= r
  BY <1>1, <1>2, LatestRow
<1>4. tx[r] = "landed" /\ r \in reported
  <2>1. RowIsHonest(r)
    BY <1>2 DEF GateInvariant
  <2> QED
    BY <1>1, <1>2, <2>1 DEF RowIsHonest
<1>5. LandedLast(r)
  <2>1. SUFFICES ASSUME NEW q \in Rows, q > r, log[q].grantee = g, tx[q] = "landed"
                 PROVE  FALSE
    BY <1>1, <1>4 DEF LandedLast
  <2>2. q \in rows
    BY <1>1, <2>1 DEF GateInvariant, RowIsHonest
  <2>3. q \in Int /\ r \in Int
    BY <1>2 DEF Rows
  <2> QED
    BY <1>3, <2>1, <2>2, <2>3
<1>6. index[payload][g] = NoLevel
  <2>1. OnServer(g)
    BY <1>1 DEF OnServer
  <2> QED
    BY <1>1, <1>2, <1>5, <2>1 DEF OrderInvariant, AclShowsLast, IsGrant
<1>7. LocalLevel(g) = NoLevel
  <2> DEFINE counting == {q \in Rows : Counts(q) /\ log[q].grantee = g}
  <2>1. r \in counting
    BY <1>1, <1>2, <1>4 DEF Counts
  <2>2. counting \subseteq rows
    BY <1>1 DEF Counts, Used
  <2>3. \A q \in counting : q <= r
    BY <1>3, <2>2
  <2>4. counting \in SUBSET Int
    BY DEF Rows
  <2>5. LocalLevel(g) = IF counting # {} /\ log[Greatest(counting)].op = "grant"
                        THEN log[Greatest(counting)].level ELSE NoLevel
    BY DEF LocalLevel
  <2> HIDE DEF counting
  <2>6. Greatest(counting) = r
    BY <2>1, <2>3, <2>4, GreatestIs
  <2> QED
    BY <1>1, <2>5, <2>6
<1> QED
  BY <1>2, <1>6, <1>7, TierIsEither DEF Serves

\* Where the transactions of a lane land in their order, as the jobs of one
\* wallet do, a revoke the server saw succeed, the last request for the
\* grantee, takes the tier from him: also if earlier requests timed out and
\* landed late, were swept, or were for other payloads.
THEOREM RevokeReachesTheReader ==
  ASSUME Ordered
  PROVE  Spec => []RevocationReachesReader
<1>1. Init => OrderInvariant
  BY DEF Init, OrderInvariant, LandsInOrder, AclShowsLast, LandedLast
<1>2. GateInvariant /\ OrderInvariant /\ [Next]_vars => OrderInvariant'
  BY OrderKeeps
<1>3. GateInvariant /\ OrderInvariant => RevocationReachesReader
  BY OrderRevokes
<1> QED
  BY <1>1, <1>2, <1>3, GateIsHonest, PTL DEF Spec

-----------------------------------------------------------------------------
(* The explorer's mirror: one statement, one round at a time *)

\* An ingest before and after it has written the row of its snapshot.
Arriving ==
  [step : {"proofs", "versions", "sent", "row"}, found : BOOLEAN, alone : BOOLEAN,
   snapshot : [row : Row, claims : SUBSET Anchors, versions : SUBSET Version]]
Arrived ==
  [step : {"drop claims", "add claims", "drop versions", "add versions"}, alone : BOOLEAN,
   snapshot : [row : {None}, claims : SUBSET Anchors, versions : SUBSET Version]]

MirrorTypes ==
  /\ row \in Row /\ (row.status = "anchored" => row.record # "none")
  /\ archived \subseteq Version
  /\ content \in Hashes /\ vault \in Vaults
  /\ row.status = "anchoring" => target \in Vaults
  /\ claims \in [Anchors -> {"none", "pending", "succeeded"}]
  /\ mirror \in [row : Row \cup {None}, claims : SUBSET Anchors,
                 versions : SUBSET Version]
  /\ ingest \in [Publishes -> {Idle} \cup Arriving \cup Arrived]
  /\ sync \in [Syncs -> Row \cup {None}]

LEMMA MirrorInitTypes ==
  ASSUME MaxContent \in Nat \ {0}, MaxVault \in 1..5
  PROVE  MirrorInit => MirrorTypes
BY DEF MirrorInit, MirrorTypes, Row, Hashes, Vaults, Version, Idle

\* What the producer does to its row.
LEMMA ProducerTypes ==
  ASSUME MaxContent \in Nat \ {0}, MaxVault \in 1..5, MirrorTypes,
         \/ ChangeContent \/ Redeploy \/ Submit \/ ReanchorPassport \/ AnchorSucceeds
         \/ AnchorFails \/ AskProof
         \/ \E a \in Anchors : LandAnchor(a) \/ ProofSucceeds(a)
  PROVE  MirrorTypes'
<1> USE DEF producer, explorer
<1>0. UNCHANGED <<mirror, ingest, sync>>
  BY DEF ChangeContent, Redeploy, Submit, StartAnchor, ReanchorPassport, AnchorSucceeds,
     AnchorFails, AskProof, LandAnchor, ProofSucceeds
<1>t. /\ row \in Row /\ content \in Hashes /\ vault \in Vaults
      /\ row.hash \in Hashes /\ row.vault \in Vaults
  BY DEF MirrorTypes, Row
<1>1. CASE ChangeContent \/ Redeploy \/ \E a \in Anchors : LandAnchor(a)
  <2>1. UNCHANGED <<row, archived, claims, target>> /\ content' \in Hashes /\ vault' \in Vaults
    BY <1>1 DEF ChangeContent, Redeploy, LandAnchor, MirrorTypes, Hashes, Vaults
  <2> QED
    BY <1>0, <2>1 DEF MirrorTypes
<1>s. ASSUME NEW h \in Hashes, NEW v \in Vaults, StartAnchor(h, v), archived' \subseteq Version
      PROVE  MirrorTypes'
  <2>1. UNCHANGED <<content, claims, vault>> /\ target' \in Vaults
    BY <1>s DEF StartAnchor
  <2>2. row' \in Row /\ row'.status = "anchoring"
    BY <1>s, <1>t DEF StartAnchor, Row
  <2> QED
    BY <1>0, <1>s, <2>1, <2>2 DEF MirrorTypes
<1>v. VaultsFor(row) \subseteq Vaults
  BY <1>t DEF VaultsFor
<1>2. CASE Submit
  <2>1. \E v \in Vaults : StartAnchor(row.hash, v)
    BY <1>2, <1>v DEF Submit
  <2>2. archived' \subseteq Version
    BY <1>2 DEF Submit, MirrorTypes
  <2> QED
    BY <1>s, <1>t, <2>1, <2>2
<1>3. CASE ReanchorPassport
  <2>1. \E v \in Vaults : StartAnchor(content, v)
    BY <1>3, <1>v DEF ReanchorPassport
  <2>2. [hash |-> row.hash, vault |-> row.vault, record |-> row.record] \in Version
        \/ row.record = "none"
    BY DEF MirrorTypes, Row, Version
  <2>3. archived' \subseteq Version
    BY <1>3, <2>2 DEF ReanchorPassport, MirrorTypes
  <2> QED
    BY <1>s, <1>t, <2>1, <2>3
<1>4. CASE AnchorSucceeds \/ AnchorFails
  <2>1. UNCHANGED <<content, archived, claims, vault>> /\ target' = None
    BY <1>4 DEF AnchorSucceeds, AnchorFails
  <2>2. row.status = "anchoring" /\ target \in Vaults
    BY <1>4 DEF AnchorSucceeds, AnchorFails, MirrorTypes
  <2>3. /\ row' \in Row /\ row'.status \in {"anchored", "failed"}
        /\ row'.status = "anchored" => row'.record # "none"
    <3>1. CASE AnchorSucceeds
      BY <1>t, <2>2, <3>1 DEF AnchorSucceeds, Row
    <3>2. CASE AnchorFails
      BY <1>t, <3>2 DEF AnchorFails, Row
    <3> QED
      BY <1>4, <3>1, <3>2
  <2> QED
    BY <1>0, <2>1, <2>3 DEF MirrorTypes
<1>5. CASE AskProof \/ \E a \in Anchors : ProofSucceeds(a)
  <2>1. UNCHANGED <<row, content, archived, vault, target>>
    BY <1>5 DEF AskProof, ProofSucceeds
  <2>2. claims' \in [Anchors -> {"none", "pending", "succeeded"}]
    BY <1>5 DEF AskProof, ProofSucceeds, MirrorTypes
  <2> QED
    BY <1>0, <2>1, <2>2 DEF MirrorTypes
<1> QED
  BY <1>1, <1>2, <1>3, <1>4, <1>5

\* The entries of ingest: which kind a step says it is, and what EXCEPT makes of it.
LEMMA ArrivingMoves ==
  ASSUME NEW g \in Arriving
  PROVE  /\ g # Idle /\ g.step \in {"proofs", "versions", "sent", "row"}
         /\ [g EXCEPT !.alone = FALSE] \in Arriving
         /\ [g EXCEPT !.alone = FALSE].alone = FALSE
         /\ [g EXCEPT !.alone = FALSE].step = g.step
         /\ [g EXCEPT !.alone = FALSE].snapshot = g.snapshot
         /\ \A found \in BOOLEAN :
              LET u == [g EXCEPT !.step = "row", !.found = found]
              IN  u \in Arriving /\ u.step = "row" /\ u.alone = g.alone /\ u.snapshot = g.snapshot
         /\ LET u == [step |-> "drop claims", alone |-> g.alone, snapshot |-> [g.snapshot EXCEPT !.row = None]]
            IN  /\ u \in Arrived /\ u.step = "drop claims" /\ u.alone = g.alone
                /\ u.snapshot.claims = g.snapshot.claims /\ u.snapshot.versions = g.snapshot.versions
<1>1. g.step # "idle"
  BY DEF Arriving
<1>2. g # Idle
  BY <1>1 DEF Idle
<1>3. [g.snapshot EXCEPT !.row = None] \in [row : {None}, claims : SUBSET Anchors,
                                            versions : SUBSET Version]
      /\ [g.snapshot EXCEPT !.row = None].claims = g.snapshot.claims
      /\ [g.snapshot EXCEPT !.row = None].versions = g.snapshot.versions
  BY DEF Arriving
<1> DEFINE u == [step |-> "drop claims", alone |-> g.alone, snapshot |-> [g.snapshot EXCEPT !.row = None]]
<1>4. /\ u \in Arrived /\ u.step = "drop claims" /\ u.alone = g.alone
      /\ u.snapshot.claims = g.snapshot.claims /\ u.snapshot.versions = g.snapshot.versions
  BY <1>3 DEF Arriving, Arrived
<1>5. /\ [g EXCEPT !.alone = FALSE] \in Arriving
      /\ [g EXCEPT !.alone = FALSE].alone = FALSE
      /\ [g EXCEPT !.alone = FALSE].step = g.step
      /\ [g EXCEPT !.alone = FALSE].snapshot = g.snapshot
  BY DEF Arriving
<1>6. ASSUME NEW found \in BOOLEAN
      PROVE  LET v == [g EXCEPT !.step = "row", !.found = found]
             IN  v \in Arriving /\ v.step = "row" /\ v.alone = g.alone /\ v.snapshot = g.snapshot
  BY DEF Arriving
<1> HIDE DEF u
<1>7. g.step \in {"proofs", "versions", "sent", "row"}
  BY DEF Arriving
<1> QED
  BY <1>2, <1>4, <1>5, <1>6, <1>7 DEF u

LEMMA ArrivedMoves ==
  ASSUME NEW g \in Arrived
  PROVE  /\ g # Idle
         /\ g.step \in {"drop claims", "add claims", "drop versions", "add versions"}
         /\ [g EXCEPT !.alone = FALSE] \in Arrived
         /\ [g EXCEPT !.alone = FALSE].alone = FALSE
         /\ [g EXCEPT !.alone = FALSE].step = g.step
         /\ [g EXCEPT !.alone = FALSE].snapshot = g.snapshot
         /\ \A next \in {"add claims", "drop versions", "add versions"} :
              LET u == [g EXCEPT !.step = next]
              IN  u \in Arrived /\ u.step = next /\ u.alone = g.alone /\ u.snapshot = g.snapshot
<1>1. g.step # "idle"
  BY DEF Arrived
<1>2. g # Idle
  BY <1>1 DEF Idle
<1>3. /\ [g EXCEPT !.alone = FALSE] \in Arrived
      /\ [g EXCEPT !.alone = FALSE].alone = FALSE
      /\ [g EXCEPT !.alone = FALSE].step = g.step
      /\ [g EXCEPT !.alone = FALSE].snapshot = g.snapshot
  BY DEF Arrived
<1>4. ASSUME NEW next \in {"add claims", "drop versions", "add versions"}
      PROVE  LET u == [g EXCEPT !.step = next]
             IN  u \in Arrived /\ u.step = next /\ u.alone = g.alone /\ u.snapshot = g.snapshot
  BY DEF Arrived
<1>5. g.step \in {"drop claims", "add claims", "drop versions", "add versions"}
  BY DEF Arrived
<1> QED
  BY <1>2, <1>3, <1>4, <1>5

\* One read of a publish or one statement of its ingest: what it makes of the
\* request, of the mirror and of what is served.
IngestCourse(i) ==
  LET g == ingest[i]
      h == ingest'[i]
      Goes(next) == /\ h.step = next /\ h.alone = g.alone /\ served' = served
                      /\ h.snapshot.claims = g.snapshot.claims /\ h.snapshot.versions = g.snapshot.versions
    IN  /\ ingest' \in [Publishes -> {Idle} \cup Arriving \cup Arrived]
        /\ mirror' \in [row : Row \cup {None}, claims : SUBSET Anchors,
                        versions : SUBSET Version]
        /\ \A j \in Publishes \ {i} : ingest'[j] = ingest[j]
        /\ UNCHANGED <<row, content, archived, claims, vault, target, attested, proven, sync>>
        /\ \/ /\ g \in Arriving /\ h \in Arriving /\ Goes("row") /\ h.snapshot = g.snapshot
              /\ mirror' = mirror
           \/ /\ g \in Arriving /\ h \in Arriving /\ h.step \in {"versions", "sent"}
              /\ h.alone = g.alone /\ served' = served /\ mirror' = mirror
              /\ h.snapshot.row = g.snapshot.row
              /\ h.snapshot.claims \in {g.snapshot.claims, Proofs}
              /\ h.snapshot.versions \in {g.snapshot.versions, archived}
           \/ /\ g \in Arriving /\ h \in Arrived /\ Goes("drop claims")
              /\ mirror'.row = g.snapshot.row
              /\ mirror'.claims = mirror.claims /\ mirror'.versions = mirror.versions
           \/ /\ g \in Arrived /\ h \in Arrived /\ g.step = "drop claims" /\ Goes("add claims")
              /\ mirror'.row = mirror.row /\ mirror'.claims = {} /\ mirror'.versions = mirror.versions
           \/ /\ g \in Arrived /\ h \in Arrived /\ g.step = "add claims" /\ Goes("drop versions")
              /\ mirror'.row = mirror.row /\ mirror'.claims = mirror.claims \cup g.snapshot.claims
              /\ mirror'.versions = mirror.versions
           \/ /\ g \in Arrived /\ h \in Arrived /\ g.step = "drop versions" /\ Goes("add versions")
              /\ mirror'.row = mirror.row /\ mirror'.claims = mirror.claims /\ mirror'.versions = {}
           \/ /\ g \in Arrived /\ g.step = "add versions" /\ h = Idle
              /\ mirror'.row = mirror.row /\ mirror'.claims = mirror.claims
              /\ mirror'.versions = mirror.versions \cup g.snapshot.versions
              /\ served' = IF g.alone THEN [claims |-> g.snapshot.claims, versions |-> g.snapshot.versions]
                           ELSE None
           \/ g # Idle /\ h = Idle /\ mirror' = mirror /\ served' = served

LEMMA IngestMoves ==
  ASSUME MirrorTypes, NEW i \in Publishes,
         \/ PublishReadsProofs(i) \/ PublishReadsVersions(i)
         \/ IngestSelects(i) \/ IngestWritesRow(i)
         \/ IngestDropsClaims(i) \/ IngestAddsClaims(i)
         \/ IngestDropsVersions(i) \/ IngestAddsVersions(i) \/ IngestFails(i)
  PROVE  IngestCourse(i)
<1> DEFINE g == ingest[i]
           h == ingest'[i]
           Goes(next) == /\ h.step = next /\ h.alone = g.alone /\ served' = served
                         /\ h.snapshot.claims = g.snapshot.claims /\ h.snapshot.versions = g.snapshot.versions
           MirrorType == [row : Row \cup {None}, claims : SUBSET Anchors,
                          versions : SUBSET Version]
<1>t. /\ ingest \in [Publishes -> {Idle} \cup Arriving \cup Arrived]
      /\ mirror \in MirrorType
      /\ g \in {Idle} \cup Arriving \cup Arrived
  BY DEF MirrorTypes
<1>k. /\ g \in Arriving => g.step \in {"proofs", "versions", "sent", "row"} /\ g # Idle
      /\ g \in Arrived => /\ g.step \in {"drop claims", "add claims", "drop versions", "add versions"}
                          /\ g # Idle
      /\ g = Idle => g.step = "idle"
      /\ g.step \in {"proofs", "versions", "sent", "row"} => g \in Arriving
      /\ g.step \in {"drop claims", "add claims", "drop versions", "add versions"} => g \in Arrived
  <2>1. g \in Arriving => g.step \in {"proofs", "versions", "sent", "row"} /\ g # Idle
    BY ArrivingMoves
  <2>2. g \in Arrived => /\ g.step \in {"drop claims", "add claims", "drop versions", "add versions"}
                         /\ g # Idle
    BY ArrivedMoves
  <2>3. g = Idle => g.step = "idle"
    BY DEF Idle
  <2> HIDE DEF g
  <2> QED
    BY <1>t, <2>1, <2>2, <2>3
<1>c. /\ g \in Arriving => g.snapshot.row \in Row
      /\ g # Idle => /\ g.snapshot.claims \in SUBSET Anchors
                            /\ g.snapshot.versions \in SUBSET Version
  BY <1>t DEF Arriving, Arrived
<1>n. UNCHANGED <<row, content, archived, claims, vault, target, attested, proven, sync>>
  BY DEF IngestSelects, IngestWritesRow, IngestDropsClaims,
     IngestAddsClaims, IngestDropsVersions, IngestAddsVersions,
     IngestFails, Ingest, PublishReadsProofs, PublishReadsVersions, producer, chain
<1>e. ASSUME NEW u \in {Idle} \cup Arriving \cup Arrived, ingest' = [ingest EXCEPT ![i] = u]
      PROVE  /\ ingest' \in [Publishes -> {Idle} \cup Arriving \cup Arrived] /\ h = u
             /\ \A j \in Publishes \ {i} : ingest'[j] = ingest[j]
  BY <1>t, <1>e
\* What the statement writes, and where the request goes.
<1>m. ASSUME NEW r \in Row \cup {None}, mirror' = [mirror EXCEPT !.row = r]
      PROVE  /\ mirror' \in MirrorType /\ mirror'.row = r
             /\ mirror'.claims = mirror.claims /\ mirror'.versions = mirror.versions
  BY <1>t, <1>m
<1>p. ASSUME NEW c \in SUBSET Anchors, mirror' = [mirror EXCEPT !.claims = c]
      PROVE  /\ mirror' \in MirrorType /\ mirror'.row = mirror.row
             /\ mirror'.claims = c /\ mirror'.versions = mirror.versions
  BY <1>t, <1>p
<1>v. ASSUME NEW v \in SUBSET Version, mirror' = [mirror EXCEPT !.versions = v]
      PROVE  /\ mirror' \in MirrorType /\ mirror'.row = mirror.row
             /\ mirror'.claims = mirror.claims /\ mirror'.versions = v
  BY <1>t, <1>v
<1>s. ASSUME NEW next \in {"add claims", "drop versions", "add versions"},
             g \in Arrived, ingest' = [ingest EXCEPT ![i].step = next], served' = served
      PROVE  /\ ingest' \in [Publishes -> {Idle} \cup Arriving \cup Arrived]
             /\ \A j \in Publishes \ {i} : ingest'[j] = ingest[j]
             /\ h \in Arrived /\ Goes(next)
  <2> HIDE DEF g
  <2> DEFINE u == [g EXCEPT !.step = next]
  <2>1. u \in Arrived /\ u.step = next /\ u.alone = g.alone /\ u.snapshot = g.snapshot
    BY <1>s DEF Arrived
  <2>2. ingest' = [ingest EXCEPT ![i] = u]
    BY <1>s DEF g
  <2> HIDE DEF u
  <2>3. h = u
    BY <1>e, <2>1, <2>2
  <2>4. Goes(next)
    BY <1>s, <2>1, <2>3
  <2> QED
    BY <1>e, <2>1, <2>2, <2>3, <2>4
<1>r. mirror.row \in Row \cup {None} /\ mirror.claims \in SUBSET Anchors
      /\ mirror.versions \in SUBSET Version
  BY <1>t
<1>q. mirror' = mirror => mirror' \in MirrorType
  BY <1>t
<1>1. CASE IngestSelects(i)
  <2> DEFINE found == mirror.row # None
             u == [g EXCEPT !.step = "row", !.found = found]
  <2>1. g \in Arriving /\ mirror' = mirror /\ served' = served
    BY <1>1, <1>k DEF IngestSelects
  <2>2. ingest' = [ingest EXCEPT ![i] = u]
    BY <1>1 DEF IngestSelects
  <2>3. found \in BOOLEAN
    OBVIOUS
  <2> HIDE DEF found
  <2>4. u \in Arriving /\ u.step = "row" /\ u.alone = g.alone /\ u.snapshot = g.snapshot
    BY <2>1, <2>3, ArrivingMoves
  <2> HIDE DEF u
  <2>5. h = u
    BY <1>e, <2>2, <2>4
  <2> QED
    BY <1>e, <1>n, <1>q, <2>1, <2>2, <2>4, <2>5 DEF IngestCourse
<1>2. CASE IngestWritesRow(i)
  <2> DEFINE u == [step |-> "drop claims", alone |-> g.alone, snapshot |-> [g.snapshot EXCEPT !.row = None]]
  <2>1. /\ g \in Arriving /\ served' = served
        /\ mirror' = [mirror EXCEPT !.row = g.snapshot.row]
        /\ ingest' = [ingest EXCEPT ![i] = u]
    BY <1>2, <1>k DEF IngestWritesRow
  <2>2. /\ u \in Arrived /\ u.step = "drop claims" /\ u.alone = g.alone
        /\ u.snapshot.claims = g.snapshot.claims /\ u.snapshot.versions = g.snapshot.versions
    BY <2>1, ArrivingMoves
  <2> HIDE DEF u
  <2>3. h = u
    BY <1>e, <2>1, <2>2
  <2>4. /\ mirror' \in MirrorType /\ mirror'.row = g.snapshot.row
        /\ mirror'.claims = mirror.claims /\ mirror'.versions = mirror.versions
    BY <1>c, <1>m, <1>r, <2>1
  <2> QED
    BY <1>e, <1>n, <2>1, <2>2, <2>3, <2>4 DEF IngestCourse
<1>3. CASE IngestDropsClaims(i)
  <2>1. /\ g.step = "drop claims" /\ g \in Arrived /\ served' = served
        /\ ingest' = [ingest EXCEPT ![i].step = "add claims"] /\ mirror' = [mirror EXCEPT !.claims = {}]
    BY <1>3, <1>k DEF IngestDropsClaims, Ingest
  <2>2. /\ mirror' \in MirrorType /\ mirror'.row = mirror.row
        /\ mirror'.claims = {} /\ mirror'.versions = mirror.versions
    <3>1. {} \in SUBSET Anchors /\ mirror' = [mirror EXCEPT !.claims = {}]
      BY <2>1
    <3> QED
      BY <1>p, <3>1
  <2> QED
    BY <1>s, <1>n, <2>1, <2>2 DEF IngestCourse
<1>4. CASE IngestAddsClaims(i)
  <2>1. /\ g.step = "add claims" /\ g \in Arrived /\ served' = served
        /\ ingest' = [ingest EXCEPT ![i].step = "drop versions"]
        /\ mirror' = [mirror EXCEPT !.claims = mirror.claims \cup g.snapshot.claims]
    BY <1>4, <1>k DEF IngestAddsClaims, Ingest
  <2>2. g.snapshot.claims \in SUBSET Anchors
    BY <1>c, <1>k, <2>1
  <2>3. /\ mirror' \in MirrorType /\ mirror'.row = mirror.row
        /\ mirror'.claims = mirror.claims \cup g.snapshot.claims /\ mirror'.versions = mirror.versions
    BY <1>p, <1>r, <2>1, <2>2
  <2> QED
    BY <1>s, <1>n, <2>1, <2>3 DEF IngestCourse
<1>5. CASE IngestDropsVersions(i)
  <2>1. /\ g.step = "drop versions" /\ g \in Arrived /\ served' = served
        /\ ingest' = [ingest EXCEPT ![i].step = "add versions"] /\ mirror' = [mirror EXCEPT !.versions = {}]
    BY <1>5, <1>k DEF IngestDropsVersions, Ingest
  <2>2. /\ mirror' \in MirrorType /\ mirror'.row = mirror.row
        /\ mirror'.claims = mirror.claims /\ mirror'.versions = {}
    <3>1. {} \in SUBSET Version /\ mirror' = [mirror EXCEPT !.versions = {}]
      BY <2>1
    <3> QED
      BY <1>v, <3>1
  <2> QED
    BY <1>s, <1>n, <2>1, <2>2 DEF IngestCourse
<1>6. CASE IngestAddsVersions(i)
  <2>1. /\ g.step = "add versions" /\ g \in Arrived
        /\ ingest' = [ingest EXCEPT ![i] = Idle]
        /\ mirror' = [mirror EXCEPT !.versions = mirror.versions \cup g.snapshot.versions]
        /\ served' = IF g.alone THEN [claims |-> g.snapshot.claims, versions |-> g.snapshot.versions]
                     ELSE None
    BY <1>6, <1>k DEF IngestAddsVersions
  <2>2. g.snapshot.versions \in SUBSET Version
    BY <1>c, <1>k, <2>1
  <2>3. /\ mirror' \in MirrorType /\ mirror'.row = mirror.row
        /\ mirror'.versions = mirror.versions \cup g.snapshot.versions /\ mirror'.claims = mirror.claims
    <3> DEFINE v == mirror.versions \cup g.snapshot.versions
    <3>1. v \in SUBSET Version /\ mirror' = [mirror EXCEPT !.versions = v]
      BY <1>r, <2>1, <2>2
    <3> HIDE DEF v
    <3>2. /\ mirror' \in MirrorType /\ mirror'.row = mirror.row
          /\ mirror'.claims = mirror.claims /\ mirror'.versions = v
      BY <1>v, <3>1
    <3> QED
      BY <3>2 DEF v
  <2> HIDE DEF g
  <2>4. /\ ingest' \in [Publishes -> {Idle} \cup Arriving \cup Arrived] /\ h = Idle
        /\ \A j \in Publishes \ {i} : ingest'[j] = ingest[j]
    BY <1>e, <2>1
  <2> QED
    BY <1>n, <2>1, <2>3, <2>4 DEF IngestCourse, g
<1>8. ASSUME NEW next \in {"versions", "sent"}, NEW c \in SUBSET Anchors, NEW v \in SUBSET Version,
             g \in Arriving, c \in {g.snapshot.claims, Proofs}, v \in {g.snapshot.versions, archived},
             mirror' = mirror, served' = served,
             NEW u, u.step = next, u.alone = g.alone, u \in Arriving, u.snapshot.row = g.snapshot.row,
             u.snapshot.claims = c, u.snapshot.versions = v,
             ingest' = [ingest EXCEPT ![i] = u]
      PROVE  IngestCourse(i)
  <2>1. /\ ingest' \in [Publishes -> {Idle} \cup Arriving \cup Arrived] /\ h = u
        /\ \A j \in Publishes \ {i} : ingest'[j] = ingest[j]
    BY <1>e, <1>8
  <2> QED
    BY <1>n, <1>q, <1>8, <2>1 DEF IngestCourse
<1>9. CASE PublishReadsProofs(i)
  <2> DEFINE u == [g EXCEPT !.step = "versions", !.snapshot.claims = Proofs]
  <2>1. /\ g \in Arriving /\ mirror' = mirror /\ served' = served
        /\ ingest' = [ingest EXCEPT ![i] = u]
    BY <1>9, <1>k DEF PublishReadsProofs
  <2>2. Proofs \in SUBSET Anchors
    BY DEF Proofs
  <2> HIDE DEF g
  <2>3. /\ u \in Arriving /\ u.step = "versions" /\ u.alone = g.alone
        /\ u.snapshot.row = g.snapshot.row /\ u.snapshot.claims = Proofs
        /\ u.snapshot.versions = g.snapshot.versions /\ g.snapshot.versions \in SUBSET Version
    BY <2>1, <2>2 DEF Arriving
  <2> HIDE DEF u
  <2> QED
    BY <1>8, <2>1, <2>2, <2>3 DEF g
<1>10. CASE PublishReadsVersions(i)
  <2> DEFINE u == [g EXCEPT !.step = "sent", !.snapshot.versions = archived]
  <2>1. /\ g \in Arriving /\ mirror' = mirror /\ served' = served
        /\ ingest' = [ingest EXCEPT ![i] = u]
    BY <1>10, <1>k DEF PublishReadsVersions
  <2>2. archived \in SUBSET Version
    BY DEF MirrorTypes
  <2> HIDE DEF g
  <2>3. /\ u \in Arriving /\ u.step = "sent" /\ u.alone = g.alone
        /\ u.snapshot.row = g.snapshot.row /\ u.snapshot.versions = archived
        /\ u.snapshot.claims = g.snapshot.claims /\ g.snapshot.claims \in SUBSET Anchors
    BY <2>1, <2>2 DEF Arriving
  <2> HIDE DEF u
  <2> QED
    BY <1>8, <2>1, <2>2, <2>3 DEF g
<1>7. CASE IngestFails(i)
  <2>1. /\ g # Idle /\ ingest' = [ingest EXCEPT ![i] = Idle]
        /\ mirror' = mirror /\ served' = served
    BY <1>7 DEF IngestFails
  <2>2. /\ ingest' \in [Publishes -> {Idle} \cup Arriving \cup Arrived] /\ h = Idle
        /\ \A j \in Publishes \ {i} : ingest'[j] = ingest[j]
    BY <1>e, <2>1
  <2> QED
    BY <1>n, <1>q, <2>1, <2>2 DEF IngestCourse
<1> QED
  BY <1>1, <1>2, <1>3, <1>4, <1>5, <1>6, <1>7, <1>9, <1>10

\* A publish starts with the producer's row; those it overlaps are alone no more.
LEMMA PublishMoves ==
  ASSUME MirrorTypes, NEW i \in Publishes, Publish(i)
  PROVE  /\ ingest' \in [Publishes -> {Idle} \cup Arriving \cup Arrived]
         /\ UNCHANGED <<row, content, archived, claims, vault, target, attested, proven, mirror, sync>>
         /\ row.status = "anchored" /\ served' = None
         /\ ingest[i] = Idle /\ ingest'[i] \in Arriving /\ ingest'[i].step = "proofs"
         /\ ingest'[i].snapshot.row = row /\ ingest'[i].snapshot.claims = {}
         /\ ingest'[i].snapshot.versions = {}
         /\ ingest'[i].alone => \A j \in Publishes \ {i} : ingest'[j] = Idle
         /\ \A j \in Publishes \ {i} :
              \/ ingest[j] = Idle /\ ingest'[j] = Idle
              \/ /\ ingest[j] # Idle /\ ~ingest'[j].alone /\ ingest'[j].snapshot = ingest[j].snapshot
                 /\ ingest'[j] \in Arriving /\ ingest[j] \in Arriving
              \/ /\ ingest[j] # Idle /\ ~ingest'[j].alone /\ ingest'[j].snapshot = ingest[j].snapshot
                 /\ ingest'[j] \in Arrived /\ ingest[j] \in Arrived
<1>t. row \in Row /\ archived \subseteq Version
      /\ ingest \in [Publishes -> {Idle} \cup Arriving \cup Arrived]
  BY DEF MirrorTypes
<1>n. /\ UNCHANGED <<row, content, archived, claims, vault, target, attested, proven, mirror, sync>>
      /\ row.status = "anchored" /\ served' = None /\ ingest[i] = Idle
  BY DEF Publish, producer, chain
<1> DEFINE alone == \A k \in Publishes \ {i} : ingest[k] = Idle
           new == [step |-> "proofs", found |-> FALSE, alone |-> alone,
                   snapshot |-> [row |-> row, claims |-> {}, versions |-> {}]]
<1>1. ingest' = [j \in Publishes |-> IF j = i THEN new
                                     ELSE IF ingest[j] = Idle THEN Idle
                                     ELSE [ingest[j] EXCEPT !.alone = FALSE]]
  BY DEF Publish
<1>2. /\ new \in Arriving /\ new.step = "proofs" /\ new.snapshot.row = row
      /\ new.snapshot.claims = {} /\ new.snapshot.versions = {}
      /\ new.alone = alone
  <2>1. alone \in BOOLEAN
    OBVIOUS
  <2> HIDE DEF alone
  <2> QED
    BY <1>t, <2>1 DEF Arriving
<1> HIDE DEF new
<1>3. ingest'[i] = new
  BY <1>1
<1>4. ASSUME NEW j \in Publishes \ {i}
      PROVE  /\ ingest'[j] \in {Idle} \cup Arriving \cup Arrived
             /\ \/ ingest[j] = Idle /\ ingest'[j] = Idle
                \/ /\ ingest[j] # Idle /\ ~ingest'[j].alone /\ ingest'[j].snapshot = ingest[j].snapshot
                   /\ ingest'[j] \in Arriving /\ ingest[j] \in Arriving
                \/ /\ ingest[j] # Idle /\ ~ingest'[j].alone /\ ingest'[j].snapshot = ingest[j].snapshot
                   /\ ingest'[j] \in Arrived /\ ingest[j] \in Arrived
  <2>1. CASE ingest[j] = Idle
    BY <1>1, <2>1
  <2>2. CASE ingest[j] # Idle
    <3> DEFINE g == ingest[j]
    <3>1. ingest'[j] = [g EXCEPT !.alone = FALSE] /\ g \in Arriving \cup Arrived
      BY <1>1, <1>t, <2>2
    <3> HIDE DEF g
    <3>2. g \in Arriving =>
            /\ [g EXCEPT !.alone = FALSE] \in Arriving /\ ~[g EXCEPT !.alone = FALSE].alone
            /\ [g EXCEPT !.alone = FALSE].snapshot = g.snapshot
      BY ArrivingMoves
    <3>3. g \in Arrived =>
            /\ [g EXCEPT !.alone = FALSE] \in Arrived /\ ~[g EXCEPT !.alone = FALSE].alone
            /\ [g EXCEPT !.alone = FALSE].snapshot = g.snapshot
      BY ArrivedMoves
    <3> QED
      BY <2>2, <3>1, <3>2, <3>3 DEF g
  <2> QED
    BY <2>1, <2>2
<1>5. ingest' \in [Publishes -> {Idle} \cup Arriving \cup Arrived]
  BY <1>1, <1>2, <1>3, <1>4
<1>6. new.alone => \A j \in Publishes \ {i} : ingest'[j] = Idle
  BY <1>1, <1>2
<1> QED
  BY <1>n, <1>2, <1>3, <1>4, <1>5, <1>6

\* A round of the sync takes the row along, and writes it.
LEMMA SyncMoves ==
  ASSUME MirrorTypes, NEW s \in Syncs,
         SyncFetches(s) \/ SyncWritesRow(s) \/ SyncFails(s)
  PROVE  /\ UNCHANGED <<row, content, archived, claims, vault, target, attested, proven, ingest, served>>
         /\ sync' \in [Syncs -> Row \cup {None}]
         /\ sync'[s] \in {row, None} /\ \A t \in Syncs \ {s} : sync'[t] = sync[t]
         /\ mirror' \in [row : Row \cup {None}, claims : SUBSET Anchors,
                         versions : SUBSET Version]
         /\ mirror'.claims = mirror.claims /\ mirror'.versions = mirror.versions
         /\ mirror'.row = mirror.row \/ (sync[s] # None /\ mirror'.row = sync[s])
<1>t. /\ row \in Row /\ sync \in [Syncs -> Row \cup {None}]
      /\ mirror \in [row : Row \cup {None}, claims : SUBSET Anchors,
                     versions : SUBSET Version]
  BY DEF MirrorTypes
<1>1. UNCHANGED <<row, content, archived, claims, vault, target, attested, proven, ingest, served>>
  BY DEF SyncFetches, SyncWritesRow, SyncFails, producer, chain
<1>2. \E r \in {row, None} : sync' = [sync EXCEPT ![s] = r]
  BY DEF SyncFetches, SyncWritesRow, SyncFails
<1>3. /\ sync' \in [Syncs -> Row \cup {None}]
      /\ sync'[s] \in {row, None} /\ \A t \in Syncs \ {s} : sync'[t] = sync[t]
  BY <1>t, <1>2
<1>4. mirror' = mirror \/ (sync[s] # None /\ mirror' = [mirror EXCEPT !.row = sync[s]])
  BY DEF SyncFetches, SyncWritesRow, SyncFails
<1>5. sync[s] \in Row \cup {None}
  BY <1>t
<1>6. /\ mirror' \in [row : Row \cup {None}, claims : SUBSET Anchors,
                      versions : SUBSET Version]
      /\ mirror'.claims = mirror.claims /\ mirror'.versions = mirror.versions
      /\ mirror'.row = mirror.row \/ (sync[s] # None /\ mirror'.row = sync[s])
  BY <1>t, <1>4, <1>5
<1> QED
  BY <1>1, <1>3, <1>6

ProducerStep ==
  \/ ChangeContent \/ Redeploy \/ Submit \/ ReanchorPassport \/ AnchorSucceeds
  \/ AnchorFails \/ AskProof
  \/ \E a \in Anchors : LandAnchor(a) \/ ProofSucceeds(a)

LEMMA MirrorSteps ==
  ASSUME MaxContent \in Nat \ {0}, MaxVault \in 1..5, MirrorTypes, [MirrorNext]_mirrorVars
  PROVE  /\ MirrorTypes'
         /\ \/ UNCHANGED mirrorVars
            \/ ProducerStep
            \/ \E i \in Publishes : Publish(i) \/ IngestCourse(i)
            \/ \E s \in Syncs : SyncFetches(s) \/ SyncWritesRow(s) \/ SyncFails(s)
<1>1. CASE UNCHANGED mirrorVars
  BY <1>1 DEF mirrorVars, MirrorTypes
<1>2. CASE ProducerStep
  BY <1>2, ProducerTypes DEF ProducerStep
<1>3. ASSUME NEW i \in Publishes, Publish(i)
      PROVE  MirrorTypes'
  BY <1>3, PublishMoves DEF MirrorTypes
<1>4. ASSUME NEW i \in Publishes,
             \/ PublishReadsProofs(i) \/ PublishReadsVersions(i)
             \/ IngestSelects(i) \/ IngestWritesRow(i)
             \/ IngestDropsClaims(i) \/ IngestAddsClaims(i)
             \/ IngestDropsVersions(i) \/ IngestAddsVersions(i) \/ IngestFails(i)
      PROVE  MirrorTypes' /\ IngestCourse(i)
  <2>1. IngestCourse(i)
    BY <1>4, IngestMoves
  <2>2. /\ ingest' \in [Publishes -> {Idle} \cup Arriving \cup Arrived]
        /\ mirror' \in [row : Row \cup {None}, claims : SUBSET Anchors,
                        versions : SUBSET Version]
        /\ UNCHANGED <<row, content, archived, claims, vault, target, attested, proven, sync>>
    BY <2>1 DEF IngestCourse
  <2> QED
    BY <2>1, <2>2 DEF MirrorTypes
<1>5. ASSUME NEW s \in Syncs, SyncFetches(s) \/ SyncWritesRow(s) \/ SyncFails(s)
      PROVE  MirrorTypes'
  BY <1>5, SyncMoves DEF MirrorTypes
<1> QED
  BY <1>1, <1>2, <1>3, <1>4, <1>5 DEF MirrorNext, ProducerStep

-----------------------------------------------------------------------------
(* The explorer's mirror: what is listed is on the chain *)

\* A row that calls itself anchored is on the chain.
Honest(r) == r.status = "anchored" => AnchorOf(r) \in attested

\* What is anchored, superseded or proven is on the chain: at the producer, on
\* its way in a publish or a sync round, and in the mirror.
HonestInvariant ==
  /\ Honest(row) /\ (\A v \in archived : AnchorOf(v) \in attested) /\ Proofs \subseteq proven
  /\ \A i \in Publishes : ingest[i] # Idle =>
       /\ ingest[i] \in Arriving => Honest(ingest[i].snapshot.row)
       /\ \A v \in ingest[i].snapshot.versions : AnchorOf(v) \in attested
       /\ ingest[i].snapshot.claims \subseteq proven
  /\ \A s \in Syncs : sync[s] # None => Honest(sync[s])
  /\ mirror.row # None => Honest(mirror.row)
  /\ \A v \in mirror.versions : AnchorOf(v) \in attested
  /\ mirror.claims \subseteq proven

\* The producer counts as anchored, archived and proven what the chain has.
LEMMA ProducerIsHonest ==
  ASSUME MirrorTypes, HonestInvariant, ProducerStep
  PROVE  /\ UNCHANGED <<mirror, ingest, sync>> /\ attested \subseteq attested' /\ proven \subseteq proven'
         /\ row'.status = "anchored" => AnchorOf(row') \in attested'
         /\ \A v \in archived' : AnchorOf(v) \in attested'
         /\ Proofs' \subseteq proven'
<1> USE DEF producer, explorer, chain
<1>t. /\ row \in Row
      /\ claims \in [Anchors -> {"none", "pending", "succeeded"}]
  BY DEF MirrorTypes
<1>h. /\ row.status = "anchored" => AnchorOf(row) \in attested
      /\ \A v \in archived : AnchorOf(v) \in attested
      /\ {a \in Anchors : claims[a] = "succeeded"} \subseteq proven
  BY DEF HonestInvariant, Honest, Proofs
<1>1. UNCHANGED <<mirror, ingest, sync>> /\ attested \subseteq attested' /\ proven \subseteq proven'
  BY DEF ProducerStep, ChangeContent, Redeploy, Submit, StartAnchor, ReanchorPassport, AnchorSucceeds,
     AnchorFails, AskProof, LandAnchor, ProofSucceeds
<1>2. row'.status = "anchored" => AnchorOf(row') \in attested'
  <2>1. CASE AnchorSucceeds
    <3>1. [hash |-> row.hash, vault |-> target] \in attested
      BY <2>1 DEF AnchorSucceeds
    <3>2. row'.hash = row.hash /\ row'.vault = target
      BY <1>t, <2>1 DEF AnchorSucceeds, Row
    <3> QED
      BY <1>1, <3>1, <3>2 DEF AnchorOf
  <2>2. ~AnchorSucceeds => row' = row \/ row'.status # "anchored"
    BY <1>t DEF ProducerStep, ChangeContent, Redeploy, Submit, StartAnchor, ReanchorPassport,
       AnchorFails, AskProof, LandAnchor, ProofSucceeds, Row
  <2> QED
    BY <1>h, <1>1, <2>1, <2>2
<1>3. \A v \in archived' : AnchorOf(v) \in attested'
  <2>1. \/ archived' = archived
        \/ /\ row.status = "anchored"
           /\ archived' = archived \cup {[hash |-> row.hash, vault |-> row.vault, record |-> row.record]}
    BY DEF ProducerStep, ChangeContent, Redeploy, Submit, ReanchorPassport, AnchorSucceeds,
       AnchorFails, AskProof, LandAnchor, ProofSucceeds
  <2>2. AnchorOf([hash |-> row.hash, vault |-> row.vault, record |-> row.record]) = AnchorOf(row)
    BY DEF AnchorOf
  <2> QED
    BY <1>h, <1>1, <2>1, <2>2
<1>4. {a \in Anchors : claims'[a] = "succeeded"} \subseteq proven'
  <2>1. \/ claims' = claims
        \/ claims' = [claims EXCEPT ![AnchorOf(row)] = "pending"]
        \/ \E a \in Anchors : claims' = [claims EXCEPT ![a] = "succeeded"] /\ proven' = proven \cup {a}
    BY DEF ProducerStep, ChangeContent, Redeploy, Submit, StartAnchor, ReanchorPassport, AnchorSucceeds,
       AnchorFails, AskProof, LandAnchor, ProofSucceeds
  <2> QED
    BY <1>h, <1>t, <1>1, <2>1
<1> QED
  BY <1>1, <1>2, <1>3, <1>4 DEF Proofs, Anchors, Hashes, Vaults

LEMMA NextHonest ==
  ASSUME MaxContent \in Nat \ {0}, MaxVault \in 1..5
  PROVE  MirrorTypes /\ HonestInvariant /\ [MirrorNext]_mirrorVars => HonestInvariant'
<1> SUFFICES ASSUME MirrorTypes, HonestInvariant, [MirrorNext]_mirrorVars PROVE HonestInvariant'
  OBVIOUS
<1>h. /\ Honest(row) /\ (\A v \in archived : AnchorOf(v) \in attested) /\ Proofs \subseteq proven
      /\ \A j \in Publishes : ingest[j] # Idle =>
           /\ ingest[j] \in Arriving => Honest(ingest[j].snapshot.row)
           /\ \A v \in ingest[j].snapshot.versions : AnchorOf(v) \in attested
           /\ ingest[j].snapshot.claims \subseteq proven
      /\ \A s \in Syncs : sync[s] # None => Honest(sync[s])
      /\ mirror.row # None => Honest(mirror.row)
      /\ \A v \in mirror.versions : AnchorOf(v) \in attested
      /\ mirror.claims \subseteq proven
  BY DEF HonestInvariant
<1>k. \A g : /\ g \in Arriving \cup Arrived => g # Idle
             /\ g \in Arriving => g \notin Arrived
  BY ArrivingMoves, ArrivedMoves
<1>1. CASE UNCHANGED mirrorVars
  BY <1>h, <1>1 DEF mirrorVars, HonestInvariant, Honest, Proofs, Anchors, Hashes, Vaults
<1>2. CASE ProducerStep
  <2>1. /\ UNCHANGED <<mirror, ingest, sync>> /\ attested \subseteq attested' /\ proven \subseteq proven'
        /\ row'.status = "anchored" => AnchorOf(row') \in attested'
        /\ \A v \in archived' : AnchorOf(v) \in attested'
        /\ Proofs' \subseteq proven'
    BY <1>2, ProducerIsHonest
  <2> QED
    BY <1>h, <2>1 DEF HonestInvariant, Honest
<1>3. ASSUME NEW i \in Publishes, Publish(i) \/ IngestCourse(i)
      PROVE  UNCHANGED <<row, archived, claims, attested, proven, sync>>
  BY <1>3, PublishMoves DEF IngestCourse
<1>4. ASSUME UNCHANGED <<row, archived, claims, attested, proven>>,
             \A j \in Publishes : ingest'[j] # Idle =>
               /\ ingest'[j] \in Arriving => Honest(ingest'[j].snapshot.row)
               /\ \A v \in ingest'[j].snapshot.versions : AnchorOf(v) \in attested
               /\ ingest'[j].snapshot.claims \subseteq proven,
             \A s \in Syncs : sync'[s] # None => Honest(sync'[s]),
             mirror'.row # None => Honest(mirror'.row),
             \A v \in mirror'.versions : AnchorOf(v) \in attested,
             mirror'.claims \subseteq proven
      PROVE  HonestInvariant'
  BY <1>h, <1>4 DEF HonestInvariant, Honest, Proofs, Anchors, Hashes, Vaults
<1>5. ASSUME NEW i \in Publishes, Publish(i)
      PROVE  HonestInvariant'
  <2>1. \A j \in Publishes : ingest'[j] # Idle =>
               /\ ingest'[j] \in Arriving => Honest(ingest'[j].snapshot.row)
               /\ \A v \in ingest'[j].snapshot.versions : AnchorOf(v) \in attested
               /\ ingest'[j].snapshot.claims \subseteq proven
    <3>1. ASSUME NEW j \in Publishes \ {i}, ingest'[j] # Idle
          PROVE  /\ ingest'[j] \in Arriving => Honest(ingest'[j].snapshot.row)
                 /\ \A v \in ingest'[j].snapshot.versions : AnchorOf(v) \in attested
                 /\ ingest'[j].snapshot.claims \subseteq proven
      <4>1. /\ ingest[j] # Idle /\ ingest'[j].snapshot = ingest[j].snapshot
            /\ ingest'[j] \in Arriving => ingest[j] \in Arriving
        BY <1>5, <1>k, <3>1, PublishMoves
      <4> QED
        BY <1>h, <4>1
    <3>2. /\ ingest'[i].snapshot.row = row /\ ingest'[i].snapshot.claims = {}
          /\ ingest'[i].snapshot.versions = {}
      BY <1>5, PublishMoves
    <3> QED
      BY <1>h, <3>1, <3>2
  <2>2. UNCHANGED <<row, archived, claims, attested, proven, mirror, sync>>
    BY <1>5, PublishMoves
  <2> QED
    BY <1>h, <1>4, <2>1, <2>2
<1>6. ASSUME NEW i \in Publishes, IngestCourse(i)
      PROVE  HonestInvariant'
  <2> DEFINE g == ingest[i]
             h == ingest'[i]
  <2>1. /\ \A j \in Publishes \ {i} : ingest'[j] = ingest[j]
        /\ UNCHANGED <<row, archived, claims, attested, proven, sync>>
    BY <1>6 DEF IngestCourse
  <2>2. \/ h = Idle
        \/ /\ g # Idle /\ h.snapshot.claims \in {g.snapshot.claims, Proofs}
           /\ h.snapshot.versions \in {g.snapshot.versions, archived}
           /\ h \in Arriving => g \in Arriving /\ h.snapshot.row = g.snapshot.row
    BY <1>6, <1>k DEF IngestCourse
  <2>3. mirror'.row = mirror.row \/ (g \in Arriving /\ mirror'.row = g.snapshot.row)
    BY <1>6, <1>k DEF IngestCourse
  <2>4. /\ mirror'.claims \subseteq mirror.claims \cup g.snapshot.claims
        /\ mirror'.versions \subseteq mirror.versions \cup g.snapshot.versions
        /\ g # Idle
    BY <1>6, <1>k DEF IngestCourse
  <2>5. \A j \in Publishes : ingest'[j] # Idle =>
               /\ ingest'[j] \in Arriving => Honest(ingest'[j].snapshot.row)
               /\ \A v \in ingest'[j].snapshot.versions : AnchorOf(v) \in attested
               /\ ingest'[j].snapshot.claims \subseteq proven
    BY <1>h, <2>1, <2>2
  <2>6. /\ mirror'.row # None => Honest(mirror'.row)
        /\ \A v \in mirror'.versions : AnchorOf(v) \in attested
        /\ mirror'.claims \subseteq proven
    BY <1>h, <2>3, <2>4
  <2> QED
    BY <1>h, <1>4, <2>1, <2>5, <2>6
<1>7. ASSUME NEW s \in Syncs, SyncFetches(s) \/ SyncWritesRow(s) \/ SyncFails(s)
      PROVE  HonestInvariant'
  <2>1. /\ UNCHANGED <<row, content, archived, claims, vault, target, attested, proven, ingest, served>>
        /\ sync'[s] \in {row, None} /\ \A t \in Syncs \ {s} : sync'[t] = sync[t]
        /\ mirror'.claims = mirror.claims /\ mirror'.versions = mirror.versions
        /\ mirror'.row = mirror.row \/ (sync[s] # None /\ mirror'.row = sync[s])
    BY <1>7, SyncMoves
  <2>2. \A t \in Syncs : sync'[t] # None => Honest(sync'[t])
    BY <1>h, <2>1
  <2> QED
    BY <1>h, <1>4, <2>1, <2>2
<1> QED
  BY <1>1, <1>2, <1>5, <1>6, <1>7, MirrorSteps

-----------------------------------------------------------------------------
(* The explorer's mirror: what a publish brought is served *)

\* Where an ingest that no publish overlapped has come to with the mirror.
AloneIsInStep(i) ==
  /\ \A j \in Publishes \ {i} : ingest[j] = Idle
  /\ ingest[i].step = "add claims" => mirror.claims = {}
  /\ ingest[i].step \in {"drop versions", "add versions"} => mirror.claims = ingest[i].snapshot.claims
  /\ ingest[i].step = "add versions" => mirror.versions = {}

\* While something is served, nothing is being ingested.
ServedInvariant ==
  /\ \A i \in Publishes : ingest[i] \in Arrived => mirror.row # None
  /\ \A i \in Publishes : ingest[i] # Idle /\ ingest[i].alone => AloneIsInStep(i)
  /\ served # None =>
       /\ \A i \in Publishes : ingest[i] = Idle
       /\ mirror.row # None /\ mirror.claims = served.claims /\ mirror.versions = served.versions

LEMMA NextServed ==
  ASSUME MaxContent \in Nat \ {0}, MaxVault \in 1..5, None \notin Row
  PROVE  MirrorTypes /\ ServedInvariant /\ [MirrorNext]_mirrorVars => ServedInvariant'
<1> SUFFICES ASSUME MirrorTypes, ServedInvariant, [MirrorNext]_mirrorVars PROVE ServedInvariant'
  OBVIOUS
<1>h. /\ \A i \in Publishes : ingest[i] \in Arrived => mirror.row # None
      /\ \A i \in Publishes : ingest[i] # Idle /\ ingest[i].alone => AloneIsInStep(i)
      /\ served # None =>
           /\ \A i \in Publishes : ingest[i] = Idle
           /\ mirror.row # None /\ mirror.claims = served.claims /\ mirror.versions = served.versions
  BY DEF ServedInvariant
<1>k. \A g : /\ g \in Arriving => g # Idle /\ g \notin Arrived /\ g.step \in {"proofs", "versions", "sent", "row"}
             /\ g \in Arrived => /\ g # Idle /\ g \notin Arriving
                                 /\ g.step \in {"drop claims", "add claims", "drop versions", "add versions"}
  <2>1. \A g \in Arriving : g # Idle /\ g.step \in {"proofs", "versions", "sent", "row"}
    BY ArrivingMoves
  <2>2. \A g \in Arrived : /\ g # Idle
                           /\ g.step \in {"drop claims", "add claims", "drop versions", "add versions"}
    BY ArrivedMoves
  <2> QED
    BY <2>1, <2>2
<1>1. CASE UNCHANGED <<mirror, ingest, served>>
  BY <1>h, <1>1 DEF ServedInvariant, AloneIsInStep
<1>2. ProducerStep => UNCHANGED <<mirror, ingest, served>>
  BY DEF ProducerStep, explorer, ChangeContent, Redeploy, Submit, StartAnchor, ReanchorPassport,
     AnchorSucceeds, AnchorFails, AskProof, LandAnchor, ProofSucceeds
<1>3. ASSUME NEW i \in Publishes, Publish(i)
      PROVE  ServedInvariant'
  <2>1. /\ mirror' = mirror /\ served' = None
        /\ ingest'[i] \in Arriving /\ ingest'[i].step = "proofs"
        /\ ingest'[i].alone => \A j \in Publishes \ {i} : ingest'[j] = Idle
        /\ \A j \in Publishes \ {i} :
             \/ ingest'[j] = Idle
             \/ ~ingest'[j].alone /\ (ingest'[j] \in Arrived => ingest[j] \in Arrived)
    BY <1>3, <1>k, PublishMoves
  <2>2. \A j \in Publishes : ingest'[j] \in Arrived => mirror'.row # None
    BY <1>h, <1>k, <2>1
  <2>3. ASSUME NEW j \in Publishes, ingest'[j] # Idle, ingest'[j].alone
        PROVE  AloneIsInStep(j)'
    <3>1. j = i
      BY <2>1, <2>3
    <3> QED
      BY <2>1, <2>3, <3>1 DEF AloneIsInStep
  <2> QED
    BY <2>1, <2>2, <2>3 DEF ServedInvariant
<1>4. ASSUME NEW i \in Publishes, IngestCourse(i)
      PROVE  ServedInvariant'
  <2> DEFINE g == ingest[i]
             h == ingest'[i]
  <2>1. \A j \in Publishes \ {i} : ingest'[j] = ingest[j]
    BY <1>4 DEF IngestCourse
  <2>2. g # Idle /\ served = None
    BY <1>4, <1>h, <1>k DEF IngestCourse
  <2>3. g \in Arriving => g.snapshot.row # None
    <3>1. g \in Arriving => g.snapshot.row \in Row
      BY DEF Arriving
    <3> QED
      BY <3>1
  <2>4. \A j \in Publishes : ingest'[j] \in Arrived => mirror'.row # None
    <3>1. mirror'.row = mirror.row \/ mirror'.row # None
      BY <1>4, <2>3 DEF IngestCourse
    <3>2. h \in Arrived => mirror'.row # None \/ (g \in Arrived /\ mirror'.row = mirror.row)
      BY <1>4, <1>k, <2>3 DEF IngestCourse
    <3> QED
      BY <1>h, <2>1, <3>1, <3>2
  <2>5. g.alone => AloneIsInStep(i)
    BY <1>h, <2>2
  <2>6. ASSUME NEW j \in Publishes, ingest'[j] # Idle, ingest'[j].alone
        PROVE  AloneIsInStep(j)'
    <3>1. j = i
      <4>1. CASE j # i
        <5>1. ingest[j] # Idle /\ ingest[j].alone
          BY <2>1, <2>6, <4>1
        <5>2. AloneIsInStep(j)
          BY <1>h, <5>1
        <5> QED
          BY <2>2, <4>1, <5>2 DEF AloneIsInStep
      <4> QED
        BY <4>1
    <3>2. h # Idle /\ h.alone
      BY <2>6, <3>1
    <3>3. g.alone
      BY <1>4, <3>2 DEF IngestCourse
    <3>4. /\ \A k \in Publishes \ {i} : ingest'[k] = Idle
          /\ g.step = "add claims" => mirror.claims = {}
          /\ g.step \in {"drop versions", "add versions"} => mirror.claims = g.snapshot.claims
      BY <2>1, <2>5, <3>3 DEF AloneIsInStep
    <3>5. h.step = "add claims" => mirror'.claims = {}
      BY <1>4, <3>2 DEF IngestCourse
    <3>6. h.step \in {"drop versions", "add versions"} => mirror'.claims = h.snapshot.claims
      BY <1>4, <3>2, <3>4 DEF IngestCourse
    <3>7. h.step = "add versions" => mirror'.versions = {}
      BY <1>4, <3>2 DEF IngestCourse
    <3> QED
      BY <3>1, <3>4, <3>5, <3>6, <3>7 DEF AloneIsInStep
  <2>7. ASSUME served' # None
        PROVE  /\ \A j \in Publishes : ingest'[j] = Idle
               /\ mirror'.row # None /\ mirror'.claims = served'.claims /\ mirror'.versions = served'.versions
    <3>1. /\ g \in Arrived /\ g.step = "add versions" /\ h = Idle
          /\ mirror'.row = mirror.row /\ mirror'.claims = mirror.claims
          /\ mirror'.versions = mirror.versions \cup g.snapshot.versions
          /\ served' = IF g.alone THEN [claims |-> g.snapshot.claims, versions |-> g.snapshot.versions]
                       ELSE None
      BY <1>4, <2>2, <2>7 DEF IngestCourse
    <3>2. g.alone /\ served' = [claims |-> g.snapshot.claims, versions |-> g.snapshot.versions]
      BY <2>7, <3>1
    <3>3. /\ \A j \in Publishes \ {i} : ingest[j] = Idle
          /\ mirror.claims = g.snapshot.claims /\ mirror.versions = {}
      BY <2>5, <3>1, <3>2 DEF AloneIsInStep
    <3>4. mirror.row # None
      BY <1>h, <3>1
    <3>5. served'.claims = g.snapshot.claims /\ served'.versions = g.snapshot.versions
      BY <3>2
    <3>6. mirror'.versions = g.snapshot.versions
      BY <3>1, <3>3
    <3>7. \A j \in Publishes : ingest'[j] = Idle
      BY <2>1, <3>1, <3>3
    <3> QED
      BY <3>1, <3>3, <3>4, <3>5, <3>6, <3>7
  <2> QED
    BY <2>4, <2>6, <2>7 DEF ServedInvariant
<1>5. ASSUME NEW s \in Syncs, SyncFetches(s) \/ SyncWritesRow(s) \/ SyncFails(s)
      PROVE  ServedInvariant'
  <2>1. /\ ingest' = ingest /\ served' = served
        /\ mirror'.claims = mirror.claims /\ mirror'.versions = mirror.versions
        /\ mirror.row # None => mirror'.row # None
    BY <1>5, SyncMoves
  <2> QED
    BY <1>h, <2>1 DEF ServedInvariant, AloneIsInStep
<1> QED
  BY <1>1, <1>2, <1>3, <1>4, <1>5, MirrorSteps DEF mirrorVars

LEMMA MirrorStart ==
  ASSUME MaxContent \in Nat \ {0}, MaxVault \in 1..5
  PROVE  MirrorInit => HonestInvariant /\ ServedInvariant
<1> SUFFICES ASSUME MirrorInit PROVE HonestInvariant /\ ServedInvariant
  OBVIOUS
<1>1. /\ row.status = "draft" /\ archived = {} /\ served = None
      /\ \A a \in Anchors : claims[a] = "none"
      /\ mirror = [row |-> None, claims |-> {}, versions |-> {}]
      /\ \A i \in Publishes : ingest[i] = Idle
      /\ \A s \in Syncs : sync[s] = None
  BY DEF MirrorInit
<1>2. Idle \notin Arrived
  BY ArrivedMoves
<1> QED
  BY <1>1, <1>2 DEF HonestInvariant, Honest, ServedInvariant, Proofs

\* Whatever the explorer lists is confirmed by the live check next to it, for any
\* number of publishes and sync rounds that overtake each other: a claim as long
\* as the mirror knows its vault, which a sync after a redeployment can take away.
THEOREM ListingsVerify == MirrorSpec => []ListedVerifies
<1>1. ASSUME MirrorTypes, HonestInvariant
      PROVE  ListedVerifies
  <2>1. ASSUME NEW c \in mirror.claims, c.vault \in KnownVaults
        PROVE  ClaimVerifies(c.hash)
    <3>1. c \in Anchors /\ c \in proven
      BY <1>1 DEF MirrorTypes, HonestInvariant
    <3>2. c = [hash |-> c.hash, vault |-> c.vault]
      BY <3>1 DEF Anchors
    <3> QED
      BY <2>1, <3>1, <3>2 DEF ClaimVerifies
  <2> QED
    BY <1>1, <2>1 DEF HonestInvariant, Honest, ListedVerifies, RowVerifies, VersionVerifies
<1>2. MaxContent \in Nat \ {0} /\ MaxVault \in 1..5
  BY MirrorAssumption
<1>3. MirrorTypes /\ [MirrorNext]_mirrorVars => MirrorTypes'
  BY <1>2, MirrorSteps
<1> QED
  BY <1>1, <1>2, <1>3, MirrorInitTypes, MirrorStart, NextHonest, PTL DEF MirrorSpec

\* A publish that reached its end and that no other one overlapped is served,
\* claims and history, until the next one is sent, whatever the sync writes.
THEOREM PublishesAreServed == MirrorSpec => []PublishedIsServed
<1>1. ServedInvariant => PublishedIsServed
  BY DEF ServedInvariant, PublishedIsServed, Resolves, History
<1>2. MaxContent \in Nat \ {0} /\ MaxVault \in 1..5 /\ None \notin Row
  BY MirrorAssumption
<1>3. MirrorTypes /\ [MirrorNext]_mirrorVars => MirrorTypes'
  BY <1>2, MirrorSteps
<1> QED
  BY <1>1, <1>2, <1>3, MirrorInitTypes, MirrorStart, NextServed, PTL DEF MirrorSpec
=================================================================================
