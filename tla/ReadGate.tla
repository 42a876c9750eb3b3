-------------------------------- MODULE ReadGate --------------------------------
(***************************************************************************)
(* Disclosure grants and the read gate of one passport: how a grant or a   *)
(* revoke is asked for, reaches the vault's ACL, is booked in              *)
(* DisclosureGrantLog and read back as the tier a partner gets, while the  *)
(* passport is anchored again under other payload hashes.                  *)
(*                                                                         *)
(* Rows are numbered in the order of their createdAt; a payload hash is a  *)
(* member of a set, and may come back with the content it stands for.      *)
(***************************************************************************)
EXTENDS Integers, FiniteSets

CONSTANTS
  Grantees, Payloads,
  MaxLevel,     \* the highest disclosure level (2 in the code)
  MaxRows,      \* bound: log rows
  Lanes,        \* who sends: a subset of {"server", "wallet"}
  Ordered,      \* whether the transactions of one lane land in their order
  Migrations,   \* whether the passport is anchored again
  Restarts      \* whether the process may restart

ASSUME GateAssumption ==
  /\ {MaxLevel, MaxRows} \subseteq Nat
  /\ Lanes \subseteq {"server", "wallet"}
  /\ {Ordered, Migrations, Restarts} \subseteq BOOLEAN
  /\ Grantees # {} /\ Payloads # {}

VARIABLES
  payload,   \* Passports.payloadHash
  acl,       \* the vault's disclosures: level by payload and grantee
  index,     \* midnight.DisclosureGrants, the plugin's copy of it
  log,       \* DisclosureGrantLog
  tx,        \* the transaction of each row
  runner,    \* who settles the row in this process
  reported,  \* whether the server knows of the row (a wallet's is reported late)
  granted    \* history: the levels that ever were granted, by grantee

vars == <<payload, acl, index, log, tx, runner, reported, granted>>

Rows == 1..MaxRows
NoLevel == -1
Levels == 0..MaxLevel
NoGrants == [p \in Payloads |-> [g \in Grantees |-> NoLevel]]

\* hash is not a column, but the payload the transaction names; verified is the
\* one the server captured to verify a wallet's transaction by.
RowType ==
  [status : {"none", "offline", "pending", "succeeded", "failed"}, grantee : Grantees,
   op : {"grant", "revoke"}, level : Levels,
   hash : Payloads, verified : Payloads, lane : {"server", "wallet"}]

GateTypeOK ==
  /\ payload \in Payloads
  /\ {acl, index} \subseteq [Payloads -> [Grantees -> Levels \cup {NoLevel}]]
  /\ log \in [Rows -> RowType]
  /\ tx \in [Rows -> {"none", "inflight", "landed", "dropped"}]
  /\ runner \in [Rows -> {"none", "waits", "tracks"}]
  /\ reported \subseteq Rows
  /\ granted \subseteq Grantees \X Levels

NoRow == [status |-> "none", grantee |-> CHOOSE g \in Grantees : TRUE, op |-> "revoke",
          level |-> 0, hash |-> CHOOSE p \in Payloads : TRUE,
          verified |-> CHOOSE p \in Payloads : TRUE, lane |-> "server"]

Init ==
  /\ payload \in Payloads
  /\ acl = NoGrants
  /\ index = NoGrants
  /\ log = [r \in Rows |-> NoRow]
  /\ tx = [r \in Rows |-> "none"]
  /\ runner = [r \in Rows |-> "none"]
  /\ reported = {}
  /\ granted = {}

-----------------------------------------------------------------------------
(* Asking *)

Used == {r \in Rows : log[r].status # "none"}
NextRow == Cardinality(Used) + 1

Request(lane, status, op, g, l) ==
  /\ NextRow \in Rows
  /\ op = "revoke" => l = 0
  /\ log' = [log EXCEPT ![NextRow] = [status |-> status, grantee |-> g, op |-> op,
                                      level |-> l, hash |-> payload, verified |-> payload,
                                      lane |-> lane]]

\* disclosure(): without a session or a vault the row counts as it is.
GrantOffline(op, g, l) ==
  /\ Request("server", "offline", op, g, l)
  /\ granted' = IF op = "grant" THEN granted \cup {<<g, l>>} ELSE granted
  /\ reported' = reported \cup {NextRow}
  /\ UNCHANGED <<payload, acl, index, tx, runner>>

\* disclosure(): a pending row, and a detached job after the commit.
AskDisclosure(op, g, l) ==
  /\ "server" \in Lanes
  /\ Request("server", "pending", op, g, l)
  /\ tx' = [tx EXCEPT ![NextRow] = "inflight"]
  /\ runner' = [runner EXCEPT ![NextRow] = "waits"]
  /\ reported' = reported \cup {NextRow}
  /\ UNCHANGED <<payload, acl, index, granted>>

\* A browser wallet sends the transaction; the server does not know of it yet.
\* (The row's number is that of the call that will report it.)
WalletDiscloses(op, g, l) ==
  /\ "wallet" \in Lanes
  /\ Used \subseteq reported
  /\ Request("wallet", "pending", op, g, l)
  /\ tx' = [tx EXCEPT ![NextRow] = "inflight"]
  /\ UNCHANGED <<payload, acl, index, runner, reported, granted>>

\* recordWalletDisclosure: verified against the hash of this moment.
RecordWalletDisclosure(r) ==
  /\ r \in Used \ reported
  /\ reported' = reported \cup {r}
  /\ log' = [log EXCEPT ![r].verified = payload]
  /\ runner' = [runner EXCEPT ![r] = "tracks"]
  /\ UNCHANGED <<payload, acl, index, tx, granted>>

-----------------------------------------------------------------------------
(* The chain *)

Earlier(r) == {q \in 1..(r - 1) : log[q].lane = log[r].lane}

LandDisclosure(r) ==
  /\ tx[r] = "inflight"
  /\ Ordered => \A q \in Earlier(r) : tx[q] # "inflight"
  /\ acl' = [acl EXCEPT ![log[r].hash][log[r].grantee] =
               IF log[r].op = "grant" THEN log[r].level ELSE NoLevel]
  /\ granted' = IF log[r].op = "grant" THEN granted \cup {<<log[r].grantee, log[r].level>>}
                ELSE granted
  /\ tx' = [tx EXCEPT ![r] = "landed"]
  /\ UNCHANGED <<payload, index, log, runner, reported>>

DropDisclosure(r) ==
  /\ tx[r] = "inflight"
  /\ tx' = [tx EXCEPT ![r] = "dropped"]
  /\ UNCHANGED <<payload, acl, index, log, runner, reported, granted>>

\* reindexDisclosures, or the plugin's own crawler.
Reindex ==
  /\ index' = acl
  /\ UNCHANGED <<payload, acl, log, tx, runner, reported, granted>>

-----------------------------------------------------------------------------
(* Settlement *)

Settle(r, status) ==
  /\ log' = [log EXCEPT ![r].status = status]
  /\ runner' = [runner EXCEPT ![r] = "none"]

\* runDisclosureDetached: the job succeeded on the chain ...
RunnerSucceeds(r) ==
  /\ runner[r] = "waits"
  /\ tx[r] = "landed"
  /\ Settle(r, "succeeded")
  /\ UNCHANGED <<payload, acl, index, tx, reported, granted>>

\* ... or it failed, or the wait for it ran out while it is still under way.
RunnerFails(r) ==
  /\ runner[r] = "waits"
  /\ tx[r] # "landed"
  /\ Settle(r, "failed")
  /\ UNCHANGED <<payload, acl, index, tx, reported, granted>>

\* verifyGrantState, after a reindex: the ACL shows what the row says.
Reflected(r) ==
  LET active == acl[log[r].verified][log[r].grantee] # NoLevel
  IN  IF log[r].op = "grant" THEN active ELSE ~active

\* settleWalletTx, trackWalletTx: by the state, else by the transaction.
TrackerSettles(r) ==
  /\ runner[r] = "tracks"
  /\ \/ /\ Reflected(r)
        /\ index' = acl
        /\ Settle(r, "succeeded")
     \/ /\ ~Reflected(r)
        /\ index' \in {index, acl}
        /\ \/ tx[r] = "landed" /\ Settle(r, "succeeded")
           \/ tx[r] = "dropped" /\ Settle(r, "failed")
  /\ UNCHANGED <<payload, acl, tx, reported, granted>>

\* Twelve polls without a verdict.
TrackerExpires(r) ==
  /\ runner[r] = "tracks"
  /\ runner' = [runner EXCEPT ![r] = "none"]
  /\ UNCHANGED <<payload, acl, index, log, tx, reported, granted>>

\* reanchorCore replaces the payload hash; grants on the chain stay with the old.
Reanchor ==
  /\ Migrations
  /\ payload' \in Payloads \ {payload}
  /\ UNCHANGED <<acl, index, log, tx, runner, reported, granted>>

\* sweepStuckRows closes the pending rows that are old enough.
Restart ==
  /\ Restarts
  /\ runner' = [r \in Rows |-> "none"]
  /\ \E old \in SUBSET {r \in reported : log[r].status = "pending"} :
       log' = [r \in Rows |-> IF r \in old THEN [log[r] EXCEPT !.status = "failed"] ELSE log[r]]
  /\ UNCHANGED <<payload, acl, index, tx, reported, granted>>

Next ==
  \/ \E op \in {"grant", "revoke"}, g \in Grantees, l \in Levels :
       GrantOffline(op, g, l) \/ AskDisclosure(op, g, l) \/ WalletDiscloses(op, g, l)
  \/ \E r \in Rows :
       \/ RecordWalletDisclosure(r) \/ LandDisclosure(r) \/ DropDisclosure(r)
       \/ RunnerSucceeds(r) \/ RunnerFails(r) \/ TrackerSettles(r) \/ TrackerExpires(r)
  \/ Reindex \/ Reanchor \/ Restart

Spec == Init /\ [][Next]_vars

-----------------------------------------------------------------------------
(* The gate *)

Greatest(S) == CHOOSE l \in S : \A k \in S : k <= l

\* A pending row counts, too.
CountsMutant(r) == r \in reported /\ log[r].status \in {"offline", "pending", "succeeded"}

\* effectiveGrantsFor: the rows of the log that count ...
Counts(r) == r \in reported /\ log[r].status \in {"offline", "succeeded"}

\* The first row is the one that counts.
LocalLevelMutant(g) ==
  LET rows == {r \in Rows : Counts(r) /\ log[r].grantee = g}
      first == CHOOSE r \in rows : \A q \in rows : r <= q
  IN  IF rows # {} /\ log[first].op = "grant" THEN log[first].level ELSE NoLevel

\* ... the latest of a grantee's, whatever payload it was asked for ...
LocalLevel(g) ==
  LET rows == {r \in Rows : Counts(r) /\ log[r].grantee = g}
  IN  IF rows # {} /\ log[Greatest(rows)].op = "grant" THEN log[Greatest(rows)].level ELSE NoLevel

\* ... and the higher of it and of what is indexed for the current payload.
GrantLevel(g) == Greatest({LocalLevel(g), index[payload][g]})

\* The READ of Passports: a partner is served the passports of which he has a
\* grant, redacted to its level, and no others.
Serves(g) == GrantLevel(g) # NoLevel

-----------------------------------------------------------------------------
(* Properties *)

\* Nobody has a tier whom nothing was ever granted, on the chain or offline:
\* not through requests that are pending, refused or were never sent, whatever
\* the order in which they settle, expire and are swept.
AccessWasGranted ==
  \A g \in Grantees : Serves(g) => \E l \in Levels : <<g, l>> \in granted

\* A revoke the server saw succeed, the last request for the grantee, reaches
\* the reader: with the index fresh, the grantee has lost the tier on the
\* payload it was revoked for, whatever earlier requests timed out, landed late
\* or were swept.  (On the server lane; its
\* jobs land in the order of their wallet.)
RevocationReachesReader ==
  \A r \in Used :
    LET g == log[r].grantee
        rows == {q \in Used : log[q].grantee = g}
    IN  /\ r = Greatest(rows)
        /\ \A q \in rows : log[q].lane = "server"
        /\ log[r].op = "revoke" /\ log[r].status = "succeeded" /\ log[r].hash = payload
        /\ index = acl
        => ~Serves(g)
=============================================================================
