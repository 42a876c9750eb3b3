---------------------------- MODULE WalletAnchor ----------------------------
(***************************************************************************)
(* The browser-wallet lane next to the server lane of PassportAnchor: the  *)
(* cockpit reads a passport's hash and content tree, the user's wallet     *)
(* signs and sends the anchor batch, and recordWalletAttest books the      *)
(* reported transaction as pending until it is verified.  A tracker polls  *)
(* for a bounded time; after a restart sweepStuckRows closes what the dead *)
(* process left pending.                                                   *)
(***************************************************************************)
EXTENDS PassportAnchor

CONSTANTS
  Approvals,   \* wallet approvals; also bounds how many there are
  Crawler      \* whether transactions are indexed, so that a hash can be found

ASSUME WalletAssumption ==
  /\ Approvals \subseteq Seeds
  /\ Crawler \in BOOLEAN

VARIABLES
  approvals,   \* wallet transactions and their PassportTransactions entries
  sweep        \* the entries the boot sweep still has to visit

walletVars == <<approvals, sweep>>
allVars == <<anchorVars, vaultVars, walletVars>>

\* prepared: hash and tree are read, the wallet asks; signed: sent to the
\* chain, the callback is outstanding; tracked: pending, a tracker polls;
\* untracked: pending, nobody polls; closed: the entry is final.
ApprovalPhases == {"unused", "prepared", "signed", "tracked", "untracked", "closed"}
EntryStatuses == {"none", "pending", "succeeded", "failed"}

\* hash is what the wallet signed, checked what recordWalletAttest will verify.
ApprovalType == [phase : ApprovalPhases, tx : TxStates, entry : EntryStatuses,
                 passport : Passports \cup {None}, attester : Attesters \cup {None},
                 hash : Payloads \cup {None}, checked : Payloads \cup {None},
                 root : Root \cup {None}]

WalletTypeOK ==
  /\ TypeOK
  /\ approvals \in [Approvals -> ApprovalType]
  /\ sweep \subseteq Approvals

UnusedApproval == [phase |-> "unused", tx |-> "none", entry |-> "none",
                   passport |-> None, attester |-> None, hash |-> None,
                   checked |-> None, root |-> None]

WalletInit ==
  /\ Init
  /\ approvals = [w \in Approvals |-> UnusedApproval]
  /\ sweep = {}

-----------------------------------------------------------------------------
(* The cockpit and the wallet *)

\* Every read draws a seed of its own.
TreeForMutant(p, fresh) == [values |-> content[p], seed |-> fresh]

\* contentTreeFor: the current values under the stored seed.  A passport
\* without one draws a seed and stores the tree before anybody anchors it.
TreeFor(p, fresh) ==
  [values |-> content[p],
   seed   |-> IF row[p].root = None THEN fresh ELSE row[p].root.seed]

\* onSignWithLace reads the row's hash and passportFieldValue's tree.
PrepareApproval(w, p, a) ==
  /\ approvals[w].phase = "unused"
  /\ Exists(p)
  /\ approvals' = [approvals EXCEPT ![w] =
       [@ EXCEPT !.phase = "prepared", !.passport = p, !.attester = a,
                 !.hash = row[p].hash, !.root = TreeFor(p, w)]]
  /\ row' = [row EXCEPT ![p].root = IF @ = None THEN TreeFor(p, w) ELSE @]
  /\ UNCHANGED <<content, versions, attestLog, runs, requests, raced, sweep, vaultVars>>

\* anchorBatch: the user approves and the wallet sends one transaction.
SignAndSend(w) ==
  /\ approvals[w].phase = "prepared"
  /\ approvals' = [approvals EXCEPT ![w].phase = "signed", ![w].tx = "inflight"]
  /\ UNCHANGED <<anchorVars, sweep, vaultVars>>

LandWalletTx(w) ==
  /\ approvals[w].tx = "inflight"
  /\ LET s == approvals[w]
     IN  \/ /\ ApplyAnchorTx(s.passport, s.attester, s.hash, s.root)
            /\ approvals' = [approvals EXCEPT ![w].tx = "landed"]
         \/ /\ ApplyAnchorTxPartially(s.passport, s.attester, s.hash, s.root)
            /\ approvals' = [approvals EXCEPT ![w].tx = "partial"]
  /\ UNCHANGED <<anchorVars, sweep>>

DropWalletTx(w) ==
  /\ approvals[w].tx = "inflight"
  /\ approvals' = [approvals EXCEPT ![w].tx = "dropped"]
  /\ UNCHANGED <<anchorVars, sweep, vaultVars>>

-----------------------------------------------------------------------------
(* Settlement *)

(***************************************************************************)
(* The verdicts of settleWalletTx's check.  The state read looks for the   *)
(* record of the CHECKED hash and never says failed; verifyContractTx      *)
(* looks for the transaction, whatever it attested, and takes a partial    *)
(* success for a success.  Either may be unavailable.                      *)
(***************************************************************************)
Verdicts(w, attester, checked) ==
  {"unknown"}
  \cup (IF \/ <<attester, checked>> \in attested
           \/ Crawler /\ approvals[w].tx \in {"landed", "partial"}
        THEN {"confirmed"} ELSE {})
  \cup (IF Crawler /\ approvals[w].tx = "dropped" THEN {"failed"} ELSE {})

EntryOf(verdict) ==
  CASE verdict = "confirmed" -> "succeeded"
    [] verdict = "failed"    -> "failed"
    [] verdict = "unknown"   -> "pending"

StatusOf(verdict) ==
  CASE verdict = "confirmed" -> "anchored"
    [] verdict = "failed"    -> "failed"
    [] verdict = "unknown"   -> "anchoring"

LogSuccess(p, entry) ==
  IF entry = "succeeded" THEN attestLog[p] \cup {"succeeded"} ELSE attestLog[p]

\* recordWalletAttest: the entry is booked, the row turns 'anchoring' and
\* carries the reported attester (the connector of the cockpit always names
\* one); a verdict at hand settles both at once.
RecordWalletAttest(w) ==
  LET p == approvals[w].passport
      a == approvals[w].attester
  IN  /\ approvals[w].phase = "signed"
      /\ \E verdict \in Verdicts(w, a, row[p].hash) :
           /\ approvals' = [approvals EXCEPT ![w] =
                [@ EXCEPT !.phase = IF verdict = "unknown" THEN "tracked" ELSE "closed",
                          !.entry = EntryOf(verdict), !.checked = row[p].hash]]
           /\ row' = [row EXCEPT ![p].status = StatusOf(verdict), ![p].attester = a]
           /\ attestLog' = [attestLog EXCEPT ![p] =
                LogSuccess(p, EntryOf(verdict)) \ {"offline"}]
      /\ UNCHANGED <<content, versions, runs, requests, raced, sweep, vaultVars>>

\* The entry is settled, the row is forgotten.
TrackSettlesMutant(w) ==
  /\ approvals[w].phase = "tracked"
  /\ \E verdict \in Verdicts(w, approvals[w].attester, approvals[w].checked) \ {"unknown"} :
       approvals' = [approvals EXCEPT ![w].phase = "closed", ![w].entry = EntryOf(verdict)]
  /\ UNCHANGED <<anchorVars, sweep, vaultVars>>

\* One poll of trackWalletTx that settles the entry, and the row with it.
TrackSettles(w) ==
  LET p == approvals[w].passport
  IN  /\ approvals[w].phase = "tracked"
      /\ \E verdict \in Verdicts(w, approvals[w].attester, approvals[w].checked) :
           /\ verdict # "unknown"
           /\ approvals' = [approvals EXCEPT ![w].phase = "closed",
                                             ![w].entry = EntryOf(verdict)]
           /\ row' = [row EXCEPT ![p].status = StatusOf(verdict)]
           /\ attestLog' = [attestLog EXCEPT ![p] = LogSuccess(p, EntryOf(verdict))]
      /\ UNCHANGED <<content, versions, runs, requests, raced, sweep, vaultVars>>

\* The last of the 12 polls knows nothing: the entry stays pending.
TrackExpires(w) ==
  /\ approvals[w].phase = "tracked"
  /\ approvals' = [approvals EXCEPT ![w].phase = "untracked"]
  /\ UNCHANGED <<anchorVars, sweep, vaultVars>>

\* A state read that cannot tell passes for a match.
CurrentRecordFoundMutant(p) == row[p].attester # None

\* The record the passport's CURRENT coordinates name: by its attester, else
\* by what the document is bound to.
CurrentRecordFound(p) ==
  IF row[p].attester # None
  THEN <<row[p].attester, row[p].hash>> \in attested
  ELSE \E a \in Attesters : binding[p] = <<a, row[p].hash>>

\* The boot sweep comes to an entry and finds it young.
SweepLeaves(w) ==
  /\ w \in sweep
  /\ sweep' = sweep \ {w}
  /\ UNCHANGED <<anchorVars, approvals, vaultVars>>

\* The boot sweep closes an old entry: 'succeeded' if the chain shows the
\* passport's current record, 'failed' if not (or if nobody can tell).  The
\* row follows while it is 'anchoring'.
SweepCloses(w) ==
  LET p == approvals[w].passport
  IN  /\ w \in sweep
      /\ \E entry \in {"failed"} \cup (IF CurrentRecordFound(p) THEN {"succeeded"} ELSE {}) :
           /\ approvals' = [approvals EXCEPT ![w].phase = "closed", ![w].entry = entry]
           /\ attestLog' = [attestLog EXCEPT ![p] = LogSuccess(p, entry)]
           /\ row' = [row EXCEPT ![p].status =
                IF @ # "anchoring" THEN @
                ELSE IF entry = "succeeded" THEN "anchored" ELSE "failed"]
      /\ sweep' = sweep \ {w}
      /\ UNCHANGED <<content, versions, runs, requests, raced, vaultVars>>

\* The process dies with its runners, requests, trackers and sweep; the next one reads
\* which entries are pending and sweeps them.
CrashAndBoot ==
  /\ Crashes
  /\ \/ \E r \in Runs : Live(r)
     \/ \E w \in Approvals : approvals[w].phase \in {"tracked", "untracked"}
     \/ \E q \in Requests : requests[q] # NoRequest
  /\ KillRuns
  /\ KillRequests
  /\ approvals' = [w \in Approvals |->
       IF approvals[w].phase = "tracked"
       THEN [approvals[w] EXCEPT !.phase = "untracked"] ELSE approvals[w]]
  /\ sweep' = {w \in Approvals : approvals[w].entry = "pending"}
  /\ UNCHANGED <<row, content, versions, attestLog, raced, vaultVars>>

Tracker(w) == TrackSettles(w) \/ TrackExpires(w)
BootSweep(w) == SweepLeaves(w) \/ SweepCloses(w)

WalletStep ==
  \E w \in Approvals :
    \/ \E p \in Passports, a \in Attesters : PrepareApproval(w, p, a)
    \/ SignAndSend(w) \/ LandWalletTx(w) \/ DropWalletTx(w)
    \/ RecordWalletAttest(w) \/ Tracker(w) \/ BootSweep(w)

WalletNext ==
  \/ (Request \/ Background) /\ UNCHANGED walletVars
  \/ WalletStep
  \/ CrashAndBoot

WalletSpec == WalletInit /\ [][WalletNext]_allVars

-----------------------------------------------------------------------------
(* What the two lanes promise together *)

PendingEntry(p) ==
  \E w \in Approvals : approvals[w].passport = p /\ approvals[w].entry = "pending"

RunOf(p, phases) == \E r \in Runs : runs[r].passport = p /\ runs[r].phase \in phases

LivePhases == {"starting", "waiting", "settling", "failing"}

\* A row that is 'anchoring' has somebody to move it on, a live runner or a
\* pending entry that a tracker or the sweep of a later boot will find, unless
\* its runner was lost.  (sweepStuckRows is to close 'transaction rows left
\* pending and passports left anchoring'; it finds the latter by the former.)
StrandedByLossOnly ==
  \A p \in Passports :
    row[p].status = "anchoring" => RunOf(p, LivePhases \cup {"lost"}) \/ PendingEntry(p)

\* The next two hold of a passport that one browser wallet anchors alone: a
\* re-anchor of the server lane moves the row's coordinates from under a pending
\* approval, and a second wallet's callback overwrites the reported attester.
OneWallet(p) ==
  /\ \A r \in Runs : runs[r].passport # p
  /\ \A v, w \in Approvals :
       {approvals[v].passport, approvals[w].passport} = {p} =>
         approvals[v].attester = approvals[w].attester

\* A row anchored from the browser is attested by the wallet it names.
WalletRowIsAttested ==
  \A p \in Passports : OneWallet(p) /\ Anchored(p) =>
    <<row[p].attester, row[p].hash>> \in attested

\* The root a wallet put on the chain is opened by the seed of the row: the
\* tree handed to the browser was stored first and is not drawn again.
WalletSeedKept ==
  \A w \in Approvals :
    OneWallet(approvals[w].passport) /\ approvals[w].tx \in {"landed", "partial"} =>
      approvals[w].root.seed = row[approvals[w].passport].root.seed

=============================================================================
