--------------------------- MODULE PassportAnchor ---------------------------
(***************************************************************************)
(* The server lane of ProducerService: a passport row, the archive of its  *)
(* superseded anchors, and the detached runners that carry one anchor each *)
(* to the AttestationVault.                                                *)
(*                                                                         *)
(* A request that starts an anchor is two actions: it reads the row and    *)
(* looks for a duplicate, and it commits its writes.  Its transaction is   *)
(* PostgreSQL's READ COMMITTED, so other requests and runners commit in    *)
(* between.  A runner has no transaction: each of its database writes      *)
(* commits on its own, and what it sends to the chain outlives it.  The    *)
(* history variable raced names the passports on which a request           *)
(* overtook another or a runner; no action reads it.  The payload hash of a*)
(* content is the content itself (hashPayload is a pure function and is    *)
(* taken to be injective), and a salt seed is named after the run it was   *)
(* drawn for.                                                              *)
(***************************************************************************)
EXTENDS AttestationVault, Naturals, Sequences, FiniteSets

CONSTANTS
  Runs,          \* identities of anchor runs; also bounds how many there are
  Requests,      \* request slots; bounds how many requests are open at once
  RootBuilt,     \* the outcomes of building a content root: {TRUE}, or both
  StampFails,    \* whether the attester of a landed anchor may stay unknown
  ChainConfirmed,\* whether job results wait for the outcome on the chain
  MarkFails,     \* whether the write that marks a row failed may fail itself
  Crashes        \* whether the process may die and restart

ASSUME ConfigAssumption ==
  /\ Runs \subseteq Seeds
  /\ RootBuilt \subseteq BOOLEAN
  /\ {StampFails, ChainConfirmed, MarkFails, Crashes} \subseteq BOOLEAN

VARIABLES
  row,        \* the Passports row: status, anchored coordinates, stored tree
  content,    \* what the row's children and attributes hold now
  versions,   \* PassportAnchorVersions of each passport, oldest first
  attestLog,  \* statuses of the passport's 'attest' PassportTransactions;
              \* nothing reads a failed one, so those are left out
  runs,       \* the detached runners and their transactions
  requests,   \* the open requests: what each has read and not yet written
  raced       \* passports taken up on a stale read, or beside a live runner

anchorVars == <<row, content, versions, attestLog, runs, requests, raced>>
vars == <<anchorVars, vaultVars>>

Statuses == {"absent", "draft", "anchoring", "anchored", "failed"}
LogStatuses == {"offline", "succeeded"}
\* starting: waits for its lane; waiting: polls its job; settling: the anchor
\* landed and its steps are logged; failing: in the catch block; lost: gone
\* without a mark on the row.
Phases == {"unused", "starting", "waiting", "settling", "failing", "ended", "lost"}
\* dropped: it will not land (told apart from inflight by WalletAnchor).
TxStates == {"none", "inflight", "landed", "partial", "dropped"}

Coordinates == [hash : Payloads, root : Root \cup {None},
                attester : Attesters \cup {None}]

RowType == [status : Statuses, hash : Payloads \cup {None},
            root : Root \cup {None}, attester : Attesters \cup {None}]

RunType == [phase : Phases, tx : TxStates, passport : Passports \cup {None},
            hash : Payloads \cup {None}, root : Root \cup {None},
            attester : Attesters \cup {None}]

\* What a request read (status and was, the hash), what it will anchor, and
\* the content it writes, if it writes any.
RequestType == [passport : Passports \cup {None}, status : Statuses,
                was : Payloads \cup {None}, hash : Payloads \cup {None},
                values : Payloads \cup {None}]

TypeOK ==
  /\ VaultTypeOK
  /\ row \in [Passports -> RowType]
  /\ content \in [Passports -> Payloads \cup {None}]
  /\ versions \in [Passports -> Seq(Coordinates)]
  /\ attestLog \in [Passports -> SUBSET LogStatuses]
  /\ runs \in [Runs -> RunType]
  /\ requests \in [Requests -> RequestType]
  /\ raced \subseteq Passports

AbsentRow == [status |-> "absent", hash |-> None, root |-> None, attester |-> None]
UnusedRun == [phase |-> "unused", tx |-> "none", passport |-> None,
              hash |-> None, root |-> None, attester |-> None]
NoRequest == [passport |-> None, status |-> "absent", was |-> None,
              hash |-> None, values |-> None]

Init ==
  /\ VaultInit
  /\ row = [p \in Passports |-> AbsentRow]
  /\ content = [p \in Passports |-> None]
  /\ versions = [p \in Passports |-> <<>>]
  /\ attestLog = [p \in Passports |-> {}]
  /\ runs = [r \in Runs |-> UnusedRun]
  /\ requests = [q \in Requests |-> NoRequest]
  /\ raced = {}

Exists(p) == row[p].status # "absent"
Live(r) == runs[r].phase \in {"starting", "waiting", "settling", "failing"}

-----------------------------------------------------------------------------
(* Request handlers *)

(***************************************************************************)
(* The operators whose name ends in Mutant are regressions of the          *)
(* definition that follows them, used to show that a property notices.     *)
(***************************************************************************)

\* Another row holds or is anchoring the same payload: 409.
Duplicate(p, h) ==
  \E q \in Passports \ {p} :
    row[q].status \in {"anchored", "anchoring"} /\ row[q].hash = h

\* What a request reads, up to the duplicate check.
Read(q, p, h, values) ==
  /\ requests[q] = NoRequest
  /\ ~Duplicate(p, h)
  /\ requests' = [requests EXCEPT ![q] =
       [passport |-> p, status |-> row[p].status, was |-> row[p].hash,
        hash |-> h, values |-> values]]
  /\ UNCHANGED <<row, content, versions, attestLog, runs, raced, vaultVars>>

\* createPassport with submit.
CreateAndSubmit(q, p, c) ==
  /\ ~Exists(p)
  /\ Read(q, p, c, c)

\* submitPassport looks at no status.  It anchors the STORED hash.
SubmitPassport(q, p) ==
  /\ Exists(p)
  /\ Read(q, p, row[p].hash, None)

\* reanchorPassport refuses a live anchor whose content did not change.
ReanchorPassport(q, p) ==
  /\ \/ row[p].status = "anchored" /\ content[p] # row[p].hash
     \/ row[p].status = "failed" /\ versions[p] # <<>>
  /\ Read(q, p, content[p], None)

\* changeBatteryStatus on an anchored passport with a signing session: the new
\* status and the re-anchor commit together.
ChangeStatusAndReanchor(q, p, c) ==
  /\ row[p].status = "anchored"
  /\ c \notin {content[p], row[p].hash}
  /\ Read(q, p, c, c)

\* The snapshot is taken after the row's payload was recomputed.
OutgoingMutant(p, was) == [hash |-> content[p], root |-> row[p].root,
                           attester |-> row[p].attester]

\* The hash is the one that was read; tree and attester are read again.
Outgoing(p, was) == [hash |-> was, root |-> row[p].root, attester |-> row[p].attester]

\* A request that found a live anchor and anchors something else archives it.
Supersedes(q) ==
  requests[q].status = "anchored" /\ requests[q].hash # requests[q].was

\* The outgoing anchor is overwritten.
ArchiveMutant(q) == UNCHANGED versions

\* The archive part of reanchorCore.
Archive(q) ==
  LET p == requests[q].passport
  IN  IF Supersedes(q)
      THEN versions' = [versions EXCEPT ![p] = Append(@, Outgoing(p, requests[q].was))]
      ELSE UNCHANGED versions

\* The drawn seed is sent to the chain and not stored.
AnchorRowMutant(p, h, written, values, a, r) ==
  /\ runs[r].phase = "unused"
  /\ row' = [row EXCEPT ![p].status = "anchoring", ![p].hash = written]
  /\ attestLog' = [attestLog EXCEPT ![p] = @ \ {"offline"}]
  /\ runs' = [runs EXCEPT ![r] =
       [phase |-> "starting", tx |-> "none", passport |-> p, hash |-> h,
        root |-> [values |-> values, seed |-> r], attester |-> a]]

(***************************************************************************)
(* The writes of anchorRow: the row turns 'anchoring', the offline         *)
(* placeholder goes, the content tree of the CURRENT values is built under *)
(* a fresh seed and stored, and a runner starts once the request has       *)
(* committed.  A build that throws is skipped: the stored tree stays and   *)
(* no root is sent.                                                        *)
(***************************************************************************)
AnchorRow(p, h, written, values, a, r) ==
  \E built \in RootBuilt :
    LET root == [values |-> values, seed |-> r]
    IN  /\ runs[r].phase = "unused"
        /\ row' = [row EXCEPT ![p] =
             [status |-> "anchoring", hash |-> written,
              root |-> IF built THEN root ELSE row[p].root, attester |-> row[p].attester]]
        /\ attestLog' = [attestLog EXCEPT ![p] = @ \ {"offline"}]
        /\ runs' = [runs EXCEPT ![r] =
             [phase |-> "starting", tx |-> "none", passport |-> p, hash |-> h,
              root |-> IF built THEN root ELSE None, attester |-> a]]

\* The row is not any more what the request read, or a runner works on it.
Overtaken(q) ==
  LET p == requests[q].passport
  IN  \/ row[p].status # requests[q].status
      \/ row[p].hash # requests[q].was
      \/ \E r \in Runs : Live(r) /\ runs[r].passport = p

(***************************************************************************)
(* A request commits, whatever became of the row since it was read; only   *)
(* a second row of one passport id is refused.  The hash is written if it  *)
(* differs from the one that was read.                                     *)
(***************************************************************************)
CommitRequest(q, a, r) ==
  LET s == requests[q]
      p == s.passport
      values == IF s.values # None THEN s.values ELSE content[p]
  IN  /\ p # None
      /\ s.status = "absent" => ~Exists(p)
      /\ content' = [content EXCEPT ![p] = values]
      /\ Archive(q)
      /\ AnchorRow(p, s.hash, IF s.hash # s.was THEN s.hash ELSE row[p].hash, values, a, r)
      /\ raced' = raced \cup (IF Overtaken(q) THEN {p} ELSE {})
      /\ requests' = [requests EXCEPT ![q] = NoRequest]
      /\ UNCHANGED vaultVars

\* The request is refused, or its transaction is rolled back.
AbandonRequest(q) ==
  /\ requests[q] # NoRequest
  /\ requests' = [requests EXCEPT ![q] = NoRequest]
  /\ UNCHANGED <<row, content, versions, attestLog, runs, raced, vaultVars>>

\* createPassport without a signing session: a draft and its placeholder.
CreatePassport(p, c) ==
  /\ ~Exists(p)
  /\ row' = [row EXCEPT ![p] =
       [status |-> "draft", hash |-> c, root |-> None, attester |-> None]]
  /\ content' = [content EXCEPT ![p] = c]
  /\ attestLog' = [attestLog EXCEPT ![p] = @ \cup {"offline"}]
  /\ UNCHANGED <<versions, runs, requests, raced, vaultVars>>

\* updateDynamicAttributes, and changeBatteryStatus that does not re-anchor.
ChangeContent(p, c) ==
  /\ Exists(p)
  /\ c # content[p]
  /\ content' = [content EXCEPT ![p] = c]
  /\ UNCHANGED <<row, versions, attestLog, runs, requests, raced, vaultVars>>

-----------------------------------------------------------------------------
(* The detached runner *)

SetPhase(r, phase) == runs' = [runs EXCEPT ![r].phase = phase]

\* The lane is open and takes the transaction.
SubmitTx(r) ==
  /\ runs[r].phase = "starting"
  /\ runs' = [runs EXCEPT ![r].phase = "waiting", ![r].tx = "inflight"]
  /\ UNCHANGED <<row, content, versions, attestLog, requests, raced, vaultVars>>

\* laneFor, the submission or the wait for the job throws: the lane is gone,
\* the job failed or it timed out.  What the chain does is not known.
GiveUp(r) ==
  /\ runs[r].phase \in {"starting", "waiting"}
  /\ SetPhase(r, "failing")
  /\ UNCHANGED <<row, content, versions, attestLog, requests, raced, vaultVars>>

\* An accepted submission passes for a finalized one.
ObserveAcceptedMutant(r) ==
  /\ runs[r].phase = "waiting"
  /\ attestLog' = [attestLog EXCEPT ![runs[r].passport] = @ \cup {"succeeded"}]
  /\ SetPhase(r, "settling")
  /\ UNCHANGED <<row, content, versions, requests, raced, vaultVars>>

\* The row is marked before the step is logged.
ObserveUnloggedMutant(r) ==
  /\ runs[r].phase = "waiting"
  /\ runs[r].tx = "landed"
  /\ SetPhase(r, "settling")
  /\ UNCHANGED <<row, content, versions, attestLog, requests, raced, vaultVars>>

\* The job reports success, on the chain if that can be known, and onStep logs
\* the steps.  A log write that fails throws into the catch block, before or
\* after the attest step.
ObserveSuccess(r) ==
  /\ runs[r].phase = "waiting"
  /\ ChainConfirmed => runs[r].tx = "landed"
  /\ \/ /\ attestLog' = [attestLog EXCEPT ![runs[r].passport] = @ \cup {"succeeded"}]
        /\ \E phase \in {"settling", "failing"} : SetPhase(r, phase)
     \/ /\ SetPhase(r, "failing")
        /\ UNCHANGED attestLog
  /\ UNCHANGED <<row, content, versions, requests, raced, vaultVars>>

\* Who anchored: the lane says it, or the chain's binding of the document,
\* when it names this payload; otherwise the row keeps the stamp it has.
Stamps(r) ==
  LET p == runs[r].passport
      bound == binding[p]
  IN  {runs[r].attester}
      \cup (IF bound # None /\ bound[2] = runs[r].hash THEN {bound[1]} ELSE {})
      \cup (IF StampFails THEN {row[p].attester} ELSE {})

\* The row is stamped and marked anchored, whatever it says by now.
MarkAnchored(r) ==
  /\ runs[r].phase = "settling"
  /\ \E stamp \in Stamps(r) :
       row' = [row EXCEPT ![runs[r].passport].status = "anchored",
                          ![runs[r].passport].attester = stamp]
  /\ SetPhase(r, "ended")
  /\ UNCHANGED <<content, versions, attestLog, requests, raced, vaultVars>>

\* Resolving the attester or writing the row throws.
MarkAnchoredFails(r) ==
  /\ runs[r].phase = "settling"
  /\ SetPhase(r, "failing")
  /\ UNCHANGED <<row, content, versions, attestLog, requests, raced, vaultVars>>

\* The catch block only logs.
MarkFailedMutant(r) ==
  /\ runs[r].phase = "failing"
  /\ SetPhase(r, "ended")
  /\ UNCHANGED <<row, content, versions, attestLog, requests, raced, vaultVars>>

\* The catch block: a best-effort write of the row (and one of a failed step).
MarkFailed(r) ==
  /\ runs[r].phase = "failing"
  /\ \/ /\ row' = [row EXCEPT ![runs[r].passport].status = "failed"]
        /\ SetPhase(r, "ended")
     \/ /\ MarkFails
        /\ SetPhase(r, "lost")
        /\ UNCHANGED row
  /\ UNCHANGED <<content, versions, attestLog, requests, raced, vaultVars>>

RunStep(r) ==
  \/ SubmitTx(r) \/ GiveUp(r) \/ ObserveSuccess(r)
  \/ MarkAnchored(r) \/ MarkAnchoredFails(r) \/ MarkFailed(r)

-----------------------------------------------------------------------------
(* The chain, and the process *)

\* A transaction lands, in part or whole; it may stay in flight for good, and
\* the runner that sent it may have given up on it long before.
LandTx(r) ==
  /\ runs[r].tx = "inflight"
  /\ \/ /\ ApplyAnchorTx(runs[r].passport, runs[r].attester, runs[r].hash, runs[r].root)
        /\ runs' = [runs EXCEPT ![r].tx = "landed"]
     \/ /\ ApplyAnchorTxPartially(runs[r].passport, runs[r].attester, runs[r].hash, runs[r].root)
        /\ runs' = [runs EXCEPT ![r].tx = "partial"]
  /\ UNCHANGED <<row, content, versions, attestLog, requests, raced>>

\* The process dies: runners and open requests are gone, the database and the
\* chain are not.  sweepStuckRows, at the next boot, looks at pending transaction
\* rows only, and no runner ever wrote one.
KillRuns ==
  runs' = [r \in Runs |-> IF Live(r) THEN [runs[r] EXCEPT !.phase = "lost"]
                                     ELSE runs[r]]

KillRequests == requests' = [q \in Requests |-> NoRequest]

Crash ==
  /\ Crashes
  /\ (\E r \in Runs : Live(r)) \/ (\E q \in Requests : requests[q] # NoRequest)
  /\ KillRuns
  /\ KillRequests
  /\ UNCHANGED <<row, content, versions, attestLog, raced, vaultVars>>

Request ==
  \/ \E p \in Passports, c \in Payloads : CreatePassport(p, c) \/ ChangeContent(p, c)
  \/ \E q \in Requests :
       \/ \E p \in Passports :
            \/ \E c \in Payloads : CreateAndSubmit(q, p, c) \/ ChangeStatusAndReanchor(q, p, c)
            \/ SubmitPassport(q, p)
            \/ ReanchorPassport(q, p)
       \/ \E a \in Attesters, r \in Runs : CommitRequest(q, a, r)
       \/ AbandonRequest(q)

Background == \E r \in Runs : RunStep(r) \/ LandTx(r)

Next == Request \/ Background \/ Crash

Spec == Init /\ [][Next]_vars

\* A runner is a chain of awaits, each of which ends: polls are counted
\* (waitForJobResult gives up after timeoutMs / pollIntervalMs attempts).
\* Nothing is assumed of the chain, of clients or of crashes.
FairSpec == Spec /\ \A r \in Runs : WF_vars(RunStep(r))

-----------------------------------------------------------------------------
(* What the lane promises *)

Anchored(p) == row[p].status = "anchored"

\* Passports whose requests and runners took turns.  The claims below are
\* about these; what other passports go through does not disturb them.
Alone == Passports \ raced

\* A row reported 'anchored' has a record of its payload on the chain, and a
\* stamped attester is the one whose record it is (attesterId, "the attester
\* identity that anchored the CURRENT version").
AnchoredIsAttested ==
  \A p \in Alone : Anchored(p) =>
    \E a \in Attesters : /\ row[p].attester \in {a, None}
                         /\ <<a, row[p].hash>> \in attested

\* The tree stored with an anchored row is the one anchored with its record:
\* its seed opens the root on the chain, so claims can be proved.
AnchoredTreeOpens ==
  \A p \in Alone : Anchored(p) =>
    \E a \in Attesters : /\ <<a, row[p].hash>> \in attested
                         /\ rootOf[<<a, row[p].hash>>] \in {None, row[p].root}

\* An archived version stays verifiable by the attester it names and openable
\* by the seed it carries, whatever the passport goes through later.
VersionsStayVerifiable ==
  \A p \in Alone : \A i \in DOMAIN versions[p] :
    LET v == versions[p][i]
    IN  \E a \in Attesters : /\ v.attester \in {a, None}
                             /\ <<a, v.hash>> \in attested
                             /\ rootOf[<<a, v.hash>>] \in {None, v.root}

\* Two requests can pass the duplicate check together and carry one payload to
\* two passports.  Each passport that ends up anchored has a record of its own.
RecordsAreNotShared ==
  \E owner \in [{p \in Alone : Anchored(p)} -> Attesters] :
    \A p, q \in DOMAIN owner :
      /\ <<owner[p], row[p].hash>> \in attested
      /\ owner[p] = owner[q] /\ row[p].hash = row[q].hash => p = q

\* The transaction log agrees with the chain: an anchored passport has a
\* succeeded attest step and no placeholder, and a succeeded step means that
\* the document is bound (contentRootAnchored trusts the log for that).
LogAgrees ==
  \A p \in Passports :
    /\ Anchored(p) => "succeeded" \in attestLog[p] /\ "offline" \notin attestLog[p]
    /\ "succeeded" \in attestLog[p] => binding[p] # None

\* An anchor that was started is settled, for better or worse, unless its
\* runner is lost: to a crash, or to a database that refuses the failed mark.
AnchoringSettles ==
  \A p \in Passports, r \in Runs :
    (runs[r].passport = p /\ Live(r)) ~>
      (row[p].status \in {"anchored", "failed"} \/ runs[r].phase = "lost")

(***************************************************************************)
(* Why it holds: the inductive invariant.                                  *)
(***************************************************************************)

RowsAreWhole ==
  /\ \A p \in Passports : IF Exists(p) THEN {row[p].hash, content[p]} \subseteq Payloads
                           ELSE row[p].hash = None
  /\ \A r \in Runs :
       /\ runs[r].phase = "unused" => runs[r].tx = "none"
       /\ runs[r].phase # "unused" => /\ runs[r].passport \in Passports
                                      /\ Exists(runs[r].passport)
                                      /\ runs[r].hash \in Payloads
                                      /\ runs[r].attester \in Attesters

\* What a request has read was there to be read.
RequestsAreWhole ==
  \A q \in Requests : requests[q].passport # None =>
    /\ requests[q].hash \in Payloads
    /\ requests[q].status = "absent" =>
         requests[q].was = None /\ requests[q].values # None
    /\ requests[q].status # "absent" =>
         Exists(requests[q].passport) /\ requests[q].was \in Payloads

\* While a run lives nobody moves its row: that is what lets MarkAnchored
\* write the row without looking at it.
RunOwnsRow ==
  \A r \in Runs : Live(r) /\ runs[r].passport \notin raced =>
    /\ row[runs[r].passport].status = "anchoring"
    /\ row[runs[r].passport].hash = runs[r].hash
    /\ runs[r].root # None => row[runs[r].passport].root = runs[r].root

\* Two runners work on a passport only after a race.
OneLiveRun ==
  \A r, s \in Runs :
    /\ Live(r) /\ Live(s)
    /\ runs[r].passport = runs[s].passport /\ runs[r].passport \notin raced
    => r = s

\* The owner of a document's binding never changes, and bound records exist.
BindingHasOneOwner ==
  \A p \in Passports : binding[p] # None =>
    /\ binding[p] \in attested
    /\ registered[p] # None => binding[p][1] = registered[p]

\* The owner of p's binding attested these coordinates, under their tree.
OwnerAttested(p, coords) ==
  /\ binding[p] # None
  /\ <<binding[p][1], coords.hash>> \in attested
  /\ rootOf[<<binding[p][1], coords.hash>>] \in {None, coords.root}
  /\ coords.attester \in {None, binding[p][1]}

LandedIsRecorded ==
  \A r \in Runs :
    /\ runs[r].phase = "settling" => runs[r].tx = "landed"
    /\ runs[r].tx = "landed" =>
         /\ binding[runs[r].passport] # None
         /\ binding[runs[r].passport][1] = runs[r].attester
         /\ <<runs[r].attester, runs[r].hash>> \in attested
         /\ rootOf[<<runs[r].attester, runs[r].hash>>] = runs[r].root

\* A stamp names the owner of the binding, race or not.
RowsAreAttested ==
  \A p \in Passports :
    /\ row[p].attester # None => binding[p] # None /\ binding[p][1] = row[p].attester
    /\ p \in Alone =>
         /\ Anchored(p) => OwnerAttested(p, row[p])
         /\ \A i \in DOMAIN versions[p] : OwnerAttested(p, versions[p][i])

LaneInvariant ==
  /\ RowsAreWhole
  /\ RequestsAreWhole
  /\ RunOwnsRow
  /\ OneLiveRun
  /\ BindingHasOneOwner
  /\ LandedIsRecorded
  /\ RowsAreAttested

(***************************************************************************)
(* The published history of a passport: its archived versions and, while   *)
(* it is anchored, the live one.  AnchorHistory says what may happen to it.*)
(***************************************************************************)
Published(coords) == [hash |-> coords.hash, root |-> coords.root]

HistoryOf(p) ==
  LET all == IF Anchored(p) THEN Append(versions[p], row[p]) ELSE versions[p]
  IN  [i \in DOMAIN all |-> Published(all[i])]

Anchors == [hash : Payloads, root : Root \cup {None}]

\* What a verifier accepts: an attested payload, under the root anchored with
\* it, or under any if none was.
Accepted(x) ==
  \E a \in Attesters : /\ <<a, x.hash>> \in attested
                       /\ rootOf[<<a, x.hash>>] \in {None, x.root}

History == INSTANCE AnchorHistory WITH
  ledger  <- {x \in Anchors : Accepted(x)},
  target  <- [p \in Passports |-> IF p \in raced THEN None ELSE row[p].hash],
  history <- [p \in Passports |-> IF p \in raced THEN <<>> ELSE HistoryOf(p)],
  watched <- Alone

\* Every step of the lane publishes one new anchor that the chain holds, takes
\* back the live one to submit the same payload again, loses a passport to a race,
\* or leaves every published history as it is, whatever payload comes next.
PublishesHistory == History!Spec
=============================================================================
