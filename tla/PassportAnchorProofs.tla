------------------------ MODULE PassportAnchorProofs ------------------------
(***************************************************************************)
(* Theorems about PassportAnchor and WalletAnchor, for any number of       *)
(* passports, wallets, contents, runs, requests and approvals.  For the    *)
(* server lane: a request that finds its row as it read it, with no runner *)
(* at work, takes the row to 'anchoring' for one run; as long as nothing   *)
(* overtakes it, the row still is what the run anchored when the run       *)
(* writes it; and since the chain lets only one owner bind a document,     *)
(* what that owner attested stays attested under every later anchor.  For  *)
(* both lanes together: an entry stays pending as long as its row may need *)
(* it, and the coordinates of a passport that one wallet anchors alone do  *)
(* not move.                                                               *)
(***************************************************************************)
EXTENDS WalletAnchor, SequenceTheorems, TLAPS

USE DEF Root, Record, Coordinates

-----------------------------------------------------------------------------
(* The steps *)

\* Every reachable state is well typed, a row that exists has a hash and a
\* content, a run that is used all its coordinates, and a request what it read.
TypeInv == TypeOK /\ RowsAreWhole /\ RequestsAreWhole

\* A step of the requests alone: one reads, or is given up.
Quiet == UNCHANGED <<row, content, versions, attestLog, runs, raced, vaultVars>>

Reads(q) ==
  \E p \in Passports :
    \/ \E c \in Payloads : CreateAndSubmit(q, p, c) \/ ChangeStatusAndReanchor(q, p, c)
    \/ SubmitPassport(q, p)
    \/ ReanchorPassport(q, p)

\* The kinds of steps there are.
LEMMA StepKinds ==
  ASSUME [Next]_vars
  PROVE  \/ UNCHANGED vars
         \/ \E p \in Passports, c \in Payloads : CreatePassport(p, c) \/ ChangeContent(p, c)
         \/ \E q \in Requests : Reads(q) \/ AbandonRequest(q)
         \/ \E q \in Requests, a \in Attesters, r \in Runs : CommitRequest(q, a, r)
         \/ \E r \in Runs : RunStep(r)
         \/ \E r \in Runs : LandTx(r)
         \/ Crash
BY DEF Next, Request, Background, Reads

\* Reading and giving up change the requests only.
LEMMA ReadsAreQuiet ==
  ASSUME NEW q \in Requests, Reads(q) \/ AbandonRequest(q)
  PROVE  Quiet
BY DEF Reads, AbandonRequest, CreateAndSubmit, ChangeStatusAndReanchor, SubmitPassport,
       ReanchorPassport, Read, Quiet

\* The requests after a read are typed and whole.
LEMMA ReadsType ==
  ASSUME TypeInv, NEW q \in Requests, Reads(q) \/ AbandonRequest(q)
  PROVE  requests' \in [Requests -> RequestType] /\ RequestsAreWhole'
<1>t. /\ requests \in [Requests -> RequestType]
      /\ row \in [Passports -> RowType]
      /\ content \in [Passports -> Payloads \cup {None}]
      /\ RowsAreWhole /\ RequestsAreWhole
  BY DEF TypeInv, TypeOK
<1>u. row' = row
  BY ReadsAreQuiet DEF Quiet
<1>1. CASE AbandonRequest(q)
  <2>1. requests' = [requests EXCEPT ![q] = NoRequest] /\ NoRequest \in RequestType
    BY <1>1 DEF AbandonRequest, NoRequest, RequestType, Statuses
  <2>2. \A k \in Requests : requests'[k] = requests[k] \/ requests'[k].passport = None
    BY <1>t, <2>1 DEF NoRequest
  <2>3. RequestsAreWhole'
    BY <1>t, <1>u, <2>2 DEF RequestsAreWhole, Exists
  <2>4. QED
    BY <1>t, <2>1, <2>3
<1>2. CASE Reads(q)
  <2>1. PICK p \in Passports, h \in Payloads, values \in Payloads \cup {None} :
          /\ Read(q, p, h, values)
          /\ values # None \/ Exists(p)
    <3>1. PICK p \in Passports :
            \/ \E c \in Payloads : CreateAndSubmit(q, p, c) \/ ChangeStatusAndReanchor(q, p, c)
            \/ SubmitPassport(q, p)
            \/ ReanchorPassport(q, p)
      BY <1>2 DEF Reads
    <3>2. CASE \E c \in Payloads : CreateAndSubmit(q, p, c) \/ ChangeStatusAndReanchor(q, p, c)
      BY <3>2, NoneAssumption DEF CreateAndSubmit, ChangeStatusAndReanchor
    <3>3. CASE SubmitPassport(q, p)
      <4>1. row[p].hash \in Payloads
        BY <1>t, <3>3 DEF SubmitPassport, RowsAreWhole
      <4>2. QED
        BY <3>3, <4>1 DEF SubmitPassport
    <3>4. CASE ReanchorPassport(q, p)
      <4>1. content[p] \in Payloads /\ Exists(p)
        BY <1>t, <3>4 DEF ReanchorPassport, RowsAreWhole, Exists
      <4>2. QED
        BY <3>4, <4>1 DEF ReanchorPassport
    <3>5. QED
      BY <3>1, <3>2, <3>3, <3>4
  <2> DEFINE new == [passport |-> p, status |-> row[p].status, was |-> row[p].hash,
                     hash |-> h, values |-> values]
  <2>2. requests' = [requests EXCEPT ![q] = new]
    BY <2>1 DEF Read
  <2>3. new \in RequestType
    BY <1>t, <2>1 DEF RequestType, RowType
  <2>4. /\ new.hash \in Payloads
        /\ new.status # "absent" => Exists(p) /\ new.was \in Payloads
        /\ new.status = "absent" => new.values # None
    BY <1>t, <2>1 DEF RowsAreWhole, Exists
  <2>5. new.status = "absent" => new.was = None
    BY <1>t DEF RowsAreWhole, Exists
  <2>6. requests'[q] = new /\ \A k \in Requests \ {q} : requests'[k] = requests[k]
    BY <1>t, <2>2
  <2>n. new.passport = p
    OBVIOUS
  <2> HIDE DEF new
  <2>7. requests' \in [Requests -> RequestType]
    BY <1>t, <2>2, <2>3
  <2>8. ASSUME NEW k \in Requests, requests'[k].passport # None
        PROVE  /\ requests'[k].hash \in Payloads
               /\ requests'[k].status = "absent" =>
                    requests'[k].was = None /\ requests'[k].values # None
               /\ requests'[k].status # "absent" =>
                    Exists(requests'[k].passport) /\ requests'[k].was \in Payloads
    <3>1. CASE k = q
      BY <2>4, <2>5, <2>6, <2>n, <3>1
    <3>2. CASE k # q
      BY <1>t, <2>6, <2>8, <3>2 DEF RequestsAreWhole
    <3>3. QED
      BY <3>1, <3>2
  <2>9. RequestsAreWhole'
    BY <1>u, <2>8 DEF RequestsAreWhole, Exists
  <2>10. QED
    BY <2>7, <2>9
<1>3. QED
  BY <1>1, <1>2

-----------------------------------------------------------------------------
(* Types *)

\* What a request writes when it commits.  A passport that is still alone was
\* found as it had been read, with no runner at work.
LEMMA CommitWrites ==
  ASSUME TypeInv, NEW q \in Requests, NEW a \in Attesters, NEW r \in Runs,
         CommitRequest(q, a, r)
  PROVE  \E p \in Passports, h \in Payloads, written \in Payloads, values \in Payloads :
           /\ p = requests[q].passport /\ h = requests[q].hash
           /\ AnchorRow(p, h, written, values, a, r)
           /\ content' = [content EXCEPT ![p] = values]
           /\ IF Supersedes(q)
              THEN /\ requests[q].was \in Payloads
                   /\ versions' = [versions EXCEPT ![p] =
                        Append(@, Outgoing(p, requests[q].was))]
              ELSE versions' = versions
           /\ written \in {h, row[p].hash}
           /\ row[p].hash = requests[q].was => written = h
           /\ raced \subseteq raced' /\ raced' \subseteq raced \cup {p}
           /\ p \notin raced' =>
                /\ row[p].status = requests[q].status /\ row[p].hash = requests[q].was
                /\ \A s \in Runs : Live(s) => runs[s].passport # p
           /\ requests' = [requests EXCEPT ![q] = NoRequest]
           /\ UNCHANGED vaultVars
<1> DEFINE s == requests[q]
           p == s.passport
           written == IF s.hash # s.was THEN s.hash ELSE row[p].hash
           values == IF s.values # None THEN s.values ELSE content[p]
<1>t. /\ requests \in [Requests -> RequestType]
      /\ RowsAreWhole /\ RequestsAreWhole
  BY DEF TypeInv, TypeOK
<1>1. s \in RequestType /\ p # None
  BY <1>t DEF CommitRequest
<1>2. p \in Passports /\ s.hash \in Payloads
  BY <1>1, <1>t DEF RequestType, RequestsAreWhole
<1>3. values \in Payloads
  <2>1. CASE s.values # None
    BY <1>1, <2>1 DEF RequestType
  <2>2. CASE s.values = None
    BY <1>1, <1>2, <1>t, <2>2 DEF RequestsAreWhole, RowsAreWhole
  <2>3. QED
    BY <2>1, <2>2
<1>4. written \in Payloads
  <2>1. CASE s.hash # s.was
    BY <1>2, <2>1
  <2>2. CASE s.hash = s.was
    <3>1. s.status # "absent"
      BY <1>1, <1>2, <1>t, <2>2, NoneAssumption DEF RequestsAreWhole
    <3>2. QED
      BY <1>1, <1>2, <1>t, <2>2, <3>1 DEF RequestsAreWhole, RowsAreWhole
  <2>3. QED
    BY <2>1, <2>2
<1>5. IF Supersedes(q)
      THEN /\ s.was \in Payloads
           /\ versions' = [versions EXCEPT ![p] = Append(@, Outgoing(p, s.was))]
      ELSE versions' = versions
  <2>1. CASE Supersedes(q)
    <3>1. s.was \in Payloads
      BY <1>1, <1>t, <2>1 DEF Supersedes, RequestsAreWhole
    <3>2. QED
      BY <2>1, <3>1 DEF CommitRequest, Archive
  <2>2. CASE ~Supersedes(q)
    BY <2>2 DEF CommitRequest, Archive
  <2>3. QED
    BY <2>1, <2>2
<1>6. /\ AnchorRow(p, s.hash, written, values, a, r)
      /\ content' = [content EXCEPT ![p] = values]
      /\ raced' = raced \cup (IF Overtaken(q) THEN {p} ELSE {})
      /\ requests' = [requests EXCEPT ![q] = NoRequest]
      /\ UNCHANGED vaultVars
  BY DEF CommitRequest
<1>7. p \notin raced' =>
        /\ row[p].status = s.status /\ row[p].hash = s.was
        /\ \A k \in Runs : Live(k) => runs[k].passport # p
  BY <1>6 DEF Overtaken
<1>8. raced \subseteq raced' /\ raced' \subseteq raced \cup {p}
  BY <1>6
<1>9. written \in {s.hash, row[p].hash} /\ (row[p].hash = s.was => written = s.hash)
  OBVIOUS
<1> HIDE DEF s, p, written, values
<1>10. /\ p = requests[q].passport /\ s.hash = requests[q].hash
       /\ s.was = requests[q].was /\ s.status = requests[q].status
  BY DEF s, p
<1>11. QED
  BY <1>2, <1>3, <1>4, <1>5, <1>6, <1>7, <1>8, <1>9, <1>10

\* Starting a run keeps the types of what anchorRow writes.
LEMMA AnchorRowType ==
  ASSUME TypeOK, RowsAreWhole,
         NEW p \in Passports, NEW h \in Payloads, NEW written \in Payloads,
         NEW values \in Payloads, NEW a \in Attesters, NEW r \in Runs,
         AnchorRow(p, h, written, values, a, r)
  PROVE  /\ row' \in [Passports -> RowType]
         /\ attestLog' \in [Passports -> SUBSET LogStatuses]
         /\ runs' \in [Runs -> RunType]
         /\ row'[p].status = "anchoring" /\ row'[p].hash = written
         /\ row'[p].attester = row[p].attester
         /\ \A k \in Passports \ {p} : row'[k] = row[k]
         /\ runs[r].phase = "unused"
         /\ runs'[r].phase = "starting" /\ runs'[r].tx = "none"
         /\ runs'[r].passport = p /\ runs'[r].hash = h /\ runs'[r].attester = a
         /\ runs'[r].root # None => row'[p].root = runs'[r].root
         /\ \A s \in Runs \ {r} : runs'[s] = runs[s]
<1>1. PICK built \in RootBuilt :
        LET root == [values |-> values, seed |-> r]
        IN  /\ runs[r].phase = "unused"
            /\ row' = [row EXCEPT ![p] =
                 [status |-> "anchoring", hash |-> written,
                  root |-> IF built THEN root ELSE row[p].root, attester |-> row[p].attester]]
            /\ attestLog' = [attestLog EXCEPT ![p] = @ \ {"offline"}]
            /\ runs' = [runs EXCEPT ![r] =
                 [phase |-> "starting", tx |-> "none", passport |-> p, hash |-> h,
                  root |-> IF built THEN root ELSE None, attester |-> a]]
  BY DEF AnchorRow
<1>2. [values |-> values, seed |-> r] \in Root
  BY ConfigAssumption
<1>3. row' \in [Passports -> RowType]
  BY <1>1, <1>2 DEF TypeOK, RowType, Statuses
<1>4. runs' \in [Runs -> RunType]
  BY <1>1, <1>2 DEF TypeOK, RunType, Phases, TxStates
<1>5. attestLog' \in [Passports -> SUBSET LogStatuses]
  BY <1>1 DEF TypeOK
<1>6. QED
  BY <1>1, <1>3, <1>4, <1>5 DEF TypeOK, RowType, RunType

LEMMA InitType == Init => TypeInv
<1> SUFFICES ASSUME Init PROVE TypeInv
  OBVIOUS
<1> USE DEF Init, VaultInit, AbsentRow, UnusedRun
<1>1. VaultTypeOK
  BY DEF VaultTypeOK
<1>2. /\ row \in [Passports -> RowType]
      /\ content \in [Passports -> Payloads \cup {None}]
      /\ versions \in [Passports -> Seq(Coordinates)]
      /\ attestLog \in [Passports -> SUBSET LogStatuses]
  BY DEF RowType, Statuses
<1>3. runs \in [Runs -> RunType]
  BY DEF RunType, Phases, TxStates
<1>4. RowsAreWhole
  BY DEF RowsAreWhole, Exists
<1>5. requests \in [Requests -> RequestType] /\ raced \subseteq Passports
  BY DEF NoRequest, RequestType, Statuses
<1>6. RequestsAreWhole
  BY DEF RequestsAreWhole, NoRequest
<1>7. QED
  BY <1>1, <1>2, <1>3, <1>4, <1>5, <1>6 DEF TypeInv, TypeOK

\* An anchor transaction keeps the types of the vault.
LEMMA LandType ==
  ASSUME TypeInv, NEW r \in Runs, LandTx(r)
  PROVE  /\ VaultTypeOK'
         /\ \E tx \in TxStates : runs' = [runs EXCEPT ![r].tx = tx]
         /\ runs[r].phase # "unused"
<1> DEFINE s == runs[r]
<1>1. s \in RunType /\ s.phase # "unused"
  BY DEF TypeInv, TypeOK, RowsAreWhole, LandTx
<1>2. s.passport \in Passports /\ s.attester \in Attesters /\ s.hash \in Payloads
  BY <1>1 DEF TypeInv, RowsAreWhole
<1>3. s.root \in Root \cup {None}
  BY <1>1 DEF RunType
<1>4. /\ attested' = attested \cup {<<s.attester, s.hash>>}
      /\ rootOf' = [rootOf EXCEPT ![<<s.attester, s.hash>>] = s.root]
      /\ binding' \in {binding, [binding EXCEPT ![s.passport] = <<s.attester, s.hash>>]}
      /\ registered' = registered
  BY DEF LandTx, ApplyAnchorTx, ApplyAnchorTxPartially, AttestWithRoot
<1>5. VaultTypeOK
  BY DEF TypeInv, TypeOK
<1>6. VaultTypeOK'
  <2>1. attested' \subseteq Record
    BY <1>2, <1>4, <1>5 DEF VaultTypeOK
  <2>2. rootOf' \in [Record -> Root \cup {None}]
    BY <1>3, <1>4, <1>5 DEF VaultTypeOK
  <2>3. binding' \in [Passports -> Record \cup {None}]
    BY <1>2, <1>4, <1>5 DEF VaultTypeOK
  <2>4. QED
    BY <1>4, <1>5, <2>1, <2>2, <2>3 DEF VaultTypeOK
<1>7. \E tx \in TxStates : runs' = [runs EXCEPT ![r].tx = tx]
  BY DEF LandTx, TxStates
<1>8. QED
  BY <1>1, <1>6, <1>7

\* A step of a runner writes its own phase and transaction state, and of its
\* passport's row at most the status and the attester.
LEMMA RunStepType ==
  ASSUME TypeInv, NEW r \in Runs, RunStep(r)
  PROVE  /\ UNCHANGED <<content, versions, requests, raced, vaultVars>>
         /\ runs[r].phase # "unused"
         /\ \E phase \in Phases \ {"unused"}, tx \in TxStates :
              runs' = [runs EXCEPT ![r].phase = phase, ![r].tx = tx]
         /\ \E status \in Statuses \ {"absent"}, stamp \in Attesters \cup {None} :
              row' = [row EXCEPT ![runs[r].passport].status = status,
                                 ![runs[r].passport].attester = stamp]
         /\ attestLog' \in [Passports -> SUBSET LogStatuses]
<1> DEFINE p == runs[r].passport
<1>1. runs \in [Runs -> RunType] /\ row \in [Passports -> RowType]
      /\ attestLog \in [Passports -> SUBSET LogStatuses]
  BY DEF TypeInv, TypeOK
<1>2. runs[r].phase # "unused"
  BY DEF RunStep, SubmitTx, GiveUp, ObserveSuccess, MarkAnchored, MarkAnchoredFails, MarkFailed
<1>3. p \in Passports /\ runs[r].attester \in Attesters /\ Exists(p)
  BY <1>2 DEF TypeInv, RowsAreWhole
<1>4. UNCHANGED <<content, versions, requests, raced, vaultVars>>
  BY DEF RunStep, SubmitTx, GiveUp, ObserveSuccess, MarkAnchored, MarkAnchoredFails, MarkFailed
<1>5. \E phase \in Phases \ {"unused"}, tx \in TxStates :
        runs' = [runs EXCEPT ![r].phase = phase, ![r].tx = tx]
  <2>1. \/ \E phase \in Phases \ {"unused"} : runs' = [runs EXCEPT ![r].phase = phase]
        \/ runs' = [runs EXCEPT ![r].phase = "waiting", ![r].tx = "inflight"]
    BY DEF RunStep, SubmitTx, GiveUp, ObserveSuccess, MarkAnchored, MarkAnchoredFails,
           MarkFailed, SetPhase, Phases
  <2>2. CASE runs' = [runs EXCEPT ![r].phase = "waiting", ![r].tx = "inflight"]
    BY <2>2 DEF Phases, TxStates
  <2>3. ASSUME NEW phase \in Phases \ {"unused"}, runs' = [runs EXCEPT ![r].phase = phase]
        PROVE  runs' = [runs EXCEPT ![r].phase = phase, ![r].tx = runs[r].tx]
    BY <1>1, <2>3 DEF RunType
  <2>4. runs[r].tx \in TxStates
    BY <1>1 DEF RunType
  <2>5. QED
    BY <2>1, <2>2, <2>3, <2>4
<1>6. Stamps(r) \subseteq Attesters \cup {None}
  <2>1. binding \in [Passports -> Record \cup {None}]
    BY DEF TypeInv, TypeOK, VaultTypeOK
  <2>2. QED
    BY <1>1, <1>3, <2>1 DEF Stamps, RowType
<1>7. \E status \in Statuses \ {"absent"}, stamp \in Attesters \cup {None} :
        row' = [row EXCEPT ![p].status = status, ![p].attester = stamp]
  <2>1. \/ row' = row
        \/ row' = [row EXCEPT ![p].status = "failed"]
        \/ \E stamp \in Stamps(r) :
             row' = [row EXCEPT ![p].status = "anchored", ![p].attester = stamp]
    BY DEF RunStep, SubmitTx, GiveUp, ObserveSuccess, MarkAnchored, MarkAnchoredFails, MarkFailed
  <2>2. /\ row = [row EXCEPT ![p].status = row[p].status, ![p].attester = row[p].attester]
        /\ [row EXCEPT ![p].status = "failed"]
             = [row EXCEPT ![p].status = "failed", ![p].attester = row[p].attester]
        /\ row[p].attester \in Attesters \cup {None}
        /\ row[p].status \in Statuses \ {"absent"}
    BY <1>1, <1>3 DEF RowType, Exists
  <2>3. "failed" \in Statuses \ {"absent"} /\ "anchored" \in Statuses \ {"absent"}
    BY DEF Statuses
  <2>4. QED
    BY <1>6, <2>1, <2>2, <2>3
<1>8. attestLog' \in [Passports -> SUBSET LogStatuses]
  <2>1. \/ attestLog' = attestLog
        \/ attestLog' = [attestLog EXCEPT ![p] = @ \cup {"succeeded"}]
    BY DEF RunStep, SubmitTx, GiveUp, ObserveSuccess, MarkAnchored, MarkAnchoredFails, MarkFailed
  <2>2. QED
    BY <1>1, <2>1 DEF LogStatuses
<1>9. QED
  BY <1>2, <1>4, <1>5, <1>7, <1>8

\* Requests stay whole when no row goes and none reads anything new.
LEMMA RequestsKeep ==
  ASSUME TypeInv,
         \A p \in Passports : Exists(p) => Exists(p)',
         \A k \in Requests : requests'[k] = requests[k] \/ requests'[k] = NoRequest
  PROVE  RequestsAreWhole'
<1>t. RequestsAreWhole /\ requests \in [Requests -> RequestType]
  BY DEF TypeInv, TypeOK
<1> SUFFICES ASSUME NEW k \in Requests, requests'[k].passport # None
             PROVE  /\ requests'[k].hash \in Payloads
                    /\ requests'[k].status = "absent" =>
                         requests'[k].was = None /\ requests'[k].values # None
                    /\ requests'[k].status # "absent" =>
                         row'[requests'[k].passport].status # "absent" /\ requests'[k].was \in Payloads
  BY DEF RequestsAreWhole, Exists
<1>1. requests'[k] = requests[k]
  BY DEF NoRequest
<1>2. requests[k].passport \in Passports
  BY <1>1, <1>t DEF RequestType
<1>3. QED
  BY <1>1, <1>2, <1>t DEF RequestsAreWhole, Exists

\* A request that commits leaves everything typed and whole.
LEMMA CommitType ==
  ASSUME TypeInv, NEW q \in Requests, NEW a \in Attesters, NEW r \in Runs,
         CommitRequest(q, a, r)
  PROVE  TypeInv'
<1>t. /\ VaultTypeOK /\ TypeOK /\ RowsAreWhole
      /\ row \in [Passports -> RowType]
      /\ content \in [Passports -> Payloads \cup {None}]
      /\ versions \in [Passports -> Seq(Coordinates)]
      /\ requests \in [Requests -> RequestType]
      /\ raced \subseteq Passports
  BY DEF TypeInv, TypeOK
<1>1. PICK p \in Passports, h \in Payloads, written \in Payloads, values \in Payloads :
        /\ AnchorRow(p, h, written, values, a, r)
        /\ content' = [content EXCEPT ![p] = values]
        /\ IF Supersedes(q)
           THEN /\ requests[q].was \in Payloads
                /\ versions' = [versions EXCEPT ![p] = Append(@, Outgoing(p, requests[q].was))]
           ELSE versions' = versions
        /\ raced' \subseteq raced \cup {p}
        /\ requests' = [requests EXCEPT ![q] = NoRequest]
        /\ UNCHANGED vaultVars
  BY CommitWrites
<1>2. /\ row' \in [Passports -> RowType]
      /\ attestLog' \in [Passports -> SUBSET LogStatuses]
      /\ runs' \in [Runs -> RunType]
      /\ row'[p].status = "anchoring" /\ row'[p].hash = written
      /\ \A k \in Passports \ {p} : row'[k] = row[k]
      /\ runs'[r].phase = "starting"
      /\ runs'[r].passport = p /\ runs'[r].hash = h /\ runs'[r].attester = a
      /\ \A s \in Runs \ {r} : runs'[s] = runs[s]
  BY <1>1, <1>t, AnchorRowType
<1>3. content' \in [Passports -> Payloads \cup {None}] /\ content'[p] = values
      /\ \A k \in Passports \ {p} : content'[k] = content[k]
  BY <1>1, <1>t
<1>4. versions' \in [Passports -> Seq(Coordinates)]
  <2>1. CASE Supersedes(q)
    <3>1. Outgoing(p, requests[q].was) \in Coordinates
      BY <1>1, <1>t, <2>1 DEF Outgoing, RowType
    <3>2. Append(versions[p], Outgoing(p, requests[q].was)) \in Seq(Coordinates)
      <4>1. versions[p] \in Seq(Coordinates)
        BY <1>t
      <4>2. QED
        BY ONLY <3>1, <4>1, AppendProperties
    <3>3. QED
      BY <1>1, <1>t, <2>1, <3>2
  <2>2. CASE ~Supersedes(q)
    BY <1>1, <1>t, <2>2
  <2>3. QED
    BY <2>1, <2>2
<1>5. ASSUME NEW k \in Passports
      PROVE  IF row'[k].status # "absent" THEN {row'[k].hash, content'[k]} \subseteq Payloads
                                          ELSE row'[k].hash = None
  <2>1. CASE k = p
    BY <1>1, <1>2, <1>3, <2>1
  <2>2. CASE k # p
    BY <1>2, <1>3, <1>t, <2>2 DEF RowsAreWhole, Exists
  <2>3. QED
    BY <2>1, <2>2
<1>6. \A k \in Passports : Exists(k) => Exists(k)'
  BY <1>2 DEF Exists
<1>7. ASSUME NEW s \in Runs
      PROVE  /\ runs'[s].phase = "unused" => runs'[s].tx = "none"
             /\ runs'[s].phase # "unused" => /\ runs'[s].passport \in Passports
                                             /\ row'[runs'[s].passport].status # "absent"
                                             /\ runs'[s].hash \in Payloads
                                             /\ runs'[s].attester \in Attesters
  <2>1. CASE s = r
    BY <1>1, <1>2, <2>1 DEF Exists
  <2>2. CASE s # r
    <3>1. runs'[s] = runs[s]
      BY <1>2, <2>2
    <3>2. QED
      BY <1>6, <1>t, <3>1 DEF RowsAreWhole, Exists
  <2>3. QED
    BY <2>1, <2>2
<1>8. RowsAreWhole'
  BY <1>5, <1>7 DEF RowsAreWhole, Exists
<1>9. requests' \in [Requests -> RequestType] /\ raced' \subseteq Passports
  BY <1>1, <1>t DEF NoRequest, RequestType, Statuses
<1>10. RequestsAreWhole'
  <2>1. \A k \in Requests : requests'[k] = requests[k] \/ requests'[k] = NoRequest
    BY <1>1, <1>t
  <2>2. QED
    BY <1>6, <2>1, RequestsKeep
<1>11. VaultTypeOK'
  BY <1>1, <1>t DEF VaultTypeOK, vaultVars
<1>12. QED
  BY <1>2, <1>3, <1>4, <1>8, <1>9, <1>10, <1>11 DEF TypeInv, TypeOK

LEMMA NextType == TypeInv /\ [Next]_vars => TypeInv'
<1> SUFFICES ASSUME TypeInv, [Next]_vars PROVE TypeInv'
  OBVIOUS
<1>t. /\ VaultTypeOK
      /\ row \in [Passports -> RowType]
      /\ content \in [Passports -> Payloads \cup {None}]
      /\ versions \in [Passports -> Seq(Coordinates)]
      /\ attestLog \in [Passports -> SUBSET LogStatuses]
      /\ runs \in [Runs -> RunType]
      /\ requests \in [Requests -> RequestType]
      /\ raced \subseteq Passports
      /\ RowsAreWhole /\ RequestsAreWhole
  BY DEF TypeInv, TypeOK
<1>v. UNCHANGED vaultVars => VaultTypeOK'
  BY <1>t DEF VaultTypeOK, vaultVars
<1>1. CASE UNCHANGED vars
  <2>1. TypeOK'
    BY <1>1, <1>t, <1>v DEF vars, anchorVars, TypeOK
  <2>2. RowsAreWhole' /\ RequestsAreWhole'
    BY <1>1, <1>t DEF vars, anchorVars, RowsAreWhole, RequestsAreWhole, Exists
  <2>3. QED
    BY <2>1, <2>2 DEF TypeInv
<1>q. ASSUME NEW q \in Requests, Reads(q) \/ AbandonRequest(q)
      PROVE  TypeInv'
  <2>1. Quiet /\ requests' \in [Requests -> RequestType] /\ RequestsAreWhole'
    BY <1>q, ReadsAreQuiet, ReadsType
  <2>2. RowsAreWhole'
    BY <1>t, <2>1 DEF Quiet, RowsAreWhole, Exists
  <2>3. QED
    BY <1>t, <1>v, <2>1, <2>2 DEF Quiet, TypeInv, TypeOK
<1>2. ASSUME NEW p \in Passports, NEW c \in Payloads, CreatePassport(p, c)
      PROVE  TypeInv'
  <2>1. row' \in [Passports -> RowType]
    BY <1>2, <1>t DEF CreatePassport, RowType, Statuses
  <2>2. content' \in [Passports -> Payloads \cup {None}]
    BY <1>2, <1>t DEF CreatePassport
  <2>3. attestLog' \in [Passports -> SUBSET LogStatuses]
    BY <1>2, <1>t DEF CreatePassport, LogStatuses
  <2>4. /\ row'[p].status = "draft" /\ row'[p].hash = c /\ content'[p] = c
        /\ \A k \in Passports \ {p} : row'[k] = row[k] /\ content'[k] = content[k]
        /\ UNCHANGED <<versions, runs, requests, raced, vaultVars>>
    BY <1>2, <1>t DEF CreatePassport
  <2>5. \A k \in Passports : Exists(k) => Exists(k)'
    BY <2>4 DEF Exists
  <2>6. RowsAreWhole'
    <3>1. \A k \in Passports :
            IF Exists(k)' THEN {row'[k].hash, content'[k]} \subseteq Payloads
                          ELSE row'[k].hash = None
      BY <1>t, <2>4 DEF RowsAreWhole, Exists
    <3>2. QED
      BY <1>t, <2>4, <2>5, <3>1 DEF RowsAreWhole
  <2>7. RequestsAreWhole'
    BY <2>4, <2>5, RequestsKeep
  <2>8. QED
    BY <1>t, <1>v, <2>1, <2>2, <2>3, <2>4, <2>6, <2>7 DEF TypeInv, TypeOK
<1>3. ASSUME NEW p \in Passports, NEW c \in Payloads, ChangeContent(p, c)
      PROVE  TypeInv'
  <2>1. content' \in [Passports -> Payloads \cup {None}]
        /\ UNCHANGED <<row, versions, attestLog, runs, requests, raced, vaultVars>>
    BY <1>3, <1>t DEF ChangeContent
  <2>2. RowsAreWhole'
    BY <1>3, <1>t DEF ChangeContent, RowsAreWhole, Exists
  <2>3. RequestsAreWhole'
    BY <2>1, RequestsKeep DEF Exists
  <2>4. QED
    BY <1>t, <1>v, <2>1, <2>2, <2>3 DEF TypeInv, TypeOK
<1>10. ASSUME NEW r \in Runs, RunStep(r)
       PROVE  TypeInv'
  <2>1. PICK phase \in Phases \ {"unused"}, tx \in TxStates :
          runs' = [runs EXCEPT ![r].phase = phase, ![r].tx = tx]
    BY <1>10, RunStepType
  <2>2. PICK status \in Statuses \ {"absent"}, stamp \in Attesters \cup {None} :
          row' = [row EXCEPT ![runs[r].passport].status = status,
                             ![runs[r].passport].attester = stamp]
    BY <1>10, RunStepType
  <2>3. /\ UNCHANGED <<content, versions, requests, raced, vaultVars>>
        /\ attestLog' \in [Passports -> SUBSET LogStatuses]
        /\ runs[r].phase # "unused"
    BY <1>10, RunStepType
  <2>4. runs' \in [Runs -> RunType]
    <3>1. runs \in [Runs -> RunType]
      BY <1>t
    <3>2. [[runs[r] EXCEPT !.phase = phase] EXCEPT !.tx = tx] \in RunType
      <4>1. runs[r] \in RunType
        BY <3>1
      <4>2. QED
        BY <4>1 DEF RunType
    <3>3. runs' = [runs EXCEPT ![r] = [[runs[r] EXCEPT !.phase = phase] EXCEPT !.tx = tx]]
      BY <2>1, <3>1 DEF RunType
    <3>4. QED
      BY <3>1, <3>2, <3>3
  <2>5. runs[r].passport \in Passports /\ Exists(runs[r].passport)
    BY <1>t, <2>3 DEF RowsAreWhole
  <2>6. row' \in [Passports -> RowType]
    BY <1>t, <2>2, <2>5 DEF RowType
  <2>7. \A q \in Passports : /\ row'[q].hash = row[q].hash
                             /\ Exists(q)' <=> Exists(q)
    BY <1>t, <2>2, <2>5 DEF RowType, Exists
  <2>8. \A s \in Runs : /\ runs'[s].passport = runs[s].passport
                        /\ runs'[s].hash = runs[s].hash
                        /\ runs'[s].attester = runs[s].attester
                        /\ runs'[s].phase = "unused" <=> runs[s].phase = "unused"
                        /\ s # r => runs'[s] = runs[s]
    BY <1>t, <2>1, <2>3 DEF RunType
  <2>9. RowsAreWhole'
    <3>1. \A q \in Passports :
            IF row'[q].status # "absent" THEN {row'[q].hash, content'[q]} \subseteq Payloads
                                         ELSE row'[q].hash = None
      BY <1>t, <2>3, <2>7 DEF RowsAreWhole, Exists
    <3>2. \A s \in Runs :
            /\ runs'[s].phase = "unused" => runs'[s].tx = "none"
            /\ runs'[s].phase # "unused" => /\ runs'[s].passport \in Passports
                                            /\ row'[runs'[s].passport].status # "absent"
                                            /\ runs'[s].hash \in Payloads
                                            /\ runs'[s].attester \in Attesters
      BY <1>t, <2>3, <2>7, <2>8 DEF RowsAreWhole, Exists
    <3>3. QED
      BY <3>1, <3>2 DEF RowsAreWhole, Exists
  <2>10. RequestsAreWhole'
    BY <2>3, <2>7, RequestsKeep
  <2>11. QED
    BY <1>t, <1>v, <2>3, <2>4, <2>6, <2>9, <2>10 DEF TypeInv, TypeOK
<1>11. ASSUME NEW r \in Runs, LandTx(r)
       PROVE  TypeInv'
  <2>1. /\ \E tx \in TxStates : runs' = [runs EXCEPT ![r].tx = tx]
        /\ VaultTypeOK'
        /\ runs[r].phase # "unused"
        /\ UNCHANGED <<row, content, versions, attestLog, requests, raced>>
    BY <1>11, LandType DEF LandTx
  <2>t. PICK tx \in TxStates : runs' = [runs EXCEPT ![r].tx = tx]
    BY <2>1
  <2>2. /\ runs' \in [Runs -> RunType]
        /\ \A s \in Runs : /\ runs'[s].passport = runs[s].passport
                           /\ runs'[s].hash = runs[s].hash
                           /\ runs'[s].attester = runs[s].attester
                           /\ runs'[s].phase = runs[s].phase
                           /\ s # r => runs'[s] = runs[s]
    BY <1>t, <2>t DEF RunType
  <2>3. RowsAreWhole'
    BY <1>t, <2>1, <2>2 DEF RowsAreWhole, Exists
  <2>4. RequestsAreWhole'
    BY <2>1, RequestsKeep DEF Exists
  <2>5. QED
    BY <1>t, <2>1, <2>2, <2>3, <2>4 DEF TypeInv, TypeOK
<1>12. CASE Crash
  <2>1. /\ runs' = [s \in Runs |-> IF Live(s) THEN [runs[s] EXCEPT !.phase = "lost"]
                                             ELSE runs[s]]
        /\ requests' = [k \in Requests |-> NoRequest]
        /\ UNCHANGED <<row, content, versions, attestLog, raced, vaultVars>>
    BY <1>12 DEF Crash, KillRuns, KillRequests
  <2>2. \A s \in Runs : runs[s] \in RunType
    BY <1>t
  <2>3. \A s \in Runs : [runs[s] EXCEPT !.phase = "lost"] \in RunType
    BY <2>2 DEF RunType, Phases
  <2>4. runs' \in [Runs -> RunType]
    BY <2>1, <2>2, <2>3
  <2>5. RowsAreWhole'
    BY <1>t, <2>1, <2>2 DEF RowsAreWhole, Exists, RunType, Live
  <2>6. requests' \in [Requests -> RequestType]
    BY <2>1 DEF NoRequest, RequestType, Statuses
  <2>7. RequestsAreWhole'
    BY <2>1, RequestsKeep DEF Exists
  <2>8. QED
    BY <1>t, <1>v, <2>1, <2>4, <2>5, <2>6, <2>7 DEF TypeInv, TypeOK
<1>13. QED
  BY <1>1, <1>2, <1>3, <1>10, <1>11, <1>12, <1>q, CommitType, StepKinds

\* Every reachable state is well typed, whatever the clients do.
THEOREM TypeCorrect == Spec => []TypeOK
<1>1. Spec => []TypeInv
  BY InitType, NextType, PTL DEF Spec
<1>2. TypeInv => TypeOK
  BY DEF TypeInv
<1>3. QED
  BY <1>1, <1>2, PTL
-----------------------------------------------------------------------------
(* The inductive invariant *)

\* The parts of LaneInvariant that are about runs, and about the vault.
LEMMA InitLane == Init => LaneInvariant
<1> SUFFICES ASSUME Init PROVE LaneInvariant
  OBVIOUS
<1>1. RowsAreWhole /\ RequestsAreWhole
  BY InitType DEF TypeInv
<1>2. RunOwnsRow /\ OneLiveRun
  BY DEF Init, UnusedRun, RunOwnsRow, OneLiveRun, Live
<1>3. BindingHasOneOwner /\ LandedIsRecorded
  BY DEF Init, VaultInit, UnusedRun, BindingHasOneOwner, LandedIsRecorded
<1>4. \A p \in Passports : row[p].attester = None /\ row[p].status = "absent"
                            /\ versions[p] = <<>>
  BY DEF Init, AbsentRow
<1>5. \A p \in Passports : DOMAIN versions[p] = {}
  <2>1. <<>> \in Seq(Coordinates) /\ Len(<<>>) = 0
    BY EmptySeq
  <2>2. DOMAIN <<>> = {}
    BY <2>1, LenProperties
  <2>3. QED
    BY <1>4, <2>2
<1>6. RowsAreAttested
  BY <1>4, <1>5 DEF RowsAreAttested, Anchored
<1>7. QED
  BY <1>1, <1>2, <1>3, <1>6 DEF LaneInvariant

\* The chain only ever adds records, keeps the roots it has, and lets no
\* document change its owner.
LEMMA VaultGrows ==
  ASSUME TypeInv, BindingHasOneOwner, NEW r \in Runs, LandTx(r)
  PROVE  /\ attested \subseteq attested'
         /\ \A rec \in attested : rootOf'[rec] = rootOf[rec]
         /\ \A p \in Passports : binding[p] # None =>
              binding'[p] # None /\ binding'[p][1] = binding[p][1]
         /\ BindingHasOneOwner'
         /\ runs'[r].tx = "landed" =>
              /\ binding'[runs[r].passport] = <<runs[r].attester, runs[r].hash>>
              /\ <<runs[r].attester, runs[r].hash>> \in attested'
              /\ rootOf'[<<runs[r].attester, runs[r].hash>>] = runs[r].root
<1> DEFINE p == runs[r].passport
           a == runs[r].attester
           h == runs[r].hash
<1>t. /\ attested \subseteq Record
      /\ rootOf \in [Record -> Root \cup {None}]
      /\ binding \in [Passports -> Record \cup {None}]
      /\ registered \in [Passports -> Attesters \cup {None}]
      /\ runs \in [Runs -> RunType]
  BY DEF TypeInv, TypeOK, VaultTypeOK
<1>1. p \in Passports /\ a \in Attesters /\ h \in Payloads
  BY LandType DEF TypeInv, RowsAreWhole
<1>2. /\ <<a, h>> \notin attested
      /\ attested' = attested \cup {<<a, h>>}
      /\ rootOf' = [rootOf EXCEPT ![<<a, h>>] = runs[r].root]
      /\ registered' = registered
      /\ \/ /\ MayBind(p, a)
            /\ binding' = [binding EXCEPT ![p] = <<a, h>>]
         \/ /\ binding' = binding
            /\ runs' = [runs EXCEPT ![r].tx = "partial"]
  BY DEF LandTx, ApplyAnchorTx, ApplyAnchorTxPartially, AttestWithRoot, Attestable
<1>3. rootOf'[<<a, h>>] = runs[r].root /\ \A rec \in attested : rootOf'[rec] = rootOf[rec]
  BY <1>1, <1>2, <1>t
<1>4. CASE MayBind(p, a) /\ binding' = [binding EXCEPT ![p] = <<a, h>>]
  <2>1. binding'[p] = <<a, h>> /\ \A q \in Passports \ {p} : binding'[q] = binding[q]
    BY <1>1, <1>4, <1>t
  <2>2. <<a, h>> # None
    BY <1>1, NoneAssumption
  <2>3. ASSUME binding[p] # None PROVE binding[p][1] = a
    <3>1. CASE registered[p] = a
      BY <1>1, <2>3, <3>1, NoneAssumption DEF BindingHasOneOwner
    <3>2. CASE binding[p] \in {None} \cup ({a} \X Payloads)
      BY <2>3, <3>2
    <3>3. QED
      BY <1>4, <3>1, <3>2 DEF MayBind
  <2>4. registered[p] # None => registered[p] = a
    BY <1>4 DEF MayBind
  <2>5. BindingHasOneOwner'
    BY <1>2, <2>1, <2>2, <2>4 DEF BindingHasOneOwner
  <2>6. QED
    BY <1>2, <1>3, <2>1, <2>2, <2>3, <2>5
<1>5. CASE binding' = binding /\ runs' = [runs EXCEPT ![r].tx = "partial"]
  <2>1. runs'[r].tx = "partial"
    BY <1>5, <1>t DEF RunType
  <2>2. BindingHasOneOwner'
    BY <1>2, <1>5 DEF BindingHasOneOwner
  <2>3. QED
    BY <1>2, <1>3, <1>5, <2>1, <2>2
<1>6. QED
  BY <1>2, <1>4, <1>5

\* What an owner attested stays attested when another transaction lands.
LEMMA OwnerAttestedStays ==
  ASSUME TypeInv, BindingHasOneOwner, NEW r \in Runs, LandTx(r),
         NEW p \in Passports, NEW coords, OwnerAttested(p, coords)
  PROVE  /\ binding'[p] # None
         /\ <<binding'[p][1], coords.hash>> \in attested'
         /\ rootOf'[<<binding'[p][1], coords.hash>>] \in {None, coords.root}
         /\ coords.attester \in {None, binding'[p][1]}
<1>1. /\ binding'[p] # None
      /\ binding'[p][1] = binding[p][1]
  BY VaultGrows DEF OwnerAttested
<1>2. <<binding[p][1], coords.hash>> \in attested
  BY DEF OwnerAttested
<1>3. /\ <<binding[p][1], coords.hash>> \in attested'
      /\ rootOf'[<<binding[p][1], coords.hash>>] = rootOf[<<binding[p][1], coords.hash>>]
  BY <1>2, VaultGrows
<1>4. QED
  BY <1>1, <1>3 DEF OwnerAttested

\* Whatever is appended to a sequence, its entries are the old ones and the new.
LEMMA AppendedEntries ==
  ASSUME NEW S, NEW s \in Seq(S), NEW e \in S
  PROVE  \A i \in DOMAIN Append(s, e) :
           Append(s, e)[i] = e \/ (i \in DOMAIN s /\ Append(s, e)[i] = s[i])
<1> DEFINE t == Append(s, e)
<1>1. /\ t \in Seq(S) /\ Len(t) = Len(s) + 1 /\ Len(s) \in Nat
      /\ \A i \in 1..Len(s) : t[i] = s[i]
      /\ t[Len(s) + 1] = e
  BY AppendProperties, LenProperties
<1>2. DOMAIN t = 1..Len(s) + 1 /\ DOMAIN s = 1..Len(s)
  BY <1>1, LenProperties
<1> HIDE DEF t
<1>3. \A i \in DOMAIN t : t[i] = e \/ (i \in DOMAIN s /\ t[i] = s[i])
  BY <1>1, <1>2
<1>4. QED
  BY <1>3 DEF t

\* What a commit archives was attested by its owner, as all before it were: the
\* row of a passport that is alone still is the anchor that was read.
LEMMA ArchiveAttested ==
  ASSUME TypeInv, RowsAreAttested, NEW q \in Requests, NEW a \in Attesters, NEW r \in Runs,
         CommitRequest(q, a, r)
  PROVE  \A p \in Passports \ raced' : \A i \in DOMAIN versions'[p] :
           OwnerAttested(p, versions'[p][i])
<1>t. /\ row \in [Passports -> RowType]
      /\ versions \in [Passports -> Seq(Coordinates)]
  BY DEF TypeInv, TypeOK
<1>1. PICK p \in Passports :
        /\ p = requests[q].passport
        /\ IF Supersedes(q)
           THEN /\ requests[q].was \in Payloads
                /\ versions' = [versions EXCEPT ![p] = Append(@, Outgoing(p, requests[q].was))]
           ELSE versions' = versions
        /\ raced \subseteq raced'
        /\ p \notin raced' =>
             row[p].status = requests[q].status /\ row[p].hash = requests[q].was
  BY CommitWrites
<1>2. \A k \in Passports \ raced' : \A i \in DOMAIN versions[k] : OwnerAttested(k, versions[k][i])
  BY <1>1 DEF RowsAreAttested, Alone
<1>3. CASE ~Supersedes(q)
  BY <1>1, <1>2, <1>3
<1>4. CASE Supersedes(q)
  <2> DEFINE out == Outgoing(p, requests[q].was)
  <2>1. versions' = [versions EXCEPT ![p] = Append(versions[p], out)]
    BY <1>1, <1>4
  <2>2. out \in Coordinates
    BY <1>1, <1>4, <1>t DEF Outgoing, RowType
  <2>3. p \notin raced' => OwnerAttested(p, out)
    <3>1. p \notin raced' => OwnerAttested(p, row[p]) /\ row[p].hash = requests[q].was
      BY <1>1, <1>4 DEF RowsAreAttested, Alone, Anchored, Supersedes
    <3>2. QED
      BY <3>1 DEF OwnerAttested, Outgoing
  <2>4. versions'[p] = Append(versions[p], out)
        /\ \A k \in Passports \ {p} : versions'[k] = versions[k]
    BY <1>t, <2>1
  <2> HIDE DEF out
  <2>5. versions[p] \in Seq(Coordinates)
    BY <1>t
  <2>6. \A i \in DOMAIN versions'[p] :
          versions'[p][i] = out \/ (i \in DOMAIN versions[p] /\ versions'[p][i] = versions[p][i])
    BY <2>2, <2>4, <2>5, AppendedEntries
  <2>7. ASSUME NEW k \in Passports \ raced', NEW i \in DOMAIN versions'[k]
        PROVE  OwnerAttested(k, versions'[k][i])
    <3>1. CASE k = p /\ versions'[p][i] = out
      BY <2>3, <2>7, <3>1
    <3>2. CASE k = p /\ i \in DOMAIN versions[p] /\ versions'[p][i] = versions[p][i]
      BY <1>2, <2>7, <3>2
    <3>3. CASE k # p
      BY <1>2, <2>4, <2>7, <3>3
    <3>4. QED
      BY <2>6, <2>7, <3>1, <3>2, <3>3
  <2>8. QED
    BY <2>7
<1>5. QED
  BY <1>3, <1>4

\* A commit starts a run that owns its row, unless it overtook somebody.
LEMMA CommitKeeps ==
  ASSUME TypeInv, LaneInvariant, NEW q \in Requests, NEW a \in Attesters, NEW r \in Runs,
         CommitRequest(q, a, r)
  PROVE  RunOwnsRow' /\ OneLiveRun' /\ BindingHasOneOwner' /\ LandedIsRecorded' /\ RowsAreAttested'
<1>t. TypeOK /\ RowsAreWhole /\ RowsAreAttested
  BY DEF TypeInv, LaneInvariant
<1>1. PICK p \in Passports, h \in Payloads, written \in Payloads, values \in Payloads :
        /\ AnchorRow(p, h, written, values, a, r)
        /\ row[p].hash = requests[q].was => written = h
        /\ raced \subseteq raced' /\ raced' \subseteq raced \cup {p}
        /\ p \notin raced' =>
             /\ row[p].status = requests[q].status /\ row[p].hash = requests[q].was
             /\ \A s \in Runs : Live(s) => runs[s].passport # p
        /\ UNCHANGED vaultVars
  BY CommitWrites
<1>2. /\ row'[p].status = "anchoring" /\ row'[p].hash = written
      /\ row'[p].attester = row[p].attester
      /\ \A k \in Passports \ {p} : row'[k] = row[k]
      /\ runs'[r].phase = "starting" /\ runs'[r].tx = "none"
      /\ runs'[r].passport = p /\ runs'[r].hash = h /\ runs'[r].attester = a
      /\ runs'[r].root # None => row'[p].root = runs'[r].root
      /\ \A s \in Runs \ {r} : runs'[s] = runs[s]
  BY <1>1, <1>t, AnchorRowType
<1>3. \A s \in Runs \ {r} : Live(s)' /\ runs'[s].passport \notin raced' =>
        /\ Live(s) /\ runs[s].passport \in Passports \ {p} /\ runs[s].passport \notin raced
        /\ runs'[s] = runs[s]
  BY <1>1, <1>2, <1>t DEF RowsAreWhole, Live
<1>4. RunOwnsRow'
  <2>1. ASSUME NEW s \in Runs, Live(s)', runs'[s].passport \notin raced'
        PROVE  /\ row'[runs'[s].passport].status = "anchoring"
               /\ row'[runs'[s].passport].hash = runs'[s].hash
               /\ runs'[s].root # None => row'[runs'[s].passport].root = runs'[s].root
    <3>1. CASE s = r
      BY <1>1, <1>2, <2>1, <3>1
    <3>2. CASE s # r
      BY <1>2, <1>3, <2>1, <3>2 DEF LaneInvariant, RunOwnsRow
    <3>3. QED
      BY <3>1, <3>2
  <2>2. QED
    BY <2>1 DEF RunOwnsRow
<1>5. OneLiveRun'
  <2>1. ASSUME NEW s \in Runs, NEW k \in Runs, Live(s)', Live(k)',
               runs'[s].passport = runs'[k].passport, runs'[s].passport \notin raced', s # k
        PROVE  FALSE
    <3>1. CASE s = r
      BY <1>2, <1>3, <2>1, <3>1
    <3>2. CASE k = r
      BY <1>2, <1>3, <2>1, <3>2
    <3>3. CASE s # r /\ k # r
      BY <1>3, <2>1, <3>3 DEF LaneInvariant, OneLiveRun
    <3>4. QED
      BY <3>1, <3>2, <3>3
  <2>2. QED
    BY <2>1 DEF OneLiveRun
<1>6. BindingHasOneOwner'
  BY <1>1 DEF LaneInvariant, BindingHasOneOwner, vaultVars
<1>7. LandedIsRecorded'
  <2>1. ASSUME NEW s \in Runs
        PROVE  /\ runs'[s].phase = "settling" => runs'[s].tx = "landed"
               /\ runs'[s].tx = "landed" =>
                    /\ binding[runs'[s].passport] # None
                    /\ binding[runs'[s].passport][1] = runs'[s].attester
                    /\ <<runs'[s].attester, runs'[s].hash>> \in attested
                    /\ rootOf[<<runs'[s].attester, runs'[s].hash>>] = runs'[s].root
    <3>1. CASE s = r
      BY <1>2, <3>1
    <3>2. CASE s # r
      BY <1>2, <3>2 DEF LaneInvariant, LandedIsRecorded
    <3>3. QED
      BY <3>1, <3>2
  <2>2. QED
    BY <1>1, <2>1 DEF LandedIsRecorded, vaultVars
<1>8. RowsAreAttested'
  <2>1. \A k \in Passports \ raced' : \A i \in DOMAIN versions'[k] :
          OwnerAttested(k, versions'[k][i])
    BY <1>t, ArchiveAttested
  <2>2. ASSUME NEW k \in Passports
        PROVE  /\ row'[k].attester # None =>
                    binding[k] # None /\ binding[k][1] = row'[k].attester
               /\ k \notin raced' /\ row'[k].status = "anchored" => OwnerAttested(k, row'[k])
    <3>1. CASE k = p
      BY <1>2, <1>t, <3>1 DEF RowsAreAttested
    <3>2. CASE k # p
      BY <1>1, <1>2, <1>t, <3>2 DEF RowsAreAttested, Alone, Anchored
    <3>3. QED
      BY <3>1, <3>2
  <2>3. QED
    BY <1>1, <2>1, <2>2 DEF RowsAreAttested, Alone, Anchored, OwnerAttested, vaultVars
<1>9. QED
  BY <1>4, <1>5, <1>6, <1>7, <1>8

\* A step that writes no row and nothing on the chain, revives no run and
\* brings no run to 'settling' without a landed transaction is harmless.
LEMMA KeepRows ==
  ASSUME TypeInv, LaneInvariant, UNCHANGED <<row, versions, raced, vaultVars>>,
         \A s \in Runs :
           /\ runs'[s].passport = runs[s].passport
           /\ runs'[s].hash = runs[s].hash
           /\ runs'[s].root = runs[s].root
           /\ runs'[s].attester = runs[s].attester
           /\ Live(s)' => Live(s)
           /\ runs'[s].phase = "settling" => runs'[s].tx = "landed"
           /\ runs'[s].tx = "landed" => runs[s].tx = "landed"
  PROVE  RunOwnsRow' /\ OneLiveRun' /\ BindingHasOneOwner' /\ LandedIsRecorded' /\ RowsAreAttested'
<1>1. RunOwnsRow'
  BY DEF LaneInvariant, RunOwnsRow
<1>2. OneLiveRun'
  BY DEF LaneInvariant, OneLiveRun
<1>3. BindingHasOneOwner'
  BY DEF LaneInvariant, BindingHasOneOwner, vaultVars
<1>4. LandedIsRecorded'
  BY DEF LaneInvariant, LandedIsRecorded, vaultVars
<1>5. RowsAreAttested'
  BY DEF LaneInvariant, RowsAreAttested, Alone, Anchored, OwnerAttested, vaultVars
<1>6. QED
  BY <1>1, <1>2, <1>3, <1>4, <1>5

\* A run that ends takes its row out of 'anchoring': to 'failed', or, when it
\* has landed, to 'anchored' under one of its stamps.
LEMMA EndRun ==
  ASSUME TypeInv, LaneInvariant, NEW r \in Runs, MarkAnchored(r) \/ MarkFailed(r)
  PROVE  RunOwnsRow' /\ OneLiveRun' /\ BindingHasOneOwner' /\ LandedIsRecorded' /\ RowsAreAttested'
<1> DEFINE p == runs[r].passport
<1>t. row \in [Passports -> RowType] /\ runs \in [Runs -> RunType]
  BY DEF TypeInv, TypeOK
<1>1. Live(r) /\ p \in Passports /\ runs[r].attester \in Attesters
  BY DEF MarkAnchored, MarkFailed, Live, TypeInv, RowsAreWhole
<1>2. PICK phase \in {"ended", "lost"} :
        runs' = [runs EXCEPT ![r].phase = phase] /\ UNCHANGED <<versions, raced, vaultVars>>
  BY DEF MarkAnchored, MarkFailed, SetPhase
<1>3. /\ \A s \in Runs \ {r} : runs'[s] = runs[s]
      /\ runs'[r].phase = phase /\ runs'[r].tx = runs[r].tx
      /\ runs'[r].passport = runs[r].passport /\ runs'[r].hash = runs[r].hash
      /\ runs'[r].root = runs[r].root /\ runs'[r].attester = runs[r].attester
  BY <1>2, <1>t DEF RunType
<1>4. \A s \in Runs \ {r} :
        Live(s) /\ runs[s].passport \notin raced => runs[s].passport \in Passports \ {p}
  BY <1>1 DEF LaneInvariant, OneLiveRun, RowsAreWhole, Live
<1>5. \A q \in Passports \ {p} : row'[q] = row[q]
  BY <1>1, <1>t DEF MarkAnchored, MarkFailed
<1>l. \A s \in Runs : Live(s)' => s # r /\ Live(s)
  BY <1>3 DEF Live
<1>6. RunOwnsRow'
  BY <1>2, <1>3, <1>4, <1>5, <1>l DEF LaneInvariant, RunOwnsRow
<1>7. OneLiveRun'
  BY <1>2, <1>3, <1>l DEF LaneInvariant, OneLiveRun
<1>8. BindingHasOneOwner'
  BY <1>2 DEF LaneInvariant, BindingHasOneOwner, vaultVars
<1>9. LandedIsRecorded'
  BY <1>2, <1>3 DEF LaneInvariant, LandedIsRecorded, vaultVars
<1>10. /\ row'[p].attester # None => binding[p] # None /\ binding[p][1] = row'[p].attester
       /\ row'[p].status = "anchored" /\ p \notin raced => OwnerAttested(p, row'[p])
  <2>1. row[p].attester # None => binding[p] # None /\ binding[p][1] = row[p].attester
    BY <1>1 DEF LaneInvariant, RowsAreAttested
  <2>2. p \notin raced =>
          /\ row[p].status = "anchoring" /\ row[p].hash = runs[r].hash
          /\ runs[r].root # None => row[p].root = runs[r].root
    BY <1>1 DEF LaneInvariant, RunOwnsRow
  <2>3. CASE MarkFailed(r)
    <3>1. row' = row \/ row' = [row EXCEPT ![p].status = "failed"]
      BY <2>3 DEF MarkFailed
    <3>2. /\ row'[p].attester = row[p].attester
          /\ p \notin raced => row'[p].status # "anchored"
      BY <1>1, <1>t, <2>2, <3>1 DEF RowType
    <3>3. QED
      BY <2>1, <3>2
  <2>4. CASE MarkAnchored(r)
    <3>1. PICK stamp \in Stamps(r) :
            row' = [row EXCEPT ![p].status = "anchored", ![p].attester = stamp]
      BY <2>4 DEF MarkAnchored
    <3>2. row'[p].attester = stamp /\ row'[p].hash = row[p].hash /\ row'[p].root = row[p].root
      BY <1>1, <1>t, <3>1 DEF RowType
    <3>3. /\ binding[p] # None /\ binding[p][1] = runs[r].attester
          /\ <<runs[r].attester, runs[r].hash>> \in attested
          /\ rootOf[<<runs[r].attester, runs[r].hash>>] = runs[r].root
      BY <2>4 DEF MarkAnchored, LaneInvariant, LandedIsRecorded
    <3>4. stamp \in {None, binding[p][1]}
      BY <2>1, <3>1, <3>3 DEF Stamps
    <3>5. p \notin raced => OwnerAttested(p, row'[p])
      BY <2>2, <3>2, <3>3, <3>4 DEF OwnerAttested
    <3>6. QED
      BY <3>2, <3>3, <3>4, <3>5
  <2>5. QED
    BY <2>3, <2>4
<1>11. RowsAreAttested'
  <2>1. ASSUME NEW q \in Passports
        PROVE  /\ row'[q].attester # None => binding[q] # None /\ binding[q][1] = row'[q].attester
               /\ q \notin raced =>
                    /\ row'[q].status = "anchored" => OwnerAttested(q, row'[q])
                    /\ \A i \in DOMAIN versions[q] : OwnerAttested(q, versions[q][i])
    BY <1>5, <1>10 DEF LaneInvariant, RowsAreAttested, Alone, Anchored
  <2>2. QED
    BY <1>2, <2>1 DEF RowsAreAttested, Alone, Anchored, OwnerAttested, vaultVars
<1>12. QED
  BY <1>6, <1>7, <1>8, <1>9, <1>11

\* A transaction that lands adds a record and disturbs none, even when its
\* runner gave up on it long ago.
LEMMA LandKeeps ==
  ASSUME TypeInv, LaneInvariant, NEW r \in Runs, LandTx(r)
  PROVE  RunOwnsRow' /\ OneLiveRun' /\ BindingHasOneOwner' /\ LandedIsRecorded' /\ RowsAreAttested'
<1>t. runs \in [Runs -> RunType]
  BY DEF TypeInv, TypeOK
<1>b. BindingHasOneOwner
  BY DEF LaneInvariant
<1>1. PICK tx \in TxStates : runs' = [runs EXCEPT ![r].tx = tx]
  BY LandType
<1>2. /\ \A s \in Runs : /\ runs'[s].phase = runs[s].phase
                         /\ runs'[s].passport = runs[s].passport
                         /\ runs'[s].hash = runs[s].hash
                         /\ runs'[s].root = runs[s].root
                         /\ runs'[s].attester = runs[s].attester
      /\ \A s \in Runs \ {r} : runs'[s].tx = runs[s].tx
  BY <1>1, <1>t DEF RunType
<1>3. UNCHANGED <<row, versions, raced>> /\ runs[r].tx = "inflight" /\ runs[r].phase # "unused"
  BY LandType DEF LandTx
<1>4. RunOwnsRow' /\ OneLiveRun'
  BY <1>2, <1>3 DEF LaneInvariant, RunOwnsRow, OneLiveRun, Live
<1>5. BindingHasOneOwner'
  BY <1>b, VaultGrows
<1>6. LandedIsRecorded'
  <2>1. ASSUME NEW s \in Runs, s # r, runs[s].tx = "landed"
        PROVE  /\ binding'[runs[s].passport] # None
               /\ binding'[runs[s].passport][1] = runs[s].attester
               /\ <<runs[s].attester, runs[s].hash>> \in attested'
               /\ rootOf'[<<runs[s].attester, runs[s].hash>>] = runs[s].root
    <3>1. runs[s].passport \in Passports
      BY <2>1 DEF TypeInv, RowsAreWhole
    <3>2. QED
      BY <1>b, <2>1, <3>1, VaultGrows DEF LaneInvariant, LandedIsRecorded
  <2>2. runs'[r].tx = "landed" =>
          /\ binding'[runs[r].passport] = <<runs[r].attester, runs[r].hash>>
          /\ <<runs[r].attester, runs[r].hash>> \in attested'
          /\ rootOf'[<<runs[r].attester, runs[r].hash>>] = runs[r].root
    BY <1>b, VaultGrows
  <2>3. <<runs[r].attester, runs[r].hash>> # None
    BY <1>3, NoneAssumption DEF TypeInv, RowsAreWhole
  <2>4. runs[r].phase # "settling"
    BY <1>3 DEF LaneInvariant, LandedIsRecorded
  <2>5. ASSUME NEW s \in Runs
        PROVE  /\ runs'[s].phase = "settling" => runs'[s].tx = "landed"
               /\ runs'[s].tx = "landed" =>
                    /\ binding'[runs'[s].passport] # None
                    /\ binding'[runs'[s].passport][1] = runs'[s].attester
                    /\ <<runs'[s].attester, runs'[s].hash>> \in attested'
                    /\ rootOf'[<<runs'[s].attester, runs'[s].hash>>] = runs'[s].root
    <3>1. CASE s = r
      BY <1>2, <2>2, <2>3, <2>4, <3>1
    <3>2. CASE s # r
      BY <1>2, <2>1, <3>2 DEF LaneInvariant, LandedIsRecorded
    <3>3. QED
      BY <3>1, <3>2
  <2>6. QED
    BY <2>5 DEF LandedIsRecorded
<1>7. RowsAreAttested'
  <2>1. RowsAreAttested
    BY DEF LaneInvariant
  <2>2. ASSUME NEW p \in Passports
        PROVE  /\ row[p].attester # None => binding'[p] # None /\ binding'[p][1] = row[p].attester
               /\ p \notin raced =>
                    /\ Anchored(p) => OwnerAttested(p, row[p])'
                    /\ \A i \in DOMAIN versions[p] : OwnerAttested(p, versions[p][i])'
    <3>0. /\ row' = row /\ versions' = versions
          /\ \A coords : OwnerAttested(p, coords) =>
               /\ binding'[p] # None
               /\ <<binding'[p][1], coords.hash>> \in attested'
               /\ rootOf'[<<binding'[p][1], coords.hash>>] \in {None, coords.root}
               /\ coords.attester \in {None, binding'[p][1]}
      BY <1>b, <1>3, OwnerAttestedStays
    <3>1. row[p].attester # None => binding'[p] # None /\ binding'[p][1] = row[p].attester
      BY <1>b, <2>1, VaultGrows DEF RowsAreAttested
    <3>2. p \notin raced /\ Anchored(p) => OwnerAttested(p, row[p])'
      <4>1. p \notin raced /\ Anchored(p) => OwnerAttested(p, row[p])
        BY <2>1 DEF RowsAreAttested, Alone
      <4>2. QED
        BY <3>0, <4>1 DEF OwnerAttested
    <3>3. ASSUME p \notin raced, NEW i \in DOMAIN versions[p]
          PROVE  OwnerAttested(p, versions[p][i])'
      <4>1. OwnerAttested(p, versions[p][i])
        BY <2>1, <3>3 DEF RowsAreAttested, Alone
      <4>2. QED
        BY <3>0, <4>1 DEF OwnerAttested
    <3>4. QED
      BY <3>1, <3>2, <3>3
  <2>3. QED
    BY <1>3, <2>2 DEF RowsAreAttested, Alone, Anchored
<1>8. QED
  BY <1>4, <1>5, <1>6, <1>7

\* One step, whoever overtakes whom.
LEMMA NextLane ==
  ASSUME ChainConfirmed
  PROVE  TypeInv /\ LaneInvariant /\ [Next]_vars => LaneInvariant'
<1> SUFFICES ASSUME TypeInv, LaneInvariant, [Next]_vars PROVE LaneInvariant'
  OBVIOUS
<1>t. /\ row \in [Passports -> RowType]
      /\ runs \in [Runs -> RunType]
  BY DEF TypeInv, TypeOK
<1>w. RowsAreWhole' /\ RequestsAreWhole'
  BY NextType DEF TypeInv
<1>a. RowsAreAttested /\ RowsAreWhole
  BY DEF LaneInvariant
<1>s. \A s \in Runs : runs[s].phase = "settling" => runs[s].tx = "landed"
  BY DEF LaneInvariant, LandedIsRecorded
<1> SUFFICES RunOwnsRow' /\ OneLiveRun' /\ BindingHasOneOwner' /\ LandedIsRecorded' /\ RowsAreAttested'
  BY <1>w DEF LaneInvariant
<1>1. CASE UNCHANGED vars
  BY <1>1, <1>s, KeepRows DEF vars, anchorVars, Live
<1>2. ASSUME NEW p \in Passports, NEW c \in Payloads, CreatePassport(p, c)
      PROVE  RunOwnsRow' /\ OneLiveRun' /\ BindingHasOneOwner' /\ LandedIsRecorded' /\ RowsAreAttested'
  <2>1. UNCHANGED <<versions, runs, raced, vaultVars>>
    BY <1>2 DEF CreatePassport
  <2>2. /\ row'[p].status = "draft" /\ row'[p].attester = None
        /\ \A q \in Passports \ {p} : row'[q] = row[q]
    BY <1>2, <1>t DEF CreatePassport
  <2>3. \A s \in Runs : Live(s) => runs[s].passport \in Passports \ {p}
    BY <1>2, <1>a DEF CreatePassport, Exists, RowsAreWhole, Live
  <2>4. RunOwnsRow'
    BY <2>1, <2>2, <2>3 DEF LaneInvariant, RunOwnsRow, Live
  <2>5. OneLiveRun' /\ BindingHasOneOwner' /\ LandedIsRecorded'
    BY <2>1 DEF LaneInvariant, OneLiveRun, BindingHasOneOwner, LandedIsRecorded, Live, vaultVars
  <2>6. ASSUME NEW q \in Passports
        PROVE  /\ row'[q].attester # None => binding[q] # None /\ binding[q][1] = row'[q].attester
               /\ q \notin raced /\ row'[q].status = "anchored" => OwnerAttested(q, row'[q])
    BY <1>a, <2>2 DEF RowsAreAttested, Alone, Anchored
  <2>7. RowsAreAttested'
    BY <1>a, <2>1, <2>6 DEF RowsAreAttested, Alone, Anchored, OwnerAttested, vaultVars
  <2>8. QED
    BY <2>4, <2>5, <2>7
<1>3. ASSUME NEW p \in Passports, NEW c \in Payloads, ChangeContent(p, c)
      PROVE  RunOwnsRow' /\ OneLiveRun' /\ BindingHasOneOwner' /\ LandedIsRecorded' /\ RowsAreAttested'
  BY <1>3, <1>s, KeepRows DEF ChangeContent, Live
<1>4. ASSUME NEW q \in Requests, Reads(q) \/ AbandonRequest(q)
      PROVE  RunOwnsRow' /\ OneLiveRun' /\ BindingHasOneOwner' /\ LandedIsRecorded' /\ RowsAreAttested'
  <2>1. Quiet
    BY <1>4, ReadsAreQuiet
  <2>2. QED
    BY <1>s, <2>1, KeepRows DEF Quiet, Live
<1>8. ASSUME NEW r \in Runs, SubmitTx(r) \/ GiveUp(r) \/ MarkAnchoredFails(r)
      PROVE  RunOwnsRow' /\ OneLiveRun' /\ BindingHasOneOwner' /\ LandedIsRecorded' /\ RowsAreAttested'
  <2>1. /\ UNCHANGED <<row, versions, raced, vaultVars>>
        /\ \A s \in Runs \ {r} : runs'[s] = runs[s]
        /\ runs'[r].passport = runs[r].passport /\ runs'[r].hash = runs[r].hash
        /\ runs'[r].root = runs[r].root /\ runs'[r].attester = runs[r].attester
    BY <1>8, <1>t DEF SubmitTx, GiveUp, MarkAnchoredFails, SetPhase, RunType
  <2>2. /\ runs'[r].tx \in {runs[r].tx, "inflight"}
        /\ Live(r) /\ runs'[r].phase \in {"waiting", "failing"}
    BY <1>8, <1>t DEF SubmitTx, GiveUp, MarkAnchoredFails, SetPhase, RunType, Live
  <2>4. ASSUME NEW s \in Runs
        PROVE  /\ runs'[s].passport = runs[s].passport
               /\ runs'[s].hash = runs[s].hash
               /\ runs'[s].root = runs[s].root
               /\ runs'[s].attester = runs[s].attester
               /\ Live(s)' => Live(s)
               /\ runs'[s].phase = "settling" => runs'[s].tx = "landed"
               /\ runs'[s].tx = "landed" => runs[s].tx = "landed"
    BY <1>s, <2>1, <2>2 DEF Live
  <2>5. QED
    BY <2>1, <2>4, KeepRows
<1>9. ASSUME NEW r \in Runs, ObserveSuccess(r)
      PROVE  RunOwnsRow' /\ OneLiveRun' /\ BindingHasOneOwner' /\ LandedIsRecorded' /\ RowsAreAttested'
  <2>1. PICK phase \in {"settling", "failing"} : runs' = [runs EXCEPT ![r].phase = phase]
    BY <1>9 DEF ObserveSuccess, SetPhase
  <2>2. /\ UNCHANGED <<row, versions, raced, vaultVars>> /\ Live(r) /\ runs[r].tx = "landed"
        /\ \A s \in Runs \ {r} : runs'[s] = runs[s]
        /\ runs'[r].passport = runs[r].passport /\ runs'[r].hash = runs[r].hash
        /\ runs'[r].root = runs[r].root /\ runs'[r].attester = runs[r].attester
        /\ runs'[r].tx = runs[r].tx
    BY <1>9, <1>t, <2>1 DEF ObserveSuccess, RunType, Live
  <2>4. ASSUME NEW s \in Runs
        PROVE  /\ runs'[s].passport = runs[s].passport
               /\ runs'[s].hash = runs[s].hash
               /\ runs'[s].root = runs[s].root
               /\ runs'[s].attester = runs[s].attester
               /\ Live(s)' => Live(s)
               /\ runs'[s].phase = "settling" => runs'[s].tx = "landed"
               /\ runs'[s].tx = "landed" => runs[s].tx = "landed"
    BY <1>s, <2>2 DEF Live
  <2>5. QED
    BY <2>2, <2>4, KeepRows
<1>10. CASE Crash
  <2>1. UNCHANGED <<row, versions, raced, vaultVars>>
        /\ runs' = [s \in Runs |-> IF Live(s) THEN [runs[s] EXCEPT !.phase = "lost"] ELSE runs[s]]
    BY <1>10 DEF Crash, KillRuns
  <2>3. ASSUME NEW s \in Runs
        PROVE  /\ runs'[s].passport = runs[s].passport
               /\ runs'[s].hash = runs[s].hash
               /\ runs'[s].root = runs[s].root
               /\ runs'[s].attester = runs[s].attester
               /\ Live(s)' => Live(s)
               /\ runs'[s].phase = "settling" => runs'[s].tx = "landed"
               /\ runs'[s].tx = "landed" => runs[s].tx = "landed"
    <3>1. runs[s] \in RunType
      BY <1>t
    <3>2. CASE Live(s)
      <4>1. runs'[s] = [runs[s] EXCEPT !.phase = "lost"]
        BY <2>1, <3>2
      <4>2. QED
        BY <3>1, <3>2, <4>1 DEF RunType
    <3>3. CASE ~Live(s)
      BY <2>1, <1>s, <3>3 DEF Live
    <3>4. QED
      BY <3>2, <3>3
  <2>4. QED
    BY <2>1, <2>3, KeepRows
<1>11. QED
  BY <1>1, <1>2, <1>3, <1>4, <1>8, <1>9, <1>10, CommitKeeps, EndRun, LandKeeps, StepKinds
     DEF RunStep

-----------------------------------------------------------------------------
(* The theorems, with a plugin that reports what became of a transaction on  *)
(* the chain                                                                 *)

\* In every reachable state, of the passports on which requests and runners
\* took turns: a live run owns its row, at most one lives on a passport, and
\* what rows and versions claim is on the chain under the one owner of the
\* passport's document.  A stamp names that owner on every passport.
THEOREM LaneIsInvariant ==
  ASSUME ChainConfirmed
  PROVE  Spec => []LaneInvariant
<1>1. Spec => [](TypeInv /\ LaneInvariant)
  <2>1. Init => TypeInv /\ LaneInvariant
    BY InitType, InitLane
  <2>2. TypeInv /\ LaneInvariant /\ [Next]_vars => (TypeInv /\ LaneInvariant)'
    BY NextType, NextLane
  <2>3. QED
    BY <2>1, <2>2, PTL DEF Spec
<1>2. QED
  BY <1>1, PTL

\* Unless a request overtook another or a runner, a row marked anchored is
\* attested on the chain by the wallet it names: the write of a runner, which
\* looks at nothing, never marks another payload.
THEOREM AnchoredRowsAreAttested ==
  ASSUME ChainConfirmed
  PROVE  Spec => []AnchoredIsAttested
<1>1. TypeInv /\ LaneInvariant => AnchoredIsAttested
  <2> SUFFICES ASSUME TypeInv, LaneInvariant, NEW p \in Alone, Anchored(p)
               PROVE  \E a \in Attesters : /\ row[p].attester \in {a, None}
                                           /\ <<a, row[p].hash>> \in attested
    BY DEF AnchoredIsAttested
  <2>1. OwnerAttested(p, row[p])
    BY DEF LaneInvariant, RowsAreAttested, Alone
  <2>2. binding[p][1] \in Attesters
    BY <2>1 DEF TypeInv, TypeOK, VaultTypeOK, OwnerAttested, Alone
  <2>3. QED
    BY <2>1, <2>2 DEF OwnerAttested
<1>2. Spec => []TypeInv
  BY InitType, NextType, PTL DEF Spec
<1>3. QED
  BY <1>1, <1>2, LaneIsInvariant, PTL

\* Likewise the content tree stored with an anchored row opens the root anchored
\* with its record: the seed drawn for a run is the one that opens what it
\* anchored.
THEOREM AnchoredTreesOpen ==
  ASSUME ChainConfirmed
  PROVE  Spec => []AnchoredTreeOpens
<1>1. TypeInv /\ LaneInvariant => AnchoredTreeOpens
  <2> SUFFICES ASSUME TypeInv, LaneInvariant, NEW p \in Alone, Anchored(p)
               PROVE  \E a \in Attesters : /\ <<a, row[p].hash>> \in attested
                                           /\ rootOf[<<a, row[p].hash>>] \in {None, row[p].root}
    BY DEF AnchoredTreeOpens
  <2>1. OwnerAttested(p, row[p])
    BY DEF LaneInvariant, RowsAreAttested, Alone
  <2>2. binding[p][1] \in Attesters
    BY <2>1 DEF TypeInv, TypeOK, VaultTypeOK, OwnerAttested, Alone
  <2>3. QED
    BY <2>1, <2>2 DEF OwnerAttested
<1>2. Spec => []TypeInv
  BY InitType, NextType, PTL DEF Spec
<1>3. QED
  BY <1>1, <1>2, LaneIsInvariant, PTL

\* Likewise every archived version stays attested and openable under every later
\* anchor, crash, timeout and late landing.
THEOREM ArchivedVersionsStayVerifiable ==
  ASSUME ChainConfirmed
  PROVE  Spec => []VersionsStayVerifiable
<1>1. TypeInv /\ LaneInvariant => VersionsStayVerifiable
  <2> SUFFICES ASSUME TypeInv, LaneInvariant, NEW p \in Alone, NEW i \in DOMAIN versions[p]
               PROVE  \E a \in Attesters :
                        /\ versions[p][i].attester \in {a, None}
                        /\ <<a, versions[p][i].hash>> \in attested
                        /\ rootOf[<<a, versions[p][i].hash>>] \in {None, versions[p][i].root}
    BY DEF VersionsStayVerifiable
  <2>1. OwnerAttested(p, versions[p][i])
    BY DEF LaneInvariant, RowsAreAttested, Alone
  <2>2. binding[p][1] \in Attesters
    BY <2>1 DEF TypeInv, TypeOK, VaultTypeOK, OwnerAttested, Alone
  <2>3. QED
    BY <2>1, <2>2 DEF OwnerAttested
<1>2. Spec => []TypeInv
  BY InitType, NextType, PTL DEF Spec
<1>3. QED
  BY <1>1, <1>2, LaneIsInvariant, PTL

-----------------------------------------------------------------------------
(* What one step makes of a run, and of a row *)

\* A run starts without a transaction; after that it keeps its coordinates.
LEMMA RunMoves ==
  ASSUME TypeInv, [Next]_vars, NEW s \in Runs
  PROVE  \/ /\ runs[s].phase = "unused" /\ runs'[s].phase = "starting" /\ runs'[s].tx = "none"
            /\ \E q \in Requests, a \in Attesters :
                 CommitRequest(q, a, s) /\ requests[q].passport = runs'[s].passport
         \/ /\ runs'[s].passport = runs[s].passport /\ runs'[s].hash = runs[s].hash
            /\ runs'[s].root = runs[s].root /\ runs'[s].attester = runs[s].attester
            /\ Live(s)' => Live(s)
            /\ (runs'[s].phase = "unused") <=> (runs[s].phase = "unused")
            /\ runs'[s].phase = "starting" =>
                 runs[s].phase = "starting" /\ runs'[s].tx \in {runs[s].tx, "landed", "partial"}
            /\ runs'[s].phase = "settling" => runs[s].phase = "settling" \/ ObserveSuccess(s)
            /\ runs'[s].tx = "landed" => runs[s].tx = "landed" \/ LandTx(s)
            /\ runs[s].tx = "landed" /\ runs[s].phase # "starting" => runs'[s].tx = "landed"
            /\ LandTx(s) => runs[s].tx = "inflight"
<1>t. runs \in [Runs -> RunType]
  BY DEF TypeInv, TypeOK
<1> DEFINE Kept == runs'[s] = runs[s]
           Moved == /\ runs'[s].passport = runs[s].passport /\ runs'[s].hash = runs[s].hash
                    /\ runs'[s].root = runs[s].root /\ runs'[s].attester = runs[s].attester
                    /\ Live(s)' => Live(s)
                    /\ (runs'[s].phase = "unused") <=> (runs[s].phase = "unused")
                    /\ runs'[s].phase = "starting" =>
                         /\ runs[s].phase = "starting"
                         /\ runs'[s].tx \in {runs[s].tx, "landed", "partial"}
                    /\ runs'[s].phase = "settling" => runs[s].phase = "settling" \/ ObserveSuccess(s)
                    /\ runs'[s].tx = "landed" => runs[s].tx = "landed" \/ LandTx(s)
                    /\ runs[s].tx = "landed" /\ runs[s].phase # "starting" => runs'[s].tx = "landed"
<1>k. Kept => Moved
  BY DEF Live
<1>i. LandTx(s) => runs[s].tx = "inflight"
  BY DEF LandTx
<1>1. ASSUME NEW q \in Requests, NEW a \in Attesters, NEW r \in Runs, CommitRequest(q, a, r)
      PROVE  \/ Kept
             \/ /\ runs[s].phase = "unused" /\ runs'[s].phase = "starting" /\ runs'[s].tx = "none"
                /\ r = s /\ requests[q].passport = runs'[s].passport
  <2>1. PICK p \in Passports, h \in Payloads, written \in Payloads, values \in Payloads :
          AnchorRow(p, h, written, values, a, r) /\ p = requests[q].passport
    BY <1>1, CommitWrites
  <2>2. /\ runs[r].phase = "unused"
        /\ runs'[r].phase = "starting" /\ runs'[r].tx = "none" /\ runs'[r].passport = p
        /\ \A k \in Runs \ {r} : runs'[k] = runs[k]
    BY <2>1, AnchorRowType DEF TypeInv
  <2> QED
    BY <2>1, <2>2
<1>3. (\/ UNCHANGED vars
       \/ \E p \in Passports, c \in Payloads : CreatePassport(p, c) \/ ChangeContent(p, c)
       \/ \E q \in Requests : Reads(q) \/ AbandonRequest(q))
      => Kept
  BY ReadsAreQuiet DEF CreatePassport, ChangeContent, Quiet, vars, anchorVars
<1>4. ASSUME NEW r \in Runs, RunStep(r)
      PROVE  Kept \/ Moved
  <2>1. CASE s # r
    BY <1>t, <1>4, <2>1, RunStepType
  <2>2. CASE s = r
    <3>1. PICK phase \in Phases \ {"unused"}, tx \in TxStates :
            runs' = [runs EXCEPT ![r].phase = phase, ![r].tx = tx]
      BY <1>4, RunStepType
    <3>2. runs'[s].passport = runs[s].passport /\ runs'[s].hash = runs[s].hash
          /\ runs'[s].root = runs[s].root /\ runs'[s].attester = runs[s].attester
      BY <1>t, <2>2, <3>1 DEF RunType
    <3>3. Live(s) \/ runs[s].phase = "unused"
      BY <1>4, <2>2 DEF RunStep, SubmitTx, GiveUp, ObserveSuccess, MarkAnchored, MarkAnchoredFails,
                        MarkFailed, Live
    <3>4. runs[s].phase # "unused" /\ runs'[s].phase # "unused"
      <4>1. runs'[s].phase = phase
        BY <1>t, <2>2, <3>1 DEF RunType
      <4>2. runs[s].phase # "unused"
        BY <1>4, <2>2, RunStepType
      <4> QED
        BY <4>1, <4>2
    <3>5. runs'[s].phase = "settling" => ObserveSuccess(s)
      BY <1>t, <1>4, <2>2 DEF RunStep, SubmitTx, GiveUp, MarkAnchored, MarkAnchoredFails,
                              MarkFailed, SetPhase, RunType
    <3>6. runs'[s].tx = "landed" => runs[s].tx = "landed"
      BY <1>t, <1>4, <2>2 DEF RunStep, SubmitTx, GiveUp, ObserveSuccess, MarkAnchored,
                              MarkAnchoredFails, MarkFailed, SetPhase, RunType
    <3>7. runs'[s].phase # "starting"
      BY <1>t, <1>4, <2>2 DEF RunStep, SubmitTx, GiveUp, ObserveSuccess, MarkAnchored,
                              MarkAnchoredFails, MarkFailed, SetPhase, RunType
    <3>8. runs[s].phase # "starting" => runs'[s].tx = runs[s].tx
      BY <1>t, <1>4, <2>2 DEF RunStep, SubmitTx, GiveUp, ObserveSuccess, MarkAnchored,
                              MarkAnchoredFails, MarkFailed, SetPhase, RunType
    <3> QED
      BY <3>2, <3>3, <3>4, <3>5, <3>6, <3>7, <3>8
  <2> QED
    BY <2>1, <2>2
<1>5. ASSUME NEW r \in Runs, LandTx(r)
      PROVE  Moved
  <2>1. PICK tx \in {"landed", "partial"} : runs' = [runs EXCEPT ![r].tx = tx]
    BY <1>5 DEF LandTx
  <2>2. CASE s # r
    BY <1>k, <1>t, <2>1, <2>2
  <2>3. CASE s = r
    <3>1. /\ runs'[s].passport = runs[s].passport /\ runs'[s].hash = runs[s].hash
          /\ runs'[s].root = runs[s].root /\ runs'[s].attester = runs[s].attester
          /\ runs'[s].phase = runs[s].phase /\ runs'[s].tx = tx
      BY <1>t, <2>1, <2>3 DEF RunType
    <3>2. runs[s].tx = "inflight"
      BY <1>5, <2>3 DEF LandTx
    <3> QED
      BY <1>5, <2>3, <3>1, <3>2 DEF Live
  <2> QED
    BY <2>2, <2>3
<1>6. ASSUME Crash PROVE Moved
  <2>1. runs'[s] = IF Live(s) THEN [runs[s] EXCEPT !.phase = "lost"] ELSE runs[s]
    BY <1>6 DEF Crash, KillRuns
  <2>2. CASE Live(s)
    <3>1. /\ runs'[s].passport = runs[s].passport /\ runs'[s].hash = runs[s].hash
          /\ runs'[s].root = runs[s].root /\ runs'[s].attester = runs[s].attester
          /\ runs'[s].phase = "lost" /\ runs'[s].tx = runs[s].tx
      BY <1>t, <2>1, <2>2 DEF RunType
    <3> QED
      BY <2>2, <3>1 DEF Live
  <2>3. CASE ~Live(s)
    BY <1>k, <2>1, <2>3
  <2> QED
    BY <2>2, <2>3
<1> HIDE DEF Kept
<1>7. \/ Moved
      \/ \E q \in Requests, a \in Attesters : 
           /\ runs[s].phase = "unused" /\ runs'[s].phase = "starting" /\ runs'[s].tx = "none"
           /\ CommitRequest(q, a, s) /\ requests[q].passport = runs'[s].passport
  <2> HIDE DEF Moved
  <2> QED
    BY <1>1, <1>3, <1>4, <1>5, <1>6, <1>k, StepKinds
<1> QED
  BY <1>7, <1>i

\* A row is created as a draft, taken up by a commit, or marked by a runner.
LEMMA RowMoves ==
  ASSUME TypeInv, [Next]_vars, NEW p \in Passports
  PROVE  \/ row'[p] = row[p] /\ versions'[p] = versions[p]
         \/ row[p].status = "absent" /\ row'[p].status = "draft" /\ versions'[p] = versions[p]
         \/ /\ row'[p].status = "anchoring" /\ "offline" \notin attestLog'[p]
            /\ \E q \in Requests, a \in Attesters, r \in Runs :
                 CommitRequest(q, a, r) /\ requests[q].passport = p
         \/ \E r \in Runs : /\ runs[r].passport = p /\ versions'[p] = versions[p]
                            /\ MarkAnchored(r) \/ (MarkFailed(r) /\ row'[p].status = "failed")
<1>t. /\ row \in [Passports -> RowType] /\ versions \in [Passports -> Seq(Coordinates)]
      /\ attestLog \in [Passports -> SUBSET LogStatuses]
  BY DEF TypeInv, TypeOK
<1>1. ASSUME NEW q \in Requests, NEW a \in Attesters, NEW r \in Runs, CommitRequest(q, a, r)
      PROVE  /\ p # requests[q].passport => row'[p] = row[p] /\ versions'[p] = versions[p]
             /\ p = requests[q].passport =>
                  row'[p].status = "anchoring" /\ "offline" \notin attestLog'[p]
  <2>1. PICK k \in Passports, h \in Payloads, written \in Payloads, values \in Payloads :
          /\ k = requests[q].passport
          /\ AnchorRow(k, h, written, values, a, r)
          /\ \/ versions' = versions
             \/ versions' = [versions EXCEPT ![k] = Append(@, Outgoing(k, requests[q].was))]
    BY <1>1, CommitWrites
  <2>2. /\ p # k => row'[p] = row[p]
        /\ p = k => row'[p].status = "anchoring"
    BY <2>1, AnchorRowType DEF TypeInv
  <2>3. p = k => "offline" \notin attestLog'[p]
    BY <2>1, <1>t DEF AnchorRow
  <2>4. p # k => versions'[p] = versions[p]
    BY <2>1, <1>t
  <2> QED
    BY <2>1, <2>2, <2>3, <2>4
<1>5. ASSUME NEW q \in Passports, NEW c \in Payloads, CreatePassport(q, c) \/ ChangeContent(q, c)
      PROVE  /\ versions'[p] = versions[p]
             /\ \/ row'[p] = row[p]
                \/ row[p].status = "absent" /\ row'[p].status = "draft"
  BY <1>5, <1>t DEF CreatePassport, ChangeContent, Exists
<1>6. ASSUME NEW r \in Runs, RunStep(r)
      PROVE  /\ versions'[p] = versions[p]
             /\ \/ row'[p] = row[p]
                \/ /\ runs[r].passport = p
                   /\ MarkAnchored(r) \/ (MarkFailed(r) /\ row'[p].status = "failed")
  <2>1. versions' = versions
    BY <1>6, RunStepType
  <2>2. CASE MarkAnchored(r)
    BY <1>t, <2>1, <2>2 DEF MarkAnchored
  <2>3. CASE MarkFailed(r)
    <3>1. row' = row \/ row' = [row EXCEPT ![runs[r].passport].status = "failed"]
      BY <2>3 DEF MarkFailed
    <3>2. row'[p] = row[p] \/ runs[r].passport = p
      BY <1>t, <3>1
    <3>3. runs[r].passport = p => row'[p] = row[p] \/ row'[p].status = "failed"
      BY <1>t, <3>1 DEF RowType
    <3> QED
      BY <2>1, <2>3, <3>2, <3>3
  <2>4. CASE row' = row
    BY <2>1, <2>4
  <2> QED
    BY <1>6, <2>2, <2>3, <2>4 DEF RunStep, SubmitTx, GiveUp, ObserveSuccess, MarkAnchoredFails
<1>7. (\/ UNCHANGED vars \/ Crash \/ (\E r \in Runs : LandTx(r))
       \/ \E q \in Requests : Reads(q) \/ AbandonRequest(q))
      => row' = row /\ versions' = versions
  BY ReadsAreQuiet DEF vars, anchorVars, Crash, LandTx, Quiet
<1> QED
  BY <1>1, <1>5, <1>6, <1>7, StepKinds

-----------------------------------------------------------------------------
(* The log *)

\* The placeholder goes with the first anchor, after which the row is no draft; a
\* succeeded step is logged before the row is marked, and only for what has landed.
LogInvariant ==
  /\ \A p \in Passports :
       /\ "offline" \in attestLog[p] => row[p].status = "draft"
       /\ Anchored(p) => "succeeded" \in attestLog[p]
       /\ "succeeded" \in attestLog[p] => binding[p] # None
  /\ \A r \in Runs :
       /\ runs[r].phase = "settling" => "succeeded" \in attestLog[runs[r].passport]
       /\ runs[r].phase # "unused" => row[runs[r].passport].status # "draft"

\* What is written to the log, and what lands, by one step.
LEMMA LogMoves ==
  ASSUME ChainConfirmed, TypeInv, LaneInvariant, [Next]_vars, NEW p \in Passports
  PROVE  /\ "succeeded" \in attestLog[p] => "succeeded" \in attestLog'[p]
         /\ "succeeded" \in attestLog'[p] => "succeeded" \in attestLog[p] \/ binding[p] # None
         /\ "offline" \in attestLog'[p] => "offline" \in attestLog[p] \/ row'[p].status = "draft"
         /\ binding[p] # None => binding'[p] # None
<1>t. row \in [Passports -> RowType] /\ attestLog \in [Passports -> SUBSET LogStatuses]
  BY DEF TypeInv, TypeOK
<1>2. ASSUME NEW q \in Requests, NEW a \in Attesters, NEW r \in Runs, CommitRequest(q, a, r)
      PROVE  attestLog'[p] \in {attestLog[p], attestLog[p] \ {"offline"}} /\ binding' = binding
  BY <1>2, <1>t DEF CommitRequest, AnchorRow, vaultVars
<1>3. ASSUME NEW q \in Passports, NEW c \in Payloads, CreatePassport(q, c) \/ ChangeContent(q, c)
      PROVE  /\ binding' = binding
             /\ \/ attestLog'[p] = attestLog[p]
                \/ attestLog'[p] = attestLog[p] \cup {"offline"} /\ row'[p].status = "draft"
  BY <1>3, <1>t DEF CreatePassport, ChangeContent, vaultVars
<1>4. ASSUME NEW r \in Runs, ObserveSuccess(r)
      PROVE  /\ binding' = binding
             /\ \/ attestLog'[p] = attestLog[p]
                \/ attestLog'[p] = attestLog[p] \cup {"succeeded"} /\ binding[p] # None
  <2>1. binding' = binding
    BY <1>4 DEF ObserveSuccess, vaultVars
  <2>2. binding[runs[r].passport] # None
    BY <1>4 DEF ObserveSuccess, LaneInvariant, LandedIsRecorded
  <2>3. attestLog' = attestLog
        \/ attestLog' = [attestLog EXCEPT ![runs[r].passport] = @ \cup {"succeeded"}]
    BY <1>4 DEF ObserveSuccess
  <2> QED
    BY <1>t, <2>1, <2>2, <2>3
<1>5. ASSUME NEW r \in Runs, LandTx(r)
      PROVE  attestLog' = attestLog /\ (binding[p] # None => binding'[p] # None)
  BY <1>5, VaultGrows DEF LandTx, LaneInvariant
<1>6. (\/ UNCHANGED vars \/ Crash
       \/ (\E q \in Requests : Reads(q) \/ AbandonRequest(q))
       \/ \E r \in Runs : \/ SubmitTx(r) \/ GiveUp(r) \/ MarkAnchored(r)
                          \/ MarkAnchoredFails(r) \/ MarkFailed(r))
      => attestLog' = attestLog /\ binding' = binding
  BY ReadsAreQuiet DEF vars, anchorVars, vaultVars, Quiet, Crash, SubmitTx, GiveUp, MarkAnchored,
         MarkAnchoredFails, MarkFailed
<1> QED
  BY <1>2, <1>3, <1>4, <1>5, <1>6, StepKinds DEF RunStep

LEMMA NextLog ==
  ASSUME ChainConfirmed
  PROVE  TypeInv /\ LaneInvariant /\ LogInvariant /\ [Next]_vars => LogInvariant'
<1> SUFFICES ASSUME TypeInv, LaneInvariant, LogInvariant, [Next]_vars PROVE LogInvariant'
  OBVIOUS
<1>t. /\ runs \in [Runs -> RunType] /\ row \in [Passports -> RowType]
      /\ attestLog \in [Passports -> SUBSET LogStatuses]
  BY DEF TypeInv, TypeOK
<1>1. ASSUME NEW p \in Passports
      PROVE  /\ "offline" \in attestLog'[p] => row'[p].status = "draft"
             /\ row'[p].status = "anchored" => "succeeded" \in attestLog'[p]
             /\ "succeeded" \in attestLog'[p] => binding'[p] # None
             /\ row'[p].status = "draft" => row[p].status \in {"absent", "draft"}
  <2>1. /\ "offline" \in attestLog[p] => row[p].status = "draft"
        /\ Anchored(p) => "succeeded" \in attestLog[p]
        /\ "succeeded" \in attestLog[p] => binding[p] # None
    BY DEF LogInvariant
  <2>2. /\ "succeeded" \in attestLog[p] => "succeeded" \in attestLog'[p]
        /\ "succeeded" \in attestLog'[p] => "succeeded" \in attestLog[p] \/ binding[p] # None
        /\ "offline" \in attestLog'[p] => "offline" \in attestLog[p] \/ row'[p].status = "draft"
        /\ binding[p] # None => binding'[p] # None
    BY LogMoves
  <2>3. "succeeded" \in attestLog'[p] => binding'[p] # None
    BY <2>1, <2>2
  <2>4. ASSUME NEW r \in Runs, runs[r].passport = p,
               MarkAnchored(r) \/ (MarkFailed(r) /\ row'[p].status = "failed")
        PROVE  /\ row[p].status # "draft" /\ row'[p].status \in {"anchored", "failed"}
               /\ row'[p].status = "anchored" => "succeeded" \in attestLog[p]
    <3>1. row[p].status # "draft"
      BY <2>4 DEF LogInvariant, MarkAnchored, MarkFailed
    <3>2. CASE MarkAnchored(r)
      <4>1. "succeeded" \in attestLog[p]
        BY <2>4, <3>2 DEF LogInvariant, MarkAnchored
      <4>2. row'[p].status = "anchored"
        BY <1>t, <2>4, <3>2 DEF MarkAnchored, RowType
      <4> QED
        BY <3>1, <4>1, <4>2
    <3> QED
      BY <2>4, <3>1, <3>2
  <2>5. CASE \E r \in Runs : /\ runs[r].passport = p
                             /\ MarkAnchored(r) \/ (MarkFailed(r) /\ row'[p].status = "failed")
    BY <2>1, <2>2, <2>3, <2>4, <2>5
  <2>6. CASE \/ row'[p] = row[p]
             \/ row[p].status = "absent" /\ row'[p].status = "draft"
             \/ row'[p].status = "anchoring" /\ "offline" \notin attestLog'[p]
    BY <2>1, <2>2, <2>3, <2>6 DEF Anchored
  <2> QED
    BY <2>5, <2>6, RowMoves
<1>2. ASSUME NEW s \in Runs, runs'[s].phase = "settling"
      PROVE  "succeeded" \in attestLog'[runs'[s].passport]
  <2>1. /\ runs'[s].passport = runs[s].passport
        /\ runs'[s].phase # "unused" => runs[s].phase # "unused"
        /\ runs[s].phase = "settling" \/ ObserveSuccess(s)
    BY <1>2, RunMoves
  <2>2. runs[s].passport \in Passports
    BY <1>2, <2>1 DEF TypeInv, RowsAreWhole
  <2>3. CASE runs[s].phase = "settling"
    BY <2>1, <2>2, <2>3, LogMoves DEF LogInvariant
  <2>4. CASE ObserveSuccess(s)
    <3>1. \/ attestLog' = [attestLog EXCEPT ![runs[s].passport] = @ \cup {"succeeded"}]
          \/ runs' = [runs EXCEPT ![s].phase = "failing"]
      BY <2>4 DEF ObserveSuccess, SetPhase
    <3>2. runs' = [runs EXCEPT ![s].phase = "failing"] => runs'[s].phase = "failing"
      BY <1>t DEF RunType
    <3> QED
      BY <1>t, <1>2, <2>1, <2>2, <3>1, <3>2
  <2> QED
    BY <2>1, <2>3, <2>4
<1>3. ASSUME NEW s \in Runs, runs'[s].phase # "unused"
      PROVE  row'[runs'[s].passport].status # "draft"
  <2>1. CASE /\ runs[s].phase = "unused"
             /\ \E q \in Requests, a \in Attesters :
                  CommitRequest(q, a, s) /\ requests[q].passport = runs'[s].passport
    <3>1. PICK q \in Requests, a \in Attesters :
            CommitRequest(q, a, s) /\ requests[q].passport = runs'[s].passport
      BY <2>1
    <3>2. PICK p \in Passports, h \in Payloads, written \in Payloads, values \in Payloads :
            p = requests[q].passport /\ AnchorRow(p, h, written, values, a, s)
      BY <3>1, CommitWrites
    <3>3. row'[p].status = "anchoring"
      BY <3>2, AnchorRowType DEF TypeInv
    <3> QED
      BY <3>1, <3>2, <3>3
  <2>2. CASE runs'[s].passport = runs[s].passport /\ runs[s].phase # "unused"
    <3>1. runs[s].passport \in Passports /\ row[runs[s].passport].status \notin {"absent", "draft"}
      BY <2>2 DEF TypeInv, RowsAreWhole, Exists, LogInvariant
    <3> QED
      BY <1>1, <2>2, <3>1
  <2> QED
    BY <1>3, <2>1, <2>2, RunMoves
<1> QED
  BY <1>1, <1>2, <1>3 DEF LogInvariant, Anchored

\* An anchored passport has a succeeded attest step in its log and no placeholder,
\* and a succeeded step means that the document is bound on the chain, which is what
\* contentRootAnchored reads it for: whatever log writes fail, runners are lost and
\* requests overtake each other.
THEOREM LogStaysTrue ==
  ASSUME ChainConfirmed
  PROVE  Spec => []LogAgrees
<1>1. Init => LogInvariant
  BY DEF Init, AbsentRow, UnusedRun, LogInvariant, Anchored
<1>2. LogInvariant => LogAgrees
  <2> SUFFICES ASSUME LogInvariant, NEW p \in Passports
               PROVE  /\ Anchored(p) => "succeeded" \in attestLog[p] /\ "offline" \notin attestLog[p]
                      /\ "succeeded" \in attestLog[p] => binding[p] # None
    BY DEF LogAgrees
  <2> QED
    BY DEF LogInvariant, Anchored
<1>3. Spec => []TypeInv
  BY InitType, NextType, PTL DEF Spec
<1> QED
  BY <1>1, <1>2, <1>3, LaneIsInvariant, NextLog, PTL DEF Spec

-----------------------------------------------------------------------------
(* One record, one passport *)

\* A record was landed by one run, and what makes an anchored passport anchored
\* is a run of its own.
RecordInvariant ==
  /\ \A r \in Runs : runs[r].phase \in {"unused", "starting"} => runs[r].tx = "none"
  /\ \A r, s \in Runs :
       /\ runs[r].tx = "landed" /\ runs[s].tx = "landed"
       /\ runs[r].attester = runs[s].attester /\ runs[r].hash = runs[s].hash
       => r = s
  /\ \A p \in Alone : Anchored(p) =>
       \E r \in Runs : /\ runs[r].tx = "landed"
                       /\ runs[r].passport = p /\ runs[r].hash = row[p].hash

\* Only a commit makes a passport raced, its own.
LEMMA RacedMoves ==
  ASSUME TypeInv, [Next]_vars
  PROVE  raced \subseteq raced'
<1>1. (\/ UNCHANGED vars \/ Crash
       \/ (\E p \in Passports, c \in Payloads : CreatePassport(p, c) \/ ChangeContent(p, c))
       \/ (\E q \in Requests : Reads(q) \/ AbandonRequest(q))
       \/ \E r \in Runs : RunStep(r) \/ LandTx(r))
      => raced' = raced
  BY ReadsAreQuiet DEF vars, anchorVars, Quiet, Crash, CreatePassport, ChangeContent, LandTx,
     RunStep, SubmitTx, GiveUp, ObserveSuccess, MarkAnchored, MarkAnchoredFails, MarkFailed
<1>2. (\E q \in Requests, a \in Attesters, r \in Runs : CommitRequest(q, a, r))
      => raced \subseteq raced'
  BY DEF CommitRequest
<1> QED
  BY <1>1, <1>2, StepKinds

\* What lands is new: attest refuses a record that exists.
LEMMA LandedIsNew ==
  ASSUME TypeInv, LaneInvariant, NEW r \in Runs, LandTx(r), NEW s \in Runs,
         runs[s].tx = "landed"
  PROVE  ~(runs[s].attester = runs[r].attester /\ runs[s].hash = runs[r].hash)
<1>1. <<runs[r].attester, runs[r].hash>> \notin attested
  BY DEF LandTx, ApplyAnchorTx, ApplyAnchorTxPartially, AttestWithRoot, Attestable
<1>2. <<runs[s].attester, runs[s].hash>> \in attested
  BY DEF LaneInvariant, LandedIsRecorded
<1> QED
  BY <1>1, <1>2

LEMMA NextRecord ==
  ASSUME ChainConfirmed
  PROVE  TypeInv /\ LaneInvariant /\ RecordInvariant /\ [Next]_vars => RecordInvariant'
<1> SUFFICES ASSUME TypeInv, LaneInvariant, RecordInvariant, [Next]_vars PROVE RecordInvariant'
  OBVIOUS
<1>t. /\ runs \in [Runs -> RunType] /\ row \in [Passports -> RowType]
  BY DEF TypeInv, TypeOK
<1>m. ASSUME NEW s \in Runs
      PROVE  \/ runs'[s].phase = "starting" /\ runs'[s].tx = "none" /\ runs[s].phase = "unused"
             \/ /\ runs'[s].passport = runs[s].passport /\ runs'[s].hash = runs[s].hash
                /\ runs'[s].attester = runs[s].attester
                /\ runs'[s].phase \in {"unused", "starting"} => runs'[s].tx = "none"
                /\ runs'[s].tx = "landed" => runs[s].tx = "landed" \/ LandTx(s)
                /\ runs[s].tx = "landed" => runs'[s].tx = "landed"
  <2>1. runs[s].phase \in {"unused", "starting"} => runs[s].tx = "none"
    BY DEF RecordInvariant
  <2>2. runs'[s].phase = "unused" => runs'[s].tx = "none"
    BY NextType DEF TypeInv, RowsAreWhole
  <2>3. ASSUME runs'[s].phase = "starting", runs[s].phase = "starting"
        PROVE  runs'[s].tx = "none"
    <3>1. runs[s].tx = "none"
      BY <2>1, <2>3
    <3>2. ~LandTx(s)
      BY <3>1 DEF LandTx
    <3>3. runs'[s].tx \in {"none", "landed", "partial"}
      BY <2>3, <3>1, RunMoves
    <3>4. runs'[s].tx # "landed"
      BY <2>3, <3>1, <3>2, RunMoves
    <3>5. runs'[s].tx # "partial"
      <4>1. ASSUME NEW k \in Runs, LandTx(k) PROVE runs'[s].tx = runs[s].tx
        <5>1. k # s
          BY <3>2, <4>1
        <5>2. \E tx \in TxStates : runs' = [runs EXCEPT ![k].tx = tx]
          BY <4>1, LandType
        <5> QED
          BY <1>t, <5>1, <5>2
      <4>2. ASSUME NEW k \in Runs, RunStep(k) PROVE runs'[s].tx \in {runs[s].tx, "inflight"}
        BY <1>t, <4>2 DEF RunStep, SubmitTx, GiveUp, ObserveSuccess, MarkAnchored,
                          MarkAnchoredFails, MarkFailed, SetPhase, RunType
      <4>3. ASSUME NEW q \in Requests, NEW a \in Attesters, NEW k \in Runs, CommitRequest(q, a, k)
            PROVE  runs'[s].tx \in {runs[s].tx, "none"}
        BY <4>3, <1>t, CommitWrites, AnchorRowType DEF TypeInv
      <4>4. Crash => runs'[s].tx = runs[s].tx
        BY <1>t DEF Crash, KillRuns, RunType
      <4>5. (\/ UNCHANGED vars
             \/ (\E p \in Passports, c \in Payloads : CreatePassport(p, c) \/ ChangeContent(p, c))
             \/ (\E q \in Requests : Reads(q) \/ AbandonRequest(q)))
            => runs' = runs
        BY ReadsAreQuiet DEF CreatePassport, ChangeContent, Quiet, vars, anchorVars
      <4> QED
        BY <3>1, <4>1, <4>2, <4>3, <4>4, <4>5, StepKinds
    <3> QED
      BY <3>3, <3>4, <3>5
  <2>4. runs[s].tx = "landed" => runs[s].phase # "starting"
    BY <2>1
  <2> QED
    BY <2>2, <2>3, <2>4, RunMoves
<1>1. \A r \in Runs : runs'[r].phase \in {"unused", "starting"} => runs'[r].tx = "none"
  BY <1>m
<1>2. ASSUME NEW r \in Runs, NEW s \in Runs, r # s,
             runs'[r].tx = "landed", runs'[s].tx = "landed",
             runs'[r].attester = runs'[s].attester, runs'[r].hash = runs'[s].hash
      PROVE  FALSE
  <2>1. /\ runs[r].attester = runs[s].attester /\ runs[r].hash = runs[s].hash
        /\ runs[r].tx = "landed" \/ LandTx(r)
        /\ runs[s].tx = "landed" \/ LandTx(s)
    BY <1>2, <1>m
  <2>2. CASE runs[r].tx = "landed" /\ runs[s].tx = "landed"
    BY <1>2, <2>1, <2>2 DEF RecordInvariant
  <2>3. CASE LandTx(r) /\ runs[s].tx = "landed"
    BY <2>1, <2>3, LandedIsNew
  <2>4. CASE LandTx(s) /\ runs[r].tx = "landed"
    BY <2>1, <2>4, LandedIsNew
  <2>5. CASE LandTx(r) /\ LandTx(s)
    <3>1. \E tx \in TxStates : runs' = [runs EXCEPT ![r].tx = tx]
      BY <2>5, LandType
    <3>2. runs'[s].tx = runs[s].tx
      BY <1>t, <1>2, <3>1
    <3>3. runs[s].tx = "inflight"
      BY <2>5 DEF LandTx
    <3> QED
      BY <1>2, <3>2, <3>3
  <2> QED
    BY <2>1, <2>2, <2>3, <2>4, <2>5
<1>3. ASSUME NEW p \in Passports, p \notin raced', row'[p].status = "anchored"
      PROVE  \E r \in Runs : /\ runs'[r].tx = "landed"
                             /\ runs'[r].passport = p /\ runs'[r].hash = row'[p].hash
  <2>0. p \notin raced
    BY <1>3, RacedMoves
  <2>1. CASE row'[p] = row[p]
    <3>1. PICK r \in Runs : /\ runs[r].tx = "landed"
                            /\ runs[r].passport = p /\ runs[r].hash = row[p].hash
      BY <1>3, <2>0, <2>1 DEF RecordInvariant, Alone, Anchored
    <3>2. runs'[r].tx = "landed" /\ runs'[r].passport = p /\ runs'[r].hash = row[p].hash
      <4>1. runs[r].phase # "unused"
        BY <3>1 DEF RecordInvariant
      <4> QED
        BY <1>m, <3>1, <4>1
    <3> QED
      BY <2>1, <3>2
  <2>2. CASE \E r \in Runs : MarkAnchored(r) /\ runs[r].passport = p
    <3>1. PICK r \in Runs : MarkAnchored(r) /\ runs[r].passport = p
      BY <2>2
    <3>2. runs[r].tx = "landed" /\ Live(r) /\ runs[r].phase = "settling"
      BY <3>1 DEF MarkAnchored, Live, LaneInvariant, LandedIsRecorded
    <3>3. row[p].hash = runs[r].hash
      BY <2>0, <3>1, <3>2 DEF LaneInvariant, RunOwnsRow
    <3>4. row'[p].hash = row[p].hash
      BY <1>t, <3>1 DEF MarkAnchored, RowType
    <3>5. runs'[r].tx = "landed" /\ runs'[r].passport = p /\ runs'[r].hash = runs[r].hash
      BY <1>m, <3>1, <3>2
    <3> QED
      BY <3>3, <3>4, <3>5
  <2>3. ASSUME \/ row'[p].status = "draft" \/ row'[p].status = "anchoring"
               \/ row'[p].status = "failed"
        PROVE  FALSE
    BY <1>3, <2>3
  <2> QED
    BY <2>1, <2>2, <2>3, RowMoves
<1> QED
  BY <1>1, <1>2, <1>3 DEF RecordInvariant, Alone, Anchored

\* However many requests pass the duplicate check together (anchorRow), each
\* passport that ends up anchored has a record of its own on the chain.
THEOREM RecordsAreNeverShared ==
  ASSUME ChainConfirmed
  PROVE  Spec => []RecordsAreNotShared
<1>1. Init => RecordInvariant
  BY DEF Init, UnusedRun, AbsentRow, RecordInvariant, Alone, Anchored
<1>2. TypeInv /\ LaneInvariant /\ RecordInvariant => RecordsAreNotShared
  <2> SUFFICES ASSUME TypeInv, LaneInvariant, RecordInvariant PROVE RecordsAreNotShared
    OBVIOUS
  <2> DEFINE Ps == {p \in Alone : Anchored(p)}
             owner == [p \in Ps |-> binding[p][1]]
  <2>1. ASSUME NEW p \in Ps
        PROVE  /\ binding[p][1] \in Attesters /\ <<binding[p][1], row[p].hash>> \in attested
               /\ \E r \in Runs : /\ runs[r].tx = "landed" /\ runs[r].passport = p
                                  /\ runs[r].hash = row[p].hash
                                  /\ runs[r].attester = binding[p][1]
    <3>1. OwnerAttested(p, row[p]) /\ p \in Passports
      BY DEF LaneInvariant, RowsAreAttested, Alone
    <3>2. binding[p][1] \in Attesters /\ <<binding[p][1], row[p].hash>> \in attested
      BY <3>1 DEF TypeInv, TypeOK, VaultTypeOK, OwnerAttested
    <3>3. PICK r \in Runs : /\ runs[r].tx = "landed"
                            /\ runs[r].passport = p /\ runs[r].hash = row[p].hash
      BY DEF RecordInvariant
    <3>4. runs[r].attester = binding[p][1]
      BY <3>3 DEF LaneInvariant, LandedIsRecorded
    <3> QED
      BY <3>2, <3>3, <3>4
  <2>2. ASSUME NEW p \in Ps, NEW q \in Ps,
               binding[p][1] = binding[q][1], row[p].hash = row[q].hash
        PROVE  p = q
    <3>1. PICK r \in Runs : /\ runs[r].tx = "landed" /\ runs[r].passport = p
                            /\ runs[r].hash = row[p].hash /\ runs[r].attester = binding[p][1]
      BY <2>1
    <3>2. PICK s \in Runs : /\ runs[s].tx = "landed" /\ runs[s].passport = q
                            /\ runs[s].hash = row[q].hash /\ runs[s].attester = binding[q][1]
      BY <2>1
    <3> QED
      BY <2>2, <3>1, <3>2 DEF RecordInvariant
  <2>3. owner \in [Ps -> Attesters]
    BY <2>1
  <2>4. \A p, q \in DOMAIN owner :
          /\ <<owner[p], row[p].hash>> \in attested
          /\ owner[p] = owner[q] /\ row[p].hash = row[q].hash => p = q
    BY <2>1, <2>2
  <2> HIDE DEF owner
  <2> QED
    BY <2>3, <2>4 DEF RecordsAreNotShared
<1>3. Spec => []TypeInv
  BY InitType, NextType, PTL DEF Spec
<1> QED
  BY <1>1, <1>2, <1>3, LaneIsInvariant, NextRecord, PTL DEF Spec

-----------------------------------------------------------------------------
(* The published history *)

\* A live run whose transaction has landed anchored what its passport has not
\* published before.
PublishInvariant ==
  \A r \in Runs : Live(r) /\ runs[r].tx = "landed" /\ runs[r].passport \notin raced =>
    \A i \in DOMAIN versions[runs[r].passport] :
      versions[runs[r].passport][i].hash # runs[r].hash

\* attest refuses a record that exists, and the owner of the document attested
\* every version.
LEMMA LandsAnew ==
  ASSUME TypeInv, LaneInvariant, NEW r \in Runs, LandTx(r), runs'[r].tx = "landed",
         runs[r].passport \notin raced
  PROVE  \A i \in DOMAIN versions[runs[r].passport] :
           versions[runs[r].passport][i].hash # runs[r].hash
<1> DEFINE p == runs[r].passport
           a == runs[r].attester
<1>t. runs \in [Runs -> RunType]
  BY DEF TypeInv, TypeOK
<1>1. <<a, runs[r].hash>> \notin attested /\ MayBind(p, a)
  <2>1. runs' = [runs EXCEPT ![r].tx = "partial"] => runs'[r].tx = "partial"
    BY <1>t DEF RunType
  <2> QED
    BY <2>1 DEF LandTx, ApplyAnchorTx, ApplyAnchorTxPartially, AttestWithRoot, Attestable
<1>2. p \in Passports /\ a \in Attesters /\ binding[p] \in Record \cup {None}
  BY LandType DEF TypeInv, TypeOK, RowsAreWhole, VaultTypeOK
<1>3. binding[p] # None => binding[p][1] = a
  BY <1>1, <1>2, NoneAssumption DEF MayBind, LaneInvariant, BindingHasOneOwner
<1>4. ASSUME NEW i \in DOMAIN versions[p], versions[p][i].hash = runs[r].hash
      PROVE  FALSE
  <2>1. OwnerAttested(p, versions[p][i])
    BY <1>2 DEF LaneInvariant, RowsAreAttested, Alone
  <2> QED
    BY <1>1, <1>3, <1>4, <2>1 DEF OwnerAttested
<1> QED
  BY <1>4

\* What becomes of a passport that stays alone: a commit takes up the row as it
\* was read, archives it if it is superseded, and finds no runner at work.
LEMMA AloneMoves ==
  ASSUME TypeInv, NEW q \in Requests, NEW a \in Attesters, NEW r \in Runs,
         CommitRequest(q, a, r), NEW p \in Passports, p = requests[q].passport, p \notin raced'
  PROVE  /\ row'[p].status = "anchoring" /\ row'[p].hash \in Payloads
         /\ \A s \in Runs : Live(s) => runs[s].passport # p
         /\ \/ versions'[p] = versions[p] /\ (Anchored(p) => row'[p].hash = row[p].hash)
            \/ /\ Anchored(p)
               /\ versions'[p] = Append(versions[p], Outgoing(p, row[p].hash))
<1>t. versions \in [Passports -> Seq(Coordinates)]
  BY DEF TypeInv, TypeOK
<1>1. PICK k \in Passports, h \in Payloads, written \in Payloads, values \in Payloads :
        /\ k = p /\ h = requests[q].hash
        /\ AnchorRow(k, h, written, values, a, r)
        /\ row[k].hash = requests[q].was => written = h
        /\ IF Supersedes(q)
           THEN /\ requests[q].was \in Payloads
                /\ versions' = [versions EXCEPT ![k] = Append(@, Outgoing(k, requests[q].was))]
           ELSE versions' = versions
        /\ k \notin raced' =>
             /\ row[k].status = requests[q].status /\ row[k].hash = requests[q].was
             /\ \A s \in Runs : Live(s) => runs[s].passport # k
  BY CommitWrites
<1>2. row'[p].status = "anchoring" /\ row'[p].hash = written
  BY <1>1, AnchorRowType DEF TypeInv
<1>3. CASE Supersedes(q)
  BY <1>1, <1>2, <1>3, <1>t DEF Supersedes, Anchored
<1>4. CASE ~Supersedes(q)
  <2>1. Anchored(p) => written = row[p].hash
    BY <1>1, <1>4 DEF Supersedes, Anchored
  <2> QED
    BY <1>1, <1>2, <1>4, <2>1
<1> QED
  BY <1>3, <1>4

LEMMA NextPublish ==
  ASSUME ChainConfirmed
  PROVE  TypeInv /\ LaneInvariant /\ PublishInvariant /\ [Next]_vars => PublishInvariant'
<1> SUFFICES ASSUME TypeInv, LaneInvariant, PublishInvariant, [Next]_vars PROVE PublishInvariant'
  OBVIOUS
<1>1. ASSUME NEW s \in Runs, Live(s)', runs'[s].tx = "landed", runs'[s].passport \notin raced'
      PROVE  \A i \in DOMAIN versions'[runs'[s].passport] :
               versions'[runs'[s].passport][i].hash # runs'[s].hash
  <2>1. /\ runs'[s].passport = runs[s].passport /\ runs'[s].hash = runs[s].hash /\ Live(s)
        /\ runs[s].tx = "landed" \/ LandTx(s)
    BY <1>1, RunMoves
  <2>2. /\ runs[s].passport \in Passports /\ runs[s].passport \notin raced
        /\ row[runs[s].passport].status = "anchoring"
    BY <1>1, <2>1, RacedMoves DEF LaneInvariant, RunOwnsRow, RowsAreWhole, Live
  <2>3. versions'[runs[s].passport] = versions[runs[s].passport]
    <3>1. ASSUME NEW q \in Requests, NEW a \in Attesters, NEW r \in Runs, CommitRequest(q, a, r),
                 requests[q].passport = runs[s].passport
          PROVE  FALSE
      BY <1>1, <2>1, <2>2, <3>1, AloneMoves
    <3> QED
      BY <2>2, <3>1, RowMoves
  <2>4. CASE runs[s].tx = "landed"
    BY <2>1, <2>2, <2>3, <2>4 DEF PublishInvariant
  <2>5. CASE LandTx(s)
    BY <1>1, <2>1, <2>2, <2>3, <2>5, LandsAnew
  <2> QED
    BY <2>1, <2>4, <2>5
<1> QED
  BY <1>1 DEF PublishInvariant

LEMMA PublishedMap ==
  ASSUME NEW s \in Seq(Coordinates)
  PROVE  LET t == [i \in DOMAIN s |-> Published(s[i])]
         IN  /\ t \in Seq(Anchors)
             /\ Len(t) = Len(s) /\ DOMAIN t = DOMAIN s
<1> DEFINE t == [i \in DOMAIN s |-> Published(s[i])]
<1>1. Len(s) \in Nat /\ DOMAIN s = 1..Len(s) /\ \A i \in 1..Len(s) : s[i] \in Coordinates
  BY LenProperties, ElementOfSeq
<1>2. \A c \in Coordinates : Published(c) \in Anchors
  BY DEF Published, Anchors
<1>3. t \in [1..Len(s) -> Anchors]
  BY <1>1, <1>2
<1> HIDE DEF t
<1>4. t \in Seq(Anchors) /\ Len(t) = Len(s)
  BY <1>1, <1>3
<1> QED
  BY <1>1, <1>3, <1>4 DEF t

LEMMA PublishedAppend ==
  ASSUME NEW s \in Seq(Coordinates), NEW c \in Coordinates
  PROVE  [i \in DOMAIN Append(s, c) |-> Published(Append(s, c)[i])]
           = Append([i \in DOMAIN s |-> Published(s[i])], Published(c))
<1> DEFINE t == [i \in DOMAIN s |-> Published(s[i])]
           u == [i \in DOMAIN Append(s, c) |-> Published(Append(s, c)[i])]
<1>1. Append(s, c) \in Seq(Coordinates) /\ Len(Append(s, c)) = Len(s) + 1 /\ Len(s) \in Nat
      /\ (\A i \in 1..Len(s) : Append(s, c)[i] = s[i]) /\ Append(s, c)[Len(s) + 1] = c
  BY AppendProperties, LenProperties
<1>2. t \in Seq(Anchors) /\ Len(t) = Len(s) /\ u \in Seq(Anchors) /\ Len(u) = Len(s) + 1
  BY <1>1, PublishedMap
<1>3. Published(c) \in Anchors
  BY DEF Published, Anchors
<1>4. Append(t, Published(c)) \in Seq(Anchors) /\ Len(Append(t, Published(c))) = Len(s) + 1
      /\ (\A i \in 1..Len(s) : Append(t, Published(c))[i] = t[i])
      /\ Append(t, Published(c))[Len(s) + 1] = Published(c)
  BY <1>2, <1>3, AppendProperties
<1>5. DOMAIN s = 1..Len(s) /\ DOMAIN Append(s, c) = 1..Len(s) + 1
  BY <1>1, LenProperties
<1>6. ASSUME NEW i \in 1..Len(s) + 1
      PROVE  u[i] = Append(t, Published(c))[i]
  <2>1. u[i] = Published(Append(s, c)[i])
    BY <1>5
  <2>2. CASE i = Len(s) + 1
    BY <1>1, <1>4, <2>1, <2>2
  <2>3. CASE i \in 1..Len(s)
    <3>1. t[i] = Published(s[i])
      BY <1>5, <2>3
    <3> QED
      BY <1>1, <1>4, <2>1, <2>3, <3>1
  <2> QED
    BY <1>1, <2>2, <2>3
<1> HIDE DEF t, u
<1>7. u = Append(t, Published(c))
  BY <1>1, <1>2, <1>4, <1>6, SeqEqual
<1> QED
  BY <1>7 DEF t, u

\* A row is published like its coordinates.
LEMMA PublishedRow ==
  ASSUME NEW s \in Seq(Coordinates), NEW w \in RowType, w.hash \in Payloads
  PROVE  /\ Published(w) \in Anchors
         /\ [i \in DOMAIN Append(s, w) |-> Published(Append(s, w)[i])]
              = Append([i \in DOMAIN s |-> Published(s[i])], Published(w))
<1> DEFINE c == [hash |-> w.hash, root |-> w.root, attester |-> w.attester]
           u == Append(s, w)
           t == Append(s, c)
           U == Coordinates \cup {w}
<1>1. c \in Coordinates /\ Published(c) = Published(w) /\ Published(w) \in Anchors
  BY DEF RowType, Published, Anchors
<1>2. /\ Len(s) \in Nat /\ s \in [1..Len(s) -> Coordinates]
  BY LenProperties
<1>3. s \in Seq(U) /\ w \in U
  <2>1. s \in [1..Len(s) -> U]
    BY <1>2
  <2> HIDE DEF U
  <2>2. s \in Seq(U)
    BY <1>2, <2>1
  <2> QED
    BY <2>2 DEF U
<1> HIDE DEF U
<1>4. DOMAIN u = 1..Len(s) + 1
      /\ (\A i \in 1..Len(s) : u[i] = s[i]) /\ u[Len(s) + 1] = w
  BY <1>3, AppendProperties, LenProperties
<1> HIDE DEF c
<1>5. DOMAIN t = 1..Len(s) + 1
      /\ (\A i \in 1..Len(s) : t[i] = s[i]) /\ t[Len(s) + 1] = c
  BY <1>1, AppendProperties, LenProperties
<1>6. [i \in DOMAIN t |-> Published(t[i])]
        = Append([i \in DOMAIN s |-> Published(s[i])], Published(w))
  BY <1>1, PublishedAppend
<1> HIDE DEF t, u
<1>7. ASSUME NEW i \in 1..Len(s) + 1
      PROVE  Published(u[i]) = Published(t[i])
  <2>1. i \in 1..Len(s) \/ i = Len(s) + 1
    BY <1>2
  <2> QED
    BY <1>1, <1>4, <1>5, <2>1
<1>8. [i \in DOMAIN u |-> Published(u[i])] = [i \in DOMAIN t |-> Published(t[i])]
  BY <1>4, <1>5, <1>7
<1> QED
  BY <1>1, <1>6, <1>8 DEF u

\* A sequence is what is left when what was appended to it is taken away.
LEMMA AppendedFront ==
  ASSUME NEW S, NEW s \in Seq(S), NEW e \in S
  PROVE  /\ Append(s, e) # <<>> /\ Append(s, e)[Len(Append(s, e))] = e
         /\ SubSeq(Append(s, e), 1, Len(Append(s, e)) - 1) = s
<1> DEFINE t == Append(s, e)
<1>1. /\ t \in Seq(S) /\ Len(t) = Len(s) + 1 /\ Len(s) \in Nat
      /\ t[Len(s) + 1] = e /\ \A i \in 1..Len(s) : t[i] = s[i]
  BY AppendProperties, LenProperties
<1> HIDE DEF t
<1>2. t # <<>>
  BY <1>1
<1>3. SubSeq(t, 1, Len(s)) \in Seq(S) /\ Len(SubSeq(t, 1, Len(s))) = Len(s)
      /\ \A i \in 1..Len(s) : SubSeq(t, 1, Len(s))[i] = t[i]
  BY <1>1, SubSeqProperties
<1>4. SubSeq(t, 1, Len(s)) = s
  BY <1>1, <1>3, SeqEqual
<1> QED
  BY <1>1, <1>2, <1>4 DEF t

\* The published history while a passport is anchored, and while it is not.
LEMMA HistoryForms ==
  ASSUME TypeInv, NEW p \in Passports
  PROVE  LET archived == [i \in DOMAIN versions[p] |-> Published(versions[p][i])]
         IN  /\ archived \in Seq(Anchors) /\ DOMAIN archived = DOMAIN versions[p]
             /\ ~Anchored(p) => HistoryOf(p) = archived
             /\ Anchored(p) => /\ Published(row[p]) \in Anchors
                               /\ HistoryOf(p) = Append(archived, Published(row[p]))
             /\ \A v \in Seq(Coordinates) :
                  v = Append(versions[p], Outgoing(p, row[p].hash)) /\ Exists(p) =>
                    [i \in DOMAIN v |-> Published(v[i])] = Append(archived, Published(row[p]))
<1> DEFINE archived == [i \in DOMAIN versions[p] |-> Published(versions[p][i])]
<1>1. versions[p] \in Seq(Coordinates) /\ row[p] \in RowType
  BY DEF TypeInv, TypeOK
<1>2. archived \in Seq(Anchors) /\ DOMAIN archived = DOMAIN versions[p]
  BY <1>1, PublishedMap
<1>3. ~Anchored(p) => HistoryOf(p) = archived
  BY DEF HistoryOf
<1>4. ASSUME Exists(p)
      PROVE  /\ row[p] \in RowType /\ row[p].hash \in Payloads
             /\ Published(row[p]) \in Anchors
             /\ Outgoing(p, row[p].hash) \in Coordinates
             /\ Published(Outgoing(p, row[p].hash)) = Published(row[p])
  <2>1. row[p].hash \in Payloads
    BY <1>4 DEF TypeInv, RowsAreWhole
  <2> QED
    BY <1>1, <2>1 DEF Published, Anchors, RowType, Outgoing
<1>5. ASSUME Exists(p)
      PROVE  LET c == Outgoing(p, row[p].hash)
             IN  [i \in DOMAIN Append(versions[p], c) |-> Published(Append(versions[p], c)[i])]
                   = Append(archived, Published(row[p]))
  BY <1>1, <1>4, <1>5, PublishedAppend
<1>6. Anchored(p) => HistoryOf(p) = Append(archived, Published(row[p]))
  <2> SUFFICES ASSUME Anchored(p) PROVE HistoryOf(p) = Append(archived, Published(row[p]))
    OBVIOUS
  <2> DEFINE s == Append(versions[p], row[p])
  <2>1. row[p].hash \in Payloads
    BY <1>4 DEF Anchored, Exists
  <2>2. HistoryOf(p) = [i \in DOMAIN s |-> Published(s[i])]
    BY DEF HistoryOf
  <2>3. [i \in DOMAIN s |-> Published(s[i])] = Append(archived, Published(row[p]))
    BY <1>1, <2>1, PublishedRow
  <2> HIDE DEF s
  <2> QED
    BY <2>2, <2>3
<1>7. Anchored(p) => Published(row[p]) \in Anchors
  BY <1>4 DEF Anchored, Exists
<1> HIDE DEF archived
<1>8. \A v \in Seq(Coordinates) :
        v = Append(versions[p], Outgoing(p, row[p].hash)) /\ Exists(p) =>
          [i \in DOMAIN v |-> Published(v[i])] = Append(archived, Published(row[p]))
  BY <1>5
<1> QED
  BY <1>2, <1>3, <1>6, <1>7, <1>8 DEF archived

\* The newest anchor of a passport is taken back, and the payload stays.
TakesBack(p) ==
  /\ HistoryOf(p) # <<>> /\ HistoryOf(p)[Len(HistoryOf(p))].hash = row[p].hash
  /\ HistoryOf(p)' = SubSeq(HistoryOf(p), 1, Len(HistoryOf(p)) - 1)
  /\ row'[p].hash = row[p].hash

\* A passport that is alone before and after a step publishes what its runner
\* marked, has its newest anchor taken back, or publishes nothing.
LEMMA HistoryMoves ==
  ASSUME TypeInv, LaneInvariant, PublishInvariant, [Next]_vars,
         NEW p \in Passports, p \notin raced'
  PROVE  \/ HistoryOf(p)' = HistoryOf(p)
         \/ /\ \E r \in Runs : MarkAnchored(r) /\ runs[r].passport = p
            /\ \E x \in Anchors : /\ Accepted(x)
                                  /\ \A i \in DOMAIN HistoryOf(p) : HistoryOf(p)[i].hash # x.hash
                                  /\ HistoryOf(p)' = Append(HistoryOf(p), x)
                                  /\ x.hash = row[p].hash
            /\ row'[p].hash = row[p].hash
         \/ /\ \E q \in Requests, a \in Attesters, r \in Runs :
                 CommitRequest(q, a, r) /\ requests[q].passport = p
            /\ TakesBack(p)
<1> DEFINE archived == [i \in DOMAIN versions[p] |-> Published(versions[p][i])]
<1>t. /\ row \in [Passports -> RowType] /\ versions \in [Passports -> Seq(Coordinates)]
      /\ runs \in [Runs -> RunType]
      /\ row' \in [Passports -> RowType] /\ versions' \in [Passports -> Seq(Coordinates)]
  BY NextType DEF TypeInv, TypeOK
<1>r. p \notin raced
  BY RacedMoves
<1>a. /\ archived \in Seq(Anchors) /\ DOMAIN archived = DOMAIN versions[p]
      /\ ~Anchored(p) => HistoryOf(p) = archived
      /\ Anchored(p) => /\ Published(row[p]) \in Anchors
                        /\ HistoryOf(p) = Append(archived, Published(row[p]))
      /\ \A v \in Seq(Coordinates) :
           v = Append(versions[p], Outgoing(p, row[p].hash)) /\ Exists(p) =>
             [i \in DOMAIN v |-> Published(v[i])] = Append(archived, Published(row[p]))
  BY HistoryForms
\* The history after a step that leaves the archive, or one that adds to it.
<1>b. ASSUME versions'[p] = versions[p]
      PROVE  /\ row'[p].status # "anchored" => HistoryOf(p)' = archived
             /\ row'[p].status = "anchored" =>
                  HistoryOf(p)' = [i \in DOMAIN Append(versions[p], row'[p]) |->
                                     Published(Append(versions[p], row'[p])[i])]
  BY <1>b DEF HistoryOf, Anchored, Published
<1>1. CASE row'[p] = row[p] /\ versions'[p] = versions[p]
  BY <1>1 DEF HistoryOf, Anchored, Published
<1>2. CASE row[p].status = "absent" /\ row'[p].status = "draft" /\ versions'[p] = versions[p]
  BY <1>2, <1>a, <1>b DEF Anchored
<1>3. ASSUME NEW q \in Requests, NEW a \in Attesters, NEW r \in Runs, CommitRequest(q, a, r),
             requests[q].passport = p
      PROVE  \/ HistoryOf(p)' = HistoryOf(p)
             \/ TakesBack(p)
  <2>1. /\ row'[p].status = "anchoring"
        /\ \/ versions'[p] = versions[p] /\ (Anchored(p) => row'[p].hash = row[p].hash)
           \/ /\ Anchored(p)
              /\ versions'[p] = Append(versions[p], Outgoing(p, row[p].hash))
    BY <1>3, AloneMoves
  <2>2. CASE versions'[p] = versions[p] /\ ~Anchored(p)
    BY <1>a, <1>b, <2>1, <2>2
  <2>3. CASE versions'[p] = versions[p] /\ Anchored(p)
    <3>1. HistoryOf(p)' = archived /\ HistoryOf(p) = Append(archived, Published(row[p]))
      BY <1>a, <1>b, <2>1, <2>3
    <3>2. /\ archived \in Seq(Anchors) /\ Published(row[p]) \in Anchors
          /\ Published(row[p]).hash = row[p].hash
      BY <1>a, <2>3 DEF Published
    <3>3. row'[p].hash = row[p].hash
      BY <2>1, <2>3
    <3> HIDE DEF archived
    <3> QED
      BY <3>1, <3>2, <3>3, AppendedFront DEF TakesBack
  <2>4. CASE Anchored(p) /\ versions'[p] = Append(versions[p], Outgoing(p, row[p].hash))
    <3>1. HistoryOf(p)' = [i \in DOMAIN versions'[p] |-> Published(versions'[p][i])]
      BY <2>1 DEF HistoryOf, Anchored, Published
    <3>2. versions'[p] \in Seq(Coordinates) /\ Exists(p)
      BY <1>t, <2>4 DEF Anchored, Exists
    <3>3. HistoryOf(p)' = Append(archived, Published(row[p]))
      <4> DEFINE v == versions'[p]
      <4>1. v \in Seq(Coordinates) /\ v = Append(versions[p], Outgoing(p, row[p].hash))
            /\ HistoryOf(p)' = [i \in DOMAIN v |-> Published(v[i])]
        BY <2>4, <3>1, <3>2
      <4> HIDE DEF v, archived
      <4>2. [i \in DOMAIN v |-> Published(v[i])] = Append(archived, Published(row[p]))
        BY <1>a, <3>2, <4>1
      <4> QED
        BY <4>1, <4>2
    <3> QED
      BY <1>a, <2>4, <3>3
  <2> QED
    BY <2>1, <2>2, <2>3, <2>4
<1>4. ASSUME NEW r \in Runs, MarkAnchored(r), runs[r].passport = p
      PROVE  \E x \in Anchors : /\ Accepted(x)
                                /\ \A i \in DOMAIN HistoryOf(p) : HistoryOf(p)[i].hash # x.hash
                                /\ HistoryOf(p)' = Append(HistoryOf(p), x)
                                /\ x.hash = row[p].hash /\ row'[p].hash = row[p].hash
  <2>1. Live(r) /\ runs[r].tx = "landed" /\ versions' = versions
    BY <1>4 DEF MarkAnchored, Live, LaneInvariant, LandedIsRecorded
  <2>2. row[p].status = "anchoring" /\ row[p].hash = runs[r].hash
        /\ (runs[r].root # None => row[p].root = runs[r].root)
    BY <1>4, <1>r, <2>1 DEF LaneInvariant, RunOwnsRow
  <2>3. /\ row'[p].status = "anchored" /\ row'[p].hash = row[p].hash /\ row'[p].root = row[p].root
    BY <1>4, <1>t DEF MarkAnchored, RowType
  <2>4. Published(row'[p]) = Published(row[p])
    BY <2>3 DEF Published
  <2> DEFINE x == Published(row[p])
  <2>5. x \in Anchors /\ x.hash = row[p].hash /\ x.root = row[p].root
    <3>1. row[p].hash \in Payloads /\ row[p].root \in Root \cup {None}
      BY <1>t, <2>2 DEF TypeInv, RowsAreWhole, Exists, RowType
    <3> QED
      BY <3>1 DEF Published, Anchors
  <2>6. Accepted(x)
    <3>1. /\ runs[r].attester \in Attesters
          /\ <<runs[r].attester, runs[r].hash>> \in attested
          /\ rootOf[<<runs[r].attester, runs[r].hash>>] = runs[r].root
      BY <2>1 DEF LaneInvariant, LandedIsRecorded, RowsAreWhole, Live
    <3> HIDE DEF x
    <3> QED
      BY <2>2, <2>5, <3>1 DEF Accepted
  <2>7. \A i \in DOMAIN HistoryOf(p) : HistoryOf(p)[i].hash # x.hash
    <3>1. HistoryOf(p) = archived
      BY <1>a, <2>2 DEF Anchored
    <3>2. \A i \in DOMAIN versions[p] : versions[p][i].hash # row[p].hash
      BY <1>4, <1>r, <2>1, <2>2 DEF PublishInvariant
    <3>3. \A i \in DOMAIN archived : archived[i].hash = versions[p][i].hash
      BY DEF Published
    <3> HIDE DEF x
    <3> QED
      BY <1>a, <2>5, <3>1, <3>2, <3>3
  <2>8. HistoryOf(p)' = Append(HistoryOf(p), x)
    <3>1. HistoryOf(p)' = Append(archived, x)
      <4> DEFINE s == Append(versions[p], row'[p])
      <4>1. HistoryOf(p)' = [i \in DOMAIN s |-> Published(s[i])]
        BY <1>b, <2>1, <2>3
      <4>2. versions[p] \in Seq(Coordinates) /\ row'[p] \in RowType /\ row'[p].hash \in Payloads
        BY <1>t, <2>2, <2>3 DEF TypeInv, RowsAreWhole, Exists
      <4>3. [i \in DOMAIN s |-> Published(s[i])] = Append(archived, Published(row'[p]))
        BY <4>2, PublishedRow
      <4> HIDE DEF s, archived
      <4> QED
        BY <2>4, <4>1, <4>3
    <3>2. HistoryOf(p) = archived
      BY <1>a, <2>2 DEF Anchored
    <3> QED
      BY <3>1, <3>2
  <2> HIDE DEF x
  <2> QED
    BY <2>3, <2>5, <2>6, <2>7, <2>8
<1>5. CASE \E r \in Runs : /\ runs[r].passport = p /\ versions'[p] = versions[p]
                           /\ MarkFailed(r) /\ row'[p].status = "failed"
  <2>1. PICK r \in Runs : runs[r].passport = p /\ MarkFailed(r)
    BY <1>5
  <2>2. row[p].status = "anchoring"
    BY <1>r, <2>1 DEF MarkFailed, LaneInvariant, RunOwnsRow, Live
  <2> QED
    BY <1>5, <1>a, <1>b, <2>2 DEF Anchored
<1> HIDE DEF archived
<1> QED
  BY <1>1, <1>2, <1>3, <1>4, <1>5, RowMoves

\* What the chain holds is accepted for good, and one transaction adds anchors of
\* one payload.
LEMMA LandLands ==
  ASSUME TypeInv, NEW r \in Runs, LandTx(r)
  PROVE  /\ \A x \in Anchors : Accepted(x) => Accepted(x)'
         /\ \A x \in Anchors : Accepted(x)' => Accepted(x) \/ x.hash = runs[r].hash
<1> DEFINE new == <<runs[r].attester, runs[r].hash>>
<1>1. attested \subseteq Record /\ rootOf \in [Record -> Root \cup {None}]
  BY DEF TypeInv, TypeOK, VaultTypeOK
<1>2. /\ attested' = attested \cup {new} /\ new \notin attested
      /\ rootOf' = [rootOf EXCEPT ![new] = runs[r].root]
  BY DEF LandTx, ApplyAnchorTx, ApplyAnchorTxPartially, AttestWithRoot, Attestable
<1>3. \A rec \in attested : rootOf'[rec] = rootOf[rec]
  BY <1>1, <1>2
<1>4. ASSUME NEW x \in Anchors, Accepted(x) PROVE Accepted(x)'
  BY <1>2, <1>3, <1>4 DEF Accepted
<1>5. ASSUME NEW x \in Anchors, Accepted(x)', x.hash # runs[r].hash PROVE Accepted(x)
  <2>1. PICK a \in Attesters : /\ <<a, x.hash>> \in attested'
                               /\ rootOf'[<<a, x.hash>>] \in {None, x.root}
    BY <1>5 DEF Accepted
  <2>2. <<a, x.hash>> \in attested
    BY <1>2, <1>5, <2>1
  <2> QED
    BY <1>3, <2>1, <2>2 DEF Accepted
<1> QED
  BY <1>4, <1>5

\* One step publishes one anchor, takes one back, loses a passport, lands one, or
\* none of these.
LEMMA NextPublishes ==
  ASSUME TypeInv, LaneInvariant, PublishInvariant, [Next]_vars
  PROVE  [History!Next]_(History!vars)
<1> DEFINE ledger == {x \in Anchors : Accepted(x)}
           history == [p \in Passports |-> IF p \in raced THEN <<>> ELSE HistoryOf(p)]
           target == [p \in Passports |-> IF p \in raced THEN None ELSE row[p].hash]
           After(p) == IF p \in raced' THEN <<>> ELSE HistoryOf(p)'
           Aimed(p) == IF p \in raced' THEN None ELSE row'[p].hash
<1>h. history' = [p \in Passports |-> After(p)] /\ target' = [p \in Passports |-> Aimed(p)]
  OBVIOUS
<1>k. (\/ UNCHANGED vars \/ Crash
       \/ (\E p \in Passports, c \in Payloads : ChangeContent(p, c))
       \/ (\E q \in Requests : Reads(q) \/ AbandonRequest(q))
       \/ (\E r \in Runs : RunStep(r)))
      => UNCHANGED <<raced, vaultVars>> /\ \A p \in Passports : row'[p].hash = row[p].hash
  <2>1. ASSUME NEW r \in Runs, RunStep(r)
        PROVE  UNCHANGED <<raced, vaultVars>> /\ \A p \in Passports : row'[p].hash = row[p].hash
    <3>1. row \in [Passports -> RowType]
      BY DEF TypeInv, TypeOK
    <3>2. PICK status \in Statuses \ {"absent"}, stamp \in Attesters \cup {None} :
            row' = [row EXCEPT ![runs[r].passport].status = status,
                               ![runs[r].passport].attester = stamp]
      BY <2>1, RunStepType
    <3>3. ASSUME NEW p \in Passports PROVE row'[p].hash = row[p].hash
      <4>1. CASE p = runs[r].passport
        BY <3>1, <3>2, <4>1 DEF RowType
      <4>2. CASE p # runs[r].passport
        BY <3>1, <3>2, <4>2
      <4> QED
        BY <4>1, <4>2
    <3> QED
      BY <2>1, <3>3, RunStepType
  <2> QED
    BY <2>1, ReadsAreQuiet DEF vars, anchorVars, Quiet, Crash, ChangeContent
<1>l. UNCHANGED vaultVars => ledger' = ledger
  BY DEF Accepted, vaultVars
\* A commit moves its own passport only.
<1>1. ASSUME NEW q \in Requests, NEW a \in Attesters, NEW r \in Runs, CommitRequest(q, a, r)
      PROVE  [History!Next]_(History!vars)
  <2>1. PICK p \in Passports :
          /\ p = requests[q].passport
          /\ raced \subseteq raced' /\ raced' \subseteq raced \cup {p}
          /\ UNCHANGED vaultVars
          /\ \A k \in Passports \ {p} : row'[k] = row[k] /\ versions'[k] = versions[k]
    <3>1. PICK p \in Passports, h \in Payloads, written \in Payloads, values \in Payloads :
            /\ p = requests[q].passport
            /\ AnchorRow(p, h, written, values, a, r)
            /\ \/ versions' = versions
               \/ versions' = [versions EXCEPT ![p] = Append(@, Outgoing(p, requests[q].was))]
            /\ raced \subseteq raced' /\ raced' \subseteq raced \cup {p}
            /\ UNCHANGED vaultVars
      BY <1>1, CommitWrites
    <3>2. \A k \in Passports \ {p} : row'[k] = row[k]
      BY <3>1, AnchorRowType DEF TypeInv
    <3>3. \A k \in Passports \ {p} : versions'[k] = versions[k]
      BY <3>1 DEF TypeInv, TypeOK
    <3> QED
      BY <3>1, <3>2, <3>3
  <2>2. ledger' = ledger
    BY <1>l, <2>1
  <2>3. \A k \in Passports \ {p} : HistoryOf(k)' = HistoryOf(k)
    <3> SUFFICES ASSUME NEW k \in Passports, k # p PROVE HistoryOf(k)' = HistoryOf(k)
      OBVIOUS
    <3> QED
      BY <2>1 DEF HistoryOf, Anchored, Published
  <2>4. \A k \in Passports \ {p} : /\ After(k) = history[k] /\ Aimed(k) = target[k]
                                   /\ (k \in raced' <=> k \in raced)
    BY <2>1, <2>3
  <2>5. CASE p \in raced
    <3>1. raced' = raced
      BY <2>1, <2>5
    <3>2. history' = history /\ target' = target
      BY <1>h, <2>4, <2>5, <3>1
    <3> HIDE DEF ledger, history, target
    <3> QED
      BY <2>2, <3>1, <3>2 DEF History!vars, Alone, ledger, history, target
  <2>6. CASE p \notin raced /\ p \in raced'
    <3>1. Alone' = Alone \ {p} /\ p \in Alone
      BY <2>1, <2>6 DEF Alone
    <3>2. history' = [history EXCEPT ![p] = <<>>] /\ target' = [target EXCEPT ![p] = None]
      <4>1. After(p) = <<>> /\ Aimed(p) = None
        BY <2>6
      <4> HIDE DEF After, Aimed
      <4> QED
        BY <1>h, <2>4, <4>1
    <3> HIDE DEF ledger, history, target
    <3> QED
      BY <2>2, <3>1, <3>2 DEF History!Next, History!Disown, ledger, history, target
  <2>7. CASE p \notin raced'
    <3>1. raced' = raced /\ p \in Alone
      BY <2>1, <2>7 DEF Alone
    <3>2. (HistoryOf(p)' = HistoryOf(p) \/ TakesBack(p)) /\ row'[p].hash \in Payloads
      <4>1. ASSUME NEW t \in Runs, MarkAnchored(t), runs[t].passport = p
            PROVE  FALSE
        <5>1. Live(t)
          BY <4>1 DEF MarkAnchored, Live
        <5> QED
          BY <1>1, <2>1, <2>7, <4>1, <5>1, AloneMoves
      <4>2. row'[p].hash \in Payloads
        BY <1>1, <2>1, <2>7, AloneMoves
      <4> QED
        BY <2>7, <4>1, <4>2, HistoryMoves
    <3>3. /\ After(p) = HistoryOf(p)' /\ history[p] = HistoryOf(p)
          /\ Aimed(p) = row'[p].hash /\ target[p] = row[p].hash
      BY <2>7, <3>1 DEF Alone
    <3>s. /\ history = [k \in Passports |-> history[k]] /\ target = [k \in Passports |-> target[k]]
          /\ Alone' = Alone
      BY <3>1 DEF Alone
    <3>4. CASE HistoryOf(p)' = HistoryOf(p)
      <4> HIDE DEF After, Aimed, history, target
      <4>1. history' = history
        BY <1>h, <2>4, <3>3, <3>4, <3>s
      <4>2. target' = [target EXCEPT ![p] = row'[p].hash]
        BY <1>h, <2>4, <3>3, <3>s
      <4>3. \E h \in Payloads : target' = [target EXCEPT ![p] = h]
        BY <3>2, <4>2
      <4> HIDE DEF ledger
      <4> QED
        BY <2>2, <3>1, <3>s, <4>1, <4>3 DEF History!Next, History!Aim, ledger, history, target
    <3>5. CASE TakesBack(p)
      <4>1. /\ After(p) = SubSeq(history[p], 1, Len(history[p]) - 1)
            /\ history[p] # <<>> /\ history[p][Len(history[p])].hash = target[p]
            /\ Aimed(p) = target[p]
        BY <3>3, <3>5 DEF TakesBack
      <4> HIDE DEF After, Aimed, history, target
      <4>2. history' = [history EXCEPT ![p] = SubSeq(@, 1, Len(@) - 1)]
        BY <1>h, <2>4, <3>s, <4>1
      <4>3. target' = target
        BY <1>h, <2>4, <3>s, <4>1
      <4> HIDE DEF ledger
      <4> QED
        BY <2>2, <3>1, <3>s, <4>1, <4>2, <4>3
           DEF History!Next, History!Withdraw, ledger, history, target
    <3> QED
      BY <3>2, <3>4, <3>5
  <2> QED
    BY <2>1, <2>5, <2>6, <2>7
<1>2. ASSUME NEW r \in Runs, LandTx(r)
      PROVE  [History!Next]_(History!vars)
  <2>1. history' = history /\ target' = target /\ Alone' = Alone
    BY <1>2 DEF LandTx, HistoryOf, Anchored, Published, Alone
  <2>2. /\ \A x \in Anchors : Accepted(x) => Accepted(x)'
        /\ \A x \in Anchors : Accepted(x)' => Accepted(x) \/ x.hash = runs[r].hash
    BY <1>2, LandLands
  <2>3. ledger \subseteq ledger' /\ ledger' \subseteq Anchors
        /\ \A x \in ledger' \ ledger : x.hash = runs[r].hash
    BY <2>2
  <2> HIDE DEF ledger, history, target
  <2>4. CASE ledger' = ledger
    BY <2>1, <2>4 DEF History!vars, ledger, history, target
  <2>5. CASE ledger' # ledger
    <3>1. PICK x \in Anchors \ ledger : x \in ledger'
      BY <2>3, <2>5
    <3>2. \A y \in ledger' \ ledger : y.hash = x.hash
      BY <2>3, <3>1
    <3> QED
      BY <2>1, <2>3, <3>1, <3>2 DEF History!Next, History!Land, ledger, history, target
  <2> QED
    BY <2>4, <2>5
\* Any other step moves no vault, and at most the row of the run that marks it.
<1>3. ASSUME UNCHANGED <<raced, vaultVars>>,
             \A p \in Passports : row'[p].hash = row[p].hash,
             ~ \E q \in Requests, a \in Attesters, r \in Runs : CommitRequest(q, a, r)
      PROVE  [History!Next]_(History!vars)
  <2>1. ledger' = ledger /\ target' = target /\ Alone' = Alone /\ raced' = raced
    BY <1>3, <1>l DEF Alone
  <2>2. CASE \E r \in Runs : MarkAnchored(r) /\ runs[r].passport \notin raced
    <3>1. PICK r \in Runs : MarkAnchored(r) /\ runs[r].passport \notin raced
      BY <2>2
    <3>2. PICK p \in Passports : p = runs[r].passport
      BY <3>1 DEF MarkAnchored, TypeInv, RowsAreWhole
    <3>3. \A k \in Passports \ {p} : HistoryOf(k)' = HistoryOf(k)
      <4> SUFFICES ASSUME NEW k \in Passports, k # p PROVE HistoryOf(k)' = HistoryOf(k)
        OBVIOUS
      <4>1. row'[k] = row[k] /\ versions'[k] = versions[k]
        BY <3>1, <3>2 DEF MarkAnchored, TypeInv, TypeOK
      <4> QED
        BY <4>1 DEF HistoryOf, Anchored, Published
    <3>4. \/ HistoryOf(p)' = HistoryOf(p)
          \/ \E x \in Anchors : /\ Accepted(x)
                                /\ \A i \in DOMAIN HistoryOf(p) : HistoryOf(p)[i].hash # x.hash
                                /\ HistoryOf(p)' = Append(HistoryOf(p), x)
                                /\ x.hash = row[p].hash
      BY <1>3, <2>1, <3>1, <3>2, HistoryMoves
    <3>5. /\ \A k \in Passports \ {p} : After(k) = history[k]
          /\ After(p) = HistoryOf(p)' /\ history[p] = HistoryOf(p) /\ target[p] = row[p].hash
      BY <2>1, <3>1, <3>2, <3>3
    <3>6. p \in Alone /\ history = [k \in Passports |-> history[k]]
      BY <3>1, <3>2 DEF Alone
    <3> HIDE DEF After, history, target
    <3>7. CASE HistoryOf(p)' = HistoryOf(p)
      <4>1. history' = history
        BY <1>h, <3>5, <3>6, <3>7
      <4> HIDE DEF ledger
      <4> QED
        BY <2>1, <4>1 DEF History!vars, history, ledger, target
    <3>8. CASE \E x \in Anchors : /\ Accepted(x)
                                  /\ \A i \in DOMAIN HistoryOf(p) : HistoryOf(p)[i].hash # x.hash
                                  /\ HistoryOf(p)' = Append(HistoryOf(p), x)
                                  /\ x.hash = row[p].hash
      <4>1. PICK x \in Anchors : /\ Accepted(x)
                                 /\ \A i \in DOMAIN HistoryOf(p) : HistoryOf(p)[i].hash # x.hash
                                 /\ HistoryOf(p)' = Append(HistoryOf(p), x)
                                 /\ x.hash = row[p].hash
        BY <3>8
      <4>2. /\ x \in ledger /\ x.hash = target[p]
            /\ \A i \in DOMAIN history[p] : history[p][i].hash # x.hash
        BY <3>5, <4>1
      <4>3. history' = [history EXCEPT ![p] = Append(@, x)]
        BY <1>h, <3>5, <3>6, <4>1
      <4> HIDE DEF ledger
      <4> QED
        BY <2>1, <3>6, <4>2, <4>3 DEF History!Next, History!Publish, history, ledger, target
    <3> QED
      BY <3>4, <3>7, <3>8
  <2>3. CASE ~ \E r \in Runs : MarkAnchored(r) /\ runs[r].passport \notin raced
    <3>1. ASSUME NEW p \in Passports, p \notin raced
          PROVE  HistoryOf(p)' = HistoryOf(p)
      BY <1>3, <2>1, <2>3, <3>1, HistoryMoves
    <3>2. history' = history
      BY <1>h, <2>1, <3>1
    <3> HIDE DEF ledger, history, target
    <3> QED
      BY <2>1, <3>2 DEF History!vars, ledger, history, target
  <2> QED
    BY <2>2, <2>3
\* A draft aims at its first payload.
<1>4. ASSUME NEW p \in Passports, NEW c \in Payloads, CreatePassport(p, c)
      PROVE  [History!Next]_(History!vars)
  <2>1. row \in [Passports -> RowType] /\ versions \in [Passports -> Seq(Coordinates)]
    BY DEF TypeInv, TypeOK
  <2>2. /\ UNCHANGED <<versions, raced, vaultVars>>
        /\ \A k \in Passports \ {p} : row'[k] = row[k]
        /\ row'[p].hash = c /\ ~Anchored(p) /\ ~Anchored(p)'
    BY <1>4, <2>1 DEF CreatePassport, Exists, Anchored
  <2>3. ledger' = ledger /\ Alone' = Alone
    BY <1>l, <2>2 DEF Alone
  <2>4. history' = history
    <3>1. \A k \in Passports : HistoryOf(k)' = HistoryOf(k)
      BY <2>2 DEF HistoryOf, Anchored, Published
    <3> QED
      BY <1>h, <2>2, <3>1
  <2>5. \A k \in Passports \ {p} : Aimed(k) = target[k]
    BY <2>2
  <2>6. target = [k \in Passports |-> target[k]]
    OBVIOUS
  <2>7. CASE p \in raced
    <3>1. Aimed(p) = target[p]
      BY <2>2, <2>7
    <3> HIDE DEF ledger, history, target, Aimed
    <3>2. target' = target
      BY <1>h, <2>5, <2>6, <3>1
    <3> QED
      BY <2>3, <2>4, <3>2 DEF History!vars, ledger, history, target
  <2>8. CASE p \notin raced
    <3>1. Aimed(p) = c /\ p \in Alone
      BY <2>2, <2>8 DEF Alone
    <3> HIDE DEF ledger, history, target, Aimed
    <3>2. target' = [target EXCEPT ![p] = c]
      BY <1>h, <2>5, <2>6, <3>1
    <3> QED
      BY <2>3, <2>4, <3>1, <3>2 DEF History!Next, History!Aim, ledger, history, target
  <2> QED
    BY <2>7, <2>8
<1>5. ASSUME \E q \in Requests, a \in Attesters, r \in Runs : CommitRequest(q, a, r)
      PROVE  [History!Next]_(History!vars)
  BY <1>1, <1>5
<1> HIDE DEF ledger, history, target, After, Aimed
<1> QED
  BY <1>2, <1>3, <1>4, <1>5, <1>k, StepKinds

\* The lane implements AnchorHistory: however runs fail, time out, are lost and land
\* late, and whether or not a content root was built, the published history of a
\* passport grows at its end only, by an anchor of its payload that the chain vouches
\* for and the passport never published before (anchorRow, reanchorCore,
\* PassportAnchorVersions); no anchor goes when the passport turns to another
\* payload, only the newest is taken back while its own payload is submitted again,
\* and a passport on which requests overtook each other is promised nothing.
THEOREM LaneImplementsAnchorHistory ==
  ASSUME ChainConfirmed
  PROVE  Spec => PublishesHistory
<1>1. Init => PublishInvariant
  BY DEF Init, UnusedRun, PublishInvariant, Live
<1>2. Init => History!Init
  <2> SUFFICES ASSUME Init PROVE History!Init
    OBVIOUS
  <2>1. {x \in Anchors : Accepted(x)} = {} /\ Alone = Passports
    BY DEF Init, VaultInit, Accepted, Alone
  <2>2. \A p \in Passports : HistoryOf(p) = <<>>
    <3> SUFFICES ASSUME NEW p \in Passports PROVE HistoryOf(p) = <<>>
      OBVIOUS
    <3>1. versions[p] = <<>> /\ ~Anchored(p)
      BY DEF Init, AbsentRow, Anchored
    <3>2. <<>> \in Seq(Coordinates) /\ Len(<<>>) = 0
      BY EmptySeq
    <3>3. HistoryOf(p) = [i \in DOMAIN <<>> |-> Published(<<>>[i])]
      BY <3>1 DEF HistoryOf
    <3>4. HistoryOf(p) \in Seq(Anchors) /\ Len(HistoryOf(p)) = 0
      BY <3>2, <3>3, PublishedMap
    <3> QED
      BY <3>4, EmptySeq
  <2>3. [p \in Passports |-> IF p \in raced THEN <<>> ELSE HistoryOf(p)] = [p \in Passports |-> <<>>]
    BY <2>2
  <2>4. [p \in Passports |-> IF p \in raced THEN None ELSE row[p].hash] = [p \in Passports |-> None]
    BY DEF Init, AbsentRow
  <2> QED
    BY <2>1, <2>3, <2>4 DEF History!Init
<1>3. Spec => []TypeInv
  BY InitType, NextType, PTL DEF Spec
<1>4. Spec => []PublishInvariant
  BY <1>1, <1>3, LaneIsInvariant, NextPublish, PTL DEF Spec
<1>5. TypeInv /\ LaneInvariant /\ PublishInvariant /\ [Next]_vars => [History!Next]_(History!vars)
  BY NextPublishes
<1> QED
  BY <1>2, <1>3, <1>4, <1>5, LaneIsInvariant, PTL DEF Spec, PublishesHistory, History!Spec
-----------------------------------------------------------------------------
(* Both lanes together *)

\* A request that commits takes its row up for a new run.
LEMMA CommitStarts ==
  ASSUME TypeInv, NEW q \in Requests, NEW a \in Attesters, NEW r \in Runs, CommitRequest(q, a, r)
  PROVE  \E k \in Passports :
           /\ row'[k].status = "anchoring"
           /\ \A p \in Passports \ {k} : row'[p] = row[p]
           /\ runs[r].phase = "unused" /\ runs'[r].phase = "starting" /\ runs'[r].passport = k
           /\ \A s \in Runs \ {r} : runs'[s] = runs[s]
           /\ UNCHANGED vaultVars
<1>1. PICK k \in Passports, h \in Payloads, written \in Payloads, values \in Payloads :
        AnchorRow(k, h, written, values, a, r) /\ UNCHANGED vaultVars
  BY CommitWrites
<1> QED
  BY <1>1, AnchorRowType DEF TypeInv

\* What a runner's step may make of a row.
LEMMA RunnerWrites ==
  ASSUME TypeInv, NEW r \in Runs, RunStep(r), NEW p \in Passports
  PROVE  /\ row'[p] = row[p] \/ row'[p].status \in {"anchored", "failed"}
         /\ runs[r].passport # p => row'[p] = row[p]
<1>t. row \in [Passports -> RowType]
  BY DEF TypeInv, TypeOK
<1>1. \/ row' = row
      \/ row' = [row EXCEPT ![runs[r].passport].status = "failed"]
      \/ \E stamp \in Stamps(r) : row' = [row EXCEPT ![runs[r].passport].status = "anchored",
                                                     ![runs[r].passport].attester = stamp]
  BY DEF RunStep, SubmitTx, GiveUp, ObserveSuccess, MarkAnchored, MarkAnchoredFails, MarkFailed
<1> QED
  BY <1>t, <1>1 DEF RowType

\* What leaves every row alone, and every run the same passport and phase.
RowsStill ==
  \/ UNCHANGED vars
  \/ \E q \in Requests : Reads(q) \/ AbandonRequest(q)
  \/ \E r \in Runs : LandTx(r)

LEMMA RowsStillKeeps ==
  ASSUME TypeInv, RowsStill
  PROVE  row' = row /\ \A s \in Runs : runs'[s].phase = runs[s].phase
<1>t. runs \in [Runs -> RunType]
  BY DEF TypeInv, TypeOK
<1>1. ASSUME NEW r \in Runs, LandTx(r)
      PROVE  row' = row /\ \A s \in Runs : runs'[s].phase = runs[s].phase
  <2>1. \E tx : runs' = [runs EXCEPT ![r].tx = tx]
    BY <1>1 DEF LandTx
  <2>2. row' = row
    BY <1>1 DEF LandTx
  <2> QED
    BY <1>t, <2>1, <2>2 DEF RunType
<1>2. (UNCHANGED vars \/ \E q \in Requests : Reads(q) \/ AbandonRequest(q)) => row' = row /\ runs' = runs
  BY ReadsAreQuiet DEF Quiet, vars, anchorVars
<1> QED
  BY <1>1, <1>2 DEF RowsStill

\* A step of the server lane takes a row to 'anchoring' for a run only.
LEMMA LaneStarts ==
  ASSUME TypeInv, [Next]_vars, NEW p \in Passports, row'[p].status = "anchoring"
  PROVE  row[p].status = "anchoring" \/ \E r \in Runs : runs'[r].passport = p /\ runs'[r].phase = "starting"
<1>t. row \in [Passports -> RowType]
  BY DEF TypeInv, TypeOK
<1>1. ASSUME NEW c \in Payloads, NEW q \in Passports, CreatePassport(q, c) \/ ChangeContent(q, c)
      PROVE  row'[p] = row[p] \/ row'[p].status = "draft"
  BY <1>t, <1>1 DEF CreatePassport, ChangeContent
<1>2. Crash => row' = row
  BY DEF Crash
<1>3. CASE \E q \in Requests, a \in Attesters, r \in Runs : CommitRequest(q, a, r)
  <2>1. PICK q \in Requests, a \in Attesters, r \in Runs : CommitRequest(q, a, r)
    BY <1>3
  <2>2. PICK k \in Passports : /\ \A o \in Passports \ {k} : row'[o] = row[o]
                               /\ runs'[r].phase = "starting" /\ runs'[r].passport = k
    BY <2>1, CommitStarts
  <2> QED
    BY <2>2
<1>4. CASE \E r \in Runs : RunStep(r)
  BY <1>4, RunnerWrites
<1>5. CASE RowsStill
  BY <1>5, RowsStillKeeps
<1>6. CASE \E k \in Passports, c \in Payloads : CreatePassport(k, c) \/ ChangeContent(k, c)
  BY <1>1, <1>6
<1> QED
  BY <1>2, <1>3, <1>4, <1>5, <1>6, StepKinds DEF RowsStill

\* A passport that no run works on is at most created.
LEMMA LaneLeaves ==
  ASSUME TypeInv, [Next]_vars, NEW p \in Passports, \A r \in Runs : runs'[r].passport # p
  PROVE  row'[p] = row[p] \/ (~Exists(p) /\ row'[p].status = "draft" /\ row'[p].attester = None)
<1>t. row \in [Passports -> RowType]
  BY DEF TypeInv, TypeOK
<1>1. ASSUME NEW c \in Payloads, NEW q \in Passports, CreatePassport(q, c) \/ ChangeContent(q, c)
      PROVE  row'[p] = row[p] \/ (~Exists(p) /\ row'[p].status = "draft" /\ row'[p].attester = None)
  BY <1>t, <1>1 DEF CreatePassport, ChangeContent
<1>2. Crash => row' = row
  BY DEF Crash
<1>3. CASE \E q \in Requests, a \in Attesters, r \in Runs : CommitRequest(q, a, r)
  <2>1. PICK q \in Requests, a \in Attesters, r \in Runs : CommitRequest(q, a, r)
    BY <1>3
  <2>2. PICK k \in Passports : /\ \A o \in Passports \ {k} : row'[o] = row[o]
                               /\ runs'[r].passport = k
    BY <2>1, CommitStarts
  <2> QED
    BY <2>2
<1>4. CASE \E r \in Runs : RunStep(r)
  <2>1. PICK r \in Runs : RunStep(r)
    BY <1>4
  <2>2. runs'[r].passport = runs[r].passport
    <3>1. runs[r].phase # "unused"
      BY <2>1, RunStepType
    <3> QED
      BY <3>1, RunMoves
  <2> QED
    BY <2>1, <2>2, RunnerWrites
<1>5. CASE RowsStill
  BY <1>5, RowsStillKeeps
<1>6. CASE \E k \in Passports, c \in Payloads : CreatePassport(k, c) \/ ChangeContent(k, c)
  BY <1>1, <1>6
<1> QED
  BY <1>2, <1>3, <1>4, <1>5, <1>6, StepKinds DEF RowsStill

\* A run that works on a row, or was lost on it, does so until the row is marked.
LEMMA RunsLast ==
  ASSUME TypeInv, [Next]_vars, NEW s \in Runs, runs[s].phase \in LivePhases \cup {"lost"}
  PROVE  /\ runs'[s].passport = runs[s].passport
         /\ \/ runs'[s].phase \in LivePhases \cup {"lost"}
            \/ row'[runs[s].passport].status \in {"anchored", "failed"}
<1>t. row \in [Passports -> RowType] /\ runs \in [Runs -> RunType]
  BY DEF TypeInv, TypeOK
<1>0. runs[s].phase # "unused" /\ runs[s].passport \in Passports
  BY DEF LivePhases, TypeInv, RowsAreWhole
<1>1. runs'[s].passport = runs[s].passport
  BY <1>0, RunMoves
<1>2. CASE \E q \in Requests, a \in Attesters, r \in Runs : CommitRequest(q, a, r)
  <2>1. runs'[s] = runs[s]
    BY <1>0, <1>2, CommitStarts
  <2> QED
    BY <1>1, <2>1
<1>3. (\E k \in Passports, c \in Payloads : CreatePassport(k, c) \/ ChangeContent(k, c))
        => runs' = runs
  BY DEF CreatePassport, ChangeContent
<1>4. ASSUME NEW r \in Runs, SubmitTx(r) \/ GiveUp(r) \/ ObserveSuccess(r) \/ MarkAnchoredFails(r)
      PROVE  runs'[s].phase \in LivePhases \cup {"lost"}
  <2>1. \E phase \in {"waiting", "failing", "settling"} :
          \A x \in Runs : runs'[x].phase = IF x = r THEN phase ELSE runs[x].phase
    BY <1>4, <1>t DEF SubmitTx, GiveUp, ObserveSuccess, MarkAnchoredFails, SetPhase, RunType
  <2> QED
    BY <2>1 DEF LivePhases
<1>5. ASSUME NEW r \in Runs, MarkAnchored(r) \/ MarkFailed(r)
      PROVE  \/ runs'[s].phase \in LivePhases \cup {"lost"}
             \/ row'[runs[s].passport].status \in {"anchored", "failed"}
  <2>1. \/ row'[runs[r].passport].status \in {"anchored", "failed"}
        \/ runs'[r].phase = "lost"
    <3>1. runs[r].phase # "unused"
      BY <1>5 DEF MarkAnchored, MarkFailed
    <3>2. runs[r].passport \in Passports
      BY <3>1 DEF TypeInv, RowsAreWhole
    <3>3. CASE MarkAnchored(r)
      <4>1. PICK stamp : row' = [row EXCEPT ![runs[r].passport].status = "anchored",
                                            ![runs[r].passport].attester = stamp]
        BY <3>3 DEF MarkAnchored
      <4>2. row'[runs[r].passport].status = "anchored"
        BY <1>t, <3>2, <4>1 DEF RowType
      <4> QED
        BY <4>2
    <3>4. CASE MarkFailed(r)
      <4>1. \/ row' = [row EXCEPT ![runs[r].passport].status = "failed"]
            \/ runs' = [runs EXCEPT ![r].phase = "lost"]
        BY <3>4 DEF MarkFailed, SetPhase
      <4> QED
        BY <1>t, <3>2, <4>1 DEF RowType, RunType
    <3> QED
      BY <1>5, <3>3, <3>4
  <2>2. s # r => runs'[s] = runs[s]
    BY <1>5, <1>t DEF MarkAnchored, MarkFailed, SetPhase
  <2> QED
    BY <2>1, <2>2 DEF LivePhases
<1>7. CASE Crash
  <2>1. runs'[s] = IF Live(s) THEN [runs[s] EXCEPT !.phase = "lost"] ELSE runs[s]
    BY <1>7 DEF Crash, KillRuns
  <2>2. Live(s) => runs'[s].phase = "lost"
    BY <1>t, <2>1 DEF RunType
  <2> QED
    BY <2>1, <2>2
<1>8. CASE RowsStill
  BY <1>1, <1>8, RowsStillKeeps
<1> QED
  BY <1>1, <1>2, <1>3, <1>4, <1>5, <1>7, <1>8, StepKinds DEF RowsStill, RunStep

-----------------------------------------------------------------------------
(* The browser-wallet lane: types *)

Booked == {"tracked", "untracked", "closed"}

\* An approval that has begun knows what it anchors; only an entry that was
\* booked is pending, or waits for the sweep.
ApprovalsAreWhole ==
  /\ \A r \in Runs : runs[r].phase = "unused" => runs[r].passport = None
  /\ \A w \in Approvals :
       /\ approvals[w].phase = "unused" => approvals[w].passport = None /\ approvals[w].tx = "none"
       /\ approvals[w].phase # "unused" =>
            /\ approvals[w].passport \in Passports /\ Exists(approvals[w].passport)
            /\ approvals[w].attester \in Attesters /\ approvals[w].hash \in Payloads
            /\ approvals[w].root \in Root
       /\ approvals[w].entry = "pending" \/ w \in sweep => approvals[w].phase \in Booked

WalletInv == TypeInv /\ WalletTypeOK /\ ApprovalsAreWhole

LEMMA VerdictCases ==
  ASSUME NEW w, NEW a, NEW h, NEW verdict \in Verdicts(w, a, h)
  PROVE  /\ verdict \in {"unknown", "confirmed", "failed"}
         /\ EntryOf(verdict) \in {"pending", "succeeded", "failed"}
         /\ StatusOf(verdict) \in {"anchoring", "anchored", "failed"}
         /\ verdict = "unknown" <=> EntryOf(verdict) = "pending"
         /\ verdict = "unknown" <=> StatusOf(verdict) = "anchoring"
         /\ StatusOf(verdict) = "anchored" =>
              <<a, h>> \in attested \/ approvals[w].tx \in {"landed", "partial"}
<1>1. verdict \in {"unknown", "confirmed", "failed"}
  BY DEF Verdicts
<1>2. verdict = "confirmed" => <<a, h>> \in attested \/ approvals[w].tx \in {"landed", "partial"}
  BY DEF Verdicts
<1> QED
  BY <1>1, <1>2 DEF EntryOf, StatusOf

\* What one step makes of an approval: it begins, or keeps its coordinates.
Kept(w) ==
  /\ approvals'[w].passport = approvals[w].passport /\ approvals'[w].attester = approvals[w].attester
  /\ approvals'[w].hash = approvals[w].hash /\ approvals'[w].root = approvals[w].root
  /\ approvals'[w].phase = "unused" <=> approvals[w].phase = "unused"
  /\ approvals[w].phase \in Booked => approvals'[w].phase \in Booked /\ approvals'[w].checked = approvals[w].checked

LEMMA PrepareMoves ==
  ASSUME WalletInv, NEW w \in Approvals, NEW p \in Passports, NEW a \in Attesters,
         PrepareApproval(w, p, a)
  PROVE  /\ approvals' \in [Approvals -> ApprovalType]
         /\ \A v \in Approvals \ {w} : approvals'[v] = approvals[v]
         /\ approvals[w].phase = "unused" /\ approvals'[w].phase = "prepared"
         /\ approvals'[w].passport = p /\ approvals'[w].attester = a
         /\ approvals'[w].hash = row[p].hash /\ row[p].hash \in Payloads
         /\ approvals'[w].root = TreeFor(p, w) /\ TreeFor(p, w) \in Root
         /\ approvals'[w].tx = approvals[w].tx /\ approvals'[w].entry = approvals[w].entry
<1>1. approvals \in [Approvals -> ApprovalType] /\ row \in [Passports -> RowType]
      /\ content \in [Passports -> Payloads \cup {None}]
  BY DEF WalletInv, WalletTypeOK, TypeOK
<1>2. Exists(p) /\ row[p].hash \in Payloads /\ content[p] \in Payloads
  BY DEF PrepareApproval, WalletInv, TypeInv, RowsAreWhole
<1>3. TreeFor(p, w) \in Root
  <2>1. row[p].root = None \/ row[p].root \in Root
    BY <1>1 DEF RowType
  <2>2. row[p].root \in Root => row[p].root.seed \in Seeds
    OBVIOUS
  <2> QED
    BY <1>2, <2>1, <2>2, WalletAssumption DEF TreeFor
<1> DEFINE tree == TreeFor(p, w)
<1>4. approvals' = [approvals EXCEPT ![w] =
       [@ EXCEPT !.phase = "prepared", !.passport = p, !.attester = a,
                 !.hash = row[p].hash, !.root = tree]]
  BY DEF PrepareApproval
<1> HIDE DEF tree
<1> DEFINE u == [approvals[w] EXCEPT !.phase = "prepared", !.passport = p, !.attester = a,
                                     !.hash = row[p].hash, !.root = tree]
<1>5. approvals[w] \in ApprovalType
  BY <1>1
<1>6. u \in ApprovalType /\ u.phase = "prepared" /\ u.passport = p /\ u.attester = a
      /\ u.hash = row[p].hash /\ u.root = tree /\ u.tx = approvals[w].tx /\ u.entry = approvals[w].entry
  <2>1. tree \in Root
    BY <1>3 DEF tree
  <2> QED
    BY <1>2, <1>5, <2>1 DEF ApprovalType, ApprovalPhases
<1>7. approvals' = [approvals EXCEPT ![w] = u]
  BY <1>4
<1> HIDE DEF u
<1>8. approvals' \in [Approvals -> ApprovalType] /\ approvals'[w] = u
      /\ \A v \in Approvals \ {w} : approvals'[v] = approvals[v]
  BY <1>1, <1>6, <1>7
<1>9. approvals[w].phase = "unused"
  BY DEF PrepareApproval
<1> QED
  BY <1>2, <1>3, <1>6, <1>8, <1>9 DEF tree

\* The wallet, the callback, the tracker and the sweep.
LEMMA ApprovalMoves ==
  ASSUME WalletInv, NEW w \in Approvals,
         \/ SignAndSend(w) \/ LandWalletTx(w) \/ DropWalletTx(w)
         \/ RecordWalletAttest(w) \/ Tracker(w) \/ BootSweep(w)
  PROVE  /\ approvals' \in [Approvals -> ApprovalType]
         /\ \A v \in Approvals \ {w} : approvals'[v] = approvals[v]
         /\ Kept(w) /\ approvals[w].phase # "unused"
         /\ approvals'[w].phase \in Booked => approvals[w].phase \in Booked \/ RecordWalletAttest(w)
         /\ approvals'[w].entry = "pending" => approvals'[w].phase \in Booked
         /\ approvals'[w].tx \in {"landed", "partial"} =>
              approvals[w].tx \in {"landed", "partial"} \/ LandWalletTx(w)
<1>1. approvals \in [Approvals -> ApprovalType] /\ row \in [Passports -> RowType]
      /\ approvals[w] \in ApprovalType
  BY DEF WalletInv, WalletTypeOK, TypeOK
<1>2. /\ approvals[w].phase = "unused" => approvals[w].tx = "none" /\ w \notin sweep
      /\ approvals[w].entry = "pending" => approvals[w].phase \in Booked
      /\ w \in sweep => approvals[w].phase \in Booked
  BY DEF WalletInv, ApprovalsAreWhole, Booked
<1>3. ASSUME NEW u \in ApprovalType, approvals' = [approvals EXCEPT ![w] = u]
      PROVE  /\ approvals' \in [Approvals -> ApprovalType] /\ approvals'[w] = u
             /\ \A v \in Approvals \ {w} : approvals'[v] = approvals[v]
  BY <1>1, <1>3
<1> DEFINE t == approvals[w]
           With(phase, tx, entry, checked) == approvals' = [approvals EXCEPT ![w] =
             [t EXCEPT !.phase = phase, !.tx = tx, !.entry = entry, !.checked = checked]]
           Goal ==
             /\ approvals' \in [Approvals -> ApprovalType]
             /\ \A v \in Approvals \ {w} : approvals'[v] = approvals[v]
             /\ Kept(w) /\ approvals[w].phase # "unused"
             /\ approvals'[w].phase \in Booked => approvals[w].phase \in Booked \/ RecordWalletAttest(w)
             /\ approvals'[w].entry = "pending" => approvals'[w].phase \in Booked
             /\ approvals'[w].tx \in {"landed", "partial"} =>
                  approvals[w].tx \in {"landed", "partial"} \/ LandWalletTx(w)
\* The states of its own that a step may give the approval.
<1>4. ASSUME NEW phase \in ApprovalPhases \ {"unused"}, NEW tx \in TxStates, NEW entry \in EntryStatuses,
             NEW checked \in Payloads \cup {None},
             With(phase, tx, entry, checked),
             t.phase # "unused",
             t.phase \in Booked => phase \in Booked /\ checked = t.checked,
             phase \in Booked => t.phase \in Booked \/ RecordWalletAttest(w),
             entry = "pending" => phase \in Booked,
             tx \in {"landed", "partial"} => t.tx \in {"landed", "partial"} \/ LandWalletTx(w)
      PROVE  Goal
  <2> DEFINE u == [t EXCEPT !.phase = phase, !.tx = tx, !.entry = entry, !.checked = checked]
  <2>1. /\ u \in ApprovalType
        /\ u.phase = phase /\ u.tx = tx /\ u.entry = entry /\ u.checked = checked
        /\ u.passport = t.passport /\ u.attester = t.attester
        /\ u.hash = t.hash /\ u.root = t.root
    BY <1>1 DEF ApprovalType
  <2>2. approvals' = [approvals EXCEPT ![w] = u]
    BY <1>4
  <2> HIDE DEF u
  <2>3. /\ approvals' \in [Approvals -> ApprovalType] /\ approvals'[w] = u
        /\ \A v \in Approvals \ {w} : approvals'[v] = approvals[v]
    BY <1>3, <2>1, <2>2
  <2> QED
    BY <1>4, <2>1, <2>3 DEF Kept
<1>5. Goal
  <2> HIDE DEF Goal
  <2>1. t.phase \in ApprovalPhases /\ t.tx \in TxStates /\ t.entry \in EntryStatuses
        /\ t.checked \in Payloads \cup {None}
    BY <1>1 DEF ApprovalType
  <2>2. CASE SignAndSend(w)
    <3>1. With("signed", "inflight", t.entry, t.checked)
      BY <1>1, <2>2 DEF SignAndSend, ApprovalType
    <3>2. t.phase = "prepared" /\ "signed" \in ApprovalPhases /\ "inflight" \in TxStates
      BY <2>2 DEF SignAndSend, ApprovalPhases, TxStates
    <3> HIDE DEF With
    <3> QED
      BY <1>2, <1>4, <2>1, <3>1, <3>2 DEF Booked
  <2>3. CASE LandWalletTx(w)
    <3>1. PICK tx \in {"landed", "partial"} : With(t.phase, tx, t.entry, t.checked)
      BY <1>1, <2>3 DEF LandWalletTx, ApprovalType
    <3>2. t.phase # "unused" /\ tx \in TxStates
      BY <1>2, <2>3 DEF LandWalletTx, TxStates
    <3> HIDE DEF With
    <3> QED
      BY <1>2, <1>4, <2>1, <2>3, <3>1, <3>2
  <2>4. CASE DropWalletTx(w)
    <3>1. With(t.phase, "dropped", t.entry, t.checked)
      BY <1>1, <2>4 DEF DropWalletTx, ApprovalType
    <3>2. t.phase # "unused" /\ "dropped" \in TxStates
      BY <1>2, <2>4 DEF DropWalletTx, TxStates
    <3> HIDE DEF With
    <3> QED
      BY <1>2, <1>4, <2>1, <3>1, <3>2
  <2>5. CASE RecordWalletAttest(w)
    <3>1. t.phase = "signed" /\ t.passport \in Passports
      BY <2>5 DEF RecordWalletAttest, WalletInv, ApprovalsAreWhole
    <3>2. PICK verdict \in Verdicts(w, t.attester, row[t.passport].hash) :
            approvals' = [approvals EXCEPT ![w] =
                [@ EXCEPT !.phase = IF verdict = "unknown" THEN "tracked" ELSE "closed",
                          !.entry = EntryOf(verdict), !.checked = row[t.passport].hash]]
      BY <2>5 DEF RecordWalletAttest
    <3> DEFINE phase == IF verdict = "unknown" THEN "tracked" ELSE "closed"
               entry == EntryOf(verdict)
    <3>3. phase \in Booked /\ phase \in ApprovalPhases \ {"unused"} /\ entry \in EntryStatuses
      BY VerdictCases DEF Booked, ApprovalPhases, EntryStatuses
    <3>4. row[t.passport].hash \in Payloads \cup {None}
      BY <1>1, <3>1 DEF RowType
    <3> HIDE DEF phase, entry
    <3>5. With(phase, t.tx, entry, row[t.passport].hash)
      BY <1>1, <3>2 DEF ApprovalType, phase, entry
    <3> HIDE DEF With
    <3> QED
      BY <1>2, <1>4, <2>1, <2>5, <3>1, <3>3, <3>4, <3>5 DEF Booked
  <2>6. CASE TrackSettles(w)
    <3>1. t.phase = "tracked"
      BY <2>6 DEF TrackSettles
    <3>2. PICK verdict \in Verdicts(w, t.attester, t.checked) :
            approvals' = [approvals EXCEPT ![w].phase = "closed", ![w].entry = EntryOf(verdict)]
      BY <2>6 DEF TrackSettles
    <3> DEFINE entry == EntryOf(verdict)
    <3>3. "closed" \in ApprovalPhases /\ entry \in EntryStatuses
      BY VerdictCases DEF ApprovalPhases, EntryStatuses
    <3> HIDE DEF entry
    <3>4. With("closed", t.tx, entry, t.checked)
      BY <1>1, <3>2 DEF ApprovalType, entry
    <3> HIDE DEF With
    <3> QED
      BY <1>2, <1>4, <2>1, <3>1, <3>3, <3>4 DEF Booked
  <2>7. CASE TrackExpires(w)
    <3>1. With("untracked", t.tx, t.entry, t.checked)
      BY <1>1, <2>7 DEF TrackExpires, ApprovalType
    <3>2. t.phase = "tracked" /\ "untracked" \in ApprovalPhases
      BY <2>7 DEF TrackExpires, ApprovalPhases
    <3> HIDE DEF With
    <3> QED
      BY <1>2, <1>4, <2>1, <3>1, <3>2 DEF Booked
  <2>8. CASE SweepLeaves(w)
    <3>1. With(t.phase, t.tx, t.entry, t.checked) /\ w \in sweep
      BY <1>1, <2>8 DEF SweepLeaves, ApprovalType
    <3> HIDE DEF With
    <3> QED
      BY <1>2, <1>4, <2>1, <3>1 DEF Booked
  <2>9. CASE SweepCloses(w)
    <3>1. PICK entry \in {"failed", "succeeded"} :
            approvals' = [approvals EXCEPT ![w].phase = "closed", ![w].entry = entry]
      BY <2>9 DEF SweepCloses
    <3>2. With("closed", t.tx, entry, t.checked) /\ w \in sweep
      BY <1>1, <2>9, <3>1 DEF SweepCloses, ApprovalType
    <3>3. "closed" \in ApprovalPhases /\ entry \in EntryStatuses
      BY DEF ApprovalPhases, EntryStatuses
    <3> HIDE DEF With
    <3> QED
      BY <1>2, <1>4, <2>1, <3>2, <3>3 DEF Booked
  <2> QED
    BY <2>2, <2>3, <2>4, <2>5, <2>6, <2>7, <2>8, <2>9 DEF Tracker, BootSweep
<1> QED
  BY <1>5

\* An anchor transaction of a wallet keeps the types of the vault, and every record.
LEMMA WalletLands ==
  ASSUME WalletInv, NEW w \in Approvals, LandWalletTx(w)
  PROVE  /\ VaultTypeOK' /\ attested \subseteq attested'
         /\ <<approvals[w].attester, approvals[w].hash>> \in attested'
         /\ UNCHANGED <<anchorVars, sweep>>
<1> DEFINE t == approvals[w]
<1>1. t.passport \in Passports /\ t.attester \in Attesters /\ t.hash \in Payloads /\ t.root \in Root
  BY DEF WalletInv, ApprovalsAreWhole, LandWalletTx
<1>2. /\ attested' = attested \cup {<<t.attester, t.hash>>}
      /\ rootOf' = [rootOf EXCEPT ![<<t.attester, t.hash>>] = t.root]
      /\ binding' \in {binding, [binding EXCEPT ![t.passport] = <<t.attester, t.hash>>]}
      /\ registered' = registered
  BY DEF LandWalletTx, ApplyAnchorTx, ApplyAnchorTxPartially, AttestWithRoot
<1>3. /\ attested \subseteq Record
      /\ rootOf \in [Record -> Root \cup {None}]
      /\ binding \in [Passports -> Record \cup {None}]
      /\ registered \in [Passports -> Attesters \cup {None}]
  BY DEF WalletInv, TypeInv, TypeOK, VaultTypeOK
<1> HIDE DEF t
<1>4. attested' \subseteq Record
  BY <1>1, <1>2, <1>3
<1>5. rootOf' \in [Record -> Root \cup {None}]
  BY <1>1, <1>2, <1>3
<1>6. binding' \in [Passports -> Record \cup {None}]
  BY <1>1, <1>2, <1>3
<1>7. VaultTypeOK'
  BY <1>2, <1>3, <1>4, <1>5, <1>6 DEF VaultTypeOK
<1>8. UNCHANGED <<anchorVars, sweep>>
  BY DEF LandWalletTx
<1> QED
  BY <1>2, <1>7, <1>8 DEF t

\* Of a row, the browser lane writes the status, the attester and, once, the tree.
LEMMA WalletRows ==
  ASSUME WalletInv, NEW w \in Approvals,
         \/ \E p \in Passports, a \in Attesters : PrepareApproval(w, p, a)
         \/ SignAndSend(w) \/ LandWalletTx(w) \/ DropWalletTx(w)
         \/ RecordWalletAttest(w) \/ Tracker(w) \/ BootSweep(w)
  PROVE  /\ UNCHANGED <<content, versions, runs, requests, raced>> /\ sweep' \subseteq sweep
         /\ VaultTypeOK' /\ attested \subseteq attested'
         /\ row' \in [Passports -> RowType]
         /\ attestLog' \in [Passports -> SUBSET LogStatuses]
         /\ \A p \in Passports :
              /\ row'[p].hash = row[p].hash /\ Exists(p)' = Exists(p)
              /\ row[p].root # None => row'[p].root = row[p].root
              /\ p # approvals'[w].passport => row'[p] = row[p]
<1>t. /\ row \in [Passports -> RowType] /\ attestLog \in [Passports -> SUBSET LogStatuses]
      /\ VaultTypeOK
  BY DEF WalletInv, TypeInv, TypeOK
<1> DEFINE Goal == /\ UNCHANGED <<content, versions, runs, requests, raced>> /\ sweep' \subseteq sweep
                   /\ VaultTypeOK' /\ attested \subseteq attested'
                   /\ row' \in [Passports -> RowType]
                   /\ attestLog' \in [Passports -> SUBSET LogStatuses]
                   /\ \A p \in Passports :
                        /\ row'[p].hash = row[p].hash /\ Exists(p)' = Exists(p)
                        /\ row[p].root # None => row'[p].root = row[p].root
                        /\ p # approvals'[w].passport => row'[p] = row[p]
<1>1. CASE row' = row /\ attestLog' = attestLog /\ UNCHANGED <<content, versions, runs, requests, raced, vaultVars>>
           /\ sweep' \subseteq sweep
  BY <1>t, <1>1 DEF Exists, VaultTypeOK, vaultVars
<1>2. CASE LandWalletTx(w)
  BY <1>t, <1>2, WalletLands DEF anchorVars, Exists
<1>3. ASSUME NEW p \in Passports, NEW a \in Attesters, PrepareApproval(w, p, a)
      PROVE  Goal
  <2>1. row' = [row EXCEPT ![p].root = IF @ = None THEN TreeFor(p, w) ELSE @]
        /\ UNCHANGED <<content, versions, attestLog, runs, requests, raced, sweep, vaultVars>>
    BY <1>3 DEF PrepareApproval
  <2>2. TreeFor(p, w) \in Root /\ approvals'[w].passport = p
    BY <1>3, PrepareMoves
  <2>3. PICK root \in Root \cup {None} :
          row' = [row EXCEPT ![p].root = root] /\ (row[p].root # None => root = row[p].root)
    <3>1. row[p].root \in Root \cup {None}
      BY <1>t DEF RowType
    <3>2. CASE row[p].root = None
      BY <2>1, <2>2, <3>2
    <3>3. CASE row[p].root # None
      BY <2>1, <3>1, <3>3
    <3> QED
      BY <3>2, <3>3
  <2>4. row' \in [Passports -> RowType]
    BY <1>t, <2>3 DEF RowType
  <2>5. \A q \in Passports : /\ row'[q].hash = row[q].hash /\ row'[q].status = row[q].status
                             /\ row[q].root # None => row'[q].root = row[q].root
                             /\ q # p => row'[q] = row[q]
    BY <1>t, <2>3 DEF RowType
  <2> QED
    BY <1>t, <2>1, <2>2, <2>4, <2>5 DEF Exists, VaultTypeOK, vaultVars
\* The rest marks the row of an approval that has begun.
<1>4. ASSUME NEW p \in Passports, p = approvals[w].passport, Exists(p), approvals'[w].passport = p,
             NEW status \in Statuses \ {"absent"}, NEW stamp \in Attesters \cup {None},
             row' = [row EXCEPT ![p].status = status, ![p].attester = stamp],
             NEW log \in SUBSET LogStatuses, attestLog' = [attestLog EXCEPT ![p] = log],
             UNCHANGED <<content, versions, runs, requests, raced, vaultVars>>, sweep' \subseteq sweep
      PROVE  Goal
  <2>1. row' \in [Passports -> RowType] /\ attestLog' \in [Passports -> SUBSET LogStatuses]
    BY <1>t, <1>4 DEF RowType
  <2>2. \A q \in Passports : /\ row'[q].hash = row[q].hash /\ row'[q].root = row[q].root
                             /\ q # p => row'[q] = row[q]
    BY <1>t, <1>4 DEF RowType
  <2>3. row'[p].status = status
    BY <1>t, <1>4 DEF RowType
  <2>4. \A q \in Passports : Exists(q)' = Exists(q)
    BY <1>4, <2>2, <2>3 DEF Exists
  <2> QED
    BY <1>t, <1>4, <2>1, <2>2, <2>4 DEF VaultTypeOK, vaultVars
<1>5. ASSUME RecordWalletAttest(w) \/ TrackSettles(w) \/ SweepCloses(w)
      PROVE  Goal
  <2> HIDE DEF Goal
  <2>1. PICK p \in Passports : /\ p = approvals[w].passport /\ Exists(p)
                               /\ approvals'[w].passport = p /\ approvals[w].attester \in Attesters
    <3>1. approvals'[w].passport = approvals[w].passport /\ approvals[w].phase # "unused"
      BY <1>5, ApprovalMoves DEF Tracker, BootSweep, Kept
    <3> QED
      BY <3>1 DEF WalletInv, ApprovalsAreWhole
  <2>2. row[p].attester \in Attesters \cup {None} /\ row[p].status \in Statuses \ {"absent"}
        /\ attestLog[p] \in SUBSET LogStatuses
    BY <1>t, <2>1 DEF RowType, Exists
  <2>3. "anchoring" \in Statuses \ {"absent"} /\ "anchored" \in Statuses \ {"absent"}
        /\ "failed" \in Statuses \ {"absent"} /\ "succeeded" \in LogStatuses
    BY DEF Statuses, LogStatuses
  <2>4. \A entry : LogSuccess(p, entry) \in SUBSET LogStatuses
    BY <2>2, <2>3 DEF LogSuccess
  <2>5. CASE RecordWalletAttest(w)
    <3>1. PICK verdict \in Verdicts(w, approvals[w].attester, row[p].hash) :
            /\ row' = [row EXCEPT ![p].status = StatusOf(verdict), ![p].attester = approvals[w].attester]
            /\ attestLog' = [attestLog EXCEPT ![p] = LogSuccess(p, EntryOf(verdict)) \ {"offline"}]
            /\ UNCHANGED <<content, versions, runs, requests, raced, sweep, vaultVars>>
      BY <2>1, <2>5 DEF RecordWalletAttest
    <3>2. StatusOf(verdict) \in Statuses \ {"absent"}
      BY <2>3, VerdictCases
    <3>3. LogSuccess(p, EntryOf(verdict)) \ {"offline"} \in SUBSET LogStatuses
      BY <2>4
    <3> QED
      BY <1>4, <2>1, <3>1, <3>2, <3>3
  <2>6. CASE TrackSettles(w)
    <3>1. PICK verdict \in Verdicts(w, approvals[w].attester, approvals[w].checked) :
            /\ row' = [row EXCEPT ![p].status = StatusOf(verdict)]
            /\ attestLog' = [attestLog EXCEPT ![p] = LogSuccess(p, EntryOf(verdict))]
            /\ UNCHANGED <<content, versions, runs, requests, raced, sweep, vaultVars>>
      BY <2>1, <2>6 DEF TrackSettles
    <3>2. StatusOf(verdict) \in Statuses \ {"absent"}
      BY <2>3, VerdictCases
    <3>3. row' = [row EXCEPT ![p].status = StatusOf(verdict), ![p].attester = row[p].attester]
      BY <1>t, <3>1 DEF RowType
    <3> QED
      BY <1>4, <2>1, <2>2, <2>4, <3>1, <3>2, <3>3
  <2>7. CASE SweepCloses(w)
    <3>1. PICK entry \in {"failed", "succeeded"}, status \in {row[p].status, "anchored", "failed"} :
            /\ row' = [row EXCEPT ![p].status = status]
            /\ attestLog' = [attestLog EXCEPT ![p] = LogSuccess(p, entry)]
            /\ UNCHANGED <<content, versions, runs, requests, raced, vaultVars>> /\ sweep' = sweep \ {w}
      BY <2>1, <2>7 DEF SweepCloses
    <3>2. status \in Statuses \ {"absent"}
      BY <2>2, <2>3
    <3>3. row' = [row EXCEPT ![p].status = status, ![p].attester = row[p].attester]
      BY <1>t, <3>1 DEF RowType
    <3> QED
      BY <1>4, <2>1, <2>2, <2>4, <3>1, <3>2, <3>3
  <2> QED
    BY <1>5, <2>5, <2>6, <2>7
<1>6. SignAndSend(w) \/ DropWalletTx(w) \/ TrackExpires(w) \/ SweepLeaves(w) =>
        row' = row /\ attestLog' = attestLog /\ UNCHANGED <<content, versions, runs, requests, raced, vaultVars>>
        /\ sweep' \subseteq sweep
  BY DEF SignAndSend, DropWalletTx, TrackExpires, SweepLeaves, anchorVars
<1> QED
  BY <1>1, <1>2, <1>3, <1>5, <1>6 DEF Tracker, BootSweep

\* The process dies with the runners, as in the server lane.
LEMMA BootIsCrash ==
  ASSUME TypeInv, CrashAndBoot
  PROVE  [Next]_vars
<1>1. CASE (\E r \in Runs : Live(r)) \/ (\E q \in Requests : requests[q] # NoRequest)
  BY <1>1 DEF CrashAndBoot, Crash, Next
<1>2. CASE (\A r \in Runs : ~Live(r)) /\ (\A q \in Requests : requests[q] = NoRequest)
  <2>1. runs' = [r \in Runs |-> runs[r]]
    BY <1>2 DEF CrashAndBoot, KillRuns
  <2>2. requests' = [q \in Requests |-> requests[q]]
    BY <1>2 DEF CrashAndBoot, KillRequests
  <2>3. runs' = runs /\ requests' = requests
    BY <2>1, <2>2 DEF TypeInv, TypeOK
  <2> QED
    BY <2>3 DEF CrashAndBoot, vars, anchorVars
<1> QED
  BY <1>1, <1>2

\* The death of a process, as the approvals see it.
LEMMA BootMoves ==
  ASSUME WalletInv, CrashAndBoot
  PROVE  /\ approvals' \in [Approvals -> ApprovalType]
         /\ UNCHANGED <<row, content, versions, attestLog, vaultVars>>
         /\ \A w \in Approvals :
              /\ Kept(w) /\ approvals'[w].tx = approvals[w].tx /\ approvals'[w].entry = approvals[w].entry
              /\ approvals'[w].phase \in Booked => approvals[w].phase \in Booked
              /\ w \in sweep' => approvals[w].entry = "pending"
<1>1. approvals \in [Approvals -> ApprovalType]
  BY DEF WalletInv, WalletTypeOK
<1>2. \A w \in Approvals : approvals'[w] = IF approvals[w].phase = "tracked"
        THEN [approvals[w] EXCEPT !.phase = "untracked"] ELSE approvals[w]
  BY DEF CrashAndBoot
<1>3. DOMAIN approvals' = Approvals /\ approvals' = [w \in Approvals |-> approvals'[w]]
  BY DEF CrashAndBoot
<1>4. ASSUME NEW w \in Approvals
      PROVE  /\ approvals'[w] \in ApprovalType
             /\ Kept(w) /\ approvals'[w].tx = approvals[w].tx /\ approvals'[w].entry = approvals[w].entry
             /\ approvals'[w].phase \in Booked => approvals[w].phase \in Booked
  <2>1. approvals[w] \in ApprovalType
    BY <1>1
  <2>2. CASE approvals[w].phase = "tracked"
    <3>1. approvals'[w] = [approvals[w] EXCEPT !.phase = "untracked"]
      BY <1>2, <2>2
    <3> QED
      BY <2>1, <2>2, <3>1 DEF ApprovalType, ApprovalPhases, Kept, Booked
  <2>3. CASE approvals[w].phase # "tracked"
    BY <1>2, <2>1, <2>3 DEF Kept
  <2> QED
    BY <2>2, <2>3
<1>5. UNCHANGED <<row, content, versions, attestLog, vaultVars>>
      /\ sweep' = {w \in Approvals : approvals[w].entry = "pending"}
  BY DEF CrashAndBoot
<1> QED
  BY <1>3, <1>4, <1>5

\* A step of the server lane, its death included, or one of the browser lane.
LEMMA WalletCases ==
  ASSUME TypeInv, [WalletNext]_allVars
  PROVE  \/ [Next]_vars /\ UNCHANGED walletVars
         \/ [Next]_vars /\ CrashAndBoot
         \/ \E w \in Approvals, p \in Passports, a \in Attesters : PrepareApproval(w, p, a)
         \/ \E w \in Approvals :
              \/ SignAndSend(w) \/ LandWalletTx(w) \/ DropWalletTx(w)
              \/ RecordWalletAttest(w) \/ Tracker(w) \/ BootSweep(w)
<1>1. CASE UNCHANGED allVars
  BY <1>1 DEF allVars, vars, anchorVars
<1>2. CASE WalletStep
  BY <1>2 DEF WalletStep
<1>3. CASE CrashAndBoot
  BY <1>3, BootIsCrash
<1> QED
  BY <1>1, <1>2, <1>3 DEF WalletNext, Next

LEMMA WalletInitType == WalletInit => WalletInv
<1> SUFFICES ASSUME WalletInit PROVE WalletInv
  OBVIOUS
<1>1. TypeInv
  BY InitType DEF WalletInit
<1>2. approvals = [w \in Approvals |-> UnusedApproval] /\ sweep = {}
      /\ runs = [r \in Runs |-> UnusedRun]
  BY DEF WalletInit, Init
<1>3. UnusedApproval \in ApprovalType
  BY DEF UnusedApproval, ApprovalType, ApprovalPhases, TxStates, EntryStatuses
<1>4. WalletTypeOK
  BY <1>1, <1>2, <1>3 DEF WalletTypeOK, TypeInv
<1>5. ApprovalsAreWhole
  BY <1>2 DEF ApprovalsAreWhole, UnusedApproval, UnusedRun
<1> QED
  BY <1>1, <1>4, <1>5 DEF WalletInv

\* A passport that exists does so for good.
LEMMA ExistsLasts ==
  ASSUME TypeInv, [Next]_vars, NEW p \in Passports, Exists(p)
  PROVE  Exists(p)'
<1>t. row[p].status # "absent"
  BY DEF Exists
<1>1. ASSUME NEW r \in Runs, RunStep(r)
      PROVE  row'[p].status # "absent"
  BY <1>t, <1>1, RunnerWrites
<1>2. ASSUME NEW r \in Runs, MarkAnchored(r) \/ MarkFailed(r)
      PROVE  row'[p].status # "absent"
  BY <1>1, <1>2 DEF RunStep
<1>3. row'[p].status # "absent"
  BY <1>t, <1>2, RowMoves
<1> QED
  BY <1>3 DEF Exists

LEMMA WalletTypes == WalletInv /\ [WalletNext]_allVars => WalletInv'
<1> SUFFICES ASSUME WalletInv, [WalletNext]_allVars PROVE WalletInv'
  OBVIOUS
<1>t. TypeInv /\ TypeOK /\ approvals \in [Approvals -> ApprovalType] /\ sweep \subseteq Approvals
  BY DEF WalletInv, WalletTypeOK, TypeInv
<1>0. WalletInv => ApprovalsAreWhole
  BY DEF WalletInv
<1>1. ASSUME [Next]_vars
      PROVE  /\ TypeInv' /\ TypeOK'
             /\ \A r \in Runs : runs'[r].phase = "unused" => runs'[r].passport = None
             /\ \A p \in Passports : Exists(p) => Exists(p)'
  <2>1. TypeInv' /\ TypeOK'
    BY <1>1, <1>t, NextType DEF TypeInv
  <2>2. \A r \in Runs : runs'[r].phase = "unused" => runs'[r].passport = None
    BY <1>1, <1>t, <1>0, RunMoves DEF ApprovalsAreWhole
  <2> QED
    BY <1>1, <1>t, <2>1, <2>2, ExistsLasts
<1>2. CASE [Next]_vars /\ UNCHANGED walletVars
  <2>1. WalletTypeOK'
    BY <1>1, <1>2, <1>t DEF WalletTypeOK, walletVars
  <2>2. ApprovalsAreWhole'
    BY <1>0, <1>1, <1>2 DEF ApprovalsAreWhole, walletVars
  <2> QED
    BY <1>1, <1>2, <2>1, <2>2 DEF WalletInv
<1>3. CASE [Next]_vars /\ CrashAndBoot
  <2>1. sweep' \subseteq Approvals
    BY <1>3 DEF CrashAndBoot
  <2>2. WalletTypeOK'
    BY <1>1, <1>3, <2>1, BootMoves DEF WalletTypeOK
  <2>3. ASSUME NEW w \in Approvals
        PROVE  /\ approvals'[w].phase = "unused" => approvals'[w].passport = None /\ approvals'[w].tx = "none"
               /\ approvals'[w].phase # "unused" =>
                    /\ approvals'[w].passport \in Passports /\ row'[approvals'[w].passport].status # "absent"
                    /\ approvals'[w].attester \in Attesters /\ approvals'[w].hash \in Payloads
                    /\ approvals'[w].root \in Root
               /\ approvals'[w].entry = "pending" \/ w \in sweep' => approvals'[w].phase \in Booked
    BY <1>0, <1>1, <1>3, BootMoves DEF ApprovalsAreWhole, Kept, Exists
  <2>4. ApprovalsAreWhole'
    BY <1>1, <1>3, <2>3 DEF ApprovalsAreWhole, Exists
  <2> QED
    BY <1>1, <1>3, <2>2, <2>4 DEF WalletInv
<1>4. ASSUME NEW w \in Approvals,
             \/ \E p \in Passports, a \in Attesters : PrepareApproval(w, p, a)
             \/ SignAndSend(w) \/ LandWalletTx(w) \/ DropWalletTx(w)
             \/ RecordWalletAttest(w) \/ Tracker(w) \/ BootSweep(w)
      PROVE  WalletInv'
  <2>1. /\ UNCHANGED <<content, versions, runs, requests, raced>> /\ sweep' \subseteq sweep
        /\ VaultTypeOK' /\ row' \in [Passports -> RowType]
        /\ attestLog' \in [Passports -> SUBSET LogStatuses]
        /\ \A p \in Passports : row'[p].hash = row[p].hash /\ Exists(p)' = Exists(p)
    BY <1>4, WalletRows
  <2>2. TypeInv'
    <3>1. TypeOK'
      BY <1>t, <2>1 DEF TypeOK
    <3>2. RowsAreWhole'
      BY <1>t, <2>1 DEF TypeInv, RowsAreWhole
    <3>3. RequestsAreWhole'
      BY <1>t, <2>1, RequestsKeep
    <3> QED
      BY <3>1, <3>2, <3>3 DEF TypeInv
  <2>3. /\ approvals' \in [Approvals -> ApprovalType]
        /\ \A v \in Approvals \ {w} : approvals'[v] = approvals[v]
        /\ approvals'[w].phase # "unused"
        /\ approvals'[w].passport \in Passports /\ Exists(approvals'[w].passport)
        /\ approvals'[w].attester \in Attesters /\ approvals'[w].hash \in Payloads
        /\ approvals'[w].root \in Root
        /\ approvals'[w].entry = "pending" \/ w \in sweep => approvals'[w].phase \in Booked
    <3> DEFINE Goal ==
          /\ approvals' \in [Approvals -> ApprovalType]
          /\ \A v \in Approvals \ {w} : approvals'[v] = approvals[v]
          /\ approvals'[w].phase # "unused"
          /\ approvals'[w].passport \in Passports /\ Exists(approvals'[w].passport)
          /\ approvals'[w].attester \in Attesters /\ approvals'[w].hash \in Payloads
          /\ approvals'[w].root \in Root
          /\ approvals'[w].entry = "pending" \/ w \in sweep => approvals'[w].phase \in Booked
    <3>1. ASSUME NEW p \in Passports, NEW a \in Attesters, PrepareApproval(w, p, a)
          PROVE  Goal
      <4>1. Exists(p)
        BY <3>1 DEF PrepareApproval
      <4>2. approvals[w].entry # "pending" /\ w \notin sweep
        BY <1>0, <1>t, <3>1, PrepareMoves DEF ApprovalsAreWhole, Booked
      <4> QED
        BY <3>1, <4>1, <4>2, PrepareMoves
    <3>2. CASE \/ SignAndSend(w) \/ LandWalletTx(w) \/ DropWalletTx(w)
               \/ RecordWalletAttest(w) \/ Tracker(w) \/ BootSweep(w)
      <4>1. /\ approvals' \in [Approvals -> ApprovalType]
            /\ \A v \in Approvals \ {w} : approvals'[v] = approvals[v]
            /\ Kept(w) /\ approvals[w].phase # "unused"
            /\ (approvals'[w].entry = "pending" => approvals'[w].phase \in Booked)
        BY <3>2, ApprovalMoves
      <4>2. /\ approvals[w].passport \in Passports /\ Exists(approvals[w].passport)
            /\ approvals[w].attester \in Attesters /\ approvals[w].hash \in Payloads
            /\ approvals[w].root \in Root
            /\ w \in sweep => approvals[w].phase \in Booked
        BY <1>0, <1>t, <4>1 DEF ApprovalsAreWhole
      <4> QED
        BY <4>1, <4>2 DEF Kept
    <3> QED
      BY <1>4, <3>1, <3>2
  <2>4. /\ approvals'[w].passport \in Passports /\ row'[approvals'[w].passport].status # "absent"
    BY <2>1, <2>3 DEF Exists
  <2>5. ApprovalsAreWhole'
    BY <1>0, <1>t, <2>1, <2>3, <2>4 DEF ApprovalsAreWhole, Exists
  <2>6. WalletTypeOK'
    BY <1>t, <2>1, <2>2, <2>3 DEF WalletTypeOK, TypeInv
  <2> QED
    BY <2>2, <2>5, <2>6 DEF WalletInv
<1> QED
  BY <1>t, <1>2, <1>3, <1>4, WalletCases

\* What the callback, the tracker and the sweep make of the row and the entry.
LEMMA EntryMoves ==
  ASSUME WalletInv, NEW w \in Approvals, NEW p \in Passports, p = approvals[w].passport,
         \/ SignAndSend(w) \/ LandWalletTx(w) \/ DropWalletTx(w)
         \/ RecordWalletAttest(w) \/ Tracker(w) \/ BootSweep(w)
  PROVE  \/ /\ row' = row /\ approvals'[w].entry = approvals[w].entry
            /\ approvals'[w].phase \in Booked => approvals[w].phase \in Booked
         \/ /\ approvals[w].phase = "signed"
            /\ row'[p].attester = approvals[w].attester /\ approvals'[w].checked = row[p].hash
            /\ row'[p].root = row[p].root
            /\ row'[p].status = "anchoring" => approvals'[w].entry = "pending"
            /\ row'[p].status = "anchored" => \/ <<approvals[w].attester, row[p].hash>> \in attested
                                              \/ approvals[w].tx \in {"landed", "partial"}
         \/ /\ approvals[w].phase \in Booked
            /\ row'[p].attester = row[p].attester /\ row'[p].root = row[p].root
            /\ row'[p].status # "anchoring"
            /\ row'[p].status = "anchored" => \/ row[p].status = "anchored" \/ CurrentRecordFound(p)
                                              \/ <<approvals[w].attester, approvals[w].checked>> \in attested
                                              \/ approvals[w].tx \in {"landed", "partial"}
<1>1. approvals \in [Approvals -> ApprovalType] /\ row \in [Passports -> RowType]
      /\ approvals[w] \in ApprovalType
  BY DEF WalletInv, WalletTypeOK, TypeOK
<1>2. CASE SignAndSend(w) \/ LandWalletTx(w) \/ DropWalletTx(w) \/ TrackExpires(w) \/ SweepLeaves(w)
  <2>1. row' = row
    BY <1>2 DEF SignAndSend, LandWalletTx, DropWalletTx, TrackExpires, SweepLeaves, anchorVars
  <2>2. \/ approvals' = approvals
        \/ \E tx : approvals' = [approvals EXCEPT ![w].tx = tx]
        \/ approvals' = [approvals EXCEPT ![w].phase = "signed", ![w].tx = "inflight"]
        \/ approvals[w].phase = "tracked" /\ approvals' = [approvals EXCEPT ![w].phase = "untracked"]
    BY <1>2 DEF SignAndSend, LandWalletTx, DropWalletTx, TrackExpires, SweepLeaves
  <2>3. /\ approvals'[w].entry = approvals[w].entry
        /\ \/ approvals'[w].phase \in {approvals[w].phase, "signed"}
           \/ approvals[w].phase = "tracked"
    BY <1>1, <2>2 DEF ApprovalType
  <2>4. approvals'[w].phase \in Booked => approvals[w].phase \in Booked
    BY <2>3 DEF Booked
  <2> QED
    BY <2>1, <2>3, <2>4
<1>3. CASE RecordWalletAttest(w)
  <2>1. PICK verdict \in Verdicts(w, approvals[w].attester, row[p].hash) :
          /\ approvals' = [approvals EXCEPT ![w] =
               [@ EXCEPT !.phase = IF verdict = "unknown" THEN "tracked" ELSE "closed",
                         !.entry = EntryOf(verdict), !.checked = row[p].hash]]
          /\ row' = [row EXCEPT ![p].status = StatusOf(verdict), ![p].attester = approvals[w].attester]
    BY <1>3 DEF RecordWalletAttest
  <2> DEFINE entry == EntryOf(verdict)
             status == StatusOf(verdict)
  <2>2. /\ status = "anchoring" => entry = "pending"
        /\ status = "anchored" => \/ <<approvals[w].attester, row[p].hash>> \in attested
                                  \/ approvals[w].tx \in {"landed", "partial"}
    BY VerdictCases
  <2>3. approvals'[w].entry = entry /\ approvals'[w].checked = row[p].hash
    <3>1. approvals' = [approvals EXCEPT ![w] =
               [@ EXCEPT !.phase = IF verdict = "unknown" THEN "tracked" ELSE "closed",
                         !.entry = entry, !.checked = row[p].hash]]
      BY <2>1
    <3> HIDE DEF entry
    <3> QED
      BY <1>1, <3>1 DEF ApprovalType
  <2>4. row'[p].status = status /\ row'[p].attester = approvals[w].attester
        /\ row'[p].root = row[p].root
    <3>1. row' = [row EXCEPT ![p].status = status, ![p].attester = approvals[w].attester]
      BY <2>1
    <3> HIDE DEF status
    <3> QED
      BY <1>1, <3>1 DEF RowType
  <2>5. approvals[w].phase = "signed"
    BY <1>3 DEF RecordWalletAttest
  <2> HIDE DEF entry, status
  <2> QED
    BY <2>2, <2>3, <2>4, <2>5
<1>4. CASE TrackSettles(w)
  <2>1. PICK verdict \in Verdicts(w, approvals[w].attester, approvals[w].checked) :
          verdict # "unknown" /\ row' = [row EXCEPT ![p].status = StatusOf(verdict)]
    BY <1>4 DEF TrackSettles
  <2> DEFINE status == StatusOf(verdict)
  <2>2. /\ status # "anchoring"
        /\ status = "anchored" => \/ <<approvals[w].attester, approvals[w].checked>> \in attested
                                  \/ approvals[w].tx \in {"landed", "partial"}
    BY <2>1, VerdictCases
  <2>3. row' = [row EXCEPT ![p].status = status]
    BY <2>1
  <2> HIDE DEF status
  <2>4. row'[p].status = status /\ row'[p].attester = row[p].attester /\ row'[p].root = row[p].root
    BY <1>1, <2>3 DEF RowType
  <2>5. approvals[w].phase \in Booked
    BY <1>4 DEF TrackSettles, Booked
  <2> QED
    BY <2>2, <2>4, <2>5
<1>5. CASE SweepCloses(w)
  <2>1. PICK entry \in {"failed"} \cup (IF CurrentRecordFound(p) THEN {"succeeded"} ELSE {}) :
          row' = [row EXCEPT ![p].status =
            IF @ # "anchoring" THEN @ ELSE IF entry = "succeeded" THEN "anchored" ELSE "failed"]
    BY <1>5 DEF SweepCloses
  <2>2. entry = "succeeded" => CurrentRecordFound(p)
    OBVIOUS
  <2>3. /\ row'[p].status = IF row[p].status # "anchoring" THEN row[p].status
                            ELSE IF entry = "succeeded" THEN "anchored" ELSE "failed"
        /\ row'[p].attester = row[p].attester /\ row'[p].root = row[p].root
    BY <1>1, <2>1 DEF RowType
  <2>4. approvals[w].phase \in Booked
    BY <1>5 DEF SweepCloses, WalletInv, ApprovalsAreWhole
  <2> QED
    BY <2>2, <2>3, <2>4
<1> QED
  BY <1>2, <1>3, <1>4, <1>5 DEF Tracker, BootSweep

-----------------------------------------------------------------------------
(* Who moves an 'anchoring' row on *)

LEMMA NextStranded ==
  WalletInv /\ StrandedByLossOnly /\ [WalletNext]_allVars => StrandedByLossOnly'
<1> SUFFICES ASSUME WalletInv, StrandedByLossOnly, [WalletNext]_allVars,
                    NEW p \in Passports, row'[p].status = "anchoring"
             PROVE  \/ \E r \in Runs : runs'[r].passport = p /\ runs'[r].phase \in LivePhases \cup {"lost"}
                    \/ \E w \in Approvals : approvals'[w].passport = p /\ approvals'[w].entry = "pending"
  BY DEF StrandedByLossOnly, RunOf, PendingEntry
<1>t. TypeInv /\ ApprovalsAreWhole
  BY DEF WalletInv
<1>0. row[p].status = "anchoring" =>
        \/ \E r \in Runs : runs[r].passport = p /\ runs[r].phase \in LivePhases \cup {"lost"}
        \/ \E w \in Approvals : approvals[w].passport = p /\ approvals[w].entry = "pending"
  BY DEF StrandedByLossOnly, RunOf, PendingEntry
<1>1. CASE [Next]_vars /\ (UNCHANGED walletVars \/ CrashAndBoot)
  <2>1. \A w \in Approvals : approvals'[w].passport = approvals[w].passport /\ approvals'[w].entry = approvals[w].entry
    BY <1>1, BootMoves DEF walletVars, Kept
  <2>2. CASE \E r \in Runs : runs'[r].passport = p /\ runs'[r].phase = "starting"
    BY <2>2 DEF LivePhases
  <2>3. CASE row[p].status = "anchoring"
    BY <1>0, <1>1, <1>t, <2>1, <2>3, RunsLast
  <2> QED
    BY <1>1, <1>t, <2>2, <2>3, LaneStarts
<1>2. ASSUME NEW w \in Approvals, NEW q \in Passports, NEW a \in Attesters, PrepareApproval(w, q, a)
      PROVE  row[p].status = "anchoring" /\ UNCHANGED runs
             /\ \A v \in Approvals : approvals[v].entry = "pending" => approvals'[v] = approvals[v]
  <2>1. row' = [row EXCEPT ![q].root = IF @ = None THEN TreeFor(q, w) ELSE @] /\ UNCHANGED runs
    BY <1>2 DEF PrepareApproval
  <2>2. row'[p].status = row[p].status
    BY <1>t, <2>1 DEF TypeInv, TypeOK, RowType
  <2>3. approvals[w].entry # "pending"
    BY <1>2, <1>t, PrepareMoves DEF ApprovalsAreWhole, Booked
  <2> QED
    BY <1>2, <2>1, <2>2, <2>3, PrepareMoves
<1>3. ASSUME NEW w \in Approvals,
             \/ SignAndSend(w) \/ LandWalletTx(w) \/ DropWalletTx(w)
             \/ RecordWalletAttest(w) \/ Tracker(w) \/ BootSweep(w)
      PROVE  \/ \E r \in Runs : runs'[r].passport = p /\ runs'[r].phase \in LivePhases \cup {"lost"}
             \/ \E v \in Approvals : approvals'[v].passport = p /\ approvals'[v].entry = "pending"
  <2>1. UNCHANGED runs /\ (p # approvals'[w].passport => row'[p] = row[p])
    BY <1>3, WalletRows
  <2>2. approvals'[w].passport = approvals[w].passport
        /\ \A v \in Approvals \ {w} : approvals'[v] = approvals[v]
    BY <1>3, ApprovalMoves DEF Kept
  <2>3. CASE p # approvals[w].passport
    BY <1>0, <2>1, <2>2, <2>3
  <2>4. CASE p = approvals[w].passport
    <3>1. \/ row' = row /\ approvals'[w].entry = approvals[w].entry
          \/ approvals'[w].entry = "pending"
      BY <1>3, <2>4, EntryMoves
    <3> QED
      BY <1>0, <2>1, <2>2, <2>4, <3>1
  <2> QED
    BY <2>3, <2>4
<1> QED
  BY <1>0, <1>1, <1>2, <1>3, <1>t, WalletCases

\* An 'anchoring' row always has somebody to move it on, a live runner or a
\* pending entry that the next boot sweeps, unless its runner was lost: no
\* interleaving of the two lanes, of verdicts, trackers, sweeps and restarts
\* forgets one.
THEOREM AnchoringIsCarried == WalletSpec => []StrandedByLossOnly
<1>1. WalletInit => StrandedByLossOnly
  <2>1. ASSUME WalletInit, NEW p \in Passports
        PROVE  row[p].status # "anchoring"
    BY <2>1 DEF WalletInit, Init, AbsentRow
  <2> QED
    BY <2>1 DEF StrandedByLossOnly
<1> QED
  BY <1>1, WalletInitType, WalletTypes, NextStranded, PTL DEF WalletSpec

-----------------------------------------------------------------------------
(* A passport that one browser wallet anchors alone *)

\* Its approvals carry the hash and the tree of its row, and the row names the
\* wallet as soon as one of them is booked.
LoneInvariant ==
  /\ \A w \in Approvals : approvals[w].tx \in {"landed", "partial"} =>
       <<approvals[w].attester, approvals[w].hash>> \in attested
  /\ \A p \in Passports : OneWallet(p) =>
       /\ Anchored(p) => <<row[p].attester, row[p].hash>> \in attested
       /\ \A w \in Approvals : approvals[w].passport = p =>
            /\ approvals[w].hash = row[p].hash
            /\ row[p].root # None /\ approvals[w].root.seed = row[p].root.seed
            /\ approvals[w].phase \in Booked =>
                 row[p].attester = approvals[w].attester /\ approvals[w].checked = row[p].hash

LEMMA OneWalletMeans ==
  ASSUME NEW p
  PROVE  OneWallet(p) <=>
           /\ \A r \in Runs : runs[r].passport # p
           /\ \A v, w \in Approvals : approvals[v].passport = p /\ approvals[w].passport = p =>
                approvals[v].attester = approvals[w].attester
<1>1. ASSUME NEW v, NEW w
      PROVE  {v, w} = {p} <=> v = p /\ w = p
  OBVIOUS
<1> QED
  BY <1>1 DEF OneWallet

\* The vault keeps every record, whatever the server lane does.
LEMMA LaneKeepsRecords ==
  ASSUME [Next]_vars
  PROVE  attested \subseteq attested'
<1>1. ASSUME NEW r \in Runs, LandTx(r)
      PROVE  attested \subseteq attested'
  BY <1>1 DEF LandTx, ApplyAnchorTx, ApplyAnchorTxPartially, AttestWithRoot
<1>2. ASSUME NEW r \in Runs, RunStep(r)
      PROVE  attested' = attested
  BY <1>2 DEF RunStep, SubmitTx, GiveUp, ObserveSuccess, MarkAnchored, MarkAnchoredFails, MarkFailed,
     vaultVars
<1>3. ASSUME NEW q \in Requests, Reads(q) \/ AbandonRequest(q)
      PROVE  attested' = attested
  BY <1>3, ReadsAreQuiet DEF Quiet, vaultVars
<1>4. ASSUME NEW q \in Requests, NEW a \in Attesters, NEW r \in Runs, CommitRequest(q, a, r)
      PROVE  attested' = attested
  BY <1>4 DEF CommitRequest, vaultVars
<1>5. (\/ UNCHANGED vars \/ Crash
       \/ \E p \in Passports, c \in Payloads : CreatePassport(p, c) \/ ChangeContent(p, c))
        => attested' = attested
  BY DEF Crash, vars, vaultVars, CreatePassport, ChangeContent
<1> QED
  BY <1>1, <1>2, <1>3, <1>4, <1>5, StepKinds

\* A passport that is another's as well never becomes one wallet's alone.
LEMMA OneWalletWas ==
  ASSUME WalletInv, [WalletNext]_allVars, NEW p \in Passports, OneWallet(p)'
  PROVE  OneWallet(p)
<1>t. TypeInv /\ ApprovalsAreWhole
  BY DEF WalletInv
<1>0. /\ \A r \in Runs : runs'[r].passport # p
      /\ \A v, w \in Approvals : approvals'[v].passport = p /\ approvals'[w].passport = p =>
           approvals'[v].attester = approvals'[w].attester
  <2>1. ASSUME NEW v, NEW w
        PROVE  {v, w} = {p} <=> v = p /\ w = p
    OBVIOUS
  <2> QED
    BY <2>1 DEF OneWallet
<1>1. p # None
  BY NoneAssumption
<1>2. ASSUME [Next]_vars, NEW r \in Runs
      PROVE  runs[r].passport # p
  <2>1. runs[r].phase = "unused" => runs[r].passport = None
    BY <1>t DEF ApprovalsAreWhole
  <2> QED
    BY <1>0, <1>1, <1>2, <1>t, <2>1, RunMoves
<1>3. \A r \in Runs : runs[r].passport # p
  <2>1. (\E w \in Approvals, q \in Passports, a \in Attesters : PrepareApproval(w, q, a)) => runs' = runs
    BY DEF PrepareApproval
  <2>2. (\E w \in Approvals :
              \/ SignAndSend(w) \/ LandWalletTx(w) \/ DropWalletTx(w)
              \/ RecordWalletAttest(w) \/ Tracker(w) \/ BootSweep(w)) => runs' = runs
    BY WalletRows
  <2> QED
    BY <1>0, <1>2, <1>t, <2>1, <2>2, WalletCases
<1>4. ASSUME NEW w \in Approvals, approvals[w].passport = p
      PROVE  approvals'[w].passport = p /\ approvals'[w].attester = approvals[w].attester
  <2>1. approvals[w].phase # "unused"
    BY <1>1, <1>4, <1>t DEF ApprovalsAreWhole
  <2>2. ASSUME NEW v \in Approvals, NEW q \in Passports, NEW a \in Attesters, PrepareApproval(v, q, a)
        PROVE  approvals'[w] = approvals[w]
    BY <2>1, <2>2, PrepareMoves
  <2>3. ASSUME NEW v \in Approvals,
               \/ SignAndSend(v) \/ LandWalletTx(v) \/ DropWalletTx(v)
               \/ RecordWalletAttest(v) \/ Tracker(v) \/ BootSweep(v)
        PROVE  approvals'[w].passport = approvals[w].passport /\ approvals'[w].attester = approvals[w].attester
    BY <2>3, ApprovalMoves DEF Kept
  <2>4. CrashAndBoot => approvals'[w].passport = approvals[w].passport /\ approvals'[w].attester = approvals[w].attester
    BY BootMoves DEF Kept
  <2>5. UNCHANGED walletVars => approvals' = approvals
    BY DEF walletVars
  <2> QED
    BY <1>4, <1>t, <2>2, <2>3, <2>4, <2>5, WalletCases
<1> QED
  BY <1>0, <1>3, <1>4, OneWalletMeans

LEMMA NextRecorded ==
  ASSUME WalletInv, LoneInvariant, [WalletNext]_allVars, NEW w \in Approvals,
         approvals'[w].tx \in {"landed", "partial"}
  PROVE  <<approvals'[w].attester, approvals'[w].hash>> \in attested'
<1>t. TypeInv /\ ApprovalsAreWhole
  BY DEF WalletInv
<1>0. approvals[w].tx \in {"landed", "partial"} => <<approvals[w].attester, approvals[w].hash>> \in attested
  BY DEF LoneInvariant
<1>1. CASE [Next]_vars /\ (UNCHANGED walletVars \/ CrashAndBoot)
  BY <1>0, <1>1, LaneKeepsRecords, BootMoves DEF walletVars, Kept
<1>2. ASSUME NEW v \in Approvals, NEW q \in Passports, NEW a \in Attesters, PrepareApproval(v, q, a)
      PROVE  approvals'[w] = approvals[w] /\ attested' = attested
  <2>1. attested' = attested
    BY <1>2 DEF PrepareApproval, vaultVars
  <2>2. approvals[v].tx = "none"
    BY <1>2, <1>t DEF PrepareApproval, ApprovalsAreWhole
  <2> QED
    BY <1>2, <2>1, <2>2, PrepareMoves
<1>3. ASSUME NEW v \in Approvals,
             \/ SignAndSend(v) \/ LandWalletTx(v) \/ DropWalletTx(v)
             \/ RecordWalletAttest(v) \/ Tracker(v) \/ BootSweep(v)
      PROVE  <<approvals'[w].attester, approvals'[w].hash>> \in attested'
  <2>1. attested \subseteq attested'
    BY <1>3, WalletRows
  <2>2. /\ v # w => approvals'[w] = approvals[w]
        /\ approvals'[v].attester = approvals[v].attester /\ approvals'[v].hash = approvals[v].hash
        /\ approvals'[v].tx \in {"landed", "partial"} =>
             approvals[v].tx \in {"landed", "partial"} \/ LandWalletTx(v)
    BY <1>3, ApprovalMoves DEF Kept
  <2> QED
    BY <1>0, <2>1, <2>2, WalletLands
<1> QED
  BY <1>0, <1>1, <1>2, <1>3, <1>t, WalletCases

LEMMA NextLone == WalletInv /\ LoneInvariant /\ [WalletNext]_allVars => LoneInvariant'
<1> SUFFICES ASSUME WalletInv, LoneInvariant, [WalletNext]_allVars, NEW p \in Passports, OneWallet(p)'
             PROVE  /\ row'[p].status = "anchored" => <<row'[p].attester, row'[p].hash>> \in attested'
                    /\ \A w \in Approvals : approvals'[w].passport = p =>
                         /\ approvals'[w].hash = row'[p].hash
                         /\ row'[p].root # None /\ approvals'[w].root.seed = row'[p].root.seed
                         /\ approvals'[w].phase \in Booked =>
                              row'[p].attester = approvals'[w].attester /\ approvals'[w].checked = row'[p].hash
  BY NextRecorded DEF LoneInvariant, Anchored
<1>t. TypeInv /\ ApprovalsAreWhole /\ row \in [Passports -> RowType] /\ p # None
  BY NoneAssumption DEF WalletInv, TypeInv, TypeOK
<1>0. /\ \A v, w \in Approvals : approvals[v].passport = p /\ approvals[w].passport = p =>
           approvals[v].attester = approvals[w].attester
      /\ row[p].status = "anchored" => <<row[p].attester, row[p].hash>> \in attested
      /\ \A w \in Approvals : approvals[w].passport = p =>
            /\ approvals[w].hash = row[p].hash
            /\ row[p].root # None /\ approvals[w].root.seed = row[p].root.seed
            /\ approvals[w].phase \in Booked =>
                 row[p].attester = approvals[w].attester /\ approvals[w].checked = row[p].hash
  <2>1. OneWallet(p)
    BY OneWalletWas
  <2> QED
    BY <2>1, OneWalletMeans DEF LoneInvariant, Anchored
<1> DEFINE Lone ==
      /\ row'[p].status = "anchored" => <<row'[p].attester, row'[p].hash>> \in attested'
      /\ \A w \in Approvals : approvals'[w].passport = p =>
            /\ approvals'[w].hash = row'[p].hash
            /\ row'[p].root # None /\ approvals'[w].root.seed = row'[p].root.seed
            /\ approvals'[w].phase \in Booked =>
                 row'[p].attester = approvals'[w].attester /\ approvals'[w].checked = row'[p].hash
<1>1. CASE [Next]_vars /\ (UNCHANGED walletVars \/ CrashAndBoot)
  <2>1. \A w \in Approvals : Kept(w) /\ (approvals'[w].phase \in Booked => approvals[w].phase \in Booked)
    <3>1. UNCHANGED walletVars => approvals' = approvals
      BY DEF walletVars
    <3> QED
      BY <1>1, <3>1, BootMoves DEF Kept
  <2>2. attested \subseteq attested'
    BY <1>1, LaneKeepsRecords
  <2>3. \A r \in Runs : runs'[r].passport # p
    BY DEF OneWallet
  <2>4. \/ row'[p] = row[p]
        \/ ~Exists(p) /\ row'[p].status = "draft"
    BY <1>1, <1>t, <2>3, LaneLeaves
  <2>5. ~Exists(p) => \A w \in Approvals : approvals[w].passport # p
    BY <1>t DEF ApprovalsAreWhole
  <2> QED
    BY <1>0, <2>1, <2>2, <2>4, <2>5 DEF Kept
<1>2. ASSUME NEW w \in Approvals, NEW q \in Passports, NEW a \in Attesters, PrepareApproval(w, q, a)
      PROVE  Lone
  <2>1. /\ row' = [row EXCEPT ![q].root = IF @ = None THEN TreeFor(q, w) ELSE @]
        /\ attested' = attested
    BY <1>2 DEF PrepareApproval, vaultVars
  <2>2. /\ \A v \in Approvals \ {w} : approvals'[v] = approvals[v]
        /\ approvals'[w].passport = q /\ approvals'[w].hash = row[q].hash
        /\ approvals'[w].root = TreeFor(q, w) /\ TreeFor(q, w) \in Root
        /\ approvals'[w].phase = "prepared"
    BY <1>2, PrepareMoves
  <2>3. /\ \A o \in Passports : row'[o].status = row[o].status /\ row'[o].attester = row[o].attester
                                /\ row'[o].hash = row[o].hash
        /\ \A o \in Passports \ {q} : row'[o] = row[o]
        /\ row[q].root # None => row'[q].root = row[q].root
        /\ row[q].root = None => row'[q].root = TreeFor(q, w)
    BY <1>t, <2>1 DEF RowType
  <2>4. row'[q].root # None /\ TreeFor(q, w).seed = row'[q].root.seed
    <3>1. TreeFor(q, w) # None
      BY <2>2, NoneAssumption
    <3>2. row[q].root # None => TreeFor(q, w).seed = row[q].root.seed
      BY DEF TreeFor
    <3> QED
      BY <2>3, <3>1, <3>2
  <2>5. "prepared" \notin Booked
    BY DEF Booked
  <2>6. CASE q = p
    BY <1>0, <2>1, <2>2, <2>3, <2>4, <2>5, <2>6
  <2>7. CASE q # p
    BY <1>0, <2>1, <2>2, <2>3, <2>7
  <2> QED
    BY <2>6, <2>7
<1>3. ASSUME NEW w \in Approvals,
             \/ SignAndSend(w) \/ LandWalletTx(w) \/ DropWalletTx(w)
             \/ RecordWalletAttest(w) \/ Tracker(w) \/ BootSweep(w)
      PROVE  Lone
  <2>1. /\ attested \subseteq attested' /\ row'[p].hash = row[p].hash
        /\ row[p].root # None => row'[p].root = row[p].root
        /\ p # approvals'[w].passport => row'[p] = row[p]
    BY <1>3, WalletRows
  <2>2. /\ Kept(w) /\ approvals[w].phase # "unused"
        /\ \A v \in Approvals \ {w} : approvals'[v] = approvals[v]
    BY <1>3, ApprovalMoves
  <2>3. CASE p # approvals[w].passport
    BY <1>0, <2>1, <2>2, <2>3 DEF Kept
  <2>4. CASE p = approvals[w].passport
    <3>1. approvals[w].attester \in Attesters /\ approvals[w].attester # None
      BY <1>t, <2>2, NoneAssumption DEF ApprovalsAreWhole
    <3>2. approvals[w].tx \in {"landed", "partial"} => <<approvals[w].attester, approvals[w].hash>> \in attested
      BY DEF LoneInvariant
    <3>3. CASE /\ row' = row /\ approvals'[w].entry = approvals[w].entry
               /\ approvals'[w].phase \in Booked => approvals[w].phase \in Booked
      BY <1>0, <2>1, <2>2, <3>3 DEF Kept
    <3>4. CASE /\ approvals[w].phase = "signed"
               /\ row'[p].attester = approvals[w].attester /\ approvals'[w].checked = row[p].hash
               /\ row'[p].root = row[p].root
               /\ row'[p].status = "anchored" => \/ <<approvals[w].attester, row[p].hash>> \in attested
                                                 \/ approvals[w].tx \in {"landed", "partial"}
      BY <1>0, <2>1, <2>2, <2>4, <3>2, <3>4 DEF Kept
    <3>5. CASE /\ approvals[w].phase \in Booked
               /\ row'[p].attester = row[p].attester /\ row'[p].root = row[p].root
               /\ row'[p].status = "anchored" =>
                    \/ row[p].status = "anchored" \/ CurrentRecordFound(p)
                    \/ <<approvals[w].attester, approvals[w].checked>> \in attested
                    \/ approvals[w].tx \in {"landed", "partial"}
      <4>1. row[p].attester # None
        BY <1>0, <2>4, <3>1, <3>5
      <4>2. CurrentRecordFound(p) => <<row[p].attester, row[p].hash>> \in attested
        BY <4>1 DEF CurrentRecordFound
      <4>3. row'[p].status = "anchored" => <<row'[p].attester, row'[p].hash>> \in attested'
        BY <1>0, <2>1, <2>4, <3>2, <3>5, <4>2
      <4> QED
        BY <1>0, <2>1, <2>2, <2>4, <3>5, <4>3 DEF Kept
    <3> QED
      BY <1>3, <2>4, <3>3, <3>4, <3>5, EntryMoves
  <2> QED
    BY <2>3, <2>4
<1> QED
  BY <1>1, <1>2, <1>3, <1>t, WalletCases

LEMMA LoneStart == WalletInit => LoneInvariant
<1> SUFFICES ASSUME WalletInit PROVE LoneInvariant
  OBVIOUS
<1>1. /\ \A w \in Approvals : approvals[w] = UnusedApproval
      /\ \A p \in Passports : row[p].status = "absent"
  BY DEF WalletInit, Init, AbsentRow
<1>2. \A p \in Passports : p # None
  BY NoneAssumption
<1> QED
  BY <1>1, <1>2 DEF LoneInvariant, UnusedApproval, Anchored

LEMMA LoneHolds == WalletSpec => [](WalletInv /\ LoneInvariant)
  BY WalletInitType, WalletTypes, LoneStart, NextLone, PTL DEF WalletSpec

\* A row anchored from the browser alone is attested by the wallet it names,
\* whichever of callback, tracker and boot sweep settled it.
THEOREM WalletRowsAreAttested == WalletSpec => []WalletRowIsAttested
<1>1. WalletInv /\ LoneInvariant => WalletRowIsAttested
  BY DEF LoneInvariant, WalletRowIsAttested
<1> QED
  BY <1>1, LoneHolds, PTL

\* The seed of the root that a wallet put on the chain is the one its row keeps.
THEOREM WalletSeedsAreKept == WalletSpec => []WalletSeedKept
<1>1. WalletInv /\ LoneInvariant => WalletSeedKept
  <2> SUFFICES ASSUME WalletInv, LoneInvariant, NEW w \in Approvals,
                      OneWallet(approvals[w].passport), approvals[w].tx \in {"landed", "partial"}
               PROVE  approvals[w].root.seed = row[approvals[w].passport].root.seed
    BY DEF WalletSeedKept
  <2>1. approvals[w].passport \in Passports
    BY DEF WalletInv, ApprovalsAreWhole
  <2> QED
    BY <2>1 DEF LoneInvariant
<1> QED
  BY <1>1, LoneHolds, PTL
=============================================================================
