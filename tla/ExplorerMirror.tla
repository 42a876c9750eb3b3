----------------------------- MODULE ExplorerMirror -----------------------------
(***************************************************************************)
(* A public explorer instance as the mirror of one passport of a producer. *)
(* Two paths write the mirror and nothing orders them: the producer pushes *)
(* a snapshot of an anchored passport (publishPassport, ingested statement *)
(* by statement, in no transaction), and the explorer's federation sync    *)
(* pulls the producer's feed every minute.  Visitors read the mirror, and  *)
(* every check they ask for goes to the chain.                             *)
(*                                                                         *)
(* A payload hash is the number of the content it covers; 0 is none.  An   *)
(* anchor is a payload on a vault, the contract that holds its record; a   *)
(* vault may be redeployed, which leaves the records of the old one where  *)
(* they are.  The network and the transaction of an anchor go wherever its *)
(* hash goes.  Requests that change one passport come one at a time here:  *)
(* what two that race do to its row is PassportAnchor's subject.           *)
(***************************************************************************)
EXTENDS Integers, FiniteSets

CONSTANTS
  MaxContent,   \* contents the passport goes through
  MaxVault,     \* vaults the producer deploys, one after the other
  Publishes,    \* publishes that may be under way at a time
  Syncs,        \* rounds of the federation sync that may overlap
  None

VARIABLES
  row,        \* producer: the passport row
  content,    \* producer: the content, public attributes included, it holds now
  archived,   \* producer: its superseded anchor versions
  claims,     \* producer: the proof row of a claim about each anchor
  vault,      \* producer: the instance's default vault
  target,     \* producer: the vault the runner of an anchor under way was given
  pending,    \* chain: anchor transactions that have not landed
  attested,   \* chain: anchors with a record
  bound,      \* chain: the payload the document id is bound to on each vault
  proven,     \* chain: anchors with a true claim entry
  mirror,     \* explorer: its row, with the public attributes, its claims and versions
  ingest,     \* explorer: the ingest requests it is working on
  sync,       \* explorer: the feed each round has fetched
  served      \* the last publish, when no other one overlapped it

producer == <<row, content, archived, claims, vault, target>>
chain == <<pending, attested, bound, proven>>
explorer == <<mirror, ingest, sync, served>>
mirrorVars == <<row, content, archived, claims, vault, target,
                pending, attested, bound, proven, mirror, ingest, sync, served>>

Hashes == 1..MaxContent
Vaults == 1..MaxVault
Anchors == [hash : Hashes, vault : Vaults]

\* record: how a verifier finds it; not at all, by the bound document id, or
\* by the attester that is stamped on the row.
Row == [status : {"draft", "anchoring", "anchored", "failed"}, hash : Hashes,
        vault : Vaults, record : {"none", "bound", "stamped"}]

\* A claim is looked up under at most five pairs of a payload and a vault, the
\* newest first: with five vaults or fewer none is left out.
ASSUME MirrorAssumption ==
  MaxContent \in Nat \ {0} /\ MaxVault \in 1..5 /\ None \notin Row

Version == [hash : Hashes, vault : Vaults, record : {"bound", "stamped"}]
\* A published claim names its payload; its vault is kept here to speak of it.
Snapshot == [row : Row \cup {None}, claims : SUBSET Anchors, versions : SUBSET Version]
Idle == [step |-> "idle"]
Steps == {"proofs", "versions", "sent", "row",
          "drop claims", "add claims", "drop versions", "add versions"}
AnchorOf(r) == [hash |-> r.hash, vault |-> r.vault]

MirrorTypeOK ==
  /\ row \in Row /\ content \in Hashes /\ archived \subseteq Version
  /\ claims \in [Anchors -> {"none", "pending", "succeeded"}]
  /\ vault \in Vaults /\ target \in Vaults \cup {None}
  /\ pending \cup attested \cup proven \subseteq Anchors /\ bound \in [Vaults -> 0..MaxContent]
  /\ mirror.row \in Row \cup {None}
  /\ mirror.claims \subseteq Anchors /\ mirror.versions \subseteq Version
  /\ \A i \in Publishes : ingest[i] = Idle \/ (ingest[i].step \in Steps /\ ingest[i].snapshot \in Snapshot)
  /\ \A s \in Syncs : sync[s] = None \/ sync[s] \in Row

MirrorInit ==
  /\ row = [status |-> "draft", hash |-> 1, vault |-> 1, record |-> "none"]
  /\ content = 1
  /\ archived = {}
  /\ claims = [a \in Anchors |-> "none"]
  /\ vault = 1 /\ target = None
  /\ pending = {} /\ attested = {} /\ bound = [v \in Vaults |-> 0] /\ proven = {}
  /\ mirror = [row |-> None, claims |-> {}, versions |-> {}]
  /\ ingest = [i \in Publishes |-> Idle]
  /\ sync = [s \in Syncs |-> None]
  /\ served = None

(***************************************************************************)
(* The producer and the chain.                                             *)
(***************************************************************************)
\* Status changes and attribute updates leave the anchored hash alone.
ChangeContent ==
  /\ content < MaxContent
  /\ content' = content + 1
  /\ UNCHANGED <<row, archived, claims, vault, target, chain, explorer>>

\* The operator deploys a new vault and restarts the producer with its address.
Redeploy ==
  /\ vault < MaxVault
  /\ vault' = vault + 1
  /\ UNCHANGED <<row, content, archived, claims, target, chain, explorer>>

\* vaultFor: an anchored row stays on its vault, unless the operator migrates it
\* (PASSPORT_VAULT_MIGRATE); any other row goes to the default one.
VaultsFor(r) == IF r.status = "anchored" THEN {r.vault, vault} ELSE {vault}

\* The runner gets the payload and the vault; the row names the vault once the
\* anchor has succeeded.
StartAnchor(h, v) ==
  /\ row' = [row EXCEPT !.status = "anchoring", !.hash = h]
  /\ target' = v
  /\ pending' = pending \cup ({[hash |-> h, vault |-> v]} \ attested)
  /\ UNCHANGED <<content, claims, vault, attested, bound, proven, explorer>>

\* submitPassport: a draft or a failed anchor, with the hash the row has.
Submit ==
  /\ row.status \in {"draft", "failed"}
  /\ \E v \in VaultsFor(row) : StartAnchor(row.hash, v)
  /\ UNCHANGED archived

\* reanchorCore: the live anchor is archived before the row moves on; a failed
\* one was archived when it was superseded.
ReanchorPassport ==
  /\ \/ row.status = "anchored" /\ content # row.hash
     \/ row.status = "failed" /\ archived # {}
  /\ archived' = IF row.status = "anchored"
                   THEN archived \cup {[hash |-> row.hash, vault |-> row.vault, record |-> row.record]}
                   ELSE archived
  /\ \E v \in VaultsFor(row) : StartAnchor(content, v)

LandAnchor(a) ==
  /\ a \in pending
  /\ pending' = pending \ {a}
  /\ attested' = attested \cup {a}
  /\ bound' = [bound EXCEPT ![a.vault] = a.hash]
  /\ UNCHANGED <<producer, proven, explorer>>

\* The attester is stamped when the lane or the binding names it; a row that
\* was stamped before keeps its stamp.
AnchorSucceeds ==
  /\ row.status = "anchoring"
  /\ [hash |-> row.hash, vault |-> target] \in attested
  /\ \E record \in {"bound", "stamped"} :
       row' = [row EXCEPT !.status = "anchored", !.vault = target,
                          !.record = IF @ = "stamped" THEN @ ELSE record]
  /\ target' = None
  /\ UNCHANGED <<content, archived, claims, vault, chain, explorer>>

\* A refused transaction, a wait that ran out, a restart: it may still land.
AnchorFails ==
  /\ row.status = "anchoring"
  /\ row' = [row EXCEPT !.status = "failed"]
  /\ target' = None
  /\ UNCHANGED <<content, archived, claims, vault, chain, explorer>>

\* On the vault of the anchored row; on any other the circuit finds no record.
AskProof ==
  /\ row.status = "anchored"
  /\ claims[AnchorOf(row)] = "none"
  /\ claims' = [claims EXCEPT ![AnchorOf(row)] = "pending"]
  /\ UNCHANGED <<row, content, archived, vault, target, chain, explorer>>

\* The proof lands and its row is settled; ProofClaims has what lies between.
ProofSucceeds(a) ==
  /\ claims[a] = "pending" /\ a \in attested
  /\ proven' = proven \cup {a}
  /\ claims' = [claims EXCEPT ![a] = "succeeded"]
  /\ UNCHANGED <<row, content, archived, vault, target, pending, attested, bound, explorer>>

(***************************************************************************)
(* publishPassport.  Each of its reads may see what was committed after    *)
(* the one before it.  Whether it answers published or, after 30 s,        *)
(* unreachable, the ingest may go on.                                      *)
(***************************************************************************)
\* Mutant: proofs under way travel with the proven ones.
ProofsMutant == {a \in Anchors : claims[a] # "none"}

Proofs == {a \in Anchors : claims[a] = "succeeded"}

Publish(i) ==
  /\ ingest[i] = Idle
  /\ row.status = "anchored"
  /\ ingest' = [j \in Publishes |->
       IF j = i THEN [step |-> "proofs", found |-> FALSE,
                      alone |-> \A k \in Publishes \ {i} : ingest[k] = Idle,
                      snapshot |-> [row |-> row, claims |-> {}, versions |-> {}]]
       ELSE IF ingest[j] = Idle THEN Idle
       ELSE [ingest[j] EXCEPT !.alone = FALSE]]
  /\ served' = None
  /\ UNCHANGED <<producer, chain, mirror, sync>>

PublishReadsProofs(i) ==
  /\ ingest[i].step = "proofs"
  /\ ingest' = [ingest EXCEPT ![i].step = "versions", ![i].snapshot.claims = Proofs]
  /\ UNCHANGED <<producer, chain, mirror, sync, served>>

PublishReadsVersions(i) ==
  /\ ingest[i].step = "versions"
  /\ ingest' = [ingest EXCEPT ![i].step = "sent", ![i].snapshot.versions = archived]
  /\ UNCHANGED <<producer, chain, mirror, sync, served>>

\* One statement of the ingest handler, which then goes on with step.
Ingest(i, step, next) ==
  /\ ingest[i].step = step
  /\ ingest' = [ingest EXCEPT ![i].step = next]
  /\ UNCHANGED <<producer, chain, sync, served>>

IngestSelects(i) ==
  /\ ingest[i].step = "sent"
  /\ ingest' = [ingest EXCEPT ![i].step = "row", ![i].found = mirror.row # None]
  /\ UNCHANGED <<producer, chain, mirror, sync, served>>

\* UPDATE what was found, or INSERT: passportId is unique, so a row that has
\* appeared meanwhile refuses it (IngestFails).
IngestWritesRow(i) ==
  /\ ingest[i].step = "row"
  /\ ingest[i].found \/ mirror.row = None
  /\ mirror' = [mirror EXCEPT !.row = ingest[i].snapshot.row]
  /\ ingest' = [ingest EXCEPT ![i] = [step |-> "drop claims", alone |-> @.alone,
                                      snapshot |-> [@.snapshot EXCEPT !.row = None]]]
  /\ UNCHANGED <<producer, chain, sync, served>>

IngestDropsClaims(i) ==
  /\ Ingest(i, "drop claims", "add claims")
  /\ mirror' = [mirror EXCEPT !.claims = {}]

\* Nothing makes claims unique: overlapping ingests insert them twice, and a
\* set does not show it.
IngestAddsClaims(i) ==
  /\ Ingest(i, "add claims", "drop versions")
  /\ mirror' = [mirror EXCEPT !.claims = @ \cup ingest[i].snapshot.claims]

IngestDropsVersions(i) ==
  /\ Ingest(i, "drop versions", "add versions")
  /\ mirror' = [mirror EXCEPT !.versions = {}]

\* Mutant: the rows are built and not inserted.
IngestAddsVersionsMutant(i) ==
  /\ ingest[i].step = "add versions"
  /\ UNCHANGED mirror
  /\ served' = IF ingest[i].alone
                 THEN [claims |-> ingest[i].snapshot.claims, versions |-> ingest[i].snapshot.versions]
                 ELSE None
  /\ ingest' = [ingest EXCEPT ![i] = Idle]
  /\ UNCHANGED <<producer, chain, sync>>

\* (passport, version) is unique, and versions count from 1: rows that another
\* ingest has inserted refuse these (IngestFails).
IngestAddsVersions(i) ==
  /\ ingest[i].step = "add versions"
  /\ {} \in {mirror.versions, ingest[i].snapshot.versions}
  /\ mirror' = [mirror EXCEPT !.versions = @ \cup ingest[i].snapshot.versions]
  /\ served' = IF ingest[i].alone
                 THEN [claims |-> ingest[i].snapshot.claims, versions |-> ingest[i].snapshot.versions]
                 ELSE None
  /\ ingest' = [ingest EXCEPT ![i] = Idle]
  /\ UNCHANGED <<producer, chain, sync>>

\* A statement is refused, the request is lost, or the explorer restarts.
IngestFails(i) ==
  /\ ingest[i] # Idle
  /\ ingest' = [ingest EXCEPT ![i] = Idle]
  /\ UNCHANGED <<producer, chain, mirror, sync, served>>

(***************************************************************************)
(* syncOnce: a timer starts a round whatever became of the last one.  The  *)
(* feed has every passport in any status, without its archive; its claims  *)
(* are not taken over.                                                     *)
(***************************************************************************)
SyncFetches(s) ==
  /\ sync[s] = None
  /\ sync' = [sync EXCEPT ![s] = row]
  /\ UNCHANGED <<producer, chain, mirror, ingest, served>>

\* Mutant: a passport that is known is left alone.
SyncWritesRowMutant(s) ==
  /\ sync[s] # None
  /\ mirror' = IF mirror.row = None THEN [mirror EXCEPT !.row = sync[s]] ELSE mirror
  /\ sync' = [sync EXCEPT ![s] = None]
  /\ UNCHANGED <<producer, chain, ingest, served>>

SyncWritesRow(s) ==
  /\ sync[s] # None
  /\ mirror' = [mirror EXCEPT !.row = sync[s]]
  /\ sync' = [sync EXCEPT ![s] = None]
  /\ UNCHANGED <<producer, chain, ingest, served>>

\* The source is unreachable, a statement fails, the explorer restarts.
SyncFails(s) ==
  /\ sync[s] # None
  /\ sync' = [sync EXCEPT ![s] = None]
  /\ UNCHANGED <<producer, chain, mirror, ingest, served>>

MirrorNext ==
  \/ ChangeContent \/ Redeploy \/ Submit \/ ReanchorPassport
  \/ AnchorSucceeds \/ AnchorFails \/ AskProof
  \/ \E a \in Anchors : LandAnchor(a) \/ ProofSucceeds(a)
  \/ \E i \in Publishes :
       \/ Publish(i) \/ PublishReadsProofs(i) \/ PublishReadsVersions(i)
       \/ IngestSelects(i) \/ IngestWritesRow(i)
       \/ IngestDropsClaims(i) \/ IngestAddsClaims(i)
       \/ IngestDropsVersions(i) \/ IngestAddsVersions(i) \/ IngestFails(i)
  \/ \E s \in Syncs :
       SyncFetches(s) \/ SyncWritesRow(s) \/ SyncFails(s)

MirrorSpec == MirrorInit /\ [][MirrorNext]_mirrorVars

\* The timers go on for ever.  A round may fail, but not each time.
Fairness ==
  /\ \A s \in Syncs :
       /\ WF_mirrorVars(SyncFetches(s))
       /\ SF_mirrorVars(SyncWritesRow(s))

FairSpec == MirrorSpec /\ Fairness

(***************************************************************************)
(* What a visitor can ask.                                                 *)
(***************************************************************************)
\* verifyOnChain: the record is named by its attester, else by the document id,
\* which resolves to the payload that is bound now.
RowVerifies(r) ==
  \/ r.record = "stamped" /\ AnchorOf(r) \in attested
  \/ r.record = "bound" /\ r.hash = bound[r.vault]

\* verifyAnchorVersion: a superseded version is found by its attester only.
VersionVerifies(v) == v.record = "stamped" /\ AnchorOf(v) \in attested

\* The vaults the mirror knows: its row's, and those of the versions it has.
KnownVaults == {mirror.row.vault} \cup {v.vault : v \in mirror.versions}

\* verifyClaimOnChain: the claim names its payload and not its vault; it is
\* looked up in each one that the mirror knows.
ClaimVerifies(h) == \E v \in KnownVaults : [hash |-> h, vault |-> v] \in proven

\* anchorHistory: the archive, and the row while it is anchored or anchoring.
History ==
  {v.hash : v \in mirror.versions}
    \cup IF mirror.row.status \in {"anchoring", "anchored"} THEN {mirror.row.hash} ELSE {}

\* resolveByHash, /resolve: the row's hash, else one of the archive.
Resolves(h) ==
  mirror.row # None /\ (mirror.row.hash = h \/ \E v \in mirror.versions : v.hash = h)

(***************************************************************************)
(* Properties.                                                             *)
(***************************************************************************)
\* Whatever the explorer lists as anchored, superseded or proven is confirmed
\* by the live check next to it, however the publishes and the sync rounds that
\* brought it here overtook each other: a row and an archived version that name
\* their attester, and a claim as long as the mirror knows its vault.  (A sync
\* that moves the row to a new vault and leaves its archive behind takes the
\* claims of the old vault away until the next publish.)
ListedVerifies ==
  mirror.row # None =>
    /\ mirror.row.status = "anchored" /\ mirror.row.record = "stamped" => RowVerifies(mirror.row)
    /\ \A v \in mirror.versions : v.record = "stamped" => VersionVerifies(v)
    /\ \A c \in mirror.claims : c.vault \in KnownVaults => ClaimVerifies(c.hash)

\* A publish that reached its end and that no other publish overlapped is served
\* until the next one: its claims and its anchor history are listed, and every
\* hash of the history leads to the passport, although earlier ingests may have
\* failed half-way and the sync keeps moving the row.
PublishedIsServed ==
  served # None =>
    /\ mirror.claims = served.claims
    /\ mirror.versions = served.versions
    /\ \A v \in served.versions : Resolves(v.hash) /\ v.hash \in History

\* Once the producer's passport rests, the mirror ends up with its row and keeps
\* it, whatever stale snapshots publishes and sync rounds still had in flight.
MirrorCatchesUp ==
  <>[][FALSE]_row => <>[](mirror.row = row)
=============================================================================
