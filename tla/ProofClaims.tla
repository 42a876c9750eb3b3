------------------------------ MODULE ProofClaims ------------------------------
(***************************************************************************)
(* Zero-knowledge claims about a passport: how they are asked for, proven, *)
(* booked in PredicateProofLog, settled and verified by anybody, while the *)
(* passport changes, is anchored again and the vault is redeployed.        *)
(*                                                                         *)
(* A payload hash is identified with the content it commits to, a content  *)
(* root with the seed and the values of its tree, and a claim with the set *)
(* of values it is true of: a field claim (a bound or a membership) is a   *)
(* set of contents, a transition claim (a mask or a number of changed      *)
(* slots) a set of pairs of them.  Anchoring is the server lane's, without *)
(* the faults PassportAnchor is about.                                     *)
(***************************************************************************)
EXTENDS Integers, Sequences, FiniteSets

CONSTANTS
  Contents, Vaults, None,
  FieldClaims,       \* sets of contents
  TransitionClaims,  \* sets of pairs of contents: older, newer
  MaxRows,           \* bound: log rows
  MaxSeeds,          \* bound: salt seeds drawn
  MaxVersions,       \* bound: archived versions
  CallSlots,         \* circuit calls a transaction carries (8 in the code)
  Wallets,           \* the claims browser wallets prove
  Indexed,           \* whether transactions are indexed, so that a hash can be found
  Restarts           \* whether the process may restart

Tree == [seed : 1..MaxSeeds, values : Contents]
AnchorType == [vault : Vaults, root : Tree, landed : BOOLEAN]

ASSUME ProofAssumption ==
  /\ None \notin Contents \cup Vaults \cup Tree \cup AnchorType
  /\ IsFiniteSet(FieldClaims) /\ IsFiniteSet(TransitionClaims)
  /\ FieldClaims \cap TransitionClaims = {}
  /\ FieldClaims \subseteq SUBSET Contents
  /\ TransitionClaims \subseteq SUBSET (Contents \X Contents)
  /\ {MaxRows, MaxSeeds, MaxVersions} \subseteq Nat
  /\ CallSlots \in Nat \ {0}
  /\ Wallets \subseteq FieldClaims
  /\ {Indexed, Restarts} \subseteq BOOLEAN

VARIABLES
  passport,   \* the Passports row: see PassportType
  content,    \* what its attribute rows hold now
  archived,   \* its PassportAnchorVersions, oldest first
  booked,     \* whether a succeeded attest or anchorContentRoot row exists
  env,        \* PASSPORT_CONTRACT_ADDRESS of this process
  anchor,     \* the anchor under way, or None
  records,    \* the vaults: [vault, hash, root]
  claims,     \* the vaults: [vault, hash, hashB, claim]
  log,        \* PredicateProofLog rows, by the order of their insertion
  jobs,       \* proof transactions, by their first row: see JobType
  drawn       \* how many seeds have been drawn

anchoring == <<content, archived, env, anchor>>
chain == <<records, claims>>
vars == <<passport, content, archived, booked, env, anchor, records, claims, log, jobs, drawn>>

Rows == 1..MaxRows
Claims == FieldClaims \cup TransitionClaims

\* named says that the row's attester id is known; opening is the stored
\* tree, vault the contract address.
PassportType ==
  [status : {"draft", "anchoring", "anchored", "failed"}, hash : Contents,
   vault : Vaults \cup {None}, named : BOOLEAN, opening : Tree \cup {None}]

\* hashB is None for a field claim; by says what a succeeded row rests on: the
\* job or a read of the vault, or the mere transaction; vault is not a column
\* but what the tracker of a wallet's row captured.
RowType ==
  [status : {"none", "offline", "pending", "succeeded", "failed"},
   claim : Claims \cup {None}, hash : Contents \cup {None},
   hashB : Contents \cup {None}, named : BOOLEAN, vault : Vaults \cup {None},
   by : {"none", "chain", "transaction"}]

\* kind is the action that asked; rows are settled by one runner or, when a
\* wallet proved, by a tracker.  rootIn says that the root anchor rides along.
JobType ==
  [kind : {"none", "single", "cart", "transition", "wallet"}, rows : SUBSET Rows,
   claims : SUBSET Claims, vault : Vaults \cup {None},
   hash : Contents \cup {None}, hashB : Contents \cup {None},
   tree : Tree \cup {None}, treeB : Tree \cup {None}, rootIn : BOOLEAN,
   tx : {"none", "inflight", "landed", "partial", "refused"},
   runner : {"none", "browser", "waits", "tracks"}]

NoRow == [status |-> "none", claim |-> None, hash |-> None, hashB |-> None,
          named |-> FALSE, vault |-> None, by |-> "none"]
NoJob == [kind |-> "none", rows |-> {}, claims |-> {}, vault |-> None,
          hash |-> None, hashB |-> None, tree |-> None, treeB |-> None,
          rootIn |-> FALSE, tx |-> "none", runner |-> "none"]

ProofTypeOK ==
  /\ passport \in PassportType
  /\ content \in Contents
  /\ archived \in Seq([hash : Contents, vault : Vaults, named : BOOLEAN,
                       opening : Tree \cup {None}])
  /\ booked \in BOOLEAN
  /\ env \in Vaults
  /\ anchor \in AnchorType \cup {None}
  /\ records \subseteq [vault : Vaults, hash : Contents, root : Tree]
  /\ claims \subseteq [vault : Vaults, hash : Contents, hashB : Contents \cup {None},
                       claim : Claims]
  /\ log \in [Rows -> RowType]
  /\ jobs \in [Rows -> JobType]
  /\ drawn \in 0..MaxSeeds

Init ==
  /\ content \in Contents
  /\ passport = [status |-> "draft", hash |-> content, vault |-> None,
                 named |-> FALSE, opening |-> None]
  /\ archived = <<>>
  /\ booked = FALSE
  /\ env \in Vaults
  /\ anchor = None
  /\ records = {}
  /\ claims = {}
  /\ log = [r \in Rows |-> NoRow]
  /\ jobs = [r \in Rows |-> NoJob]
  /\ drawn = 0

-----------------------------------------------------------------------------
(* The passport moves on *)

\* vaultFor: an anchored row's own vault, else the configured one.
VaultFor ==
  IF passport.status = "anchored" /\ passport.vault # None THEN passport.vault ELSE env

\* PASSPORT_VAULT_MIGRATE=1: the configured one takes precedence.
TargetVaults == {VaultFor, env}

ChangeContent ==
  /\ content' \in Contents \ {content}
  /\ UNCHANGED <<passport, archived, booked, env, anchor, chain, log, jobs, drawn>>

\* anchorRow: a fresh seed, stored before anything is sent.
AnchorRow(hash, vault) ==
  /\ anchor = None
  /\ drawn < MaxSeeds
  /\ LET tree == [seed |-> drawn + 1, values |-> content]
     IN  /\ passport' = [passport EXCEPT !.status = "anchoring", !.hash = hash,
                                         !.opening = tree]
         /\ anchor' = [vault |-> vault, root |-> tree, landed |-> FALSE]
  /\ drawn' = drawn + 1
  /\ UNCHANGED <<content, booked, env, chain, log, jobs>>

Submit ==
  /\ passport.status \in {"draft", "failed"}
  /\ AnchorRow(passport.hash, env)
  /\ UNCHANGED archived

Reanchor ==
  /\ passport.status = "anchored" \/ (passport.status = "failed" /\ archived # <<>>)
  /\ passport.status = "anchored" => content # passport.hash
  /\ Len(archived) < MaxVersions
  /\ archived' = IF passport.status = "anchored"
                 THEN Append(archived, [hash |-> passport.hash, vault |-> passport.vault,
                                        named |-> passport.named, opening |-> passport.opening])
                 ELSE archived
  /\ \E v \in TargetVaults : AnchorRow(content, v)

Record(v, h) == {r \in records : r.vault = v /\ r.hash = h}

\* attest and anchorContentRoot in one transaction; a record is never replaced.
LandAnchor ==
  /\ anchor # None
  /\ ~anchor.landed
  /\ Record(anchor.vault, passport.hash) = {}
  /\ records' = records \cup {[vault |-> anchor.vault, hash |-> passport.hash, root |-> anchor.root]}
  /\ anchor' = [anchor EXCEPT !.landed = TRUE]
  /\ UNCHANGED <<passport, content, archived, booked, env, claims, log, jobs, drawn>>

\* The runner books the step and marks the row; the attester id may be unread.
AnchorSettles ==
  /\ anchor # None
  /\ IF anchor.landed
     THEN /\ \E known \in BOOLEAN :
               passport' = [passport EXCEPT !.status = "anchored", !.vault = anchor.vault,
                                            !.named = @ \/ known]
          /\ booked' = TRUE
     ELSE /\ passport' = [passport EXCEPT !.status = "failed"]
          /\ UNCHANGED booked
  /\ anchor' = None
  /\ UNCHANGED <<content, archived, env, chain, log, jobs, drawn>>

-----------------------------------------------------------------------------
(* Asking for a proof.  A request that rejects changes nothing.             *)

\* contentTreeFor: the current values under the stored seed, or under a fresh
\* one that is stored with the tree.
TreeNow ==
  [seed |-> IF passport.opening = None THEN drawn + 1 ELSE passport.opening.seed,
   values |-> content]

\* known: the request has read the attester from the binding, and keeps it.
ReadTree(overwrite, known) ==
  /\ passport.opening = None => drawn < MaxSeeds
  /\ drawn' = IF passport.opening = None THEN drawn + 1 ELSE drawn
  /\ passport' = [passport EXCEPT !.opening = IF overwrite \/ @ = None THEN TreeNow ELSE @,
                                  !.named = @ \/ known]

Used == {r \in Rows : log[r].status # "none"}
FreeJobs == {j \in Rows : jobs[j].kind = "none"}
FreeJob == CHOOSE j \in FreeJobs : \A k \in FreeJobs : j <= k

\* The next rows, one for each claim, in some order of the claims.
Insertions(S) ==
  LET first == Cardinality(Used)
      new == (first + 1)..(first + Cardinality(S))
  IN  IF new \subseteq Rows
      THEN {f \in [new -> S] : \A c \in S : \E r \in new : f[r] = c}
      ELSE {}

Book(f, row) == [r \in Rows |-> IF r \in DOMAIN f THEN [row EXCEPT !.claim = f[r]] ELSE log[r]]

FieldRow(status) ==
  [NoRow EXCEPT !.status = status, !.hash = passport.hash, !.named = passport.named]

ProofJob(kind, S, rows, overwrite) ==
  [kind |-> kind, rows |-> rows, claims |-> S, vault |-> VaultFor, hash |-> passport.hash,
   hashB |-> None, tree |-> TreeNow, treeB |-> None, rootIn |-> overwrite,
   tx |-> "inflight", runner |-> "waits"]

\* Without a signing session or a vault the claim is only noted.
Offline(S) ==
  /\ \E f \in Insertions(S) : log' = Book(f, FieldRow("offline"))
  /\ UNCHANGED <<passport, booked, anchoring, chain, jobs, drawn>>

\* The tree is stored over the anchored one's coordinates.
ProveValueMutant(c) ==
  /\ FreeJobs # {}
  /\ ReadTree(TRUE, FALSE)
  /\ \E f \in Insertions({c}) :
       /\ log' = Book(f, FieldRow("pending"))
       /\ jobs' = [jobs EXCEPT ![FreeJob] = ProofJob("single", {c}, DOMAIN f, TRUE)]
  /\ UNCHANGED <<booked, anchoring, chain>>

\* contentRootAnchored: a root counts as anchored once a step that anchored one
\* is booked, whichever tree, vault or payload that was.
ContentRootAnchored == booked

(***************************************************************************)
(* provePassportValue: a pending row, and a detached job.  While no        *)
(* anchored root is booked, the job carries the root and the tree it was   *)
(* built from is stored.  (An anchored root without a stored seed is 409.) *)
(***************************************************************************)
ProveValue(c) ==
  \/ Offline({c})
  \/ /\ FreeJobs # {}
     /\ ContentRootAnchored => passport.opening # None
     /\ ReadTree(~ContentRootAnchored, FALSE)
     /\ \E f \in Insertions({c}) :
          /\ log' = Book(f, FieldRow("pending"))
          /\ jobs' = [jobs EXCEPT ![FreeJob] = ProofJob("single", {c}, DOMAIN f, ~ContentRootAnchored)]
     /\ UNCHANGED <<booked, anchoring, chain>>

\* What a cart may hold: a root anchor takes one of the call slots.
CartFits(S) == Cardinality(S) <= IF ContentRootAnchored THEN CallSlots ELSE CallSlots - 1

\* resolveAnchorAttester: the vault names the attester of the record the id is
\* bound to.
AnchorAttesterReadable == Record(VaultFor, passport.hash) # {}

\* ensureAttesterId: the record's attester is known or read from the binding.
AttesterAtHand == passport.named \/ AnchorAttesterReadable

(***************************************************************************)
(* provePassportValuesBatch, for a set of claims: duplicates are dropped.  *)
(* The pre-flight against a drifted root proceeds when the ledger cannot   *)
(* be read, so it excludes nothing.  The attester and the rows are written *)
(* ahead of the request's own writes: when those fail, they stay behind.   *)
(***************************************************************************)
ProveCart(S) ==
  \/ Offline(S)
  \/ /\ FreeJobs # {}
     /\ AttesterAtHand
     /\ ContentRootAnchored => passport.opening # None
     /\ CartFits(S)
     /\ \E f \in Insertions(S) :
          /\ log' = Book(f, [FieldRow("pending") EXCEPT !.named = TRUE])
          /\ \/ /\ ReadTree(~ContentRootAnchored, TRUE)
                /\ jobs' = [jobs EXCEPT ![FreeJob] = ProofJob("cart", S, DOMAIN f, ~ContentRootAnchored)]
             \/ /\ passport' = [passport EXCEPT !.named = TRUE]
                /\ UNCHANGED <<jobs, drawn>>
     /\ UNCHANGED <<booked, anchoring, chain>>

\* An archived version that can be compared with the current one: one vault,
\* both openings stored, both trees rebuilt equal to the stored roots.
Comparable(old) ==
  /\ passport.status = "anchored" /\ passport.named /\ passport.opening # None
  /\ old.vault = passport.vault
  /\ old.named /\ old.opening # None
  /\ old.hash # passport.hash
  /\ old.opening.values = old.hash
  /\ passport.opening.values = content

TransitionRow(status, old) ==
  [NoRow EXCEPT !.status = status, !.hash = old.hash, !.hashB = passport.hash, !.named = TRUE]

TransitionJob(old, S, rows) ==
  [kind |-> "transition", rows |-> rows, claims |-> S, vault |-> VaultFor,
   hash |-> old.hash, hashB |-> passport.hash, tree |-> old.opening,
   treeB |-> passport.opening, rootIn |-> FALSE, tx |-> "inflight", runner |-> "waits"]

\* proveVersionIntegrity: a mask and, if asked, a number of changed slots,
\* each checked off-chain first.
ProveVersionIntegrity(i, S) ==
  /\ i \in DOMAIN archived
  /\ FreeJobs # {}
  /\ Comparable(archived[i])
  /\ \A c \in S : <<archived[i].opening.values, content>> \in c
  /\ \E f \in Insertions(S), status \in {"offline", "pending"} :
       /\ log' = Book(f, TransitionRow(status, archived[i]))
       /\ jobs' = IF status = "offline" THEN jobs
                  ELSE [jobs EXCEPT ![FreeJob] = TransitionJob(archived[i], S, DOMAIN f)]
  /\ UNCHANGED <<passport, booked, anchoring, chain, drawn>>

\* passportFieldValue and passportMembershipProof hand out the proof material.
ReadMaterial == ReadTree(FALSE, FALSE)

\* onProveWithLace: a browser wallet reads its material and sends a transaction
\* to the configured vault; the server hears of it later.  (A wallet's cart is
\* one transaction for several claims; here each has its own.)
WalletProves(c) ==
  /\ FreeJobs # {}
  /\ ReadMaterial
  /\ jobs' = [jobs EXCEPT ![FreeJob] =
       [ProofJob("wallet", {c}, {}, FALSE) EXCEPT !.vault = env, !.runner = "browser"]]
  /\ UNCHANGED <<booked, anchoring, chain, log>>

\* recordWalletPredicate and recordWalletMembership: the row carries the hash
\* the passport has now, and is settled by a tracker.  A proof the wallet
\* could not make is recorded as failed.
RecordWalletProof(j) ==
  /\ jobs[j].runner = "browser"
  /\ \E f \in Insertions(jobs[j].claims) :
       \/ /\ jobs[j].tx = "refused"
          /\ log' = Book(f, FieldRow("failed"))
          /\ jobs' = [jobs EXCEPT ![j] = NoJob]
       \/ /\ log' = Book(f, [FieldRow("pending") EXCEPT
                        !.vault = IF passport.vault = None THEN env ELSE passport.vault])
          /\ jobs' = [jobs EXCEPT ![j].rows = DOMAIN f, ![j].runner = "tracks"]
  /\ UNCHANGED <<passport, booked, anchoring, chain, drawn>>

-----------------------------------------------------------------------------
(* Settlement *)

\* What the circuits assert: the anchored roots are those of the trees.
Provable(j) ==
  LET job == jobs[j]
      anchoredAs(h, tree) == [vault |-> job.vault, hash |-> h, root |-> tree] \in records
  IN  /\ anchoredAs(job.hash, job.tree)
      /\ IF job.kind = "transition"
         THEN /\ anchoredAs(job.hashB, job.treeB)
              /\ \A c \in job.claims : <<job.tree.values, job.treeB.values>> \in c
         ELSE \A c \in job.claims : job.tree.values \in c

OnChain(j, c) ==
  [vault |-> jobs[j].vault, hash |-> jobs[j].hash, hashB |-> jobs[j].hashB, claim |-> c]

\* Nobody waits for it any more.
Abandoned(j) == jobs[j].runner = "none"

\* A batch lands whole, or the ledger applies a part of it.
LandProof(j) ==
  /\ jobs[j].tx = "inflight"
  /\ Provable(j)
  /\ \E S \in SUBSET jobs[j].claims \ {{}} :
       /\ claims' = claims \cup {OnChain(j, c) : c \in S}
       /\ jobs' = IF Abandoned(j) THEN [jobs EXCEPT ![j] = NoJob]
                  ELSE [jobs EXCEPT ![j].tx = IF S = jobs[j].claims THEN "landed" ELSE "partial"]
  /\ UNCHANGED <<passport, booked, anchoring, records, log, drawn>>

\* Proving aborts, the node refuses, or the transaction fails: the server's
\* runner then sees a failed job (ProofFails), a wallet its own failure.
RefuseProof(j) ==
  /\ jobs[j].tx = "inflight"
  /\ jobs[j].runner \in {"browser", "tracks"}
  /\ jobs' = [jobs EXCEPT ![j].tx = "refused"]
  /\ UNCHANGED <<passport, booked, anchoring, chain, log, drawn>>

Close(rows, status, by) ==
  [r \in Rows |-> IF r \in rows THEN [log[r] EXCEPT !.status = status, !.by = by] ELSE log[r]]

\* runProveDetached, runProveBatchDetached, runIntegrityDetached: the job
\* succeeded.  A single proof books its root only when it finds the transaction.
ProofSucceeds(j) ==
  /\ jobs[j].runner = "waits"
  /\ jobs[j].tx = "landed"
  /\ log' = Close(jobs[j].rows, "succeeded", "chain")
  /\ booked' \in {booked \/ jobs[j].rootIn} \cup
                 IF jobs[j].kind = "single" THEN {booked} ELSE {}
  /\ jobs' = [jobs EXCEPT ![j] = NoJob]
  /\ UNCHANGED <<passport, anchoring, chain, drawn>>

\* verifyCrossRootState: the vault holds the transition of these two versions.
CrossRootConfirmed(j, c) ==
  jobs[j].kind = "transition" /\ jobs[j].hashB # None /\ OnChain(j, c) \in claims

\* The lane's submitProofCart: of the errors it throws, only the ledger's partial
\* success asks for a verdict per claim.
ThrowsPartial(j) == jobs[j].kind = "cart" /\ jobs[j].tx = "partial"

\* The lane's verifyClaimLanded.
ClaimLanded(j, c) == OnChain(j, c) \in claims

\* A part of the cart is on the chain: it counts as all of it.
AskedMutant(j) == IF jobs[j].kind = "single" THEN {} ELSE jobs[j].rows

\* The rows a failed job finds proven when it asks claim by claim: a cart asks
\* after a partial success, a transition whatever went wrong.
Asked(j) ==
  {r \in jobs[j].rows : \/ CrossRootConfirmed(j, log[r].claim)
                        \/ ThrowsPartial(j) /\ ClaimLanded(j, log[r].claim)}

\* The job failed or the wait for it ran out; the ledger may be unreadable.
ProofFails(j) ==
  /\ jobs[j].runner = "waits"
  /\ \E found \in SUBSET Asked(j) :
       log' = [r \in Rows |-> IF r \in found THEN Close(found, "succeeded", "chain")[r]
                              ELSE Close(jobs[j].rows, "failed", "none")[r]]
  /\ \/ jobs' = [jobs EXCEPT ![j] = NoJob]
     \/ jobs[j].tx = "inflight" /\ jobs' = [jobs EXCEPT ![j].runner = "none", ![j].rows = {}]
  /\ UNCHANGED <<passport, booked, anchoring, chain, drawn>>

Untrack(j, r) ==
  IF jobs[j].rows # {r} THEN [jobs EXCEPT ![j].rows = @ \ {r}]
  ELSE IF jobs[j].tx = "inflight" THEN [jobs EXCEPT ![j].rows = {}, ![j].runner = "none"]
  ELSE [jobs EXCEPT ![j] = NoJob]

\* settleWalletTx, trackWalletTx: the claim is in the vault's state, or, when
\* that read says nothing, the transaction is indexed.
TrackerSettles(j, r) ==
  /\ jobs[j].runner = "tracks" /\ r \in jobs[j].rows
  /\ \/ /\ log[r].named
        /\ [vault |-> log[r].vault, hash |-> log[r].hash, hashB |-> jobs[j].hashB,
            claim |-> log[r].claim] \in claims
        /\ log' = Close({r}, "succeeded", "chain")
     \/ /\ Indexed /\ jobs[j].tx \in {"landed", "partial"} /\ log[r].vault = jobs[j].vault
        /\ log' = Close({r}, "succeeded", "transaction")
     \/ /\ Indexed
        /\ jobs[j].tx = "refused" \/ (jobs[j].tx # "inflight" /\ log[r].vault # jobs[j].vault)
        /\ log' = Close({r}, "failed", "none")
  /\ jobs' = Untrack(j, r)
  /\ UNCHANGED <<passport, booked, anchoring, chain, drawn>>

\* Twelve polls without a verdict: nobody asks again.
TrackerExpires(j, r) ==
  /\ jobs[j].runner = "tracks" /\ r \in jobs[j].rows
  /\ jobs' = Untrack(j, r)
  /\ UNCHANGED <<passport, booked, anchoring, chain, log, drawn>>

\* A restart, perhaps onto another vault: sweepStuckRows fails the rows that
\* are old enough.  (What it does to an anchor is WalletAnchor's subject.)
Restart ==
  /\ Restarts
  /\ anchor = None
  /\ env' \in Vaults
  /\ jobs' = [j \in Rows |-> CASE jobs[j].runner = "browser" -> jobs[j]
                               [] jobs[j].runner # "browser" /\ jobs[j].tx = "inflight" ->
                                    [jobs[j] EXCEPT !.runner = "none", !.rows = {}]
                               [] OTHER -> NoJob]
  /\ \E old \in SUBSET {r \in Rows : log[r].status = "pending"} :
       log' = Close(old, "failed", "none")
  /\ UNCHANGED <<passport, content, archived, booked, anchor, chain, drawn>>

\* What the cockpit puts in a cart, and what it asks of two versions.
Carts == (SUBSET FieldClaims) \ {{}}
Transitions == (SUBSET TransitionClaims) \ {{}}

\* Bound: the claim of a wallet is the only one of its behaviour.
NothingAsked == \A r \in Rows : log[r] = NoRow /\ jobs[r] = NoJob
WalletAsked == \E r \in Rows : log[r].vault # None \/ jobs[r].kind = "wallet"

Asking ==
  \/ /\ ~WalletAsked
     /\ \/ \E c \in FieldClaims : ProveValue(c)
        \/ \E S \in Carts : ProveCart(S)
        \/ \E i \in 1..MaxVersions, S \in Transitions : ProveVersionIntegrity(i, S)
  \/ NothingAsked /\ \E c \in Wallets : WalletProves(c)
  \/ \E j \in Rows : RecordWalletProof(j)

Settling ==
  \E j \in Rows :
    \/ LandProof(j) \/ RefuseProof(j) \/ ProofSucceeds(j) \/ ProofFails(j)
    \/ \E r \in Rows : TrackerSettles(j, r) \/ TrackerExpires(j, r)

Next ==
  \/ ChangeContent \/ Submit \/ Reanchor \/ LandAnchor \/ AnchorSettles
  \/ Asking \/ Settling \/ Restart

Spec == Init /\ [][Next]_vars

-----------------------------------------------------------------------------
(* The public verifiers *)

Succeeded(r) == log[r].status = "succeeded"
VaultsOf == {passport.vault} \cup {archived[i].vault : i \in DOMAIN archived}

AttesterNamed(h) ==
  \/ passport.named /\ passport.hash = h
  \/ \E i \in DOMAIN archived : archived[i].named /\ archived[i].hash = h

\* Only the passport's present vault is read.
VerifiesClaimMutant(r) ==
  [vault |-> passport.vault, hash |-> log[r].hash, hashB |-> None, claim |-> log[r].claim] \in claims

\* probeClaimOnChain, on a row whose hash is stamped: its hash on every vault
\* the passport was anchored on (two vaults stay below the cap of five).
VerifiesClaim(r) ==
  /\ passport.vault # None
  /\ log[r].named \/ AttesterNamed(log[r].hash)
  /\ \E v \in VaultsOf :
       [vault |-> v, hash |-> log[r].hash, hashB |-> None, claim |-> log[r].claim] \in claims

\* probeCrossRootClaim: both hashes on the vault of the current row.
VerifiesTransition(r) ==
  /\ passport.vault # None
  /\ AttesterNamed(log[r].hash) /\ AttesterNamed(log[r].hashB)
  /\ [vault |-> passport.vault, hash |-> log[r].hash, hashB |-> log[r].hashB,
      claim |-> log[r].claim] \in claims

\* anchorExplorer lists every succeeded row.
Listed(r) == Succeeded(r) /\ log[r].claim \in FieldClaims

\* A claim proven twice is listed twice; verifyClaimUrl names the claim, and
\* the verifier takes the newest row of it.
Newest(r) == \A q \in Rows : Succeeded(q) /\ log[q].claim = log[r].claim => q <= r

-----------------------------------------------------------------------------
(* Properties *)

\* A row that a job or a ledger read closed as succeeded names a claim some
\* vault holds, about exactly the versions the row names: neither a partial
\* cart nor an expired wait is booked green (runProveBatchDetached,
\* runIntegrityDetached: "never lie green").
GreenIsOnChain ==
  \A r \in Rows :
    Succeeded(r) /\ log[r].by # "transaction" =>
      \E v \in Vaults : [vault |-> v, hash |-> log[r].hash, hashB |-> log[r].hashB,
                         claim |-> log[r].claim] \in claims

\* Every claim that was proven keeps verifying live while the passport is
\* anchored: a field claim the explorer lists, however often the passport was
\* anchored again, and on whatever vaults, since; a transition as long as no
\* version moved to another vault.  Known gaps: a row that rests on an indexed
\* transaction alone, and a hash whose attester was never read.
ListedClaimVerifies ==
  passport.status = "anchored" =>
    /\ \A r \in Rows :
         /\ Listed(r) /\ Newest(r)
         /\ log[r].by # "transaction"
         /\ log[r].named \/ AttesterNamed(log[r].hash)
         => VerifiesClaim(r)
    /\ Cardinality(VaultsOf) = 1 =>
         \A r \in Rows : Succeeded(r) /\ log[r].claim \in TransitionClaims => VerifiesTransition(r)

Opens(opening, v, h) == [vault |-> v, hash |-> h, root |-> opening] \in records

\* From the second anchor on, the stored tree of the current version and of
\* every archived one reproduces the root its vault holds, whatever was read
\* or proven in between: without it no claim could ever be proven again.
OpeningsReproduceAnchors ==
  /\ passport.status = "anchored" /\ archived # <<>> =>
       Opens(passport.opening, passport.vault, passport.hash)
  /\ \A i \in DOMAIN archived :
       i > 1 => Opens(archived[i].opening, archived[i].vault, archived[i].hash)

=============================================================================
