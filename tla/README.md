# A TLA+ model of NIGHTPASS

NIGHTPASS keeps digital product passports in a database, anchors them in the
AttestationVault contract of a Midnight chain, proves claims about them there,
grants partners access to them, and mirrors them to a public explorer. This
directory holds TLA+ modules of the parts of it where steps of several actors
meet, TLC configurations that check them on small instances, and proofs, checked
by TLAPS, of what the server lane, the demo executor, the operator handover, the
attribute history and the intake of goods receipts promise for any sizes of their
constants.

Run everything from this directory, for example
`tlc -workers 2 -config anchor_lane.cfg MCPassportAnchor` or
`tlapm PassportAnchorProofs.tla`. `PROJECT.json` lists the runs, the definitions
they check, which source lines each definition translates, and the hazards the
properties were chosen for. Source references below are relative to `src/`.

1. The system
2. Modules
3. Assumptions and fairness
4. Runs, bounds, and disagreements seen
5. What is proved
6. Not modelled
7. Plan

## 1. The system

| Part | State it keeps | Operations | Talks to |
| --- | --- | --- | --- |
| Server anchor lane (`srv/producer-service.ts`, `srv/lib/passport-anchor.ts`, `anchor-plan.ts`, `lane-plugin.ts`) | `Passports` row (status, hash, tree, attester), `PassportAnchorVersions`, `PassportTransactions` | createPassport, submitPassport, reanchorPassport, changeBatteryStatus, the detached runner | the vault by a ChainLane; the rows by short transactions |
| AttestationVault (NIGHTGATE plugin, external) | records (attester, payload), content roots, document bindings, registrations, claims, disclosures | attest, anchorContentRoot, bindDocument, registerPassport, the proof circuits, grant, revoke | everybody who holds a wallet |
| Browser-wallet lane (`app/producer/.../Detail.controller.js`, recordWallet* in `producer-service.ts`) | pending `PassportTransactions`, detached trackers | passportFieldValue, recordWalletAttest / Disclosure / Predicate / Membership | `state-verify.ts`, `chain-verify.ts` |
| Boot sweep (`sweepStuckRows`) | none of its own | closes pending rows once after 'served' | the state reads |
| Proofs and version integrity (`proof-plan.ts`, `version-integrity.ts`, `claim-sets.ts`) | `PredicateProofLog`, the stored content tree | provePassportValue(sBatch), proveVersionIntegrity, their runners, the public verifiers | contentTreeFor, the lane, the ledger |
| Disclosure grants and read gate (`producer-service.ts`, `passport-service.ts`) | `DisclosureGrantLog`, the plugin's index of grants | grant, revoke, the tier of a read | the lane, the ledger |
| Attributes and telemetry (`updateDynamicAttributes`, `server.ts`, `bms-simulator-service.ts`, `dpp-api.ts`) | `PassportAttributes`, `PassportAttributeHistory`, seen signatures | attribute versions, signed telemetry, reads of a past date | the row's content (drift) |
| Operator handover | pending registerPassport rows, `owner` | transferPassportOperator, claimPassportId, the registrar's runner | registrations on the chain |
| Server sessions and sponsors (`producer-wallets.ts`, `producer-service.ts`) | open sessions, in-flight opens, prewarm jobs, warmth | prewarm, open, join, heal | NIGHTGATE |
| Remote lane (`lane-remote.ts`, `lane-remote-worker.ts`) | registered seeds; per lane a worker thread and its pending calls | build, sponsor, wait, rebuild, dispose | hosted API |
| Publishing and the explorer (`publishPassport`, `server.ts`, `app/explorer`) | a second instance's rows, claims and versions | publish, ingest, federation sync, verifyOnChain | the producer's instance, the ledger |
| ERP intake (`scripts/s4-bridge.mts`, `server.ts`, `s4-*.ts`) | the bridge's state file, `Passports` | page, post, create | S/4, createPassport |
| Demo executor (`demo-service.ts`) | `Testers`, `Runs`; in memory the queue, the running runs, leases, the cap lock, the stagger timer | startTester, createDemoPassport, processQueue, executeRun, failStaleRuns | ProducerService, NIGHTGATE |
| Sandbox executor (`sandbox-service.ts`) | tables and memory of its own, the same sponsor pool | the same, with raw vault transactions | NIGHTGATE |
| DPP Life Cycle API (`dpp-api.ts`) | in-memory store filled from the database | hydrate, read, history | Passports |
| Views, cockpit, simulator, exports | none, or the browser's | reads | all of the above |

How they interact. A request handler runs in one database transaction, on PostgreSQL at READ
COMMITTED: between two of its statements others commit. Work on
the chain never runs inside it: a handler marks its row (`anchoring`, `pending`),
stores what the chain is about to hold, and leaves a *detached runner* that starts
when the request has committed. The runner submits a transaction, polls the
NIGHTGATE job for a bounded number of times, and writes what it saw in separate
short transactions. Nothing but the row's status keeps requests away while a
runner is at work, and the runner's last write does not look at the row. In the
browser lane the transaction comes first and the row learns of it from a
callback, which is believed only after a state read or an index lookup confirmed
it. Runners of server wallets share sessions that are opened, warmed, evicted
and replaced beside them; those of demo runs have a worker thread of their own.

What is hard about it:

- the row, the archive, the transaction log and the chain are four records of
  one event, written one after another by actors that time out, fail and die;
- a transaction that was given up on may land, much later, beside its retry;
- the salt seed of a content tree must be in the database before its root is
  on the chain and must stay the one that belongs to that root, or no claim about
  the passport can ever be proved again;
- a claim, once proved, must be found again after the passport moved to another
  hash, attester or vault;
- a partner's tier is computed from two records, one local and one copied from
  the chain, either of which may lag;
- the two lanes write the same row without knowing of each other;
- a second instance is fed by pushes and pulls that overlap;
- what a restart leaves behind is repaired once, from what was recorded.

What makes each part correct:

- *lanes*: `anchored` means attested, by the wallet the row names, under the tree
  the row stores, as long as requests and runners of a passport take turns, and whatever
  other passports do; archived versions stay verifiable; no record stands for two
  passports; whatever starts, settles.
- *proofs*: a proof row is `succeeded` only if a vault holds its claim; what is
  listed as proven keeps verifying; the stored trees open what was anchored.
- *grants*: nobody has a tier whom nothing was granted; a revoke that was booked as
  succeeded reaches the reader.
- *attributes*: versions are gapless, start from a baseline, and the newest one is the
  current value; the past does not change; a signed frame is applied once.
- *handover*: the owner of an anchored passport changes only after the chain's registration,
  or by a request that an anchor has overtaken.
- *sessions*: one opening per wallet at a time; a dead session is replaced; no header
  says 'warming' for good.
- *remote lane*: a cart is built on a state that shows its anchor; nothing goes on behind
  an answer; every job ends.
- *explorer*: what is listed verifies, what was published is served, a mirror of a
  producer that rests catches up.
- *receipts*: no receipt is marked without a passport of its id, no id gets two, and none is
  lost that stays on the page until the bridge has read it.
- *demo*: bursts do not pass the caps, a lease has one holder, no start is forgotten,
  every run ends, also across a restart.

## 2. Modules

| Module | Models | State, in the code |
| --- | --- | --- |
| `AttestationVault` | the contract, as the lanes use it (external) | `attested`, `rootOf`, `binding`, `registered` |
| `PassportAnchor` | the server lane | `row` = `Passports`, `content` = its children and attributes, `versions` = `PassportAnchorVersions`, `attestLog` = its 'attest' `PassportTransactions`, `runs` = the promises of `runAnchorDetached` and their transactions; `requests` = handlers between what they read and what they write; `raced` (history) = passports on which one overtook another or a runner |
| `AnchorHistory` | what anchoring promises to a verifier (abstract) | `ledger`, `target`, `history`, `watched` |
| `WalletAnchor` | the browser lane and the boot sweep beside the server lane (extends `PassportAnchor`) | `approvals` = a wallet approval, its transaction, its `PassportTransactions` entry and its tracker; `sweep` = the rows `sweepStuckRows` has read |
| `ProofClaims` | proofs of one anchored passport, on either lane | `passport`, `content`, `archived` as above; `booked` = `contentRootAnchored`; `records`, `claims` = the vaults; `log` = `PredicateProofLog`; `jobs` = the detached provers and trackers with their transactions |
| `ReadGate` | grants, revokes and the tier of a partner | `acl` = the vault's disclosures, `index` = the plugin's copy, `log` = `DisclosureGrantLog`, `tx`, `runner` = who settles a row, `reported` |
| `ServerSessions` | sessions of server wallets | `serverSessions`, `inflight`, `prewarmJobs`, `warmth` = the four maps of `ProducerService`; `session`, `job`, `facade` = the plugin; `read` = calls of `sponsorPoolStatus` between their awaits, `header` = the job `serverWalletStatus` has asked for |
| `RemoteLane` | the remote signer lane | `signers`; per job `pending`, `worker` = `RemoteLaneWorker`; `work`, `attempt`, `builder` = `RemoteLane` in its thread; `tx`, `indexed` = the chain and the hosted index |
| `OperatorHandover` | claims and transfers of a passport id | `owner`, `status`; `requests` = handlers between their read and their write; `log` = the registerPassport rows and their runners; `registered`, `bound` = the vault |
| `AttributeHistory` | dynamic attributes and telemetry | `current`, `history` = the two tables; `batch` = a transaction of one request between its statements; `seen` = remembered signatures; `reader` = a read of a past date |
| `ExplorerMirror` | publishing and the federation sync | `row`, `archived`, `claims`, `vault` (the configured one) = the producer's; `mirror` = the explorer's tables; `ingest`, `sync` = requests and rounds between their statements |
| `GoodsReceipts` | from a goods receipt in S/4 to a passport | `posted`; `bridge`, `file` = the bridge and its state file; `calls` = webhook calls; `passports` |
| `RunQueue` | the demo executor | `row`, `today` = `Runs`; `used` = `Testers.passportCount`; `lock`, `request` = `withCapLock` and the handlers around it; `mem` = the fields of `DemoService`; `work` = jobs a run has submitted |
| `MC...` | instances for TLC: constants, symmetry | |
| `PassportAnchorProofs` | theorems on both anchor lanes and the refinement of `AnchorHistory` | |
| `ServerWalletProofs` | theorems on `ServerSessions` and, by an instance, `OperatorHandover`: the server's own wallets | |
| `ReaderProofs` | theorems on `ReadGate` and `ExplorerMirror`: what readers are shown | |
| `ProofClaimsProofs`, `RemoteLaneProofs`, `RunQueueProofs`, `AttributeHistoryProofs`, `GoodsReceiptsProofs` | theorems on the module each is named for | |

One action is one handler, or one stretch of it between two awaits that others
can observe. The server and browser lanes:

| Action | Code |
| --- | --- |
| `CreatePassport` | `createPassport` without a signing session |
| `SubmitPassport`, `ReanchorPassport`, `ChangeStatusAndReanchor` (and `CreateAndSubmit`) | `submitPassport`, which looks at no status; `reanchorPassport`; `changeBatteryStatus`: what each reads and refuses, up to the duplicate check of `anchorRow` (`Read`) |
| `CommitRequest`, `AbandonRequest` | the writes of `reanchorCore` (`Archive`) and `anchorRow` (`AnchorRow`) and the commit that starts the runner, whatever has become of the row since; or the transaction is rolled back |
| `ChangeContent` | any write to attributes that does not re-anchor |
| `SubmitTx`, `GiveUp`, `ObserveSuccess` | `laneFor`, `submitAnchorTx`, `runChainStep`, `waitForJobResult`: it is submitted, it fails or times out, it is reported a success and `onStep` logs it |
| `MarkAnchored`, `MarkAnchoredFails`, `MarkFailed` | the last write of `runAnchorDetached`, and its catch block, each of which may fail itself |
| `LandTx`, `LandWalletTx`, `DropWalletTx` | the chain includes a transaction in whole or in part, or never |
| `Crash`, `CrashAndBoot` | the process dies; runners, open requests and trackers are gone |
| `PrepareApproval`, `SignAndSend`, `RecordWalletAttest` | `onSignWithLace` reads the hash and the tree of `passportFieldValue`; the wallet signs and sends; `recordWalletAttest` with the check that it makes |
| `TrackSettles`, `TrackExpires` | a poll of `trackWalletTx` that has a verdict; the last one without |
| `SweepLeaves`, `SweepCloses` | one row of `sweepStuckRows`: too young, or closed with the row that follows it |

Proofs, grants, sessions, the remote lane:

| Action | Code |
| --- | --- |
| `ProveValue`, `ProveCart`, `ProveVersionIntegrity` | `provePassportValue`, `provePassportValuesBatch` (one transaction of at most `CallSlots` calls), `proveVersionIntegrity`, each with its pre-flight, the log rows it writes, the tree it stores and the runner it leaves; or the offline row |
| `LandProof`, `RefuseProof` | the ledger stores the claims of a transaction, all of them or a part; or it never lands |
| `ProofSucceeds`, `ProofFails` | the ends of `runProveDetached`, `runProveBatchDetached`, `runIntegrityDetached`: the latter two ask the ledger which claims landed (`Asked`) when the batch was partial or the wait ran out |
| `WalletProves`, `RecordWalletProof`, `TrackerSettles`, `TrackerExpires` | `onProveWithLace`, `recordWalletProofRow`, `settleWalletTx`, `trackWalletTx` |
| `Submit`, `Reanchor`, `LandAnchor`, `AnchorSettles` | the anchor lane seen from its proofs: the tree is stored, the version archived, the vault of this process may be another one |
| `Listed`, `VerifiesClaim`, `VerifiesTransition` (operators) | `anchorExplorer`, `probeClaimOnChain`, `probeCrossRootClaim` |
| `AskDisclosure`, `GrantOffline`, `RunnerSucceeds`, `RunnerFails` | `disclosure`, `runDisclosureDetached` |
| `WalletDiscloses`, `RecordWalletDisclosure` | `onGrantWithLace`, `onRevokeWithLace`, `recordWalletDisclosure` |
| `Reindex`, `Serves` (operator) | `reindexDisclosures`; `granteesOf`, `effectiveGrantsFor` and the READ handler |
| `AskSession`, `OpenSucceeds`, `OpenFails` | `effectiveSession`, `sponsorSessionIdFor`, `serverSigningSession`, `openServerSession` |
| `NoJobLeft`, `AskJob`, `JobAnswers`, `JobUnread`; `ReadPool`, `PoolAnswers`, `NoFacade`, `StillWarming`, `SessionNotFound`, `FacadeIsGone` | `serverWalletStatus` before and after it asks for the job; `sponsorPoolStatus` before and after each await, with `prewarmStillRunning` and the self-heal (`Heal`) |
| `TakePrewarm` | `laneFor` and the runners that delete the prewarm entry and then await it |
| `StartJob`, `Connect`, `Build`, `SponsorAccepts`, `Landed`, `Retry`, `ReportPartial`, ... | `remoteLaneFor`, `buildAndSponsor` step by step, `waitLanded`, `isRebuildable`, and what `submitProofCart` calls partial |
| `Crash`, `Exit`, `Dispose`, `Rejected` | `RemoteLaneWorker`: 'error', 'exit', `dispose`, `failAll` |

Handover, attributes, the explorer, receipts, the demo:

| Action | Code |
| --- | --- |
| `ClaimPassportId`, `TransferPassportOperator` | what `claimPassportId` and `transferPassportOperator` read (`Ask`) |
| `TransferLocally`, `RegisterOnChain`, `AbandonRequest` | what they write: the owner, if the passport was not anchored when it was read; else a pending registration, which claims write, too; or nothing |
| `Send`, `RegistrationSucceeds`, `RegistrationFails` | `runRegisterDetached` |
| `UpdateAttributes`, `PostFrame`, `TriggerSimulator`, `ChangeBatteryStatus` | the four requests that write attributes, up to their first read |
| `ReadCurrent`, `ReadVersions`, `WriteVersions`, `Commit`, `RollBack` | the statements of `updateDynamicAttributes` and `writeAttributeVersions`, and the end of the transaction they are in |
| `RememberSignature`, `ForgetSignature` | the replay window of `POST /telemetry` |
| `ReadAttributes`, `ReadHistory` | `dppsByProductIdAndDate` |
| `Redeploy`, `StartAnchor` with `VaultsFor` | a new `PASSPORT_CONTRACT_ADDRESS`; `vaultFor`, with and without `PASSPORT_VAULT_MIGRATE` |
| `Publish`, `PublishReadsProofs`, `PublishReadsVersions`, `IngestSelects`, ..., `IngestAddsVersions`, `IngestFails` | `publishPassport`, one action per read; `POST /ingest`, one per statement, any of which may fail |
| `SyncFetches`, `SyncWritesRow`, `SyncFails` | `syncOnce` on the feed of `anchorExplorer` |
| `PostEvent`, `GiveUp`, `ReceiveAnswer`, `SaveState`, `StopBridge`, `StartBridge` | `cycle`, `postEvent`, `saveState`, `loadState` of the bridge |
| `LookUp`, `Create`, `CockpitCreate` | `POST /erp-events` around its await, `createPassport`, a receipt the cockpit creates by hand |
| `Enter`, `ClaimTester`, `InsertRun`, `Enqueue` | `createDemoPassport`: the caps under the lock, the conditional increment, the insert, and the 'succeeded' callback |
| `ProcessQueue` (an operator, part of every action that calls it) | `processQueue` with its stagger timer, `acquireSponsor`, `acquireVault` |
| `OpenSession`, `Advance`, `WorkEnds`, `Finish`, `Fail` | `executeRun` from stage to stage, and the `catch` and `finally` that `processQueue` puts around it |
| `DisconnectWallet` | the session of a run that has ended is closed, later or never |
| `FailStaleRuns` | the demo's boot sweep |

Abstractions, and why they are sound for what is stated:

- A payload hash *is* the content (hashing is a pure function, taken to be
  injective). A tree is the pair of the values it commits to and its seed; two
  trees with one seed and one content have one root. Point-1 fields are not
  hashed and not modelled.
- A seed is named after the run or the approval it was drawn for: seeds drawn at
  random do not repeat.
- A claim is the set of contents it is true of (a claim about a transition: of pairs),
  since a circuit refuses exactly the others.
- CAP runs a handler in one transaction, on SQLite in development, where writers are serialized,
  and on PostgreSQL at READ COMMITTED in production (`package.json`). In `PassportAnchor` and
  `OperatorHandover` a request is two steps, all that it reads and all that it writes, and
  others commit in between; what `reanchorCore` reads again (the outgoing tree and attester)
  is read with the writes. `AttributeHistory`, the publish of `ExplorerMirror` and `RunQueue` go
  statement by statement, with the unique keys and row locks that count; the ingest runs its
  statements in no transaction, and is modelled so. In `ProofClaims` and `ReadGate` a request
  is one step.
- Ledger effects: `attest` refuses an existing record of the same attester and
  payload, `bindDocument` is for the registered owner, or for the owner of the
  current binding while nobody registered the document. A refused `bindDocument`
  is the fallible part of the batch: the record stays and the binding does not
  move (`partial`).
- A failed entry of the transaction log is not modelled: nothing reads one.
- The steps of a remote job are numbered by attempts; a `StateIsThere` build fails on a
  server that has not indexed the anchor, and the code makes no difference between the
  reasons of a failure beyond `isRebuildable`.
- A demo run's stage is one step per state it writes; what it does inside
  (anchoring and proving are the lanes above) is one job that ends, and any await
  of it may fail. `find` and `reduce` pick the first sponsor and vault that
  qualify; the model picks any. The spacing of starts is positive.
- A material document has one item; the items of one document are further receipts.
- Names of operators ending in `Mutant` are regressions of the definition after
  them. No specification uses them; they serve to show that each property
  notices a plausible mistake.
- Each module has one `...TypeOK` definition. Where no run lists it, it documents the
  shape of the state.

## 3. Assumptions and fairness

- Clients submit, re-anchor, create and transfer whatever and whenever they like: nothing is
  assumed of their order. Nothing in the code keeps two requests, or a request and a
  runner, of one passport apart: `submitPassport` looks at no status and the cockpit refuses
  `anchored` only, and a status that was read may have changed before the row is written.
  What such a race leads to is listed in section 4. The history variable `raced` collects the
  passports on which a request committed although the row was not any more what it had
  read, or while a runner was at work on it; claims about rows, trees and versions are
  about the others (`Alone`), beside and against any that race. `LogAgrees`, `AnchoringSettles`
  and `StrandedByLossOnly` are about all of them.
- `ChainConfirmed`: a job is reported a success only after the chain's outcome is
  known (`waitForJobResult` with `requireChainSuccess`), which is so while
  NIGHTGATE runs its crawler or its confirmer (on by default). Without either,
  `succeeded` only means "submitted", as the comment at `passport-anchor.ts:478`
  says, and `AnchoredIsAttested` cannot hold. A partial success is taken not to be
  reported as a chain success by NIGHTGATE; the browser lane, which reads the
  index itself, does take it for one, and is modelled so.
- The registration of a document is fixed from the start in `PassportAnchor`; it changes
  in `OperatorHandover`.
- `MaxLevel = 0` in `read_gate`: one level. With two, a wallet's report of a higher
  level is confirmed by any active grant, and `AccessWasGranted` fails (below).
- `Ordered` in `read_gate`: the transactions of one wallet land in the order of
  their submission.
- A wallet's claim is the only one of its behaviour in `proof_claims` (`NothingAsked`,
  `WalletAsked`): it is proven beside the anchors, not beside jobs of the server. One
  row of either lane is settled by its own coordinates.
- `JobsOutliveWaits` is TRUE in `runs_end`: jobs may end after the poll that waits for them
  gave up; FALSE in `demo_queue`, whose properties are about the executor's own maps, which no
  such job touches. Both runs have the second-life act. A run that is `aging` when the process
  dies is not failed by the boot sweep: `InFlightIsCarried` speaks of the states that the
  sweep looks for (`StaleStates`), and `RunsEnd` exempts a row left `aging`.
- A best-effort write that is lost (`MarkFailed`, `FailStaleRuns`) is remembered in
  `unmarked` and `swept`, and the properties exempt the runs it concerns: the code
  does not repeat it before the next boot.
- `MaxVault` is at most 5, since the live check of a claim probes at most five vaults.
- `FrameAppliedOnce` exempts one pair of instants: window and retention have closed ends, so
  that a frame accepted at the first instant of its window may be accepted at the last one, too.
- `ReceiptsAreMinted` exempts receipts that other documents have pushed off the page.
- The cockpit's connector names the attester of what it reports (`app/connector` exports
  `attesterIdOf` with `anchorBatch`), so `RecordWalletAttest` always stamps one; the handler
  would accept a report without.

Fairness. A runner is a chain of awaits that all end: polls are counted, retries too.

| Specification | Assumed | Because |
| --- | --- | --- |
| `PassportAnchor!FairSpec` | WF of each runner's next step | polls are bounded; nothing is assumed of the chain, clients, crashes or which outcome a step has |
| `RunQueue!FairSpec` | WF of each request, executor and job, of the timer, of time and of the boot sweep | each is a chain of awaits; requests and restarts are free |
| `ServerSessions!FairSpec` | WF of the plugin's answers and jobs, of the headers' polls and of the expiry of abandoned sessions; SF of the monitor's read of each wallet and of a job's answer to the header | the plugin bounds its reads and has an expiry sweep; the demo page and the cockpit poll in a loop, and a job that is asked about again and again can be read in the end. Nobody polls the header of a wallet that only sponsors (P:561-563), so `WarmthSettles` is about wallets a cockpit has open |
| `RemoteLane!FairSpec` | WF of each thread's next step and of the report of an exit | timers and bounded waits; the chain and the sponsor are free |
| `ExplorerMirror!FairSpec` | WF of each timer, SF of the write of a round | the sync runs for ever; a round may fail, but not each time |
| `GoodsReceipts!FairSpec` | WF of the bridge, of its time limit and of the end of each call; SF of the look-up and of the creation for a receipt | the loop of the bridge catches everything; a receipt that is asked about again and again is created in the end |

Deadlock is not checked: the bounds (runs, rows, publishes, documents) of a model are
used up in the end, and a system in which everything has settled has nothing to do.

## 4. Runs, bounds, and disagreements seen

All runs pass.

| Run | Instance | Question |
| --- | --- | --- |
| `anchor_lane` | 2 passports of 1 content, 2 wallets, 2 runs, 2 open requests | Do rows, trees, log and chain agree under timeouts, late and partial landings, failing writes, crashes, and races of the other passport? Has each anchored passport a record of its own when two requests pass the duplicate check? Is the invariant of the proofs one? |
| `anchor_history` | 1 passport, 2 contents, 3 runs, 1 request, fair runners | Do archived versions stay verifiable and openable, does the lane implement `AnchorHistory`, does a runner settle what it starts? |
| `two_lanes` | 1 passport, 2 wallets, 1 content, 1 run, 1 request, 2 approvals | Is anything anchored on a client's word? Who can be left `anchoring`? Do attester and seed stay with the record while one wallet works alone? |
| `proof_claims` | 2 contents, 2 vaults, 2 field claims, 1 transition claim, 2 log rows, 2 seeds, 1 archived version, carts of 2 calls, restarts | Is every green row on a vault? Does what is listed verify, wherever the passport has moved? Do the stored trees still open what was anchored? |
| `read_gate` | 1 partner, 2 payloads, 3 requests on either lane or offline | Does anybody get in whom nothing was granted? Does a revoke reach the reader? |
| `server_sessions` | 1 wallet, 3 session names, 1 monitor, fair | Is a wallet connected once at a time, is a dead session replaced, does 'warming' end? |
| `remote_lane` | 1 anchor, 1 cart, 2 attempts each, fair threads | Is a cart built on its anchor in every attempt, is a lane silent after its verdict, does every job end? |
| `attributes` | 2 attributes, 3 requests, 1 frame, a clock of 4 | Do versions stay in order, is the newest the current one, does the past stay, is a frame applied once? |
| `explorer_mirror` | 2 contents, 2 vaults, 2 publishes, 1 sync round at a time, fair timers | Does what the explorer lists verify, is a publish served, does the mirror catch up? |
| `goods_receipts` | 2 receipts of batteries and 2 of boxes, of 2 years, the batteries with one passport id; pages of 2, a state file of 1, 2 calls, 1 death, fair | Has every marked receipt a passport, does no id get two, does each receipt that the bridge can still see become one? |
| `demo_queue` | 3 runs, 2 testers, 2 sponsors, 1 vault | Do the caps hold against bursts, are leases exclusive, is every start coming, are the runs of a dead process failed? |
| `runs_end` | 2 runs, 1 tester, 2 sponsors, 1 vault, jobs that outlive their waits, fair | Does a booked run end? |

`OperatorHandover` has no run of its own: its two properties are proved (section 5).

Bounds. `Runs` and `Approvals` bound how often anchoring is started, `Requests` how many
handlers are open at once. A race, a stale write and a duplicate payload need two actors:
`anchor_lane` has two of each, and one content, so that every pair of requests competes for
one payload. A re-anchor after a failed re-anchor (archive, fail, retry, late landing) needs
three runs and two contents, which `anchor_history` has. Two wallets are enough for one to be
refused by the other's binding. `anchor_lane` and `two_lanes` leave every failure free
(`MarkFails`, `StampFails`, skipped builds). In `demo_queue` two runs execute while one waits, which is what the stagger, the
leases and the lost wakeup need; a tester books at most 2 runs and a day at most
2, so that both caps refuse one of three, and the day may turn (`NextDay` only
empties the count). The concurrency asked for (3) exceeds the pool, so that the
pool's cap matters.

In `proof_claims` one archived version and two vaults are what "the claim is not
where the passport is now" needs; the two field claims differ in one content, so that a
claim can hold of one version and not of the other; a cart of two has every partial
outcome. Two log rows are two jobs that overlap, or one cart. In `read_gate` three
requests are a grant, a revoke and one that comes between or after; the lanes mix. In
`server_sessions` three names are a session that expires, one that replaces it, and one
more of an opening that overlaps; names are used again. The code has three attempts;
`remote_lane` has two, a first and a last, and the two jobs make an anchor's late landing
visible to the cart that follows. In `attributes` three requests are two that interleave
and a frame that comes again at the edges of its window (`Skew = 1`, a clock to 3); a
simulator call makes two ticks. `explorer_mirror` has two publishes, and a
sync round under either; it lets the publishes overlap only before the second vault is deployed and
while the row is anchored and stamped (`Overlaps`), and has everything else with one publish
at a time. The proofs have no such bound. In `goods_receipts` documents are posted one after the
other (`InTurn`); four of them do not fit on a page of two, nor the marked ones in a state file of one, and
the numbers of the second year start again.

Passports, wallets, contents, runs, requests and approvals are interchangeable, so
the safety runs use symmetry; those with a temporal property do not.

### Disagreements seen

While the modules were written, these places came up where the code does something
a comment, a document or a property one would like says otherwise. No run fails on them:
the properties above are stated, or the instances chosen, so that they hold of the
code as it is, and the places are listed here for whoever changes it.
`P` is `srv/producer-service.ts`.

Anchoring:

- Nothing keeps two anchorings of one passport apart. `submitPassport` checks no status
  and the cockpit's button refuses `anchored` only (`app/producer/.../Detail.controller.js:533-539`);
  `reanchorPassport` reads the status (P:2578) several awaits before `anchorRow` writes it
  (1460). Two runners may then work on a passport; the one that ends last marks the row by its
  own outcome, whatever the row holds (P:1568): a payload nobody attested may be `anchored`, and be archived as such,
  an attested one `failed`, and a seed lost. No claim about rows, trees and versions is made of such passports.
- The duplicate check (P:1452) and the mark (1460) are two statements: two requests may both
  pass it, although "byte-identical confidential content can never anchor twice" (1448-1449). The
  vault then refuses the second transaction of one wallet; two wallets both succeed.
- `submitPassport` (P:816) again while `anchoring` redraws the stored seed; the first
  transaction lands under the old one and the row becomes `anchored` with a seed that
  does not open its root, which P:1469-1473 and `db/passport-schema.cds:110-112` call lost.
  The same comes of a run that timed out, is submitted again with the same content, and
  lands after all.
- `submitPassport` anchors the hash stored at creation with a tree of the current values:
  that "draft passports just carry the new status into their eventual first anchor"
  (P:2739) is true of the root and not of the payload.
- An abandoned transaction that lands last re-binds the document to its payload; a scan of
  the QR code resolves to another payload than the row, against
  `db/passport-schema.cds:96-97`.
- The server lane writes no pending transaction row, so the sweep, which starts from those
  (P:182), never finds a passport it left `anchoring`, against P:157-160 and 169-170. A
  battery the ERP anchor left so is answered 'duplicate' from then on.
- The tracker of `recordWalletAttest` verifies the hash captured at the callback and marks
  the row anchored whatever it holds by then (P:865, against 830-832).
- The browser lane has no duplicate check. A
  second wallet's callback overwrites `attesterId`. The sweep verifies an entry by the
  passport's current coordinates.
- `changeBatteryStatus` validates against a row it read before (P:2723): under READ
  COMMITTED two changes may both pass, against `docs/producer-flow.md:47-48`.

Proofs and grants:

- `probeCrossRootClaim` (`srv/passport-service.ts:615-620`) reads both versions from the
  vault of the current row; once a later anchor moved the passport, a transition that was
  proven between older versions is looked up where it never was, against the comment at 598-600.
- A proof that is asked for while the first anchor is under way stores a tree of its own
  over the one that is being anchored (P:1720). `OpeningsReproduceAnchors` therefore starts
  at the second anchor.
- `runIntegrityDetached` says to treat a timeout as unknown (P:2300) and books the rows
  the ledger does not show yet as failed (2351-2366).
- `recordWalletProofRow` stamps the hash of the passport at the callback, not the one the
  wallet proved against. A cart of the browser is one transaction for each claim.
- `passportCredential` lists proofs whatever version they are about. The explorer page's
  `rowsFingerprint` (`app/explorer/app.js:266-272`) leaves the payload hash out.
- `verifyGrantState` (`srv/lib/state-verify.ts:176-188`) takes any active grant of the payload
  for the one that was reported; with a lower one active a higher level elevates before it
  has landed, against P:878-880.

Sessions and the remote lane:

- The prewarm entry is deleted before it is awaited (P:1528): the next job of the session
  signs at once. `sponsorPoolStatus` shows 'ready' for a facade that answers and still
  syncs; overlapping calls may drop a session another one has just opened; only pool wallets
  are healed; a healed session leaves a live row whose expiry evicts the new facade.
- `buildAndSponsor` throws an error that is not partial when a sponsored transaction is not
  indexed in time (`srv/lib/lane-remote.ts:307`), so the claims of the cart are booked as
  failures "before the submission" (P:1979-1983) and may land. `submitProofCart` calls partial what
  has the words in its message (383), be it a sponsor's refusal: no property is about partial verdicts.
- A job of the header that was superseded is forgotten, and the next poll calls the wallet 'ready'
  while the successor may still be syncing (P:474-478).

Handover:

- A claimed draft that is transferred only gets a new owner in the database (P:2885): its
  registration still names the old one, whom alone the vault lets bind, although the
  comment says that drafts never touched the chain (`docs/architecture.md:188` likewise).
- The status is read at P:2864 and the owner written at 2886: an anchor that is reported in between leaves
  an anchored passport with an owner nobody registered (`OvertakenHandover`).
- Two transfers may settle in another order than they landed; an expired wait books
  'failed' while the chain has the new operator; the idempotence of a claim looks only at
  the newest succeeded row; the page's `_pollRegister` takes the newest row for its own.

Attributes, the explorer, receipts:

- A frame's signature is remembered before its update: the retry of a failed update is
  refused as a replay, though "senders simply retry" (`srv/server.ts:334-336`). The timer that
  forgets it may fire at the last instant at which the window still accepts the frame (20, 367): a copy
  at the first instant and one at the last are both applied, against 12-14. A restart
  forgets all signatures. A violated unique key is answered 500, not 4xx.
- A reader may see a past date change as long as a transaction with an earlier time is
  open; `PastIsAnswered` waits for those. A simulator call that interleaves with another
  may make a battery younger.
- The ingest calls itself idempotent (`srv/server.ts:437-440`); two that overlap may insert
  claims twice, one that fails half-way has dropped claims or versions until the next
  publish, and nothing keeps an older snapshot from overwriting a newer one. A publish that
  is reported as not published (a timeout) may be ingested. The sync moves row and contract
  address without the archive (565-592): after a vault was redeployed, a listed claim of the old vault is looked
  up in the new one only, and fails until the next publish, against `srv/passport-service.ts:696-702`. More
  than five vaults are not probed. Rows without an attester verify only while they are bound.
- Document numbers are unique within a year, passport ids carry no year: the receipt of
  another year with the same number is answered 'duplicate' (`srv/server.ts:297`, against
  `docs/s4-mapping.md:62` and 96-98 and `test/unit/s4-material-document.test.ts:269`). The bridge
  marks it: it shares the passport of the first.
- Only the newest page of documents of all movement types is read
  (`srv/lib/s4-client.ts:53`): receipts that scroll out of it between two cycles are lost, against
  `docs/s4-mapping.md:3-4`. A material that enters the master later is passed over for good.

Executors:

- `failStaleRuns` lists five states and `executeRun` writes six: a run that was `aging` is
  never closed (`srv/demo-service.ts:1075`, against 48-49). It is not awaited (56): a run
  booked before its update runs is failed, and comes back.
- A poll that gives up (955, 971, 983) ends the run and frees its sponsor, while the job it
  waited for still spends that sponsor's dust next to the following run's, against 35-37.
- A tester's session is closed behind the run's back and only a busy database is retried, three times
  (894-918): a close that is refused leaves the facade in the worker "forever" (896-897).
- The demo's queue may exceed `DEMO_MAX_QUEUE`, which is checked before and enforced after
  the request commits.
- `sandbox-service.ts` keeps its leases apart from the demo's over one pool of wallets, and
  opens the tester's session before its `try` block (328).
- `dpp-api.ts` changes its memory before `persistVersion`, whose errors it swallows, and
  sets its hydrated flag before the rows are there.

## 5. What is proved

Every invariant and every property of steps that a run checks is a theorem, for all
values of the constants; liveness is not. The constants are constrained by the named
assumptions of the modules (types and bounds, evaluated by TLC on every run) and by
what the tables below list.

### The anchor lanes (`PassportAnchorProofs`)

| Theorem | States | Assumes |
| --- | --- | --- |
| `TypeCorrect` | `Spec => []TypeOK` | |
| `LaneIsInvariant` | `[]LaneInvariant` | `ChainConfirmed` |
| `AnchoredRowsAreAttested`, `AnchoredTreesOpen`, `ArchivedVersionsStayVerifiable`, `RecordsAreNeverShared` | the properties the runs check | `ChainConfirmed` |
| `LogStaysTrue` | `[]LogAgrees` | `ChainConfirmed` |
| `LaneImplementsAnchorHistory` | `Spec => PublishesHistory` | `ChainConfirmed` |
| `AnchoringIsCarried`, `WalletRowsAreAttested`, `WalletSeedsAreKept` | of `WalletSpec`: `[]StrandedByLossOnly`, `[]WalletRowIsAttested`, `[]WalletSeedKept` | |

The first four are about passports on which requests and runners took turns, the last two about those
that never race; nothing is assumed of clients. The properties are not inductive. That a row is marked anchored with the payload
it holds *now* depends on nobody having moved it while its runner lived
(`RunOwnsRow`, `OneLiveRun`); that its record is its own wallet's depends on what
the landed transaction did (`LandedIsRecorded`) and on the binding's owner never
changing (`BindingHasOneOwner`), since a stamp taken from the binding must name
the wallet that signed; that a version stays verifiable depends on the row having
been so when it was archived (`RowsAreAttested`, by `OwnerAttested`). `LaneInvariant`
is their conjunction, with what an open request has read (`RequestsAreWhole`). A request that commits either
finds the row as it read it and no runner, or its passport is `raced` from then on; and whatever a raced
passport's runners do later, they write its row only, and add records to a vault that forgets none.
A stamp names the owner of the binding on any passport, so that the wallet of a document stays one. The proof has one step per action. Facts that do not depend
on the action are lemmas: `VaultGrows` (records and their roots are for ever),
`OwnerAttestedStays`, `ArchiveAttested`, `StartRun` (what `AnchorRow` does),
`EndRun`, `KeepRows`, `LandKeeps`. A run checks `LaneInvariant` too.

`LogInvariant` adds what a runner that is about to mark its row has logged, and
that a succeeded step was logged of a landed transaction. `RecordsAreNeverShared` is a counting
argument over the chain: each record was brought by one transaction, since `attest` refuses one
that exists (`LandedIsNew`), and each anchored row that is not raced has the record of a
run of its own (`NextRecord`), so two rows have two.

For the refinement, `PublishInvariant` says that a live run whose transaction has landed
anchored what its passport never published (`LandsAnew`), and that one wallet, the owner of the
document, attested every version. Every step then maps to a step of `AnchorHistory` or
leaves its variables: a landing to `Land`; a request to `Aim`, if it moves the row to another
payload, to `Withdraw`, if it submits the live one again, or to nothing, as an archived anchor
only moves from the row to the end of `versions`; a marked row to `Publish`; a race to `Disown`.
An anchor whose tree could not be built is attested without a root, and the ledger of the refinement
accepts it under whichever the row shows, as verifiers do.

The browser lane is proved from less: the chain need not confirm what it is asked. `WalletInv` (types, and approvals that are whole)
says what a tracker or a sweep may move; each row that becomes 'anchoring' is shown to
get a run or a pending entry, and each that loses one to leave the state
(`LaneStarts`, `RunsLast`, `LaneLeaves`, `EntryMoves`). `LoneInvariant` is about
passports of one wallet and no server run: approvals, row and stored tree then name
one payload and one seed from the first read on.

### Proofs of claims (`ProofClaimsProofs`)

| Theorem | States |
| --- | --- |
| `ProofTypeCorrect`, `ClaimsAreBacked` | `[]ProofTypeOK`, `[]ClaimsInvariant` |
| `NeverLiesGreen` | `[]GreenIsOnChain` |
| `ProvenClaimsKeepVerifying` | `[]ListedClaimVerifies` |
| `StoredTreesOpenTheirRoots` | `[]OpeningsReproduceAnchors` |

A row of the proof log outlives the version it was made for, the job that proves it
and the process. `ClaimsInvariant` says of each row what backs it (`RowIsBacked`: one booked as
proven has its claim on a vault, and a transition names versions whose attester is known) and of each job that its rows and the calls of its transaction are the same
(`JobIsBacked`); and of the passport that the row, the stored trees and the vaults name
the same versions (`PassportIsKept`, `OpeningsAreKept`, `VaultsAreKnown`). Rows are numbered in
order (`RowsAreNumbered`), so that what a request inserts is new.

### Grants, and what the explorer shows (`ReaderProofs`)

| Theorem | States | Assumes |
| --- | --- | --- |
| `GateTypeCorrect`, `GateIsHonest` | `[]GateTypeOK`, `[]GateInvariant` | |
| `NobodyIsServedUngranted` | `[]AccessWasGranted` | |
| `RevokeReachesTheReader` | `[]RevocationReachesReader` | `Ordered` |
| `ListingsVerify` | of `MirrorSpec`: `[]ListedVerifies` | |
| `PublishesAreServed` | of `MirrorSpec`: `[]PublishedIsServed` | |

`GateInvariant` says that rows, reports, the vault and the plugin's copy of it claim no
level that no landed transaction gave. What a partner is served is computed from
the newest row that counts, or from the copy; either has been granted (`TierIsEither`).
A revoke takes effect only where one wallet's transactions land in the order of
their requests, which the jobs of a server wallet do and a browser's need not: hence
`Ordered`, for that theorem alone. `OrderInvariant` adds that rows of a lane land in
order and that the vault shows the last one that landed.

Of the mirror, `HonestInvariant` says that what is on its way, in a publish, in a round
of the sync or in the tables, was true when it was read; as anchors and proofs are
for ever on the chain, no interleaving of writers makes a mixture that does not
verify: rows and versions by the attester they name, and claims on each vault the mirror knows. `ServedInvariant` follows a publish that no other one overlaps: what it has written so
far is its snapshot's (`AloneIsInStep`), and the sync, which writes rows and only
rows it knows, cannot take it back.

### Wallets of the server (`ServerWalletProofs`)

`WalletsOpenOnce` (`[]OneOpening`, for any wallets, sessions and callers)
rests on `OpeningInvariant`: a session that is opening is the one `inflight` has for
its wallet. Whoever joins, drops a dead session or fails leaves that so, since the entry is removed
by the end of the very opening it was made for.

`HandoverIsInvariant`, `BookedRegistrationsHaveLanded` (`[]BookedHasLanded`) and `AnchoredHandoversHaveLanded`
(`AnchoredHandoverHasLanded`, a property of steps) hold of `OperatorHandover` for any wallets
and any number of registrations. The strengthening says that a row with
a runner is pending: a boot sweep closes rows and leaves no runner that could flip an owner
afterwards. Then the owner of an anchored passport is changed by `RegistrationSucceeds`, whose
transaction has landed, or by a `TransferLocally` whose request had read another status: the exception
the property names (`OvertakenHandover`), and one that costs a request each time. A handover that reads
`anchored` always goes to the chain.

### Jobs in a thread (`RemoteLaneProofs`)

| Theorem | States |
| --- | --- |
| `RemoteTypeCorrect`, `LanesStayInStep` | `[]RemoteTypeOK`, `[]RemoteInvariant` |
| `CartsBuildOnTheAnchor` | `[]BuildsSeeTheAnchor` |
| `NoCallIsForgotten` | `[]WaitingJobHasThread`, the safety half of `JobsEnd` |
| `LaneIsSilentOnceSettled` | `SettledLaneIsSilent`, a property of steps |

Three parties hold a piece of each job: the server its promise, `RemoteLaneWorker` its
pending call, the thread the attempt. `RemoteInvariant` says which combinations exist (`InStep`), that
attempts which were not sent yet have no transaction, that an anchor which was reported as done has an attempt that is
applied and indexed, and that a cart that works relies on one. Every step is one job's (`Moves`), so the others
are kept by one lemma.

### The demo's queue (`RunQueueProofs`)

| Theorem | States | Assumes |
| --- | --- | --- |
| `RunQueueTypeCorrect`, `QueueIsOrderly` | `[]TypeOK`, `[]QueueInvariant` | |
| `LeasesStayExclusive`, `NoStartIsForgotten`, `CapsAlwaysHold` | `[]LeasesAreExclusive`, `[]NextStartIsComing`, `[]CapsHold` | |
| `RunsInFlightAreCarried` | `[]InFlightIsCarried` | |

`processQueue` counts running runs and `acquireSponsor` looks at the lease map: that
a run never starts without a sponsor rests on the two being in step. It is a
counting argument: the running runs map onto the leased sponsors, there are fewer
of them than sponsors when one starts, so not every sponsor is leased
(`SponsorIsFree`). A lease would still be lost if a run could start twice, so
`QueueInvariant` adds that queued runs are booked, distinct, and not running. It is
stated of a memory record (`Orderly`), and lemmas say that starting, postponing,
releasing, appending and restarting keep it; the actions only combine these. The
caps need that the request between count and insert is the one in the lock, and
that its count still holds (`CapInvariant`); a tester's quota is compared with
the runs charged to it (`Charged`), which counts a run between the increment and
its insert. What one action does to the memory of the other runs is a lemma
(`MemoryMoves`): a run that works goes on working unless it finishes, fails or the process
dies, and then its row says so, or the boot sweep will, except for `aging` (section 4).

### Attributes and receipts (`AttributeHistoryProofs`, `GoodsReceiptsProofs`)

| Theorem | States | Assumes |
| --- | --- | --- |
| `HistoryIsInvariant` | `[]HistoryInvariant` | |
| `VersionsStayOrdered`, `NewestStaysCurrent` | `[]HistoryIsOrdered`, `[]NewestIsCurrent` | |
| `FramesApplyOnce`, `PastStaysAnswered` | `[]FrameAppliedOnce`, `[]PastIsAnswered` | |
| `ReceiptsAreSound`, `SeenStaysMinted` | `[]ReceiptsInvariant`, `[]SeenIsMinted` | |
| `PassportsAreMintedOnce` | `[]MintedOnce` | |

The heart of the first three: of the transactions that have written and not committed, one
holds rows at a time, and a transaction that read the newest versions before another one
committed has its insert refused by the unique key. So whenever "the next version is not
taken" at the insert, nothing newer than what it read exists, and its value is the newest
also in the table of current values; a telemetry tick and its baseline row need the same of
version 0. What one step does to one transaction is a lemma (`BatchMoves`), from which
the other two follow. `WindowInvariant`: a frame that was applied, or is about to be, is
remembered until two skews after it came, and two copies can only be those of the exact edges
(`AtItsEdges`): any other copy is forgotten when its frame is outside the window for good. `ReaderInvariant`: what a read has found of a past date cannot change,
as nobody starts to write behind the present (`NothingIsBackdated`).

The bridge believes answers; a call it gave up on may still be answered, and a document may
have been created by a call that failed afterwards. `ReceiptsInvariant` says that an answer
the bridge still waits for is about the receipt it is at, that a good answer stands for a row
that is committed, and that rows are never taken back. The row is that of the
receipt's passport id, which another year's receipt may have made; nothing is assumed of the ids.

### Model-checked only

The liveness properties `AnchoringSettles`, `RunsEnd`, `SponsorHeals`, `WarmthSettles`,
`JobsEnd`, `MirrorCatchesUp` and `ReceiptsAreMinted` follow from fairness, and the prover
knows neither that nor ENABLED; `NoCallIsForgotten` and `NoStartIsForgotten` are
what of them is safety. What folds or recursive definitions compute for every input
needs an induction the provers cannot do; where a proof needs such a value (the newest of a set of
numbers) it takes the definition by what it chooses.

## 6. Not modelled

- Sandbox executor: the demo's form of executor over the same pool of sponsors; a second
  copy of `RunQueue` would say little new, the two over one pool is the question left.
- DPP Life Cycle API: its store in memory is filled and persisted beside the requests; the
  read of a past date is in `AttributeHistory`.
- Diligence documents, their pending rows in the boot sweep, `anchorDocument` and `retract`.
- Of the demo: startTester and its caps, the cap per address, the ownership registration,
  the sponsor watchdog, the timeline.
- Of proofs: the expiry of claims, and how a field becomes a slot of a tree.
- Of the read gate: which column belongs to which tier (`query-guard.ts`), registerPartner.
- Of the intake: cancelled receipts, a product master that changes, `ERP_AUTO_ANCHOR` (its
  anchor is in `PassportAnchor`).
- Rendering, images, exports, static validation, HTTP headers, authentication middleware,
  the conformance checks and deployment scripts hold no state that interleaves.

## 7. Plan

What is left, in this order:

1. Sandbox and demo over one sponsor pool.
2. `dpp-api.ts`: hydration beside requests.
3. The expiry of claims, and carts across an expired one.
4. Proofs: that the browser lane publishes `AnchorHistory`, too, for passports of one wallet.
5. `ProofClaims` and `ReadGate` over READ COMMITTED.
6. Pure algorithms: `anchorTxPlan`, the planning of a cart, the allowed mask of
   `version-integrity.ts`, against reference definitions.
