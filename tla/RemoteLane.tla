------------------------------- MODULE RemoteLane -------------------------------
(***************************************************************************)
(* The remote chain lane: a detached job makes a lane for the seed that is *)
(* registered under its handle; the lane lives in a worker thread, proves  *)
(* and signs there, has the hosted NIGHTGATE sponsor and submit the bytes, *)
(* waits until the server has indexed the transaction, and rebuilds with   *)
(* new bytes after the errors it takes for retryable.                      *)
(*                                                                         *)
(* A job makes at most three calls of its lane, one after another: the     *)
(* transaction, one question about it, dispose.                            *)
(***************************************************************************)
EXTENDS Integers, FiniteSets

CONSTANTS
  Anchors,      \* jobs that anchor a passport
  Carts,        \* jobs that prove a cart of claims on what an anchor left
  MaxAttempts   \* three in the code

ASSUME RemoteAssumption ==
  /\ Anchors \cap Carts = {}
  /\ MaxAttempts \in Nat \ {0}

Jobs == Anchors \cup Carts
Attempts == 1..MaxAttempts
Methods == {"submit", "ask", "dispose"}

VARIABLES
  signers,   \* the registered handles
  runner,    \* what a detached job waits for
  outcome,   \* how its transaction was reported to it
  pending,   \* RemoteLaneWorker.pending
  worker,    \* RemoteLaneWorker.worker, and whether its thread still runs
  work,      \* what the thread is at
  attempt,   \* the attempt of buildAndSponsor
  builder,   \* the lanes whose thread holds a builder
  keys,      \* whether this process knows the directory of the prover keys
  tx,        \* the sponsored transaction of each attempt
  indexed    \* the attempts whose transaction the hosted server has indexed

thread == <<work, attempt, builder>>
chain == <<tx, indexed>>
vars == <<signers, runner, outcome, pending, worker, thread, keys, chain>>

RemoteTypeOK ==
  /\ signers \subseteq Jobs
  /\ runner \in [Jobs -> {"idle", "done"} \cup Methods]
  /\ outcome \in [Jobs -> {"none", "resolved", "partial", "failed"}]
  /\ pending \in [Jobs -> SUBSET Methods]
  /\ worker \in [Jobs -> {"none", "up", "crashed"}]
  /\ work \in [Jobs -> {"none", "connect", "build", "sponsor", "land", "pause", "ask", "dispose"}]
  /\ attempt \in [Jobs -> Attempts]
  /\ builder \subseteq Jobs
  /\ keys \in BOOLEAN
  /\ tx \in [Jobs -> [Attempts -> {"none", "sponsored", "applied", "refused", "dropped"}]]
  /\ indexed \subseteq Jobs \X Attempts
  /\ \A j \in Jobs : pending[j] \subseteq {runner[j]}

Init ==
  /\ signers = Jobs
  /\ runner = [j \in Jobs |-> "idle"]
  /\ outcome = [j \in Jobs |-> "none"]
  /\ pending = [j \in Jobs |-> {}]
  /\ worker = [j \in Jobs |-> "none"]
  /\ work = [j \in Jobs |-> "none"]
  /\ attempt = [j \in Jobs |-> 1]
  /\ builder = {}
  /\ keys = FALSE
  /\ tx = [j \in Jobs |-> [n \in Attempts |-> "none"]]
  /\ indexed = {}

-----------------------------------------------------------------------------
(* The worker's proxy: spawn, call, failAll *)

\* A call goes to the thread there is, also to one that has crashed and whose
\* exit is not known yet; without one, a new thread is started.
Call(j, method, first) ==
  /\ runner' = [runner EXCEPT ![j] = method]
  /\ pending' = [pending EXCEPT ![j] = @ \cup {method}]
  /\ worker' = [worker EXCEPT ![j] = IF @ = "none" THEN "up" ELSE @]
  /\ work' = [work EXCEPT ![j] = IF worker[j] = "crashed" THEN @ ELSE first]
  /\ builder' = IF worker[j] = "none" THEN builder \ {j} ELSE builder

\* dispose() of a lane without a thread returns at once.
Dispose(j) ==
  IF worker[j] = "none"
  THEN /\ runner' = [runner EXCEPT ![j] = "done"]
       /\ pending' = [pending EXCEPT ![j] = {}]
       /\ UNCHANGED <<worker, work, builder>>
  ELSE /\ runner' = [runner EXCEPT ![j] = "dispose"]
       /\ pending' = [pending EXCEPT ![j] = {"dispose"}]
       /\ work' = [work EXCEPT ![j] = IF worker[j] = "up" THEN "dispose" ELSE @]
       /\ UNCHANGED <<worker, builder>>

\* The job learns how its transaction went, and asks for its attester, or for
\* the claims of a partial cart; else it is through.
Report(j, verdict) ==
  /\ outcome' = [outcome EXCEPT ![j] = verdict]
  /\ runner' = [runner EXCEPT ![j] = "ask"]
  /\ pending' = [pending EXCEPT ![j] = {"ask"}]
  /\ work' = [work EXCEPT ![j] = "ask"]
  /\ UNCHANGED <<worker, builder>>

Fail(j) ==
  /\ outcome' = [outcome EXCEPT ![j] = "failed"]
  /\ Dispose(j)

-----------------------------------------------------------------------------
(* A detached job: laneFor, runAnchorDetached, runProveBatchDetached *)

\* The run that registered the seed is over.
ReleaseSigner(j) ==
  /\ j \in signers
  /\ signers' = signers \ {j}
  /\ UNCHANGED <<runner, outcome, pending, worker, thread, keys, chain>>

\* A cart is for a passport that is anchored.
StartJob(j) ==
  /\ runner[j] = "idle"
  /\ j \in Carts => \E a \in Anchors : outcome[a] = "resolved"
  /\ \/ j \in signers /\ Call(j, "submit", "connect") /\ UNCHANGED outcome
     \/ j \notin signers /\ Fail(j)
  /\ UNCHANGED <<signers, attempt, keys, chain>>

-----------------------------------------------------------------------------
(* In the thread: buildAndSponsor *)

\* The first error is passed on, and the lane tries again all the same.
RetryMutant(j) ==
  /\ attempt[j] < MaxAttempts
  /\ work' = [work EXCEPT ![j] = "pause"]
  /\ outcome' = [outcome EXCEPT ![j] = "failed"]
  /\ UNCHANGED <<signers, runner, pending, worker, attempt, builder>>

\* A rebuildable error, and an attempt is left: a pause.
Retry(j) ==
  /\ attempt[j] < MaxAttempts
  /\ work' = [work EXCEPT ![j] = "pause"]
  /\ UNCHANGED <<signers, runner, outcome, pending, worker, attempt, builder>>

\* Any other error, or the last attempt.
GiveUp(j) ==
  /\ Fail(j)
  /\ UNCHANGED <<signers, attempt>>

PauseEnds(j) ==
  /\ work[j] = "pause"
  /\ work' = [work EXCEPT ![j] = "connect"]
  /\ attempt' = [attempt EXCEPT ![j] = @ + 1]
  /\ UNCHANGED <<signers, runner, outcome, pending, worker, builder, keys, chain>>

\* The directory of the prover keys (once per process) and the builder.
Connect(j) ==
  /\ work[j] = "connect"
  /\ keys' = TRUE
  /\ builder' = builder \cup {j}
  /\ work' = [work EXCEPT ![j] = "build"]
  /\ UNCHANGED <<signers, runner, outcome, pending, worker, attempt, chain>>

\* Without the manifest the lane does not build; a failed fetch of the keys is
\* worth another attempt, with a new builder.
ConnectFails(j) ==
  /\ work[j] = "connect"
  /\ j \notin builder
  /\ \/ ~keys /\ GiveUp(j) /\ UNCHANGED keys
     \/ keys' = TRUE /\ (Retry(j) \/ GiveUp(j))
  /\ UNCHANGED chain

\* The server's state shows what the build relies on.
StateIsThere(j) ==
  j \in Carts => \E a \in Anchors, n \in Attempts : tx[a][n] = "applied" /\ <<a, n>> \in indexed

Build(j) ==
  /\ work[j] = "build"
  /\ StateIsThere(j)
  /\ work' = [work EXCEPT ![j] = "sponsor"]
  /\ UNCHANGED <<signers, runner, outcome, pending, worker, attempt, builder, keys, chain>>

\* The circuit refuses: a claim that does not hold, or a state it does not see.
BuildFails(j) ==
  /\ work[j] = "build"
  /\ GiveUp(j)
  /\ UNCHANGED <<keys, chain>>

SponsorAccepts(j) ==
  /\ work[j] = "sponsor"
  /\ tx' = [tx EXCEPT ![j][attempt[j]] = "sponsored"]
  /\ work' = [work EXCEPT ![j] = "land"]
  /\ UNCHANGED <<signers, runner, outcome, pending, worker, attempt, builder, keys, indexed>>

\* submitProofCart: what the text or the code of an error calls partial is
\* reported as partial, whatever landed.
ReportPartial(j) ==
  /\ j \in Carts
  /\ Report(j, "partial")
  /\ UNCHANGED <<signers, attempt>>

\* Refused, or an answer lost on its way: the transaction may be under way.
SponsorFails(j) ==
  /\ work[j] = "sponsor"
  /\ tx' \in {tx, [tx EXCEPT ![j][attempt[j]] = "sponsored"]}
  /\ Retry(j) \/ GiveUp(j) \/ ReportPartial(j)
  /\ UNCHANGED <<keys, indexed>>

\* The sponsor's word is enough.
LandedMutant(j) ==
  /\ work[j] = "land"
  /\ Report(j, "resolved")
  /\ UNCHANGED <<signers, attempt, keys, chain>>

\* waitLanded: the server has indexed it, and it was applied ...
Landed(j) ==
  /\ work[j] = "land"
  /\ tx[j][attempt[j]] = "applied" /\ <<j, attempt[j]>> \in indexed
  /\ Report(j, "resolved")
  /\ UNCHANGED <<signers, attempt, keys, chain>>

\* ... or it landed with failed segments: an error that names the status ...
LandedRefused(j) ==
  /\ work[j] = "land"
  /\ tx[j][attempt[j]] = "refused" /\ <<j, attempt[j]>> \in indexed
  /\ Retry(j) \/ GiveUp(j) \/ ReportPartial(j)
  /\ UNCHANGED <<keys, chain>>

\* ... or it is not indexed in time, or the server does not answer.
WaitFails(j) ==
  /\ work[j] = "land"
  /\ <<j, attempt[j]>> \notin indexed
  /\ Retry(j) \/ GiveUp(j)
  /\ UNCHANGED <<keys, chain>>

\* attesterId, verifyClaimLanded: an answer or an error, all the same here.
Answer(j) ==
  /\ work[j] = "ask"
  /\ Dispose(j)
  /\ UNCHANGED <<signers, outcome, attempt, keys, chain>>

\* The lane is released, and the thread terminated.
Disposed(j) ==
  /\ work[j] = "dispose"
  /\ runner' = [runner EXCEPT ![j] = "done"]
  /\ pending' = [pending EXCEPT ![j] = {}]
  /\ worker' = [worker EXCEPT ![j] = "none"]
  /\ work' = [work EXCEPT ![j] = "none"]
  /\ builder' = builder \ {j}
  /\ UNCHANGED <<signers, outcome, attempt, keys, chain>>

-----------------------------------------------------------------------------
(* The thread fails *)

\* What a job does when its pending call is rejected by failAll.  A dispose
\* that is rejected is over, too: the thread is terminated.
Rejected(j, left) ==
  /\ builder' = builder \ {j}
  /\ work' = [work EXCEPT ![j] = "none"]
  /\ outcome' = [outcome EXCEPT ![j] = IF runner[j] = "submit" THEN "failed" ELSE @]
  /\ IF runner[j] = "dispose" \/ left = "none"
     THEN /\ runner' = [runner EXCEPT ![j] = "done"]
          /\ pending' = [pending EXCEPT ![j] = {}]
          /\ worker' = [worker EXCEPT ![j] = "none"]
     ELSE /\ runner' = [runner EXCEPT ![j] = "dispose"]
          /\ pending' = [pending EXCEPT ![j] = {"dispose"}]
          /\ worker' = [worker EXCEPT ![j] = left]

\* 'error': every pending call is rejected; the proxy still holds the thread.
Crash(j) ==
  /\ worker[j] = "up"
  /\ Rejected(j, "crashed")
  /\ UNCHANGED <<signers, attempt, keys, chain>>

\* The proxy forgets the thread, and not what was sent to it.
ExitMutant(j) ==
  /\ worker[j] = "crashed"
  /\ worker' = [worker EXCEPT ![j] = "none"]
  /\ UNCHANGED <<signers, runner, outcome, pending, thread, keys, chain>>

\* 'exit': the calls that went to the crashed thread are rejected.
Exit(j) ==
  /\ worker[j] = "crashed"
  /\ Rejected(j, "none")
  /\ UNCHANGED <<signers, attempt, keys, chain>>

-----------------------------------------------------------------------------
(* The chain, and the hosted server's index of it *)

\* A payload is attested once: a second anchor transaction is refused.  The
\* ledger may apply a part of a cart only.
LandTx(j, n) ==
  /\ tx[j][n] = "sponsored"
  /\ \E how \in IF \E m \in Attempts : tx[j][m] = "applied" /\ j \in Anchors
                THEN {"refused"} ELSE {"applied", "refused", "dropped"} :
       tx' = [tx EXCEPT ![j][n] = how]
  /\ UNCHANGED <<signers, runner, outcome, pending, worker, thread, keys, indexed>>

Index(j, n) ==
  /\ tx[j][n] \in {"applied", "refused"}
  /\ <<j, n>> \notin indexed
  /\ indexed' = indexed \cup {<<j, n>>}
  /\ UNCHANGED <<signers, runner, outcome, pending, worker, thread, keys, tx>>

InThread(j) ==
  \/ PauseEnds(j) \/ Connect(j) \/ ConnectFails(j) \/ Build(j) \/ BuildFails(j)
  \/ SponsorAccepts(j) \/ SponsorFails(j) \/ Landed(j) \/ LandedRefused(j) \/ WaitFails(j)
  \/ Answer(j) \/ Disposed(j)

Next ==
  \E j \in Jobs :
    \/ StartJob(j) \/ ReleaseSigner(j) \/ InThread(j) \/ Crash(j) \/ Exit(j)
    \/ \E n \in Attempts : LandTx(j, n) \/ Index(j, n)

Spec == Init /\ [][Next]_vars

\* Threads go on, and the exit of one that crashed is reported.
FairSpec == Spec /\ \A j \in Jobs : WF_vars(InThread(j)) /\ WF_vars(Exit(j))

-----------------------------------------------------------------------------
(* Properties *)

\* Waiting for the index serves the next job: in every attempt a cart is built
\* on a state that shows an anchor applied ("a build on the older state fails in
\* the circuit").
BuildsSeeTheAnchor == \A j \in Carts : work[j] = "build" => StateIsThere(j)

\* Once a job was told how its transaction went, its lane sponsors nothing
\* more: no attempt goes on behind a reported error, a crash or a dispose.
SettledLaneIsSilent ==
  [][\A j \in Jobs : \A n \in Attempts :
       tx[j][n] = "none" /\ tx'[j][n] = "sponsored" => outcome[j] = "none"]_vars

\* Every detached job that was started ends: no call of a lane is forgotten
\* when its thread crashes before, between or after the calls.
JobsEnd == \A j \in Jobs : runner[j] # "idle" ~> runner[j] = "done"

=============================================================================
