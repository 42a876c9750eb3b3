---------------------------- MODULE RemoteLaneProofs ----------------------------
(***************************************************************************)
(* A cart is built on a state that shows its anchor, a remote lane is      *)
(* silent once its job was told the outcome, and no call of it waits for a *)
(* thread that is not there: for any jobs and any number of attempts,      *)
(* whatever answers are lost, transactions dropped and threads crash.      *)
(***************************************************************************)
EXTENDS RemoteLane, TLAPS

\* The thread works on the transaction, and has reported nothing.
Submitting == {"connect", "build", "sponsor", "land", "pause"}

\* Attempts whose transaction was not given to the sponsor yet.
Unsent(j, n) ==
  \/ runner[j] = "idle"
  \/ n > attempt[j]
  \/ n = attempt[j] /\ work[j] \in {"connect", "build", "sponsor"}

\* A call is never forgotten: a job that waits for one has a thread that is at
\* work, or one whose crash is known and whose exit is still to be reported.
\* (RemoteLaneWorker.failAll; what JobsEnd needs besides fairness.)
WaitingJobHasThread ==
  \A j \in Jobs : runner[j] \in Methods => work[j] # "none" \/ worker[j] = "crashed"

\* How a job that waits for r and was told o goes with a thread w at work on k in
\* attempt a: who works is up, works on what the job waits for, and has said
\* nothing of the transaction yet; who pauses has an attempt left.
InStep(r, o, w, k, a) ==
  /\ k # "none" => w = "up"
  /\ k \in Submitting => r = "submit"
  /\ k \in {"ask", "dispose"} => r = k
  /\ r = "idle" => w = "none"
  /\ r \in {"idle", "submit"} => o = "none"
  /\ r \in Methods => k # "none" \/ w = "crashed"
  /\ k = "pause" => a < MaxAttempts

Is(j, how) == \E n \in Attempts : tx[j][n] = how /\ <<j, n>> \in indexed

\* A success was applied and is indexed, and a cart was started after one.
VerdictIsTrue(j) ==
  /\ outcome[j] = "resolved" => Is(j, "applied")
  /\ runner[j] # "idle" => StateIsThere(j)

JobIsFine(j) ==
  /\ InStep(runner[j], outcome[j], worker[j], work[j], attempt[j])
  /\ \A n \in Attempts : Unsent(j, n) => tx[j][n] = "none"
  /\ VerdictIsTrue(j)

RemoteInvariant == RemoteTypeOK /\ \A j \in Jobs : JobIsFine(j)

-----------------------------------------------------------------------------
(* A step is one job's *)

\* The job now waits for r, with p pending, and was told o; its thread is w, at
\* work on k in attempt a.
Moves(j, r, p, o, w, k, a) ==
  /\ runner' = [runner EXCEPT ![j] = r]
  /\ pending' = [pending EXCEPT ![j] = p]
  /\ outcome' = [outcome EXCEPT ![j] = o]
  /\ worker' = [worker EXCEPT ![j] = w]
  /\ work' = [work EXCEPT ![j] = k]
  /\ attempt' = [attempt EXCEPT ![j] = a]

\* The sets of RemoteTypeOK.
MoveType(r, p, o, w, k, a) ==
  /\ r \in {"idle", "done"} \cup Methods
  /\ p \in SUBSET Methods /\ p \subseteq {r}
  /\ o \in {"none", "resolved", "partial", "failed"}
  /\ w \in {"none", "up", "crashed"}
  /\ k \in {"none", "connect", "build", "sponsor", "land", "pause", "ask", "dispose"}
  /\ a \in Attempts

\* The registry, the builders and the chain stay within their types, and the
\* chain keeps what it has of the other jobs.
RestIsTyped ==
  /\ signers' \subseteq Jobs /\ builder' \subseteq Jobs /\ keys' \in BOOLEAN
  /\ tx' \in [Jobs -> [Attempts -> {"none", "sponsored", "applied", "refused", "dropped"}]]
  /\ indexed' \subseteq Jobs \X Attempts
  /\ indexed \subseteq indexed'
  /\ \A i \in Jobs, n \in Attempts : tx[i][n] \in {"applied", "refused"} => tx'[i][n] = tx[i][n]

\* What the server shows, it goes on showing.
LEMMA StateStaysThere ==
  ASSUME RestIsTyped, NEW j \in Jobs, StateIsThere(j)
  PROVE  StateIsThere(j)'
BY DEF RestIsTyped, StateIsThere, Jobs

LEMMA JobMoves ==
  ASSUME RemoteInvariant, RestIsTyped, NEW j \in Jobs,
         NEW r, NEW p, NEW o, NEW w, NEW k, NEW a,
         Moves(j, r, p, o, w, k, a), MoveType(r, p, o, w, k, a), InStep(r, o, w, k, a),
         \A i \in Jobs \ {j} : tx'[i] = tx[i],
         \A n \in Attempts :
           r = "idle" \/ n > a \/ (n = a /\ k \in {"connect", "build", "sponsor"}) =>
             tx'[j][n] = "none",
         o = "resolved" => Is(j, "applied")',
         r # "idle" => runner[j] # "idle" \/ StateIsThere(j)
  PROVE  RemoteInvariant'
<1>1. RemoteTypeOK'
  BY DEF RemoteInvariant, RemoteTypeOK, RestIsTyped, Moves, MoveType
<1>2. ASSUME NEW i \in Jobs \ {j}
      PROVE  JobIsFine(i)'
  <2>1. /\ runner'[i] = runner[i] /\ outcome'[i] = outcome[i] /\ worker'[i] = worker[i]
        /\ work'[i] = work[i] /\ attempt'[i] = attempt[i] /\ tx'[i] = tx[i]
    BY <1>2 DEF RemoteInvariant, RemoteTypeOK, Moves
  <2>2. JobIsFine(i) /\ indexed \subseteq indexed'
    BY DEF RemoteInvariant, RestIsTyped
  <2>3. VerdictIsTrue(i)'
    <3>1. Is(i, "applied") => Is(i, "applied")'
      BY <2>1, <2>2 DEF Is
    <3>2. StateIsThere(i) => StateIsThere(i)'
      BY StateStaysThere
    <3> QED
      BY <2>1, <2>2, <3>1, <3>2 DEF JobIsFine, VerdictIsTrue
  <2> QED
    BY <2>1, <2>2, <2>3 DEF JobIsFine, Unsent
<1>3. JobIsFine(j)'
  <2>1. /\ runner'[j] = r /\ outcome'[j] = o /\ worker'[j] = w /\ work'[j] = k /\ attempt'[j] = a
    BY DEF RemoteInvariant, RemoteTypeOK, Moves
  <2>2. r # "idle" => StateIsThere(j)'
    BY StateStaysThere DEF RemoteInvariant, JobIsFine, VerdictIsTrue
  <2> QED
    BY <2>1, <2>2 DEF JobIsFine, Unsent, VerdictIsTrue
<1> QED
  BY <1>1, <1>2, <1>3 DEF RemoteInvariant

\* A step that leaves the chain alone and tells the job at most that it failed.
LEMMA JobMovesOffChain ==
  ASSUME RemoteInvariant, UNCHANGED chain, NEW j \in Jobs,
         signers' \subseteq Jobs, builder' \subseteq Jobs, keys' \in BOOLEAN,
         NEW r, NEW p, NEW o, NEW w, NEW k, NEW a,
         Moves(j, r, p, o, w, k, a), MoveType(r, p, o, w, k, a), InStep(r, o, w, k, a),
         o \in {outcome[j], "failed"}, a >= attempt[j],
         k \in {"connect", "build", "sponsor"} =>
           a > attempt[j] \/ runner[j] = "idle" \/ work[j] \in {"connect", "build"},
         r = "idle" => runner[j] = "idle",
         runner[j] # "idle" \/ StateIsThere(j)
  PROVE  RemoteInvariant'
<1>1. RestIsTyped
  BY DEF RemoteInvariant, RemoteTypeOK, RestIsTyped, chain
<1>2. \A n \in Attempts :
        r = "idle" \/ n > a \/ (n = a /\ k \in {"connect", "build", "sponsor"}) =>
          tx'[j][n] = "none"
  <2>1. attempt[j] \in Nat /\ a \in Nat /\ Attempts \subseteq Nat
    BY DEF RemoteInvariant, RemoteTypeOK, Attempts, MoveType
  <2>2. \A n \in Attempts : Unsent(j, n) => tx[j][n] = "none"
    BY DEF RemoteInvariant, JobIsFine
  <2>3. ASSUME NEW n \in Attempts,
               r = "idle" \/ n > a \/ (n = a /\ k \in {"connect", "build", "sponsor"})
        PROVE  Unsent(j, n)
    <3>1. CASE r = "idle" \/ n > a
      BY <2>1, <2>3, <3>1 DEF Unsent
    <3>2. CASE n = a /\ k \in {"connect", "build", "sponsor"}
      BY <2>1, <3>2 DEF Unsent
    <3> QED
      BY <2>3, <3>1, <3>2
  <2> QED
    BY <2>2, <2>3 DEF chain
<1>3. o = "resolved" => Is(j, "applied")'
  BY DEF RemoteInvariant, JobIsFine, VerdictIsTrue, Is, chain
<1> QED
  BY <1>1, <1>2, <1>3, JobMoves DEF chain

\* Where a job and its lane are.
LEMMA JobIsTyped ==
  ASSUME RemoteInvariant, NEW j \in Jobs
  PROVE  /\ MoveType(runner[j], pending[j], outcome[j], worker[j], work[j], attempt[j])
         /\ InStep(runner[j], outcome[j], worker[j], work[j], attempt[j])
         /\ signers \subseteq Jobs /\ builder \subseteq Jobs /\ keys \in BOOLEAN
BY DEF RemoteInvariant, RemoteTypeOK, MoveType, JobIsFine

\* What a step leaves alone it moves to where it is.
LEMMA NothingMoves ==
  ASSUME RemoteInvariant, NEW j \in Jobs
  PROVE  /\ UNCHANGED runner => runner' = [runner EXCEPT ![j] = runner[j]]
         /\ UNCHANGED pending => pending' = [pending EXCEPT ![j] = pending[j]]
         /\ UNCHANGED outcome => outcome' = [outcome EXCEPT ![j] = outcome[j]]
         /\ UNCHANGED worker => worker' = [worker EXCEPT ![j] = worker[j]]
         /\ UNCHANGED work => work' = [work EXCEPT ![j] = work[j]]
         /\ UNCHANGED attempt => attempt' = [attempt EXCEPT ![j] = attempt[j]]
BY DEF RemoteInvariant, RemoteTypeOK

-----------------------------------------------------------------------------
(* The helpers of the steps *)

\* A job disposes of its lane: it is through at once when there is no thread.
LEMMA JobDisposes ==
  ASSUME RemoteInvariant, UNCHANGED <<signers, attempt, chain>>, keys' \in BOOLEAN, NEW j \in Jobs,
         worker[j] \in {"none", "up"}, Dispose(j), runner[j] # "idle" \/ StateIsThere(j),
         NEW o, o \in {outcome[j], "failed"}, outcome' = [outcome EXCEPT ![j] = o]
  PROVE  RemoteInvariant'
<1>1. /\ MoveType(runner[j], pending[j], outcome[j], worker[j], work[j], attempt[j])
      /\ InStep(runner[j], outcome[j], worker[j], work[j], attempt[j])
      /\ signers' \subseteq Jobs
  BY JobIsTyped
<1>2. CASE worker[j] = "none"
  <2>1. work[j] = "none"
    BY <1>1, <1>2 DEF InStep
  <2>2. Moves(j, "done", {}, o, "none", "none", attempt[j])
    BY <1>2, <2>1, NothingMoves DEF Dispose, Moves
  <2>3. MoveType("done", {}, o, "none", "none", attempt[j]) /\ InStep("done", o, "none", "none", attempt[j])
    BY <1>1 DEF MoveType, InStep, Methods, Submitting
  <2>4. builder' \subseteq Jobs
    BY <1>2, JobIsTyped DEF Dispose
  <2> QED
    BY <1>1, <2>2, <2>3, <2>4, JobMovesOffChain DEF MoveType, Attempts
<1>3. CASE worker[j] = "up"
  <2>1. Moves(j, "dispose", {"dispose"}, o, "up", "dispose", attempt[j])
    <3>1. /\ runner' = [runner EXCEPT ![j] = "dispose"]
          /\ pending' = [pending EXCEPT ![j] = {"dispose"}]
          /\ work' = [work EXCEPT ![j] = "dispose"]
          /\ UNCHANGED worker
      BY <1>3 DEF Dispose
    <3> QED
      BY <1>3, <3>1, NothingMoves DEF Moves
  <2>2. /\ MoveType("dispose", {"dispose"}, o, "up", "dispose", attempt[j])
        /\ InStep("dispose", o, "up", "dispose", attempt[j])
    BY <1>1 DEF MoveType, InStep, Methods, Submitting
  <2>3. builder' \subseteq Jobs
    BY <1>3, JobIsTyped DEF Dispose
  <2> QED
    BY <1>1, <2>1, <2>2, <2>3, JobMovesOffChain DEF MoveType, Attempts
<1> QED
  BY <1>2, <1>3

\* A job that gives up while its thread is up waits for the thread's end.
LEMMA FailsWithThread ==
  ASSUME RemoteInvariant, NEW j \in Jobs, worker[j] = "up", Fail(j), UNCHANGED attempt
  PROVE  Moves(j, "dispose", {"dispose"}, "failed", "up", "dispose", attempt[j])
<1>1. /\ runner' = [runner EXCEPT ![j] = "dispose"]
      /\ pending' = [pending EXCEPT ![j] = {"dispose"}]
      /\ work' = [work EXCEPT ![j] = "dispose"]
      /\ outcome' = [outcome EXCEPT ![j] = "failed"]
      /\ UNCHANGED worker
  BY DEF Fail, Dispose
<1> QED
  BY <1>1, NothingMoves DEF Moves

LEMMA BuilderStays ==
  ASSUME NEW j \in Jobs, Dispose(j)
  PROVE  UNCHANGED builder
BY DEF Dispose

\* A job whose transaction is given up, before or in its thread.
LEMMA JobFails ==
  ASSUME RemoteInvariant, UNCHANGED <<signers, attempt, chain>>, keys' \in BOOLEAN, NEW j \in Jobs,
         worker[j] \in {"none", "up"}, Fail(j), runner[j] # "idle" \/ StateIsThere(j)
  PROVE  RemoteInvariant'
BY JobDisposes DEF Fail

LEMMA JobIsRejected ==
  ASSUME RemoteInvariant, UNCHANGED <<signers, attempt, keys, chain>>, NEW j \in Jobs,
         NEW left \in {"none", "crashed"}, Rejected(j, left), worker[j] # "none"
  PROVE  RemoteInvariant'
<1> DEFINE o == IF runner[j] = "submit" THEN "failed" ELSE outcome[j]
<1>1. /\ MoveType(runner[j], pending[j], outcome[j], worker[j], work[j], attempt[j])
      /\ InStep(runner[j], outcome[j], worker[j], work[j], attempt[j])
      /\ signers' \subseteq Jobs /\ keys' \in BOOLEAN
  BY JobIsTyped
<1>2. builder' \subseteq Jobs /\ o \in {outcome[j], "failed"} /\ runner[j] # "idle"
  BY <1>1, JobIsTyped DEF Rejected, InStep
<1>3. CASE runner[j] = "dispose" \/ left = "none"
  <2>1. Moves(j, "done", {}, o, "none", "none", attempt[j])
    BY <1>3, NothingMoves DEF Rejected, Moves
  <2>2. MoveType("done", {}, o, "none", "none", attempt[j]) /\ InStep("done", o, "none", "none", attempt[j])
    BY <1>1 DEF MoveType, InStep, Methods, Submitting
  <2> QED
    BY <1>1, <1>2, <2>1, <2>2, JobMovesOffChain DEF MoveType, Attempts
<1>4. CASE runner[j] # "dispose" /\ left = "crashed"
  <2>1. Moves(j, "dispose", {"dispose"}, o, "crashed", "none", attempt[j])
    BY <1>4, NothingMoves DEF Rejected, Moves
  <2>2. /\ MoveType("dispose", {"dispose"}, o, "crashed", "none", attempt[j])
        /\ InStep("dispose", o, "crashed", "none", attempt[j])
    BY <1>1 DEF MoveType, InStep, Methods, Submitting
  <2> QED
    BY <1>1, <1>2, <2>1, <2>2, JobMovesOffChain DEF MoveType, Attempts
<1> QED
  BY <1>3, <1>4


\* A step of the thread while it is at the transaction: it goes on with k.
LEMMA ThreadGoesOn ==
  ASSUME RemoteInvariant, UNCHANGED <<signers, runner, outcome, pending, worker, chain>>,
         keys' \in BOOLEAN, builder' \subseteq Jobs, NEW j \in Jobs,
         work[j] \in Submitting,
         NEW k \in Submitting, work' = [work EXCEPT ![j] = k],
         NEW a \in Attempts, attempt' = [attempt EXCEPT ![j] = a], a >= attempt[j],
         k \in {"connect", "build", "sponsor"} =>
           a > attempt[j] \/ work[j] \in {"connect", "build"},
         k = "pause" => a < MaxAttempts
  PROVE  RemoteInvariant'
<1>1. /\ MoveType(runner[j], pending[j], outcome[j], worker[j], work[j], attempt[j])
      /\ InStep(runner[j], outcome[j], worker[j], work[j], attempt[j])
      /\ signers' \subseteq Jobs
  BY JobIsTyped
<1>2. Moves(j, runner[j], pending[j], outcome[j], worker[j], k, a)
  BY NothingMoves DEF Moves
<1>3. /\ MoveType(runner[j], pending[j], outcome[j], worker[j], k, a)
      /\ InStep(runner[j], outcome[j], worker[j], k, a)
      /\ runner[j] # "idle"
  BY <1>1 DEF MoveType, InStep, Submitting
<1> QED
  BY <1>1, <1>2, <1>3, JobMovesOffChain

\* ... in the same attempt.
LEMMA ThreadStaysInAttempt ==
  ASSUME RemoteInvariant, UNCHANGED <<signers, runner, outcome, pending, worker, attempt, chain>>,
         keys' \in BOOLEAN, builder' \subseteq Jobs, NEW j \in Jobs,
         work[j] \in Submitting,
         NEW k \in Submitting, work' = [work EXCEPT ![j] = k],
         k \in {"connect", "build", "sponsor"} => work[j] \in {"connect", "build"},
         k = "pause" => attempt[j] < MaxAttempts
  PROVE  RemoteInvariant'
<1>1. attempt' = [attempt EXCEPT ![j] = attempt[j]]
  BY NothingMoves
<1>2. attempt[j] \in Attempts /\ attempt[j] >= attempt[j]
  BY JobIsTyped DEF MoveType, Attempts
<1> QED
  BY <1>1, <1>2, ThreadGoesOn

\* The job is told how it went.
LEMMA JobIsTold ==
  ASSUME RemoteInvariant, UNCHANGED <<signers, attempt, chain>>, keys' \in BOOLEAN, NEW j \in Jobs,
         work[j] \in Submitting, NEW verdict, Report(j, verdict),
         \/ verdict = "resolved" /\ Is(j, "applied")
         \/ verdict = "partial"
  PROVE  RemoteInvariant'
<1>1. /\ MoveType(runner[j], pending[j], outcome[j], worker[j], work[j], attempt[j])
      /\ InStep(runner[j], outcome[j], worker[j], work[j], attempt[j])
  BY JobIsTyped
<1>2. worker[j] = "up" /\ runner[j] # "idle"
  BY <1>1 DEF InStep, Submitting
<1>3. Moves(j, "ask", {"ask"}, verdict, "up", "ask", attempt[j])
  BY <1>2, NothingMoves DEF Report, Moves
<1>4. /\ MoveType("ask", {"ask"}, verdict, "up", "ask", attempt[j])
      /\ InStep("ask", verdict, "up", "ask", attempt[j])
  BY <1>1 DEF MoveType, InStep, Methods, Submitting
<1>5. RestIsTyped
  BY JobIsTyped DEF RemoteInvariant, RemoteTypeOK, RestIsTyped, chain, Report
<1>6. \A n \in Attempts : n > attempt[j] => tx'[j][n] = "none"
  BY DEF RemoteInvariant, JobIsFine, Unsent, chain
<1> QED
  BY <1>2, <1>3, <1>4, <1>5, <1>6, JobMoves DEF chain, Is

\* An error is worth another attempt, or it is reported.
LEMMA ThreadFails ==
  ASSUME RemoteInvariant, UNCHANGED chain, keys' \in BOOLEAN, NEW j \in Jobs,
         work[j] \in Submitting, Retry(j) \/ GiveUp(j) \/ ReportPartial(j)
  PROVE  RemoteInvariant'
<1>1. /\ MoveType(runner[j], pending[j], outcome[j], worker[j], work[j], attempt[j])
      /\ InStep(runner[j], outcome[j], worker[j], work[j], attempt[j])
      /\ builder \subseteq Jobs
  BY JobIsTyped
<1>2. CASE Retry(j)
  BY <1>1, <1>2, ThreadStaysInAttempt DEF Retry, Submitting
<1>3. CASE GiveUp(j)
  BY <1>1, <1>3, JobFails DEF GiveUp, InStep, Submitting
<1>4. CASE ReportPartial(j)
  BY <1>4, JobIsTold DEF ReportPartial
<1> QED
  BY <1>2, <1>3, <1>4

\* A step of the chain: what was never sent stays so, and what is indexed keeps
\* its outcome.
LEMMA ChainMoves ==
  ASSUME RemoteInvariant, RestIsTyped,
         UNCHANGED <<runner, outcome, pending, worker, work, attempt>>,
         \A i \in Jobs, n \in Attempts :
           /\ tx[i][n] = "none" => tx'[i][n] = "none"
           /\ tx[i][n] \in {"applied", "refused"} => tx'[i][n] = tx[i][n]
  PROVE  RemoteInvariant'
<1>1. RemoteTypeOK'
  BY DEF RemoteInvariant, RemoteTypeOK, RestIsTyped
<1>2. ASSUME NEW i \in Jobs
      PROVE  JobIsFine(i)'
  <2>1. JobIsFine(i) /\ indexed \subseteq indexed'
    BY DEF RemoteInvariant, RestIsTyped
  <2>2. (Is(i, "applied") => Is(i, "applied")') /\ (StateIsThere(i) => StateIsThere(i)')
    BY <2>1, StateStaysThere DEF Is
  <2> QED
    BY <2>1, <2>2 DEF JobIsFine, Unsent, VerdictIsTrue
<1> QED
  BY <1>1, <1>2 DEF RemoteInvariant

\* The transaction of the present attempt is given to the sponsor.
LEMMA Sponsored ==
  ASSUME RemoteInvariant, NEW j \in Jobs, work[j] = "sponsor",
         tx' = [tx EXCEPT ![j][attempt[j]] = "sponsored"], UNCHANGED indexed
  PROVE  /\ tx' \in [Jobs -> [Attempts -> {"none", "sponsored", "applied", "refused", "dropped"}]]
         /\ \A i \in Jobs \ {j} : tx'[i] = tx[i]
         /\ \A n \in Attempts : n > attempt[j] => tx'[j][n] = "none"
         /\ indexed' \subseteq Jobs \X Attempts /\ indexed \subseteq indexed'
         /\ \A i \in Jobs, n \in Attempts :
              tx[i][n] \in {"applied", "refused"} => tx'[i][n] = tx[i][n]
<1>1. /\ tx \in [Jobs -> [Attempts -> {"none", "sponsored", "applied", "refused", "dropped"}]]
      /\ attempt[j] \in Attempts
      /\ indexed \subseteq Jobs \X Attempts
  BY DEF RemoteInvariant, RemoteTypeOK
<1>2. \A n \in Attempts : n > attempt[j] => tx[j][n] = "none"
  BY DEF RemoteInvariant, JobIsFine, Unsent
<1>3. \A n \in Attempts : n > attempt[j] => n # attempt[j]
  BY <1>1 DEF Attempts
<1>4. tx[j][attempt[j]] = "none"
  BY <1>1 DEF RemoteInvariant, JobIsFine, Unsent
<1> QED
  BY <1>1, <1>2, <1>3, <1>4

-----------------------------------------------------------------------------
(* The invariant *)

LEMMA InitialState == Init => RemoteInvariant
<1> SUFFICES ASSUME Init PROVE RemoteInvariant
  OBVIOUS
<1>1. 1 \in Attempts
  BY RemoteAssumption DEF Attempts
<1>2. RemoteTypeOK
  BY <1>1 DEF Init, RemoteTypeOK, Methods
<1>3. ASSUME NEW j \in Jobs PROVE JobIsFine(j)
  BY <1>3 DEF Init, JobIsFine, InStep, Unsent, VerdictIsTrue, Submitting, Methods
<1> QED
  BY <1>2, <1>3 DEF RemoteInvariant

LEMMA ThreadKeepsInvariant ==
  ASSUME RemoteInvariant, NEW j \in Jobs, InThread(j)
  PROVE  RemoteInvariant'
<1>0. /\ MoveType(runner[j], pending[j], outcome[j], worker[j], work[j], attempt[j])
      /\ InStep(runner[j], outcome[j], worker[j], work[j], attempt[j])
      /\ signers \subseteq Jobs /\ builder \subseteq Jobs /\ keys \in BOOLEAN
  BY JobIsTyped
<1>1. CASE PauseEnds(j)
  <2>1. attempt[j] \in Attempts /\ attempt[j] < MaxAttempts
    BY <1>0, <1>1 DEF PauseEnds, InStep, MoveType
  <2>2. attempt[j] + 1 \in Attempts /\ attempt[j] + 1 > attempt[j] /\ attempt[j] + 1 >= attempt[j]
    BY <2>1, RemoteAssumption DEF Attempts
  <2>3. work[j] \in Submitting /\ "connect" \in Submitting
    BY <1>1 DEF PauseEnds, Submitting
  <2>4. /\ work' = [work EXCEPT ![j] = "connect"]
        /\ attempt' = [attempt EXCEPT ![j] = attempt[j] + 1]
        /\ UNCHANGED <<signers, runner, outcome, pending, worker, builder, keys, chain>>
    BY <1>1 DEF PauseEnds
  <2> QED
    BY <1>0, <2>2, <2>3, <2>4, ThreadGoesOn
<1>2. CASE Connect(j)
  BY <1>0, <1>2, ThreadStaysInAttempt DEF Connect, Submitting
<1>3. CASE ConnectFails(j)
  <2>1. keys' \in BOOLEAN
    BY <1>0, <1>3 DEF ConnectFails
  <2> QED
    BY <1>3, <2>1, ThreadFails DEF ConnectFails, Submitting
<1>4. CASE Build(j)
  BY <1>0, <1>4, ThreadStaysInAttempt DEF Build, Submitting
<1>5. CASE BuildFails(j)
  BY <1>0, <1>5, ThreadFails DEF BuildFails, Submitting
<1>6. CASE SponsorAccepts(j)
  <2>1. Moves(j, runner[j], pending[j], outcome[j], worker[j], "land", attempt[j])
    BY <1>6, NothingMoves DEF SponsorAccepts, Moves
  <2>2. /\ MoveType(runner[j], pending[j], outcome[j], worker[j], "land", attempt[j])
        /\ InStep(runner[j], outcome[j], worker[j], "land", attempt[j])
        /\ runner[j] = "submit" /\ outcome[j] = "none"
    BY <1>0, <1>6 DEF SponsorAccepts, MoveType, InStep, Submitting
  <2>3. RestIsTyped /\ \A i \in Jobs \ {j} : tx'[i] = tx[i]
    BY <1>0, <1>6, Sponsored DEF SponsorAccepts, RestIsTyped
  <2>4. \A n \in Attempts : n > attempt[j] => tx'[j][n] = "none"
    BY <1>6, Sponsored DEF SponsorAccepts
  <2> QED
    BY <2>1, <2>2, <2>3, <2>4, JobMoves
<1>7. CASE SponsorFails(j)
  <2>0. runner[j] # "idle"
    BY <1>0, <1>7 DEF SponsorFails, InStep, Submitting
  <2>1. CASE tx' = tx
    BY <1>0, <1>7, <2>1, ThreadFails DEF SponsorFails, Submitting, chain
  <2>2. CASE tx' = [tx EXCEPT ![j][attempt[j]] = "sponsored"]
    <3>1. RestIsTyped /\ \A i \in Jobs \ {j} : tx'[i] = tx[i]
      BY <1>0, <1>7, <2>2, Sponsored, BuilderStays DEF SponsorFails, Retry, GiveUp, Fail, ReportPartial, Report, RestIsTyped
    <3>2. \A n \in Attempts : n > attempt[j] => tx'[j][n] = "none"
      BY <1>7, <2>2, Sponsored DEF SponsorFails
    <3>3. CASE Retry(j)
      <4>1. Moves(j, runner[j], pending[j], outcome[j], worker[j], "pause", attempt[j])
        BY <3>3, NothingMoves DEF Retry, Moves
      <4>2. /\ MoveType(runner[j], pending[j], outcome[j], worker[j], "pause", attempt[j])
            /\ InStep(runner[j], outcome[j], worker[j], "pause", attempt[j])
            /\ runner[j] = "submit" /\ outcome[j] = "none"
        BY <1>0, <1>7, <3>3 DEF SponsorFails, Retry, MoveType, InStep, Submitting
      <4> QED
        BY <2>0, <3>1, <3>2, <4>1, <4>2, JobMoves
    <3>4. CASE GiveUp(j)
      <4>1. worker[j] = "up"
        BY <1>0, <1>7 DEF SponsorFails, InStep
      <4>2. Moves(j, "dispose", {"dispose"}, "failed", "up", "dispose", attempt[j])
        BY <3>4, <4>1, FailsWithThread DEF GiveUp
      <4>3. /\ MoveType("dispose", {"dispose"}, "failed", "up", "dispose", attempt[j])
            /\ InStep("dispose", "failed", "up", "dispose", attempt[j])
        BY <1>0 DEF MoveType, InStep, Methods, Submitting
      <4> QED
        BY <2>0, <3>1, <3>2, <4>2, <4>3, JobMoves
    <3>5. CASE ReportPartial(j)
      <4>1. worker[j] = "up"
        BY <1>0, <1>7 DEF SponsorFails, InStep
      <4>2. Moves(j, "ask", {"ask"}, "partial", "up", "ask", attempt[j])
        BY <3>5, <4>1, NothingMoves DEF ReportPartial, Report, Moves
      <4>3. /\ MoveType("ask", {"ask"}, "partial", "up", "ask", attempt[j])
            /\ InStep("ask", "partial", "up", "ask", attempt[j])
        BY <1>0 DEF MoveType, InStep, Methods, Submitting
      <4> QED
        BY <2>0, <3>1, <3>2, <4>2, <4>3, JobMoves
    <3> QED
      BY <1>7, <3>3, <3>4, <3>5 DEF SponsorFails
  <2> QED
    BY <1>7, <2>1, <2>2 DEF SponsorFails
<1>8. CASE Landed(j)
  BY <1>0, <1>8, JobIsTold DEF Landed, Is, MoveType, Submitting
<1>9. CASE LandedRefused(j)
  BY <1>0, <1>9, ThreadFails DEF LandedRefused, Submitting
<1>10. CASE WaitFails(j)
  BY <1>0, <1>10, ThreadFails DEF WaitFails, Submitting
<1>11. CASE Answer(j)
  <2>1. outcome' = [outcome EXCEPT ![j] = outcome[j]]
    BY <1>11, NothingMoves DEF Answer
  <2>2. worker[j] = "up" /\ runner[j] # "idle"
    BY <1>0, <1>11 DEF Answer, InStep
  <2> QED
    BY <1>0, <1>11, <2>1, <2>2, JobDisposes DEF Answer
<1>12. CASE Disposed(j)
  <2>1. Moves(j, "done", {}, outcome[j], "none", "none", attempt[j])
    BY <1>12, NothingMoves DEF Disposed, Moves
  <2>2. /\ MoveType("done", {}, outcome[j], "none", "none", attempt[j])
        /\ InStep("done", outcome[j], "none", "none", attempt[j])
    BY <1>0 DEF MoveType, InStep, Methods, Submitting
  <2>3. runner[j] # "idle"
    BY <1>0, <1>12 DEF Disposed, InStep
  <2> QED
    BY <1>0, <1>12, <2>1, <2>2, <2>3, JobMovesOffChain DEF Disposed, MoveType, Attempts
<1> QED
  BY <1>1, <1>2, <1>3, <1>4, <1>5, <1>6, <1>7, <1>8, <1>9, <1>10, <1>11, <1>12 DEF InThread

LEMMA StepKeepsInvariant ==
  ASSUME RemoteInvariant, [Next]_vars
  PROVE  RemoteInvariant'
<1>1. ASSUME NEW j \in Jobs, StartJob(j)
      PROVE  RemoteInvariant'
  <2>0. /\ MoveType(runner[j], pending[j], outcome[j], worker[j], work[j], attempt[j])
        /\ InStep(runner[j], outcome[j], worker[j], work[j], attempt[j])
        /\ signers \subseteq Jobs /\ builder \subseteq Jobs /\ keys \in BOOLEAN
    BY <1>1, JobIsTyped
  <2>1. runner[j] = "idle" /\ worker[j] = "none" /\ pending[j] = {}
    BY <1>1, <2>0 DEF StartJob, InStep, MoveType, Methods
  <2>5. StateIsThere(j)
    <3>1. CASE j \in Carts
      <4>1. PICK a \in Anchors : outcome[a] = "resolved"
        BY <1>1, <3>1 DEF StartJob
      <4>2. Is(a, "applied")
        BY <4>1 DEF RemoteInvariant, JobIsFine, VerdictIsTrue, Jobs
      <4> QED
        BY <4>2 DEF Is, StateIsThere
    <3> QED
      BY <3>1 DEF StateIsThere
  <2>2. CASE j \in signers /\ Call(j, "submit", "connect") /\ UNCHANGED outcome
    <3>1. Moves(j, "submit", {"submit"}, outcome[j], "up", "connect", attempt[j])
      BY <1>1, <2>1, <2>2, NothingMoves DEF StartJob, Call, Moves
    <3>2. /\ MoveType("submit", {"submit"}, outcome[j], "up", "connect", attempt[j])
          /\ InStep("submit", outcome[j], "up", "connect", attempt[j])
      BY <2>0, <2>1 DEF MoveType, InStep, Methods, Submitting
    <3>3. builder' \subseteq Jobs /\ UNCHANGED <<signers, attempt, keys, chain>>
      BY <1>1, <2>0, <2>2 DEF StartJob, Call
    <3> QED
      BY <1>1, <2>0, <2>1, <2>5, <3>1, <3>2, <3>3, JobMovesOffChain DEF MoveType, Attempts
  <2>3. CASE j \notin signers /\ Fail(j)
    BY <1>1, <2>0, <2>1, <2>3, <2>5, JobFails DEF StartJob
  <2> QED
    BY <1>1, <2>2, <2>3 DEF StartJob
<1>2. ASSUME NEW j \in Jobs, ReleaseSigner(j)
      PROVE  RemoteInvariant'
  <2>1. /\ RestIsTyped
        /\ UNCHANGED <<runner, outcome, pending, worker, work, attempt, chain>>
    BY <1>2 DEF ReleaseSigner, RemoteInvariant, RemoteTypeOK, RestIsTyped, thread, chain
  <2> QED
    BY <2>1, ChainMoves DEF chain
<1>3. ASSUME NEW j \in Jobs, InThread(j)
      PROVE  RemoteInvariant'
  BY <1>3, ThreadKeepsInvariant
<1>4. ASSUME NEW j \in Jobs, Crash(j)
      PROVE  RemoteInvariant'
  BY <1>4, JobIsRejected DEF Crash
<1>5. ASSUME NEW j \in Jobs, Exit(j)
      PROVE  RemoteInvariant'
  BY <1>5, JobIsRejected DEF Exit
<1>6. ASSUME NEW j \in Jobs, NEW n \in Attempts, LandTx(j, n)
      PROVE  RemoteInvariant'
  <2>1. /\ tx[j][n] = "sponsored" /\ UNCHANGED indexed
        /\ \E how \in {"applied", "refused", "dropped"} : tx' = [tx EXCEPT ![j][n] = how]
    BY <1>6 DEF LandTx
  <2>2. tx \in [Jobs -> [Attempts -> {"none", "sponsored", "applied", "refused", "dropped"}]]
    BY DEF RemoteInvariant, RemoteTypeOK
  <2>3. \A i \in Jobs, m \in Attempts :
          /\ tx[i][m] = "none" => tx'[i][m] = "none"
          /\ tx[i][m] \in {"applied", "refused"} => tx'[i][m] = tx[i][m]
    BY <2>1, <2>2
  <2>4. tx' \in [Jobs -> [Attempts -> {"none", "sponsored", "applied", "refused", "dropped"}]]
    BY <2>1, <2>2
  <2>5. RestIsTyped
    BY <1>6, <2>1, <2>4 DEF LandTx, RemoteInvariant, RemoteTypeOK, RestIsTyped, thread
  <2> QED
    BY <1>6, <2>3, <2>5, ChainMoves DEF LandTx, thread
<1>7. ASSUME NEW j \in Jobs, NEW n \in Attempts, Index(j, n)
      PROVE  RemoteInvariant'
  <2>1. RestIsTyped /\ UNCHANGED tx
    BY <1>7 DEF Index, RemoteInvariant, RemoteTypeOK, RestIsTyped, thread
  <2> QED
    BY <1>7, <2>1, ChainMoves DEF Index, thread
<1>8. CASE UNCHANGED vars
  <2>1. RestIsTyped /\ UNCHANGED <<runner, outcome, pending, worker, work, attempt, chain>>
    BY <1>8 DEF vars, thread, chain, RemoteInvariant, RemoteTypeOK, RestIsTyped
  <2> QED
    BY <2>1, ChainMoves DEF chain
<1> QED
  BY <1>1, <1>2, <1>3, <1>4, <1>5, <1>6, <1>7, <1>8 DEF Next

\* Threads and jobs stay in step.
THEOREM LanesStayInStep == Spec => []RemoteInvariant
BY InitialState, StepKeepsInvariant, PTL DEF Spec

THEOREM RemoteTypeCorrect == Spec => []RemoteTypeOK
<1>1. RemoteInvariant => RemoteTypeOK
  BY DEF RemoteInvariant
<1> QED
  BY <1>1, LanesStayInStep, PTL

\* buildAndSponsor waits for the index: whatever attempts went before, a cart is
\* built on a state that shows the anchor.
THEOREM CartsBuildOnTheAnchor == Spec => []BuildsSeeTheAnchor
<1>1. RemoteInvariant => BuildsSeeTheAnchor
  BY DEF RemoteInvariant, JobIsFine, InStep, VerdictIsTrue, Submitting, BuildsSeeTheAnchor, Jobs
<1> QED
  BY <1>1, LanesStayInStep, PTL

\* RemoteLaneWorker.failAll: no job waits for a thread that is not there.
THEOREM NoCallIsForgotten == Spec => []WaitingJobHasThread
<1>1. RemoteInvariant => WaitingJobHasThread
  BY DEF RemoteInvariant, JobIsFine, InStep, WaitingJobHasThread
<1> QED
  BY <1>1, LanesStayInStep, PTL

\* No attempt goes on behind a reported error, a crash or a dispose.
THEOREM LaneIsSilentOnceSettled == Spec => SettledLaneIsSilent
<1>1. ASSUME RemoteInvariant, [Next]_vars, NEW j \in Jobs, NEW n \in Attempts,
             tx[j][n] = "none", tx'[j][n] = "sponsored"
      PROVE  outcome[j] = "none"
  <2>1. tx \in [Jobs -> [Attempts -> {"none", "sponsored", "applied", "refused", "dropped"}]]
    BY <1>1 DEF RemoteInvariant, RemoteTypeOK
  <2>2. PICK i \in Jobs : SponsorAccepts(i) \/ SponsorFails(i)
    <3>1. tx' # tx
      BY <1>1
    <3>2. ~ \E i \in Jobs, m \in Attempts : LandTx(i, m)
      BY <1>1, <2>1 DEF LandTx
    <3> QED
      BY <1>1, <3>1, <3>2 DEF Next, InThread, StartJob, ReleaseSigner, PauseEnds, Connect,
         ConnectFails, Build, BuildFails, Landed, LandedRefused, WaitFails, Answer, Disposed,
         Crash, Exit, Index, vars, chain
  <2>3. tx' \in {tx, [tx EXCEPT ![i][attempt[i]] = "sponsored"]}
    BY <2>2 DEF SponsorAccepts, SponsorFails
  <2>4. i = j
    BY <1>1, <2>1, <2>3
  <2>5. work[j] = "sponsor" /\ InStep(runner[j], outcome[j], worker[j], work[j], attempt[j])
    BY <1>1, <2>2, <2>4, JobIsTyped DEF SponsorAccepts, SponsorFails
  <2> QED
    BY <2>5 DEF InStep, Submitting
<1>2. RemoteInvariant /\ [Next]_vars =>
        [\A j \in Jobs : \A n \in Attempts :
           tx[j][n] = "none" /\ tx'[j][n] = "sponsored" => outcome[j] = "none"]_vars
  BY <1>1
<1> QED
  BY <1>2, LanesStayInStep, PTL DEF Spec, SettledLaneIsSilent
=============================================================================
