------------------------------- MODULE RunQueue -------------------------------
(***************************************************************************)
(* The run executor of DemoService: a request passes the caps and books a  *)
(* run, the run waits in an in-memory queue, and a bounded number of       *)
(* executors carry one run each through its stages, leasing a fee sponsor  *)
(* and a vault for as long as it runs.                                     *)
(*                                                                         *)
(* Rows and quotas are in the database; mem, the cap lock and the requests *)
(* live in the process and die with it.                                    *)
(***************************************************************************)
EXTENDS Naturals, Sequences, FiniteSets

CONSTANTS
  Runs,            \* identities of runs; also bounds how many there are
  Testers, Sponsors, Vaults,
  None,            \* no lease, no tester, nobody holds the lock
  Wanted,          \* the configured concurrency
  MaxQueue, MaxPerTester, MaxPerDay,
  SecondLife,      \* whether runs may ask for the second-life act
  JobsOutliveWaits \* whether a wait may end before the job it waits for

\* What may follow each stage of executeRun.  Their names are the states that
\* are written to the row on entering them; 'warming' writes none.
Follows ==
  [warming |-> {"wallet"}, wallet |-> {"anchoring"}, anchoring |-> {"proving"},
   proving |-> {"publishing"} \cup (IF SecondLife THEN {"aging"} ELSE {}),
   aging |-> {"publishing"}, publishing |-> {"done"}]
Stages == DOMAIN Follows
InFlight == {"queued"} \cup (Stages \ {"warming"})
RowStates == {"none", "done", "failed"} \cup InFlight

\* Stages that wait for a job of the chain, and one whose failure is no
\* failure of the run.
ChainStages == {"anchoring", "proving", "aging"}
Optional == {"aging"}

ASSUME QueueAssumption ==
  /\ None \notin Runs \cup Testers \cup Sponsors \cup Vaults
  /\ {Wanted, MaxQueue, MaxPerTester, MaxPerDay} \subseteq Nat
  /\ {SecondLife, JobsOutliveWaits} \subseteq BOOLEAN

VARIABLES
  row,       \* state of each Runs row, "none" before it is booked
  used,      \* Testers.passportCount
  today,     \* the rows booked today
  testerOf,  \* whose run it is
  request,   \* where the request that books the run is
  lock,      \* the request inside withCapLock, or None
  mem,       \* the process: see Memory
  session,   \* the wallet session a run opened for its tester
  work,      \* sponsored jobs on their way to the chain: <<run, sponsor>>
  swept,     \* how far failStaleRuns of this boot is
  unmarked   \* history: failed runs whose row could not be marked

booking == <<used, today, testerOf, request, lock>>
recovery == <<swept, unmarked>>
vars == <<row, booking, mem, session, work, recovery>>

Requests == {"none", "counted", "claimed", "admitted", "settled"}
Sessions == {"none", "open"}

\* sponsor and vault are the leases, stage is where executeRun is; timer says
\* that staggerTimer is set, spaced that startStaggerMs passed since the last
\* start.
Memory == [queue : Seq(Runs), running : SUBSET Runs,
           sponsor : [Runs -> Sponsors \cup {None}],
           vault : [Runs -> Vaults \cup {None}],
           stage : [Runs -> Stages \cup {"none"}],
           timer : BOOLEAN, spaced : BOOLEAN]

TypeOK ==
  /\ row \in [Runs -> RowStates]
  /\ used \in [Testers -> 0..MaxPerTester]
  /\ today \in SUBSET Runs
  /\ testerOf \in [Runs -> Testers \cup {None}]
  /\ request \in [Runs -> Requests]
  /\ lock \in Runs \cup {None}
  /\ mem \in Memory
  /\ session \in [Runs -> Sessions]
  /\ work \in SUBSET (Runs \X (Sponsors \cup {None}))
  /\ swept \in {"due", "done", "failed"}
  /\ unmarked \in SUBSET Runs

Everywhere(x) == [r \in Runs |-> x]
FreshMemory == [queue |-> <<>>, running |-> {}, sponsor |-> Everywhere(None),
                vault |-> Everywhere(None), stage |-> Everywhere("none"),
                timer |-> FALSE, spaced |-> TRUE]

Init ==
  /\ row = Everywhere("none")
  /\ used = [t \in Testers |-> 0]
  /\ today = {}
  /\ testerOf = Everywhere(None)
  /\ request = Everywhere("none")
  /\ lock = None
  /\ mem = FreshMemory
  /\ session = Everywhere("none")
  /\ work = {}
  /\ swept = "due"
  /\ unmarked = {}

-----------------------------------------------------------------------------
(* The launcher.  Operators ending in Mutant are regressions of the next    *)
(* definition, used to show that a property notices.                        *)

\* The pool does not cap what is configured.
ConcurrencyMutant == IF Wanted = 0 THEN 1 ELSE Wanted

\* Without a pool to lease from (the remote lane) the configured value holds.
Concurrency ==
  LET pool == Cardinality(Sponsors)
      wanted == IF Sponsors # {} /\ pool < Wanted THEN pool ELSE Wanted
  IN  IF wanted = 0 THEN 1 ELSE wanted

HasSlot(m) == m.queue # <<>> /\ Cardinality(m.running) < Concurrency

FreeSponsors(m) == Sponsors \ {m.sponsor[r] : r \in Runs}

\* The vaults with the fewest runs in flight.
LeastLoaded(m) ==
  LET load(v) == Cardinality({r \in Runs : m.vault[r] = v})
  IN  {v \in Vaults : \A u \in Vaults : load(v) <= load(u)}

\* One of the set, or null when it is empty.
OneOf(S) == IF S = {} THEN {None} ELSE S

\* The head of the queue starts, with a sponsor and a vault.
Launches(m) ==
  LET r == Head(m.queue)
  IN  {[queue |-> Tail(m.queue), running |-> m.running \cup {r},
        sponsor |-> [m.sponsor EXCEPT ![r] = w], vault |-> [m.vault EXCEPT ![r] = v],
        stage |-> [m.stage EXCEPT ![r] = "warming"],
        timer |-> m.timer, spaced |-> FALSE] :
         w \in OneOf(FreeSponsors(m)), v \in OneOf(LeastLoaded(m))}

\* A start that comes too early is put off, and nobody comes back for it.
ProcessQueueMutant(m) ==
  IF HasSlot(m) /\ (m.running = {} \/ m.spaced) THEN Launches(m) ELSE {m}

(***************************************************************************)
(* processQueue turns the memory m its caller leaves into one of these:    *)
(* the head starts if a slot is free, unless another run started too       *)
(* recently: then the one timer is set.  A second start of the same call   *)
(* is always too recent: the spacing is positive.                          *)
(***************************************************************************)
ProcessQueue(m) ==
  LET putOff(n) == [n EXCEPT !.timer = @ \/ HasSlot(n)]
  IN  IF HasSlot(m) /\ (m.running = {} \/ m.spaced)
      THEN {putOff(n) : n \in Launches(m)}
      ELSE {putOff(m)}

\* The stagger timer fires.
TimerFires ==
  /\ mem.timer
  /\ mem' \in ProcessQueue([mem EXCEPT !.timer = FALSE])
  /\ UNCHANGED <<row, booking, session, work, recovery>>

\* Time passes.
StaggerPasses ==
  /\ ~mem.spaced
  /\ mem' = [mem EXCEPT !.spaced = TRUE]
  /\ UNCHANGED <<row, booking, session, work, recovery>>

NextDay ==
  /\ today # {}
  /\ today' = {}
  /\ UNCHANGED <<row, used, testerOf, request, lock, mem, session, work, recovery>>

-----------------------------------------------------------------------------
(* Booking a run *)

Depth == Len(mem.queue) + Cardinality(mem.running)

\* The check and the insert are not serialized.
EnterMutant(r, t) ==
  /\ request[r] = "none"
  /\ Depth < MaxQueue /\ Cardinality(today) < MaxPerDay
  /\ lock' = r
  /\ request' = [request EXCEPT ![r] = "counted"]
  /\ testerOf' = [testerOf EXCEPT ![r] = t]
  /\ UNCHANGED <<row, used, today, mem, session, work, recovery>>

\* A request enters the cap lock and passes the queue cap and the daily cap
\* (the cap per address counts the same rows).
Enter(r, t) ==
  /\ request[r] = "none"
  /\ lock = None
  /\ Depth < MaxQueue
  /\ Cardinality(today) < MaxPerDay
  /\ lock' = r
  /\ request' = [request EXCEPT ![r] = "counted"]
  /\ testerOf' = [testerOf EXCEPT ![r] = t]
  /\ UNCHANGED <<row, used, today, mem, session, work, recovery>>

\* The section ends without a run: 429, or a write that throws.
Refused(r) ==
  /\ request' = [request EXCEPT ![r] = "settled"]
  /\ lock' = None
  /\ UNCHANGED <<row, used, today, testerOf, mem, session, work, recovery>>

\* The tester's quota: a conditional increment that commits on its own.
ClaimTester(r) ==
  /\ request[r] = "counted"
  /\ \/ /\ used[testerOf[r]] < MaxPerTester
        /\ used' = [used EXCEPT ![testerOf[r]] = @ + 1]
        /\ request' = [request EXCEPT ![r] = "claimed"]
        /\ UNCHANGED <<row, today, testerOf, lock, mem, session, work, recovery>>
     \/ Refused(r)

\* The row is inserted, in a transaction of its own, and the lock released.
InsertRun(r) ==
  /\ request[r] = "claimed"
  /\ \/ /\ row' = [row EXCEPT ![r] = "queued"]
        /\ today' = today \cup {r}
        /\ request' = [request EXCEPT ![r] = "admitted"]
        /\ lock' = None
        /\ UNCHANGED <<used, testerOf, mem, session, work, recovery>>
     \/ Refused(r)

\* The run is queued and waits for the next event.
EnqueueMutant(r) ==
  /\ request[r] = "admitted"
  /\ request' = [request EXCEPT ![r] = "settled"]
  /\ mem' = [mem EXCEPT !.queue = Append(@, r)]
  /\ UNCHANGED <<row, used, today, testerOf, lock, session, work, recovery>>

\* The request has committed: its run enters the queue.
Enqueue(r) ==
  /\ request[r] = "admitted"
  /\ request' = [request EXCEPT ![r] = "settled"]
  /\ mem' \in ProcessQueue([mem EXCEPT !.queue = Append(@, r)])
  /\ UNCHANGED <<row, used, today, testerOf, lock, session, work, recovery>>

-----------------------------------------------------------------------------
(* executeRun *)

Busy(r) == \E w \in Sponsors \cup {None} : <<r, w>> \in work

\* connectWallet has answered; the finally block covers what follows.
OpenSession(r) ==
  /\ mem.stage[r] = "wallet"
  /\ session[r] = "none"
  /\ session' = [session EXCEPT ![r] = "open"]
  /\ UNCHANGED <<row, booking, mem, work, recovery>>

\* The next stage begins: its state is written, and in a chain stage a job is
\* submitted that the run's sponsor pays.  The stage before is over: its job
\* too, unless its failure to end in time is swallowed.
Advance(r, s) ==
  LET from == mem.stage[r]
  IN  /\ from \in Stages /\ s \in Follows[from] \ {"done"}
      /\ from = "wallet" => session[r] = "open"
      /\ ~Busy(r) \/ (from \in Optional /\ JobsOutliveWaits)
      /\ mem' = [mem EXCEPT !.stage[r] = s]
      /\ row' = [row EXCEPT ![r] = s]
      /\ work' = IF s \in ChainStages THEN work \cup {<<r, mem.sponsor[r]>>} ELSE work
      /\ UNCHANGED <<booking, session, recovery>>

WorkEnds(r) ==
  /\ Busy(r)
  /\ work' = {x \in work : x[1] # r}
  /\ UNCHANGED <<row, booking, mem, session, recovery>>

\* The executor of r is gone, and its leases with it.
Released(r) ==
  [queue |-> mem.queue, running |-> mem.running \ {r},
   sponsor |-> [mem.sponsor EXCEPT ![r] = None], vault |-> [mem.vault EXCEPT ![r] = None],
   stage |-> [mem.stage EXCEPT ![r] = "none"],
   timer |-> mem.timer, spaced |-> mem.spaced]

\* The executor of r, which is gone, left disconnectWallet on its way; nobody
\* waits for it.  What is refused, or given up on a busy database, stays open.
DisconnectWallet(r) ==
  /\ mem.stage[r] = "none"
  /\ session[r] = "open"
  /\ session' = [session EXCEPT ![r] = "none"]
  /\ UNCHANGED <<row, booking, mem, work, recovery>>

\* The last stage ended: 'done', and the queue moves on.
Finish(r) ==
  /\ mem.stage[r] \in Stages /\ "done" \in Follows[mem.stage[r]]
  /\ row' = [row EXCEPT ![r] = "done"]
  /\ mem' \in ProcessQueue(Released(r))
  /\ UNCHANGED <<booking, session, work, recovery>>

\* The row is marked, if the database lets it.
MarkFailed(r) ==
  \/ row' = [row EXCEPT ![r] = "failed"] /\ UNCHANGED unmarked
  \/ unmarked' = unmarked \cup {r} /\ UNCHANGED row

\* Any await may throw, a wait for the chain at the latest at its deadline.
\* The queue moves on.
Fail(r) ==
  /\ mem.stage[r] \in Stages
  /\ ~Busy(r) \/ JobsOutliveWaits
  /\ MarkFailed(r)
  /\ mem' \in ProcessQueue(Released(r))
  /\ UNCHANGED <<booking, session, work, swept>>

-----------------------------------------------------------------------------
(* Restarts *)

\* The process dies with its queue, sessions and jobs; rows and quotas stay.
Crash ==
  /\ mem # FreshMemory \/ lock # None \/ \E r \in Runs : request[r] = "admitted"
  /\ request' = [r \in Runs |-> IF request[r] = "none" THEN "none" ELSE "settled"]
  /\ lock' = None
  /\ mem' = FreshMemory
  /\ session' = Everywhere("none")
  /\ work' = {}
  /\ swept' = "due"
  /\ UNCHANGED <<row, used, today, testerOf, unmarked>>

StaleStates == {"queued", "wallet", "anchoring", "proving", "publishing"}

\* Runs that wait are not looked for.
FailStaleRunsMutant ==
  /\ swept = "due"
  /\ \/ /\ swept' = "done"
        /\ row' = [r \in Runs |-> IF row[r] \in StaleStates \ {"queued"} THEN "failed" ELSE row[r]]
        /\ unmarked' = {}
     \/ swept' = "failed" /\ UNCHANGED <<row, unmarked>>
  /\ UNCHANGED <<booking, mem, session, work>>

\* failStaleRuns, started at boot, not waited for and not repeated.
FailStaleRuns ==
  /\ swept = "due"
  /\ \/ /\ swept' = "done"
        /\ row' = [r \in Runs |-> IF row[r] \in StaleStates THEN "failed" ELSE row[r]]
        /\ unmarked' = {}
     \/ swept' = "failed" /\ UNCHANGED <<row, unmarked>>
  /\ UNCHANGED <<booking, mem, session, work>>

Book(r) == ClaimTester(r) \/ InsertRun(r) \/ Enqueue(r)
Execute(r) ==
  \/ OpenSession(r)
  \/ \E s \in Stages : Advance(r, s)
  \/ Finish(r) \/ Fail(r)

Next ==
  \/ \E r \in Runs :
       \/ \E t \in Testers : Enter(r, t)
       \/ Book(r) \/ Execute(r) \/ WorkEnds(r) \/ DisconnectWallet(r)
  \/ TimerFires \/ StaggerPasses \/ NextDay
  \/ Crash \/ FailStaleRuns

Spec == Init /\ [][Next]_vars

\* Requests and executors are chains of awaits that all end (every poll has a
\* deadline), timers fire, time passes, the boot sweep is started at each boot.
FairSpec ==
  /\ Spec
  /\ \A r \in Runs : WF_vars(Book(r)) /\ WF_vars(Execute(r)) /\ WF_vars(WorkEnds(r))
  /\ WF_vars(TimerFires) /\ WF_vars(StaggerPasses) /\ WF_vars(FailStaleRuns)

-----------------------------------------------------------------------------
(* What the executor promises *)

Booked(t) == {r \in Runs : testerOf[r] = t /\ row[r] # "none"}

\* A burst of requests does not get past the caps: the day's rows stay within
\* the daily budget, and a tester has no more runs than its quota was charged.
CapsHold ==
  /\ Cardinality(today) <= MaxPerDay
  /\ \A t \in Testers : Cardinality(Booked(t)) <= used[t] /\ used[t] <= MaxPerTester

Leased(m) ==
  /\ \A r \in Runs :
       /\ r \in m.running => /\ Sponsors # {} => m.sponsor[r] # None
                             /\ Vaults # {} => m.vault[r] # None
       /\ r \notin m.running => m.sponsor[r] = None /\ m.vault[r] = None
  /\ \A r, q \in m.running : m.sponsor[r] = m.sponsor[q] => r = q \/ Sponsors = {}

\* Exactly the running runs hold leases, each a sponsor of its own ("One run
\* per sponsor at a time") and a vault, as long as there are any.
LeasesAreExclusive == Leased(mem)

\* What the queue rests on: only runs in over are in it or at work, no run is
\* there twice, and an executor at a stage is a running one.
Orderly(m, over) ==
  /\ m \in Memory
  /\ IsFiniteSet(m.running) /\ m.running \subseteq over
  /\ \A i \in 1..Len(m.queue) : m.queue[i] \in over \ m.running
  /\ \A i, j \in 1..Len(m.queue) : m.queue[i] = m.queue[j] => i = j
  /\ \A r \in Runs : m.stage[r] \in Stages => r \in m.running
  /\ Leased(m)

\* The inductive invariant under which leases stay exclusive, whatever order
\* requests commit, runs end and the process restarts in.
QueueInvariant ==
  /\ request \in [Runs -> Requests] /\ row \in [Runs -> RowStates]
  /\ \A r \in Runs : request[r] = "admitted" => row[r] # "none"
  /\ Orderly(mem, {r \in Runs : request[r] = "settled" /\ row[r] # "none"})

\* No wakeup is lost: while a run waits and a slot is free, a start is coming.
NextStartIsComing == HasSlot(mem) => mem.timer

Alive(r) ==
  \/ r \in mem.running \/ request[r] = "admitted"
  \/ \E i \in DOMAIN mem.queue : mem.queue[i] = r

\* Once a boot has swept, a row in a state that it looks for is carried by this
\* process, or the database refused its mark ("Stale queued/running rows from a
\* previous process are unrecoverable ...; fail them honestly on boot").
InFlightIsCarried ==
  \A r \in Runs : row[r] \in StaleStates /\ swept = "done" => Alive(r) \/ r \in unmarked

\* A booked run ends, through any number of restarts, unless the database
\* refused the mark that was to end it.  One that a restart finds 'aging' stays
\* so: failStaleRuns does not look for it.
RunsEnd ==
  \A r \in Runs :
    row[r] \in InFlight ~>
      \/ row[r] \in {"done", "failed"} \/ r \in unmarked \/ swept = "failed"
      \/ row[r] = "aging" /\ ~Alive(r)
=============================================================================
