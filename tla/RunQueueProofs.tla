---------------------------- MODULE RunQueueProofs ----------------------------
(***************************************************************************)
(* Theorems about RunQueue, for any number of runs, testers, sponsors and  *)
(* vaults.  The argument for the leases: fewer runs are running than there *)
(* are sponsors when one starts, each of them holds one sponsor, so one is *)
(* free; and a run that starts was not running before, so what it is given *)
(* replaces no other lease.                                                *)
(***************************************************************************)
EXTENDS RunQueue, FiniteSetTheorems, SequenceTheorems, WellFoundedInduction, TLAPS

-----------------------------------------------------------------------------
(* There is something to lease *)

\* A set of naturals that is not empty has a smallest element.
LEMMA LeastNumber ==
  ASSUME NEW N \in SUBSET Nat, N # {}
  PROVE  \E x \in N : \A y \in N : x <= y
<1> DEFINE Less == {ss \in Nat \X Nat : ss[1] < ss[2]}
<1>1. IsWellFoundedOn(Less, Nat)
  BY NatLessThanWellFounded DEF OpToRel
<1> HIDE DEF Less
<1>2. PICK x \in N : \A y \in N : ~ (<<y, x>> \in Less)
  BY <1>1, WFMin
<1>3. ASSUME NEW y \in N
      PROVE  x <= y
  <2>1. y < x => <<y, x>> \in Nat \X Nat /\ <<y, x>>[1] < <<y, x>>[2]
    OBVIOUS
  <2>2. y < x => <<y, x>> \in Less
    BY <2>1 DEF Less
  <2>3. QED
    BY <1>2, <1>3, <2>2
<1>4. QED
  BY <1>3

\* While a slot is free, so is a sponsor of the pool.
LEMMA SponsorIsFree ==
  ASSUME NEW m, NEW over, Orderly(m, over), HasSlot(m), Sponsors # {}
  PROVE  FreeSponsors(m) # {}
<1>1. SUFFICES ASSUME FreeSponsors(m) = {}
               PROVE  FALSE
  OBVIOUS
<1> DEFINE f == [r \in m.running |-> m.sponsor[r]]
<1>2. /\ m \in Memory /\ IsFiniteSet(m.running) /\ Leased(m)
  BY DEF Orderly
<1>3. m.running \subseteq Runs /\ m.sponsor \in [Runs -> Sponsors \cup {None}]
  BY <1>2 DEF Memory
<1>4. \A w \in Sponsors : \E r \in m.running : m.sponsor[r] = w
  BY <1>1, <1>2, <1>3, QueueAssumption DEF FreeSponsors, Leased
<1>5. f \in Surjection(m.running, Sponsors)
  <2>1. f \in [m.running -> Sponsors]
    BY <1>2, <1>3 DEF Leased
  <2>2. \A w \in Sponsors : \E r \in m.running : f[r] = w
    BY <1>4
  <2>3. QED
    BY <2>1, <2>2 DEF Surjection
<1>6. IsFiniteSet(Sponsors) /\ Cardinality(Sponsors) <= Cardinality(m.running)
  BY <1>2, <1>5, FS_Surjection
<1>7. Cardinality(Sponsors) \in Nat /\ Cardinality(m.running) \in Nat
  BY <1>2, <1>6, FS_CardinalityType
<1>8. Cardinality(Sponsors) # 0
  BY <1>6, FS_EmptySet
<1>9. Wanted \in Nat
  BY QueueAssumption
<1>10. Concurrency <= Cardinality(Sponsors)
  BY <1>7, <1>8, <1>9 DEF Concurrency
<1>11. Concurrency \in Nat
  BY <1>7, <1>9 DEF Concurrency
<1>12. QED
  BY <1>6, <1>7, <1>10, <1>11 DEF HasSlot

\* One of the vaults has the fewest runs in flight.
LEMMA VaultIsFree ==
  ASSUME NEW m, NEW over, Orderly(m, over), Vaults # {}
  PROVE  LeastLoaded(m) # {}
<1> DEFINE load(v) == Cardinality({r \in Runs : m.vault[r] = v})
           N == {load(v) : v \in Vaults}
<1>1. ASSUME NEW v \in Vaults
      PROVE  load(v) \in Nat
  <2>1. {r \in Runs : m.vault[r] = v} \in SUBSET m.running
    BY QueueAssumption DEF Orderly, Leased
  <2>2. IsFiniteSet({r \in Runs : m.vault[r] = v})
    BY <2>1, FS_Subset DEF Orderly
  <2>3. QED
    BY <2>2, FS_CardinalityType
<1>2. N \in SUBSET Nat /\ N # {}
  BY <1>1
<1> HIDE DEF load
<1>3. PICK x \in N : \A y \in N : x <= y
  <2> HIDE DEF N
  <2>1. QED
    BY <1>2, LeastNumber
<1>4. PICK v \in Vaults : x = load(v)
  OBVIOUS
<1>5. \A u \in Vaults : load(v) <= load(u)
  BY <1>3, <1>4
<1>6. QED
  BY <1>5 DEF LeastLoaded, load

-----------------------------------------------------------------------------
(* What becomes of an orderly memory *)

\* The head of an orderly queue starts and the memory stays orderly.
LEMMA LaunchKeeps ==
  ASSUME NEW m, NEW over, Orderly(m, over), HasSlot(m), NEW n \in Launches(m)
  PROVE  Orderly(n, over)
<1> DEFINE r == Head(m.queue)
<1>1. PICK w \in OneOf(FreeSponsors(m)), v \in OneOf(LeastLoaded(m)) :
        n = [queue |-> Tail(m.queue), running |-> m.running \cup {r},
             sponsor |-> [m.sponsor EXCEPT ![r] = w], vault |-> [m.vault EXCEPT ![r] = v],
             stage |-> [m.stage EXCEPT ![r] = "warming"],
             timer |-> m.timer, spaced |-> FALSE]
  BY DEF Launches
<1>2. m \in Memory /\ m.queue \in Seq(Runs) /\ m.queue # <<>>
  BY DEF Orderly, Memory, HasSlot
<1>3. /\ r \in over \ m.running /\ r \in Runs
      /\ Tail(m.queue) \in Seq(Runs) /\ Len(Tail(m.queue)) = Len(m.queue) - 1
      /\ \A i \in 1..Len(Tail(m.queue)) : Tail(m.queue)[i] = m.queue[i + 1]
      /\ Len(m.queue) \in Nat \ {0} /\ r = m.queue[1]
  BY <1>2 DEF Orderly
<1>4. w \in Sponsors \cup {None} /\ v \in Vaults \cup {None}
  BY DEF OneOf, FreeSponsors, LeastLoaded
<1>5. Sponsors # {} => w \in FreeSponsors(m)
  BY SponsorIsFree DEF OneOf
<1>6. Vaults # {} => v \in Vaults
  BY VaultIsFree DEF OneOf, LeastLoaded
<1>7. n \in Memory
  BY <1>1, <1>2, <1>3, <1>4 DEF Memory, Stages, Follows
<1>8. /\ n.queue = Tail(m.queue) /\ n.running = m.running \cup {r}
      /\ n.sponsor = [m.sponsor EXCEPT ![r] = w]
      /\ n.vault = [m.vault EXCEPT ![r] = v]
      /\ n.stage = [m.stage EXCEPT ![r] = "warming"]
  BY <1>1, <1>2 DEF Memory
<1>9. IsFiniteSet(n.running) /\ n.running \subseteq over
  BY <1>3, <1>8, FS_AddElement DEF Orderly
<1>10. \A i \in 1..Len(n.queue) : n.queue[i] \in over \ n.running
  BY <1>3, <1>8 DEF Orderly
<1>11. \A i, j \in 1..Len(n.queue) : n.queue[i] = n.queue[j] => i = j
  BY <1>3, <1>8 DEF Orderly
<1>12. \A q \in Runs : n.stage[q] \in Stages => q \in n.running
  BY <1>2, <1>3, <1>8 DEF Orderly, Memory
<1>13. Leased(n)
  <2>1. /\ m.sponsor \in [Runs -> Sponsors \cup {None}]
        /\ m.vault \in [Runs -> Vaults \cup {None}]
        /\ m.running \subseteq Runs /\ Leased(m)
    BY <1>2 DEF Memory, Orderly
  <2>2. \A q \in Runs :
          /\ q \in n.running => /\ Sponsors # {} => n.sponsor[q] # None
                                /\ Vaults # {} => n.vault[q] # None
          /\ q \notin n.running => n.sponsor[q] = None /\ n.vault[q] = None
    BY <1>3, <1>5, <1>6, <1>8, <2>1, QueueAssumption DEF Leased, FreeSponsors
  <2>3. \A p, q \in n.running : n.sponsor[p] = n.sponsor[q] => p = q \/ Sponsors = {}
    BY <1>3, <1>5, <1>8, <2>1 DEF Leased, FreeSponsors
  <2>4. QED
    BY <2>2, <2>3 DEF Leased
<1>14. QED
  BY <1>7, <1>9, <1>10, <1>11, <1>12, <1>13 DEF Orderly

\* Timers and clocks are no part of the order.
LEMMA ClockKeeps ==
  ASSUME NEW m, NEW over, Orderly(m, over), NEW n \in Memory,
         n.queue = m.queue, n.running = m.running, n.sponsor = m.sponsor,
         n.vault = m.vault, n.stage = m.stage
  PROVE  Orderly(n, over)
BY DEF Orderly, Leased

\* So is what processQueue leaves.
LEMMA ProcessQueueKeeps ==
  ASSUME NEW m, NEW over, Orderly(m, over), NEW n \in ProcessQueue(m)
  PROVE  Orderly(n, over)
<1> DEFINE putOff(o) == [o EXCEPT !.timer = @ \/ HasSlot(o)]
<1>1. ASSUME NEW o, Orderly(o, over)
      PROVE  Orderly(putOff(o), over)
  <2>1. o \in Memory
    BY <1>1 DEF Orderly
  <2>2. (o.timer \/ HasSlot(o)) \in BOOLEAN
    OBVIOUS
  <2>3. putOff(o) \in Memory
    BY <2>1, <2>2 DEF Memory
  <2>4. /\ putOff(o).queue = o.queue /\ putOff(o).running = o.running
        /\ putOff(o).sponsor = o.sponsor /\ putOff(o).vault = o.vault
        /\ putOff(o).stage = o.stage
    BY <2>1 DEF Memory
  <2>5. QED
    BY <1>1, <2>3, <2>4, ClockKeeps
<1>2. CASE HasSlot(m) /\ (m.running = {} \/ m.spaced)
  <2>1. PICK o \in Launches(m) : n = putOff(o)
    BY <1>2 DEF ProcessQueue
  <2>2. QED
    BY <1>1, <1>2, <2>1, LaunchKeeps
<1>3. CASE ~(HasSlot(m) /\ (m.running = {} \/ m.spaced))
  <2>1. n = putOff(m)
    BY <1>3 DEF ProcessQueue
  <2>2. QED
    BY <1>1, <2>1
<1>4. QED
  BY <1>2, <1>3

\* A run that ends takes its leases along.
LEMMA ReleaseKeeps ==
  ASSUME NEW over, Orderly(mem, over), NEW r \in Runs
  PROVE  Orderly(Released(r), over)
<1> DEFINE n == Released(r)
<1>1. mem \in Memory
  BY DEF Orderly
<1>2. /\ n.queue = mem.queue /\ n.running = mem.running \ {r}
      /\ n.sponsor = [mem.sponsor EXCEPT ![r] = None]
      /\ n.vault = [mem.vault EXCEPT ![r] = None]
      /\ n.stage = [mem.stage EXCEPT ![r] = "none"]
  BY DEF Released
<1>3. n \in Memory
  BY <1>1 DEF Released, Memory
<1>4. IsFiniteSet(n.running) /\ n.running \subseteq over
  <2>1. IsFiniteSet(mem.running) /\ mem.running \subseteq over
    BY DEF Orderly
  <2>2. IsFiniteSet(mem.running \ {r})
    BY <2>1, FS_RemoveElement
  <2>3. QED
    BY <1>2, <2>1, <2>2
<1>5. /\ \A i \in 1..Len(n.queue) : n.queue[i] \in over \ n.running
      /\ \A i, j \in 1..Len(n.queue) : n.queue[i] = n.queue[j] => i = j
  BY <1>2 DEF Orderly
<1>6. \A q \in Runs : n.stage[q] \in Stages => q \in n.running
  BY <1>1, <1>2 DEF Orderly, Memory, Stages, Follows
<1>7. Leased(n)
  BY <1>1, <1>2 DEF Orderly, Memory, Leased
<1>8. QED
  BY <1>3, <1>4, <1>5, <1>6, <1>7 DEF Orderly

\* A run whose request is over joins the queue once.
LEMMA AppendKeeps ==
  ASSUME NEW over, Orderly(mem, over), NEW r \in Runs \ over
  PROVE  Orderly([mem EXCEPT !.queue = Append(@, r)], over \cup {r})
<1> DEFINE n == [mem EXCEPT !.queue = Append(@, r)]
<1>1. mem \in Memory /\ mem.queue \in Seq(Runs)
  BY DEF Orderly, Memory
<1>2. /\ n.queue = Append(mem.queue, r) /\ n.running = mem.running
      /\ n.sponsor = mem.sponsor /\ n.vault = mem.vault /\ n.stage = mem.stage
  BY <1>1 DEF Memory
<1>3. n \in Memory
  <2>1. Append(mem.queue, r) \in Seq(Runs)
    BY <1>1
  <2>2. QED
    BY <1>1, <2>1 DEF Memory
<1>4. /\ Len(n.queue) = Len(mem.queue) + 1 /\ Len(mem.queue) \in Nat
      /\ \A i \in 1..Len(mem.queue) : n.queue[i] = mem.queue[i]
      /\ n.queue[Len(n.queue)] = r
  BY <1>1, <1>2
<1>5. \A i \in 1..Len(n.queue) : i \in 1..Len(mem.queue) \/ i = Len(n.queue)
  BY <1>4
<1>6. \A i \in 1..Len(mem.queue) : mem.queue[i] \in over \ mem.running /\ mem.queue[i] # r
  BY DEF Orderly
<1>7. \A i \in 1..Len(n.queue) : n.queue[i] \in (over \cup {r}) \ n.running
  BY <1>2, <1>4, <1>5, <1>6 DEF Orderly
<1>8. \A i, j \in 1..Len(n.queue) : n.queue[i] = n.queue[j] => i = j
  BY <1>4, <1>5, <1>6 DEF Orderly
<1>9. QED
  BY <1>2, <1>3, <1>7, <1>8 DEF Orderly, Leased

\* A fresh process is orderly whoever's request is over, and so is one whose
\* requests end without a run.
LEMMA FreshIsOrderly ==
  ASSUME NEW over
  PROVE  Orderly(FreshMemory, over)
<1>1. /\ FreshMemory.queue = <<>> /\ FreshMemory.running = {}
      /\ FreshMemory.sponsor = [r \in Runs |-> None]
      /\ FreshMemory.vault = [r \in Runs |-> None]
      /\ FreshMemory.stage = [r \in Runs |-> "none"]
  BY DEF FreshMemory, Everywhere
<1>2. FreshMemory \in Memory
  BY DEF FreshMemory, Everywhere, Memory
<1>3. "none" \notin Stages
  BY DEF Stages, Follows
<1>4. QED
  BY <1>1, <1>2, <1>3, FS_EmptySet DEF Orderly, Leased

LEMMA MoreOver ==
  ASSUME NEW m, NEW over, Orderly(m, over), NEW more, over \subseteq more
  PROVE  Orderly(m, more)
BY DEF Orderly

-----------------------------------------------------------------------------
(* The invariant *)

LEMMA QueueInvariantInit == Init => QueueInvariant
BY FreshIsOrderly DEF Init, QueueInvariant, Everywhere, Requests, RowStates

\* Rows are booked once and for all, and only by the request itself.
LEMMA RowsStayBooked ==
  ASSUME QueueInvariant, [Next]_vars
  PROVE  /\ row' \in [Runs -> RowStates]
         /\ \A r \in Runs : row[r] # "none" => row'[r] # "none"
         /\ \A r \in Runs : row[r] = "none" /\ row'[r] # "none" => InsertRun(r)
<1>1. row \in [Runs -> RowStates] /\ Orderly(mem, {r \in Runs : request[r] = "settled" /\ row[r] # "none"})
  BY DEF QueueInvariant
<1>2. CASE UNCHANGED row
  BY <1>1, <1>2
<1>3. ASSUME NEW q \in Runs, InsertRun(q), row' # row
      PROVE  row' = [row EXCEPT ![q] = "queued"]
  BY <1>3 DEF InsertRun, Refused
<1>4. ASSUME NEW q \in Runs, Execute(q), row' # row
      PROVE  /\ row[q] # "none"
             /\ \E s \in {"done", "failed"} \cup (Stages \ {"warming"}) : row' = [row EXCEPT ![q] = s]
  <2>1. ASSUME NEW s \in Stages, Advance(q, s)
        PROVE  s # "warming" /\ mem.stage[q] \in Stages
    BY <2>1 DEF Advance, Stages, Follows
  <2>2. mem.stage[q] \in Stages
    BY <1>4, <2>1 DEF Execute, OpenSession, Finish, Fail
  <2>3. row[q] # "none"
    BY <1>1, <2>2 DEF Orderly
  <2>4. \E s \in {"done", "failed"} \cup (Stages \ {"warming"}) : row' = [row EXCEPT ![q] = s]
    BY <1>4, <2>1 DEF Execute, OpenSession, Advance, Finish, Fail, MarkFailed
  <2>5. QED
    BY <2>3, <2>4
<1>5. ASSUME FailStaleRuns, row' # row
      PROVE  row' = [r \in Runs |-> IF row[r] \in StaleStates THEN "failed" ELSE row[r]]
  BY <1>5 DEF FailStaleRuns
<1>6. \/ UNCHANGED row
      \/ (\E q \in Runs : InsertRun(q) \/ Execute(q)) \/ FailStaleRuns
  BY DEF Next, vars, Enter, Book, ClaimTester, Enqueue, Refused, DisconnectWallet, WorkEnds, TimerFires,
         StaggerPasses, NextDay, Crash
<1>7. "none" \notin {"done", "failed"} \cup Stages /\ "none" \notin StaleStates
  BY DEF Stages, Follows, StaleStates
<1>8. /\ {"queued", "done", "failed"} \cup (Stages \ {"warming"}) \subseteq RowStates
  BY DEF RowStates, InFlight
<1>9. CASE \E q \in Runs : InsertRun(q) /\ row' # row
  BY <1>1, <1>3, <1>8, <1>9
<1>10. CASE \E q \in Runs : Execute(q) /\ row' # row
  BY <1>1, <1>4, <1>7, <1>8, <1>10
<1>11. CASE FailStaleRuns /\ row' # row
  BY <1>1, <1>5, <1>7, <1>8, <1>11
<1>12. QED
  BY <1>2, <1>6, <1>9, <1>10, <1>11

LEMMA QueueInvariantStep == QueueInvariant /\ [Next]_vars => QueueInvariant'
<1> SUFFICES ASSUME QueueInvariant, [Next]_vars
             PROVE  QueueInvariant'
  OBVIOUS
<1> DEFINE Over == {r \in Runs : request[r] = "settled" /\ row[r] # "none"}
           Admitted == \A r \in Runs : request[r] = "admitted" => row[r] # "none"
           Good == request' \in [Runs -> Requests] /\ Admitted' /\ Orderly(mem', Over')
<1>1. /\ request \in [Runs -> Requests] /\ row \in [Runs -> RowStates] /\ Admitted
      /\ Orderly(mem, Over) /\ mem \in Memory
  BY DEF QueueInvariant, Orderly
<1>2. /\ row' \in [Runs -> RowStates]
      /\ \A r \in Runs : row[r] # "none" => row'[r] # "none"
  BY RowsStayBooked
<1>3. SUFFICES Good
  BY <1>2 DEF QueueInvariant, Orderly, Leased
<1>4. ASSUME UNCHANGED request
      PROVE  /\ request' \in [Runs -> Requests] /\ Admitted'
             /\ Over \subseteq Over'
             /\ \A m : Orderly(m, Over) => Orderly(m, Over')
  <2>1. request' \in [Runs -> Requests] /\ Admitted' /\ Over \subseteq Over'
    BY <1>1, <1>2, <1>4
  <2>2. QED
    BY <2>1, MoreOver
<1>5. ASSUME UNCHANGED request, NEW m, Orderly(m, Over), mem' \in ProcessQueue(m)
      PROVE  Good
  BY <1>4, <1>5, ProcessQueueKeeps
<1>6. ASSUME NEW r \in Runs, NEW to \in {"counted", "claimed", "admitted", "settled"},
             request' = [request EXCEPT ![r] = to], mem' = mem, request[r] # "settled",
             to = "admitted" => row'[r] # "none"
      PROVE  Good
  <2>1. request' \in [Runs -> Requests] /\ Admitted' /\ Over \subseteq Over'
    BY <1>1, <1>2, <1>6 DEF Requests
  <2>2. QED
    BY <1>1, <1>6, <2>1, MoreOver
<1>7. ASSUME NEW r \in Runs, NEW t \in Testers, Enter(r, t)
      PROVE  Good
  <2>1. request' = [request EXCEPT ![r] = "counted"] /\ mem' = mem /\ request[r] = "none"
    BY <1>7 DEF Enter
  <2>2. QED
    BY <1>6, <2>1
<1>8. ASSUME NEW r \in Runs, ClaimTester(r)
      PROVE  Good
  <2>1. /\ \E to \in {"claimed", "settled"} : request' = [request EXCEPT ![r] = to]
        /\ mem' = mem /\ request[r] = "counted"
    BY <1>8 DEF ClaimTester, Refused
  <2>2. QED
    BY <1>6, <2>1
<1>9. ASSUME NEW r \in Runs, InsertRun(r)
      PROVE  Good
  <2>1. mem' = mem /\ request[r] = "claimed"
    BY <1>9 DEF InsertRun, Refused
  <2>2. CASE request' = [request EXCEPT ![r] = "settled"]
    BY <1>6, <2>1, <2>2
  <2>3. CASE request' = [request EXCEPT ![r] = "admitted"] /\ row' = [row EXCEPT ![r] = "queued"]
    <3>1. row'[r] # "none"
      BY <1>1, <2>3
    <3>2. QED
      BY <1>6, <2>1, <2>3, <3>1
  <2>4. QED
    BY <1>9, <2>2, <2>3 DEF InsertRun, Refused
<1>10. ASSUME NEW r \in Runs, Enqueue(r)
       PROVE  Good
  <2>1. /\ request[r] = "admitted" /\ request' = [request EXCEPT ![r] = "settled"]
        /\ mem' \in ProcessQueue([mem EXCEPT !.queue = Append(@, r)])
        /\ row' = row
    BY <1>10 DEF Enqueue
  <2>2. request' \in [Runs -> Requests] /\ Admitted' /\ r \notin Over
    BY <1>1, <2>1 DEF Requests
  <2>3. Over' = Over \cup {r}
    BY <1>1, <2>1
  <2>4. Orderly([mem EXCEPT !.queue = Append(@, r)], Over')
    BY <1>1, <2>2, <2>3, AppendKeeps
  <2>5. QED
    BY <2>1, <2>2, <2>4, ProcessQueueKeeps
<1>11. ASSUME NEW r \in Runs, NEW s \in Stages, Advance(r, s)
       PROVE  Good
  <2>1. /\ UNCHANGED request /\ mem.stage[r] \in Stages
        /\ mem' = [mem EXCEPT !.stage[r] = s]
    BY <1>11 DEF Advance, booking
  <2>2. /\ mem'.queue = mem.queue /\ mem'.running = mem.running
        /\ mem'.sponsor = mem.sponsor /\ mem'.vault = mem.vault
        /\ mem'.stage = [mem.stage EXCEPT ![r] = s] /\ mem' \in Memory
    BY <1>1, <2>1 DEF Memory
  <2>3. \A q \in Runs : mem'.stage[q] \in Stages => q \in mem'.running
    BY <1>1, <2>1, <2>2 DEF Orderly, Memory
  <2>4. Orderly(mem', Over)
    BY <1>1, <2>1, <2>2, <2>3 DEF Orderly, Leased
  <2>5. QED
    BY <1>4, <2>1, <2>4
<1>12. ASSUME NEW r \in Runs, Finish(r) \/ Fail(r)
       PROVE  Good
  <2>1. UNCHANGED request /\ mem' \in ProcessQueue(Released(r))
    BY <1>12 DEF Finish, Fail, booking
  <2>2. QED
    BY <1>1, <1>5, <2>1, ReleaseKeeps
<1>13. ASSUME TimerFires
       PROVE  Good
  <2>1. UNCHANGED request /\ mem' \in ProcessQueue([mem EXCEPT !.timer = FALSE])
    BY <1>13 DEF TimerFires, booking
  <2>2. Orderly([mem EXCEPT !.timer = FALSE], Over)
    <3> DEFINE n == [mem EXCEPT !.timer = FALSE]
    <3>1. /\ n \in Memory /\ n.queue = mem.queue /\ n.running = mem.running
          /\ n.sponsor = mem.sponsor /\ n.vault = mem.vault /\ n.stage = mem.stage
      BY <1>1 DEF Memory
    <3>2. QED
      BY <1>1, <3>1, ClockKeeps
  <2>3. QED
    BY <1>5, <2>1, <2>2
<1>14. ASSUME StaggerPasses
       PROVE  Good
  <2>1. UNCHANGED request /\ mem' = [mem EXCEPT !.spaced = TRUE]
    BY <1>14 DEF StaggerPasses, booking
  <2>2. /\ mem' \in Memory /\ mem'.queue = mem.queue /\ mem'.running = mem.running
        /\ mem'.sponsor = mem.sponsor /\ mem'.vault = mem.vault /\ mem'.stage = mem.stage
    BY <1>1, <2>1 DEF Memory
  <2>3. Orderly(mem', Over)
    BY <1>1, <2>2, ClockKeeps
  <2>4. QED
    BY <1>4, <2>1, <2>3
<1>15. ASSUME Crash
       PROVE  Good
  <2>1. /\ request' = [r \in Runs |-> IF request[r] = "none" THEN "none" ELSE "settled"]
        /\ mem' = FreshMemory
    BY <1>15 DEF Crash
  <2>2. QED
    BY <2>1, FreshIsOrderly DEF Requests
<1>16. ASSUME UNCHANGED <<request, mem>>
       PROVE  Good
  BY <1>1, <1>4, <1>16
<1>17. (NextDay \/ FailStaleRuns \/ \E r \in Runs : OpenSession(r) \/ DisconnectWallet(r) \/ WorkEnds(r))
         => UNCHANGED <<request, mem>>
  BY DEF NextDay, FailStaleRuns, OpenSession, DisconnectWallet, WorkEnds, booking
<1>18. UNCHANGED vars => UNCHANGED <<request, mem>>
  BY DEF vars, booking
<1>19. QED
  <2> HIDE DEF Good
  <2>1. QED
    BY <1>7, <1>8, <1>9, <1>10, <1>11, <1>12, <1>13, <1>14, <1>15, <1>16, <1>17, <1>18
       DEF Next, Book, Execute

-----------------------------------------------------------------------------
(* What the executor keeps *)

\* The queue stays orderly: no run is queued or executed twice, and leases are
\* those of the runs at work.
THEOREM QueueIsOrderly == Spec => []QueueInvariant
<1>1. Init => QueueInvariant
  BY QueueInvariantInit
<1>2. QueueInvariant /\ [Next]_vars => QueueInvariant'
  BY QueueInvariantStep
<1>3. QED
  BY <1>1, <1>2, PTL DEF Spec

\* Every running run holds a sponsor that no other run holds, and a vault, as
\* long as any are configured; nobody else holds one (acquireSponsor,
\* acquireVault and the finally block of processQueue).
THEOREM LeasesStayExclusive == Spec => []LeasesAreExclusive
<1>1. QueueInvariant => LeasesAreExclusive
  BY DEF QueueInvariant, Orderly, LeasesAreExclusive
<1>2. QED
  BY <1>1, QueueIsOrderly, PTL

-----------------------------------------------------------------------------
(* The next start *)

\* After processQueue no start is left without a timer.
LEMMA ProcessQueueArms ==
  ASSUME NEW m, NEW over, Orderly(m, over), NEW n \in ProcessQueue(m)
  PROVE  HasSlot(n) => n.timer
<1> DEFINE putOff(o) == [o EXCEPT !.timer = @ \/ HasSlot(o)]
<1>1. PICK o : o \in Memory /\ n = putOff(o)
  <2>1. CASE HasSlot(m) /\ (m.running = {} \/ m.spaced)
    <3>1. PICK o \in Launches(m) : n = putOff(o)
      BY <2>1 DEF ProcessQueue
    <3>2. o \in Memory
      BY <2>1, <3>1, LaunchKeeps DEF Orderly
    <3>3. QED
      BY <3>1, <3>2
  <2>2. CASE ~(HasSlot(m) /\ (m.running = {} \/ m.spaced))
    BY <2>2 DEF ProcessQueue, Orderly
  <2>3. QED
    BY <2>1, <2>2
<1>2. n.queue = o.queue /\ n.running = o.running /\ n.timer = (o.timer \/ HasSlot(o))
  BY <1>1 DEF Memory
<1>3. HasSlot(n) = HasSlot(o)
  BY <1>2 DEF HasSlot
<1>4. QED
  BY <1>2, <1>3

\* Whenever a run waits and a slot is free, the stagger timer is set: every
\* event that queues or frees something ends in processQueue.
THEOREM NoStartIsForgotten == Spec => []NextStartIsComing
<1>1. Init => NextStartIsComing
  BY DEF Init, NextStartIsComing, HasSlot, FreshMemory
<1>2. ASSUME QueueInvariant, NextStartIsComing, [Next]_vars
      PROVE  NextStartIsComing'
  <2> DEFINE Over == {r \in Runs : request[r] = "settled" /\ row[r] # "none"}
  <2>1. Orderly(mem, Over) /\ mem \in Memory
    BY <1>2 DEF QueueInvariant, Orderly
  <2>2. ASSUME NEW m, NEW over, Orderly(m, over), mem' \in ProcessQueue(m)
        PROVE  NextStartIsComing'
    BY <2>2, ProcessQueueArms DEF NextStartIsComing, HasSlot
  <2>3. ASSUME mem'.queue = mem.queue, mem'.running = mem.running, mem'.timer = mem.timer
        PROVE  NextStartIsComing'
    BY <1>2, <2>3 DEF NextStartIsComing, HasSlot
  <2>4. ASSUME TimerFires
        PROVE  NextStartIsComing'
    <3> DEFINE n == [mem EXCEPT !.timer = FALSE]
    <3>1. /\ n \in Memory /\ n.queue = mem.queue /\ n.running = mem.running
          /\ n.sponsor = mem.sponsor /\ n.vault = mem.vault /\ n.stage = mem.stage
      BY <2>1 DEF Memory
    <3>2. Orderly(n, Over)
      BY <2>1, <3>1, ClockKeeps
    <3>3. mem' \in ProcessQueue(n)
      BY <2>4 DEF TimerFires
    <3>4. QED
      BY <2>2, <3>2, <3>3
  <2>5. ASSUME NEW r \in Runs, Enqueue(r)
        PROVE  NextStartIsComing'
    <3>1. mem' \in ProcessQueue([mem EXCEPT !.queue = Append(@, r)]) /\ r \notin Over
      BY <2>5 DEF Enqueue
    <3>2. Orderly([mem EXCEPT !.queue = Append(@, r)], Over \cup {r})
      BY <2>1, <3>1, AppendKeeps
    <3>3. QED
      BY <2>2, <3>1, <3>2
  <2>6. ASSUME NEW r \in Runs, Finish(r) \/ Fail(r)
        PROVE  NextStartIsComing'
    <3>1. mem' \in ProcessQueue(Released(r))
      BY <2>6 DEF Finish, Fail
    <3>2. QED
      BY <2>1, <2>2, <3>1, ReleaseKeeps
  <2>7. ASSUME NEW r \in Runs, NEW s \in Stages, Advance(r, s)
        PROVE  NextStartIsComing'
    <3>1. mem' = [mem EXCEPT !.stage[r] = s]
      BY <2>7 DEF Advance
    <3>2. QED
      BY <2>1, <2>3, <3>1 DEF Memory
  <2>8. ASSUME StaggerPasses
        PROVE  NextStartIsComing'
    <3>1. mem' = [mem EXCEPT !.spaced = TRUE]
      BY <2>8 DEF StaggerPasses
    <3>2. QED
      BY <2>1, <2>3, <3>1 DEF Memory
  <2>9. ASSUME Crash
        PROVE  NextStartIsComing'
    BY <2>9 DEF Crash, NextStartIsComing, HasSlot, FreshMemory
  <2>10. CASE UNCHANGED mem
    BY <2>3, <2>10
  <2>11. (NextDay \/ FailStaleRuns \/ UNCHANGED vars
           \/ \E r \in Runs : \/ OpenSession(r) \/ DisconnectWallet(r) \/ WorkEnds(r) \/ ClaimTester(r) \/ InsertRun(r)
                              \/ \E t \in Testers : Enter(r, t))
           => UNCHANGED mem
    BY DEF NextDay, FailStaleRuns, OpenSession, DisconnectWallet, WorkEnds, ClaimTester, InsertRun, Refused,
           Enter, vars
  <2>12. QED
    BY <1>2, <2>4, <2>5, <2>6, <2>7, <2>8, <2>9, <2>10, <2>11 DEF Next, Book, Execute
<1>3. QED
  BY <1>1, <1>2, QueueIsOrderly, PTL DEF Spec

-----------------------------------------------------------------------------
(* The caps *)

\* The runs a tester's quota was charged for and that exist or will.
Charged(t) ==
  {r \in Runs : testerOf[r] = t /\ (row[r] # "none" \/ request[r] = "claimed")}

\* Who is between the count and the insert holds the lock, and what it counted
\* still holds.
CapInvariant ==
  /\ testerOf \in [Runs -> Testers \cup {None}] /\ used \in [Testers -> Nat]
  /\ IsFiniteSet(today) /\ Cardinality(today) <= MaxPerDay
  /\ \A r \in Runs : request[r] \in {"counted", "claimed"} =>
       /\ lock = r /\ row[r] = "none" /\ testerOf[r] \in Testers
       /\ Cardinality(today) < MaxPerDay
  /\ \A r \in Runs : request[r] = "none" => row[r] = "none"
  /\ \A t \in Testers : /\ IsFiniteSet(Charged(t)) /\ Cardinality(Charged(t)) <= used[t]
                        /\ used[t] <= MaxPerTester

LEMMA CapInvariantInit == Init => CapInvariant
<1> SUFFICES ASSUME Init
             PROVE  CapInvariant
  OBVIOUS
<1>1. \A t \in Testers : Charged(t) = {}
  BY DEF Init, Everywhere, Charged
<1>2. QED
  BY <1>1, FS_EmptySet, QueueAssumption DEF Init, Everywhere, CapInvariant

\* A part of a small set is small.
LEMMA PartIsSmall ==
  ASSUME NEW A, IsFiniteSet(A), NEW B \in SUBSET A, NEW n \in Nat, Cardinality(A) <= n
  PROVE  IsFiniteSet(B) /\ Cardinality(B) <= n
<1>1. IsFiniteSet(B) /\ Cardinality(B) <= Cardinality(A)
  BY FS_Subset
<1>2. Cardinality(A) \in Nat /\ Cardinality(B) \in Nat
  BY <1>1, FS_CardinalityType
<1>3. QED
  BY <1>1, <1>2

LEMMA CapInvariantStep == QueueInvariant /\ CapInvariant /\ [Next]_vars => CapInvariant'
<1> SUFFICES ASSUME QueueInvariant, CapInvariant, [Next]_vars
             PROVE  CapInvariant'
  OBVIOUS
<1>1. /\ request \in [Runs -> Requests] /\ row \in [Runs -> RowStates]
      /\ \A r \in Runs : request[r] = "admitted" => row[r] # "none"
  BY DEF QueueInvariant
<1>2. /\ row' \in [Runs -> RowStates]
      /\ \A r \in Runs : row[r] # "none" => row'[r] # "none"
      /\ \A r \in Runs : row[r] = "none" /\ row'[r] # "none" => InsertRun(r)
  BY RowsStayBooked
<1>3. Cardinality(today) \in Nat /\ MaxPerDay \in Nat /\ MaxPerTester \in Nat /\ None \notin Runs
  BY FS_CardinalityType, QueueAssumption DEF CapInvariant
<1>4. ASSUME UNCHANGED used, \A t \in Testers : Charged(t)' \subseteq Charged(t)
      PROVE  \A t \in Testers : /\ IsFiniteSet(Charged(t)') /\ Cardinality(Charged(t)') <= used'[t]
                               /\ used'[t] <= MaxPerTester
  BY <1>4, PartIsSmall DEF CapInvariant
<1>5. CASE UNCHANGED booking
  <2>1. \A r \in Runs : row[r] = "none" => row'[r] = "none"
    BY <1>1, <1>2, <1>5 DEF InsertRun, Refused, booking, Requests
  <2>2. \A t \in Testers : Charged(t)' \subseteq Charged(t)
    BY <1>2, <1>5, <2>1 DEF Charged, booking
  <2>3. QED
    BY <1>4, <1>5, <2>1, <2>2 DEF CapInvariant, booking
<1>6. ASSUME NextDay
      PROVE  CapInvariant'
  <2>1. \A t \in Testers : Charged(t)' = Charged(t)
    BY <1>6 DEF NextDay, Charged
  <2>2. IsFiniteSet(today') /\ Cardinality(today') = 0
    BY <1>6, FS_EmptySet DEF NextDay
  <2>3. QED
    BY <1>3, <1>4, <1>6, <2>1, <2>2 DEF CapInvariant, NextDay
<1>7. ASSUME NEW r \in Runs, NEW t \in Testers, Enter(r, t)
      PROVE  CapInvariant'
  <2>1. /\ request[r] = "none" /\ lock = None /\ Cardinality(today) < MaxPerDay
        /\ lock' = r /\ request' = [request EXCEPT ![r] = "counted"]
        /\ testerOf' = [testerOf EXCEPT ![r] = t]
        /\ UNCHANGED <<row, used, today>>
    BY <1>7 DEF Enter
  <2>2. row[r] = "none" /\ \A q \in Runs : request[q] \notin {"counted", "claimed"}
    BY <1>3, <2>1 DEF CapInvariant
  <2>3. \A u \in Testers : Charged(u)' \subseteq Charged(u)
    BY <1>1, <2>1, <2>2 DEF Charged, CapInvariant
  <2>4. QED
    BY <1>1, <1>4, <2>1, <2>2, <2>3 DEF CapInvariant
<1>8. ASSUME NEW r \in Runs, request[r] \in {"counted", "claimed"}, Refused(r)
      PROVE  CapInvariant'
  <2>1. /\ request' = [request EXCEPT ![r] = "settled"] /\ lock' = None
        /\ UNCHANGED <<row, used, today, testerOf>>
    BY <1>8 DEF Refused
  <2>2. \A q \in Runs : request'[q] \notin {"counted", "claimed"}
    BY <1>1, <1>8, <2>1 DEF CapInvariant
  <2>3. \A t \in Testers : Charged(t)' \subseteq Charged(t)
    BY <1>1, <2>1, <2>2 DEF Charged
  <2>4. QED
    BY <1>1, <1>4, <2>1, <2>2, <2>3 DEF CapInvariant
<1>9. ASSUME NEW r \in Runs, ClaimTester(r)
      PROVE  CapInvariant'
  <2> DEFINE u == testerOf[r]
  <2>1. request[r] = "counted"
    BY <1>9 DEF ClaimTester
  <2>2. CASE /\ used[u] < MaxPerTester /\ used' = [used EXCEPT ![u] = @ + 1]
             /\ request' = [request EXCEPT ![r] = "claimed"]
             /\ UNCHANGED <<row, today, testerOf, lock>>
    <3>1. u \in Testers /\ row[r] = "none" /\ used \in [Testers -> Nat]
      BY <2>1 DEF CapInvariant
    <3>2. \A t \in Testers \ {u} : Charged(t)' = Charged(t) /\ used'[t] = used[t]
      BY <1>1, <2>1, <2>2, <3>1 DEF Charged
    <3>3. Charged(u)' = Charged(u) \cup {r} /\ r \notin Charged(u)
      BY <1>1, <2>1, <2>2, <3>1 DEF Charged
    <3>4. /\ IsFiniteSet(Charged(u)) /\ Cardinality(Charged(u)) <= used[u]
          /\ Cardinality(Charged(u)) \in Nat
      BY <3>1, FS_CardinalityType DEF CapInvariant
    <3>5. IsFiniteSet(Charged(u)') /\ Cardinality(Charged(u)') = Cardinality(Charged(u)) + 1
      BY <3>3, <3>4, FS_AddElement
    <3>6. used' \in [Testers -> Nat] /\ used'[u] = used[u] + 1
      BY <2>2, <3>1
    <3>7. used'[u] <= MaxPerTester /\ Cardinality(Charged(u)') <= used'[u]
      BY <1>3, <2>2, <3>1, <3>4, <3>5, <3>6
    <3>8. ASSUME NEW t \in Testers
          PROVE  /\ IsFiniteSet(Charged(t)') /\ Cardinality(Charged(t)') <= used'[t]
                 /\ used'[t] <= MaxPerTester
      <4>1. CASE t = u
        <5>1. Charged(t)' = Charged(u)'
          BY <2>2, <4>1 DEF Charged
        <5>2. QED
          BY <3>5, <3>7, <4>1, <5>1
      <4>2. CASE t # u
        <5>1. Charged(t)' = Charged(t) /\ used'[t] = used[t]
          BY <3>2, <4>2
        <5>2. /\ IsFiniteSet(Charged(t)) /\ Cardinality(Charged(t)) <= used[t]
              /\ used[t] <= MaxPerTester
          BY DEF CapInvariant
        <5>3. QED
          BY <5>1, <5>2
      <4>3. QED
        BY <4>1, <4>2
    <3>9. QED
      BY <1>1, <2>1, <2>2, <3>1, <3>6, <3>8 DEF CapInvariant
  <2>3. QED
    BY <1>8, <1>9, <2>1, <2>2 DEF ClaimTester
<1>10. ASSUME NEW r \in Runs, InsertRun(r)
       PROVE  CapInvariant'
  <2>1. request[r] = "claimed"
    BY <1>10 DEF InsertRun
  <2>2. CASE /\ row' = [row EXCEPT ![r] = "queued"] /\ today' = today \cup {r}
             /\ request' = [request EXCEPT ![r] = "admitted"] /\ lock' = None
             /\ UNCHANGED <<used, testerOf>>
    <3>1. \A q \in Runs : request'[q] \notin {"counted", "claimed"}
      BY <1>1, <2>1, <2>2 DEF CapInvariant
    <3>2. \A t \in Testers : Charged(t)' \subseteq Charged(t)
      BY <1>1, <2>1, <2>2, <3>1 DEF Charged
    <3>3. IsFiniteSet(today') /\ Cardinality(today') <= Cardinality(today) + 1
      <4>1. IsFiniteSet(today)
        BY DEF CapInvariant
      <4>2. /\ IsFiniteSet(today \cup {r})
            /\ Cardinality(today \cup {r})
                 = IF r \in today THEN Cardinality(today) ELSE Cardinality(today) + 1
        BY <4>1, FS_AddElement
      <4>3. QED
        BY <1>3, <2>2, <4>2
    <3>4. Cardinality(today') <= MaxPerDay
      <4>1. Cardinality(today') \in Nat
        BY <3>3, FS_CardinalityType
      <4>2. Cardinality(today) < MaxPerDay
        BY <2>1 DEF CapInvariant
      <4>3. QED
        BY <1>3, <3>3, <4>1, <4>2
    <3>5. QED
      BY <1>1, <1>4, <2>1, <2>2, <3>1, <3>2, <3>3, <3>4 DEF CapInvariant
  <2>3. QED
    BY <1>8, <1>10, <2>1, <2>2 DEF InsertRun
<1>11. ASSUME NEW r \in Runs, Enqueue(r)
       PROVE  CapInvariant'
  <2>1. /\ request[r] = "admitted" /\ request' = [request EXCEPT ![r] = "settled"]
        /\ UNCHANGED <<row, used, today, testerOf, lock>>
    BY <1>11 DEF Enqueue
  <2>2. \A t \in Testers : Charged(t)' \subseteq Charged(t)
    BY <1>1, <2>1 DEF Charged
  <2>3. QED
    BY <1>1, <1>4, <2>1, <2>2 DEF CapInvariant
<1>12. ASSUME Crash
       PROVE  CapInvariant'
  <2>1. /\ request' = [r \in Runs |-> IF request[r] = "none" THEN "none" ELSE "settled"]
        /\ UNCHANGED <<row, used, today, testerOf>>
    BY <1>12 DEF Crash
  <2>2. \A t \in Testers : Charged(t)' \subseteq Charged(t)
    BY <1>1, <2>1 DEF Charged
  <2>3. QED
    BY <1>1, <1>4, <2>1, <2>2 DEF CapInvariant
<1>13. (TimerFires \/ StaggerPasses \/ FailStaleRuns \/ UNCHANGED vars
         \/ \E r \in Runs : Execute(r) \/ DisconnectWallet(r) \/ WorkEnds(r)) => UNCHANGED booking
  BY DEF TimerFires, StaggerPasses, FailStaleRuns, vars, Execute, OpenSession, DisconnectWallet, Advance,
         Finish, Fail, WorkEnds
<1>14. QED
  BY <1>5, <1>6, <1>7, <1>9, <1>10, <1>11, <1>12, <1>13 DEF Next, Book

\* No burst of requests gets past the daily cap or a tester's quota, whatever
\* fails or restarts in between (withCapLock and the conditional increment).
THEOREM CapsAlwaysHold == Spec => []CapsHold
<1>1. CapInvariant => CapsHold
  <2> SUFFICES ASSUME CapInvariant
               PROVE  CapsHold
    OBVIOUS
  <2>1. \A t \in Testers : Booked(t) \subseteq Charged(t)
    BY DEF Booked, Charged
  <2>2. \A t \in Testers : Cardinality(Booked(t)) <= used[t]
    BY <2>1, PartIsSmall DEF CapInvariant
  <2>3. QED
    BY <2>2 DEF CapInvariant, CapsHold
<1>2. Init => CapInvariant
  BY CapInvariantInit
<1>3. QueueInvariant /\ CapInvariant /\ [Next]_vars => CapInvariant'
  BY CapInvariantStep
<1>4. QED
  BY <1>1, <1>2, <1>3, QueueIsOrderly, PTL DEF Spec

-----------------------------------------------------------------------------
(* Types *)

\* The variables that the two invariants say nothing of.
RestOK ==
  /\ today \in SUBSET Runs
  /\ lock \in Runs \cup {None}
  /\ session \in [Runs -> Sessions]
  /\ work \in SUBSET (Runs \X (Sponsors \cup {None}))
  /\ swept \in {"due", "done", "failed"}
  /\ unmarked \in SUBSET Runs

LEMMA RestStep == QueueInvariant /\ RestOK /\ [Next]_vars => RestOK'
<1> SUFFICES ASSUME QueueInvariant, RestOK, [Next]_vars
             PROVE  RestOK'
  OBVIOUS
<1>1. mem.sponsor \in [Runs -> Sponsors \cup {None}]
  BY DEF QueueInvariant, Orderly, Memory
<1>2. ASSUME NEW r \in Runs, NEW t \in Testers, Enter(r, t)
      PROVE  RestOK'
  BY <1>2 DEF Enter, recovery, RestOK
<1>3. ASSUME NEW r \in Runs, Book(r)
      PROVE  RestOK'
  BY <1>3 DEF Book, ClaimTester, InsertRun, Enqueue, Refused, recovery, RestOK
<1>4. ASSUME NEW r \in Runs, NEW s \in Stages, Advance(r, s)
      PROVE  RestOK'
  <2>1. /\ work' \in {work, work \cup {<<r, mem.sponsor[r]>>}}
        /\ UNCHANGED <<today, lock, session, swept, unmarked>>
    BY <1>4 DEF Advance, booking, recovery
  <2>2. QED
    BY <1>1, <2>1 DEF RestOK
<1>5. ASSUME NEW r \in Runs, OpenSession(r) \/ DisconnectWallet(r) \/ Finish(r) \/ Fail(r)
      PROVE  RestOK'
  BY <1>5 DEF OpenSession, DisconnectWallet, Finish, Fail, MarkFailed, Sessions, booking, recovery,
              RestOK
<1>6. ASSUME NEW r \in Runs, WorkEnds(r)
      PROVE  RestOK'
  BY <1>6 DEF WorkEnds, booking, recovery, RestOK
<1>7. ASSUME TimerFires \/ StaggerPasses \/ NextDay \/ FailStaleRuns \/ UNCHANGED vars
      PROVE  RestOK'
  BY <1>7 DEF TimerFires, StaggerPasses, NextDay, FailStaleRuns, vars, booking, recovery, RestOK
<1>8. ASSUME Crash
      PROVE  RestOK'
  BY <1>8 DEF Crash, Everywhere, Sessions, RestOK
<1>9. QED
  BY <1>2, <1>3, <1>4, <1>5, <1>6, <1>7, <1>8 DEF Next, Execute

\* Every reachable state is well typed.
THEOREM RunQueueTypeCorrect == Spec => []TypeOK
<1>1. Init => RestOK
  BY DEF Init, Everywhere, Sessions, RestOK
<1>2. QueueInvariant /\ CapInvariant /\ RestOK => TypeOK
  <2> SUFFICES ASSUME QueueInvariant, CapInvariant, RestOK
               PROVE  TypeOK
    OBVIOUS
  <2>1. used \in [Testers -> 0..MaxPerTester]
    BY QueueAssumption DEF CapInvariant
  <2>2. QED
    BY <2>1 DEF QueueInvariant, CapInvariant, RestOK, Orderly, TypeOK
<1>3. QED
  BY <1>1, <1>2, RestStep, QueueIsOrderly, CapInvariantInit, CapInvariantStep, PTL DEF Spec

-----------------------------------------------------------------------------
(* Sessions, and runs in flight *)

\* A run that is queued or running, and one whose executor is past the start.
Carries(m, r) == r \in m.running \/ \E i \in DOMAIN m.queue : m.queue[i] = r
Working(m, r) == m.stage[r] \in Stages \ {"warming"}

\* processQueue drops no run and disturbs no executor.
LEMMA LaunchMoves ==
  ASSUME NEW m, NEW over, Orderly(m, over), HasSlot(m), NEW n \in Launches(m), NEW q \in Runs
  PROVE  /\ Carries(m, q) => Carries(n, q)
         /\ Working(m, q) => Working(n, q)
<1> DEFINE r == Head(m.queue)
<1>1. PICK w \in OneOf(FreeSponsors(m)), v \in OneOf(LeastLoaded(m)) :
        n = [queue |-> Tail(m.queue), running |-> m.running \cup {r},
             sponsor |-> [m.sponsor EXCEPT ![r] = w], vault |-> [m.vault EXCEPT ![r] = v],
             stage |-> [m.stage EXCEPT ![r] = "warming"],
             timer |-> m.timer, spaced |-> FALSE]
  BY DEF Launches
<1>2. m.queue \in Seq(Runs) /\ m.queue # <<>> /\ m.stage \in [Runs -> Stages \cup {"none"}]
  BY DEF Orderly, Memory, HasSlot
<1>3. /\ Len(m.queue) \in Nat \ {0} /\ DOMAIN m.queue = 1..Len(m.queue) /\ r = m.queue[1]
      /\ DOMAIN Tail(m.queue) = 1..(Len(m.queue) - 1)
      /\ \A i \in 1..(Len(m.queue) - 1) : Tail(m.queue)[i] = m.queue[i + 1]
  BY <1>2
<1>4. /\ n.queue = Tail(m.queue) /\ n.running = m.running \cup {r}
      /\ n.stage = [m.stage EXCEPT ![r] = "warming"]
  BY <1>1
<1>5. ASSUME NEW i \in DOMAIN m.queue, m.queue[i] = q, q # r
      PROVE  Carries(n, q)
  <2>1. i - 1 \in 1..(Len(m.queue) - 1) /\ (i - 1) + 1 = i
    BY <1>3, <1>5
  <2>2. Tail(m.queue)[i - 1] = q
    BY <1>3, <1>5, <2>1
  <2>3. QED
    BY <1>3, <1>4, <2>1, <2>2 DEF Carries
<1>6. Carries(m, q) => Carries(n, q)
  BY <1>4, <1>5 DEF Carries
<1>7. r \notin m.running
  BY <1>3 DEF Orderly
<1>8. Working(m, q) => q # r
  BY <1>7 DEF Working, Orderly
<1>9. QED
  BY <1>2, <1>4, <1>6, <1>8 DEF Working

LEMMA ProcessQueueMoves ==
  ASSUME NEW m, NEW over, Orderly(m, over), NEW n \in ProcessQueue(m), NEW q \in Runs
  PROVE  /\ Carries(m, q) => Carries(n, q)
         /\ Working(m, q) => Working(n, q)
<1> DEFINE putOff(o) == [o EXCEPT !.timer = @ \/ HasSlot(o)]
<1>1. ASSUME NEW o, Orderly(o, over)
      PROVE  /\ putOff(o).queue = o.queue /\ putOff(o).running = o.running
             /\ putOff(o).stage = o.stage
  BY <1>1 DEF Orderly, Memory
<1>2. CASE HasSlot(m) /\ (m.running = {} \/ m.spaced)
  <2>1. PICK o \in Launches(m) : n = putOff(o)
    BY <1>2 DEF ProcessQueue
  <2>2. /\ Orderly(o, over)
        /\ Carries(m, q) => Carries(o, q)
        /\ Working(m, q) => Working(o, q)
    BY <1>2, LaunchKeeps, LaunchMoves
  <2>3. n.queue = o.queue /\ n.running = o.running /\ n.stage = o.stage
    BY <1>1, <2>1, <2>2
  <2>4. QED
    BY <2>2, <2>3 DEF Carries, Working
<1>3. CASE ~(HasSlot(m) /\ (m.running = {} \/ m.spaced))
  <2>1. n = putOff(m)
    BY <1>3 DEF ProcessQueue
  <2>2. n.queue = m.queue /\ n.running = m.running /\ n.stage = m.stage
    BY <1>1, <2>1
  <2>3. QED
    BY <2>2 DEF Carries, Working
<1>4. QED
  BY <1>2, <1>3

\* What becomes of the runs of the process in each kind of step.
LEMMA MemoryMoves ==
  ASSUME QueueInvariant, [Next]_vars
  PROVE  \/ Crash
         \/ \E r \in Runs :
              /\ Finish(r) \/ Fail(r)
              /\ \A q \in Runs \ {r} : /\ Carries(mem, q) => Carries(mem', q)
                                       /\ Working(mem, q) => Working(mem', q)
         \/ /\ ~ \E r \in Runs : Finish(r) \/ Fail(r)
            /\ \A q \in Runs : /\ Carries(mem, q) => Carries(mem', q)
                               /\ Working(mem, q) => Working(mem', q)
                               /\ Enqueue(q) => Carries(mem', q)
<1> DEFINE Over == {r \in Runs : request[r] = "settled" /\ row[r] # "none"}
           Moves(q) == /\ Carries(mem, q) => Carries(mem', q)
                       /\ Working(mem, q) => Working(mem', q)
<1>1. Orderly(mem, Over) /\ mem \in Memory
  BY DEF QueueInvariant, Orderly
<1>2. ASSUME NEW m, NEW over, Orderly(m, over), mem' \in ProcessQueue(m), NEW q \in Runs,
             Carries(mem, q) => Carries(m, q), Working(mem, q) => Working(m, q)
      PROVE  Moves(q) /\ (Carries(m, q) => Carries(mem', q))
  BY <1>2, ProcessQueueMoves
<1>3. ASSUME NEW r \in Runs, Finish(r) \/ Fail(r), NEW q \in Runs \ {r}
      PROVE  Moves(q)
  <2>1. mem' \in ProcessQueue(Released(r)) /\ Orderly(Released(r), Over)
    BY <1>1, <1>3, ReleaseKeeps DEF Finish, Fail
  <2>2. /\ Released(r).queue = mem.queue /\ Released(r).running = mem.running \ {r}
        /\ Released(r).stage = [mem.stage EXCEPT ![r] = "none"]
        /\ mem.stage \in [Runs -> Stages \cup {"none"}]
    BY <1>1 DEF Released, Memory
  <2>3. /\ Carries(mem, q) => Carries(Released(r), q)
        /\ Working(mem, q) => Working(Released(r), q)
    BY <1>3, <2>2 DEF Carries, Working
  <2>4. QED
    BY <1>2, <2>1, <2>3
<1>4. ASSUME TimerFires, NEW q \in Runs
      PROVE  Moves(q)
  <2> DEFINE n == [mem EXCEPT !.timer = FALSE]
  <2>1. /\ n \in Memory /\ n.queue = mem.queue /\ n.running = mem.running
        /\ n.sponsor = mem.sponsor /\ n.vault = mem.vault /\ n.stage = mem.stage
    BY <1>1 DEF Memory
  <2>2. Orderly(n, Over) /\ mem' \in ProcessQueue(n)
    BY <1>1, <1>4, <2>1, ClockKeeps DEF TimerFires
  <2>3. Carries(mem, q) => Carries(n, q)
    BY <2>1 DEF Carries
  <2>4. Working(mem, q) => Working(n, q)
    BY <2>1 DEF Working
  <2> HIDE DEF n
  <2>5. QED
    BY <1>2, <2>2, <2>3, <2>4
<1>5. ASSUME NEW r \in Runs, Enqueue(r), NEW q \in Runs
      PROVE  Moves(q) /\ (q = r => Carries(mem', q))
  <2> DEFINE n == [mem EXCEPT !.queue = Append(@, r)]
  <2>1. mem' \in ProcessQueue(n) /\ r \notin Over
    BY <1>5 DEF Enqueue
  <2>2. Orderly(n, Over \cup {r})
    BY <1>1, <2>1, AppendKeeps
  <2>3. /\ n.queue = Append(mem.queue, r) /\ n.running = mem.running /\ n.stage = mem.stage
        /\ mem.queue \in Seq(Runs)
    BY <1>1 DEF Memory
  <2>4. /\ DOMAIN mem.queue \subseteq DOMAIN n.queue
        /\ \A i \in DOMAIN mem.queue : n.queue[i] = mem.queue[i]
        /\ Len(n.queue) \in DOMAIN n.queue /\ n.queue[Len(n.queue)] = r
    BY <2>3
  <2>5. /\ Carries(mem, q) => Carries(n, q)
        /\ q = r => Carries(n, q)
    BY <2>3, <2>4 DEF Carries
  <2>6. Working(mem, q) => Working(n, q)
    BY <2>3 DEF Working
  <2> HIDE DEF n
  <2>7. QED
    BY <1>2, <2>1, <2>2, <2>5, <2>6
<1>6. ASSUME NEW r \in Runs, NEW s \in Stages, Advance(r, s), NEW q \in Runs
      PROVE  Moves(q)
  <2>1. s # "warming" /\ mem' = [mem EXCEPT !.stage[r] = s]
    BY <1>6 DEF Advance, Stages, Follows
  <2>2. /\ mem'.queue = mem.queue /\ mem'.running = mem.running
        /\ mem'.stage = [mem.stage EXCEPT ![r] = s]
        /\ mem.stage \in [Runs -> Stages \cup {"none"}]
    BY <1>1, <2>1 DEF Memory
  <2>3. QED
    BY <2>1, <2>2 DEF Carries, Working
<1>7. ASSUME StaggerPasses, NEW q \in Runs
      PROVE  Moves(q)
  <2>1. mem' = [mem EXCEPT !.spaced = TRUE]
    BY <1>7 DEF StaggerPasses
  <2>2. mem'.queue = mem.queue /\ mem'.running = mem.running /\ mem'.stage = mem.stage
    BY <1>1, <2>1 DEF Memory
  <2>3. QED
    BY <2>2 DEF Carries, Working
<1>8. ASSUME UNCHANGED mem, NEW q \in Runs
      PROVE  Moves(q)
  BY <1>8 DEF Carries, Working
<1>9. (NextDay \/ FailStaleRuns \/ UNCHANGED vars
         \/ \E r \in Runs : \/ OpenSession(r) \/ DisconnectWallet(r) \/ WorkEnds(r) \/ ClaimTester(r) \/ InsertRun(r)
                            \/ \E t \in Testers : Enter(r, t))
         => UNCHANGED mem
  BY DEF NextDay, FailStaleRuns, OpenSession, DisconnectWallet, WorkEnds, ClaimTester, InsertRun, Refused,
         Enter, vars
<1>10. CASE Crash
  BY <1>10
<1>11. CASE \E r \in Runs : Finish(r) \/ Fail(r)
  BY <1>3, <1>11
<1>12. CASE ~Crash /\ ~ \E r \in Runs : Finish(r) \/ Fail(r)
  <2>1. \A q \in Runs : Moves(q)
    <3> HIDE DEF Moves
    <3>1. QED
      BY <1>4, <1>5, <1>6, <1>7, <1>8, <1>9, <1>12 DEF Next, Book, Execute
  <2>2. \A q \in Runs : Enqueue(q) => Carries(mem', q)
    BY <1>5
  <2>3. QED
    BY <1>12, <2>1, <2>2
<1>13. QED
  BY <1>10, <1>11, <1>12

\* Whatever a boot has swept, each row in a state of the sweep's list has a run
\* of this process behind it, or a mark the database refused (failStaleRuns).
THEOREM RunsInFlightAreCarried == Spec => []InFlightIsCarried
<1>1. Init => InFlightIsCarried
  BY DEF Init, Everywhere, InFlightIsCarried, StaleStates
<1>2. ASSUME QueueInvariant, InFlightIsCarried, [Next]_vars
      PROVE  InFlightIsCarried'
  <2>1. /\ row \in [Runs -> RowStates] /\ request \in [Runs -> Requests]
        /\ \A q \in Runs : mem.stage[q] \in Stages => q \in mem.running
    BY <1>2 DEF QueueInvariant, Orderly
  <2>2. \A q \in Runs : Alive(q) <=> Carries(mem, q) \/ request[q] = "admitted"
    BY DEF Alive, Carries
  <2>3. \A q \in Runs : Alive(q)' <=> Carries(mem', q) \/ request'[q] = "admitted"
    BY DEF Alive, Carries
  <2>4. "failed" \notin StaleStates /\ "done" \notin StaleStates
    BY DEF StaleStates
  <2>5. CASE Crash
    BY <1>2, <2>5 DEF Crash, InFlightIsCarried
  <2>6. ASSUME NEW r \in Runs, Finish(r) \/ Fail(r),
               \A q \in Runs \ {r} : Carries(mem, q) => Carries(mem', q)
        PROVE  InFlightIsCarried'
    <3>1. /\ UNCHANGED <<request, swept>>
          /\ \/ row' = [row EXCEPT ![r] = "done"] /\ UNCHANGED unmarked
             \/ row' = [row EXCEPT ![r] = "failed"] /\ UNCHANGED unmarked
             \/ unmarked' = unmarked \cup {r} /\ UNCHANGED row
      BY <2>6 DEF Finish, Fail, MarkFailed, booking, recovery
    <3>2. ASSUME NEW q \in Runs, row'[q] \in StaleStates, swept' = "done"
          PROVE  Alive(q)' \/ q \in unmarked'
      <4>1. CASE q = r
        BY <2>1, <2>4, <3>1, <3>2, <4>1
      <4>2. CASE q # r
        BY <1>2, <2>1, <2>2, <2>3, <2>6, <3>1, <3>2, <4>2 DEF InFlightIsCarried
      <4>3. QED
        BY <4>1, <4>2
    <3>3. QED
      BY <3>2 DEF InFlightIsCarried
  <2>7. ASSUME ~Crash, ~ \E r \in Runs : Finish(r) \/ Fail(r),
               \A q \in Runs : /\ Carries(mem, q) => Carries(mem', q)
                               /\ Enqueue(q) => Carries(mem', q)
        PROVE  InFlightIsCarried'
    <3>1. ASSUME NEW r \in Runs, InsertRun(r)
          PROVE  InFlightIsCarried'
      <4>1. /\ request[r] = "claimed" /\ UNCHANGED <<mem, swept, unmarked>>
            /\ \/ row' = [row EXCEPT ![r] = "queued"] /\ request' = [request EXCEPT ![r] = "admitted"]
               \/ UNCHANGED row /\ request' = [request EXCEPT ![r] = "settled"]
        BY <3>1 DEF InsertRun, Refused, recovery
      <4>2. \A q \in Runs : row'[q] \in StaleStates /\ swept' = "done" => Alive(q)' \/ q \in unmarked'
        BY <1>2, <2>1, <2>2, <2>3, <2>7, <4>1 DEF InFlightIsCarried
      <4>3. QED
        BY <4>2 DEF InFlightIsCarried
    <3>2. ASSUME NEW r \in Runs, NEW s \in Stages, Advance(r, s)
          PROVE  InFlightIsCarried'
      <4>1. /\ row' = [row EXCEPT ![r] = s] /\ UNCHANGED <<request, swept, unmarked>>
            /\ Carries(mem, r)
        BY <2>1, <3>2 DEF Advance, booking, recovery, Carries
      <4>2. \A q \in Runs : row'[q] \in StaleStates /\ swept' = "done" => Alive(q)' \/ q \in unmarked'
        BY <1>2, <2>1, <2>2, <2>3, <2>7, <4>1 DEF InFlightIsCarried
      <4>3. QED
        BY <4>2 DEF InFlightIsCarried
    <3>3. ASSUME FailStaleRuns
          PROVE  InFlightIsCarried'
      <4>1. CASE swept' = "failed" /\ UNCHANGED row
        BY <1>2, <4>1 DEF InFlightIsCarried
      <4>2. CASE row' = [q \in Runs |-> IF row[q] \in StaleStates THEN "failed" ELSE row[q]]
        BY <2>4, <4>2 DEF InFlightIsCarried
      <4>3. QED
        BY <3>3, <4>1, <4>2 DEF FailStaleRuns
    <3>4. ASSUME UNCHANGED <<row, swept, unmarked>>,
                 \A q \in Runs : request[q] = "admitted" => request'[q] = "admitted" \/ Enqueue(q)
          PROVE  InFlightIsCarried'
      <4>1. \A q \in Runs : row'[q] \in StaleStates /\ swept' = "done" => Alive(q)' \/ q \in unmarked'
        BY <1>2, <2>2, <2>3, <2>7, <3>4 DEF InFlightIsCarried
      <4>2. QED
        BY <4>1 DEF InFlightIsCarried
    <3>5. ASSUME NEW r \in Runs, Enqueue(r) \/ ClaimTester(r) \/ \E t \in Testers : Enter(r, t)
          PROVE  /\ UNCHANGED <<row, swept, unmarked>>
                 /\ \A q \in Runs : request[q] = "admitted" => request'[q] = "admitted" \/ Enqueue(q)
      BY <2>1, <3>5 DEF Enqueue, ClaimTester, Refused, Enter, recovery
    <3>6. (NextDay \/ TimerFires \/ StaggerPasses \/ UNCHANGED vars
             \/ \E r \in Runs : OpenSession(r) \/ DisconnectWallet(r) \/ WorkEnds(r))
           => UNCHANGED <<row, request, swept, unmarked>>
      BY DEF NextDay, TimerFires, StaggerPasses, vars, OpenSession, DisconnectWallet, WorkEnds, booking, recovery
    <3>7. QED
      BY <1>2, <2>7, <3>1, <3>2, <3>3, <3>4, <3>5, <3>6 DEF Next, Book, Execute
  <2>8. QED
    BY <1>2, <2>5, <2>6, <2>7, MemoryMoves
<1>3. QED
  BY <1>1, <1>2, QueueIsOrderly, PTL DEF Spec
=============================================================================
