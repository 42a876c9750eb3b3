---------------------------- MODULE AttributeHistory ----------------------------
(***************************************************************************)
(* The dynamic attributes of one passport: their current values, updated   *)
(* in place, and the append-only history of their versions.  Telemetry     *)
(* frames, the BMS simulator and status changes write both in transactions *)
(* that interleave between their statements; the DPP Life Cycle API reads  *)
(* the values of a past date back.                                         *)
(*                                                                         *)
(* The database keeps versions unique.  It is PostgreSQL in production,    *)
(* where a statement sees what has been committed before it.  Under SQLite *)
(* in development a transaction that has read cannot write once another    *)
(* one has committed, and rolls back: its behaviours are among these.      *)
(***************************************************************************)
EXTENDS Integers, FiniteSets

CONSTANTS
  Telemetry,      \* attributes of the telemetry allowlist
  BatteryStatus,  \* the attribute of the lifecycle
  Created,        \* the status a passport is created with
  Transitions,    \* the matrix of battery-lifecycle: pairs <<from, to>>
  Batches,        \* requests that write; each one also names the value it sends
  MaxTicks,       \* frames of one simulator call
  Frames,         \* telemetry frames, each named by the time signed into it
  Skew,           \* TELEMETRY_MAX_SKEW_MS
  MaxTime         \* bound of the clock

ASSUME HistoryAssumption ==
  /\ BatteryStatus \notin Telemetry
  /\ MaxTicks \in Nat \ {0} /\ Skew \in Nat \ {0} /\ MaxTime \in Nat
  /\ Frames \subseteq 0..MaxTime

VARIABLES
  clock,       \* the server's time; passports are created at 0
  current,     \* PassportAttributes.valueJson
  history,     \* PassportAttributeHistory
  batch,       \* the transaction of each request
  seen,        \* seenTelemetrySignatures, with the time each was remembered
  applied,     \* the copy of a frame each request has applied since the process started
  reader       \* a request of dppsByProductIdAndDate

vars == <<clock, current, history, batch, seen, applied, reader>>

Attributes == Telemetry \cup {BatteryStatus}
Times == 0..MaxTime
CreatedValue == [a \in Attributes |-> IF a = BatteryStatus THEN Created ELSE 0]

NoVersion == -1
NoBatch == [pc |-> "new"]
NoReader == [pc |-> "idle"]

Init ==
  /\ clock = 0
  /\ current = CreatedValue
  /\ history = {}
  /\ batch = [b \in Batches |-> NoBatch]
  /\ seen = {}
  /\ applied = [b \in Batches |-> {}]
  /\ reader = NoReader

Open(b) == batch[b].pc \notin {"new", "ended"}

\* A transaction sees its own rows beside the committed ones.
Visible(b) == history \cup batch[b].rows
VersionsOf(rows, a) == {r.version : r \in {x \in rows : x.attribute = a}}
Newest(versions) == CHOOSE v \in versions : \A w \in versions : w <= v
ValueOf(rows, a) ==
  LET last == Newest(VersionsOf(rows, a))
  IN (CHOOSE r \in rows : r.attribute = a /\ r.version = last).value
\* Mutant: the versions are written and the current row is left as it was.
CurrentSeenMutant(b, a) == current[a]
\* The current row of an attribute, as transaction b sees it.
CurrentSeen(b, a) ==
  IF VersionsOf(batch[b].rows, a) = {} THEN current[a] ELSE ValueOf(batch[b].rows, a)

(***************************************************************************)
(* Requests.                                                               *)
(***************************************************************************)
\* A batch that has read the current rows of the attributes it updates.
Started(names, value, from, ticks) ==
  [pc |-> IF ticks = 0 THEN "read" ELSE "tick", left |-> ticks,
   names |-> names, value |-> value, frame |-> from,
   seen |-> [a \in Attributes |-> IF a \in names THEN current[a] ELSE CreatedValue[a]],
   prev |-> [a \in Attributes |-> NoVersion], rows |-> {}, now |-> 0]

\* updateDynamicAttributes, called by a signed-in source.
UpdateAttributes(b) ==
  /\ batch[b].pc = "new"
  /\ \E names \in (SUBSET Telemetry) \ {{}} :
       batch' = [batch EXCEPT ![b] = Started(names, b, {}, 0)]
  /\ UNCHANGED <<clock, current, history, seen, applied, reader>>

InWindow(f) == clock - f \in (-Skew)..Skew
Remembered(f) == \E s \in seen : s.frame = f
\* A copy of a frame, as it is accepted now.
CopyOf(f) == [frame |-> f, at |-> clock]
RememberSignature(f) == seen' = seen \cup {CopyOf(f)}

\* POST /api/v1/passport/telemetry: the network delivers a frame, maybe again.
PostFrame(f, b) ==
  /\ batch[b].pc = "new"
  /\ InWindow(f)
  /\ ~Remembered(f)
  /\ RememberSignature(f)
  /\ \E names \in (SUBSET Telemetry) \ {{}} :
       batch' = [batch EXCEPT ![b] = Started(names, b, {CopyOf(f)}, 0)]
  /\ UNCHANGED <<clock, current, history, applied, reader>>

\* Mutant: a signature is forgotten after one skew.
RetentionOverMutant(s) == clock >= s.at + Skew
\* The timer of rememberTelemetrySignature runs for twice the skew.  It may fire at
\* the last moment of the window, where the frame is still accepted.
RetentionOver(s) == clock >= s.at + 2 * Skew
ForgetSignature(s) ==
  /\ RetentionOver(s)
  /\ seen' = seen \ {s}
  /\ UNCHANGED <<clock, current, history, batch, applied, reader>>

\* triggerBmsTelemetry: the first tick follows the newest version of any attribute.
LastTick == Newest({r.version : r \in history} \cup {0})
TriggerSimulator(b) ==
  /\ batch[b].pc = "new"
  /\ \E names \in (SUBSET Telemetry) \ {{}}, count \in 1..MaxTicks :
       batch' = [batch EXCEPT ![b] = Started(names, LastTick + 1, {}, count)]
  /\ UNCHANGED <<clock, current, history, seen, applied, reader>>

\* updateDynamicAttributes for the next tick, in the transaction of the call.
ReadCurrent(b) ==
  /\ batch[b].pc = "tick"
  /\ batch' = [batch EXCEPT ![b].pc = "read", ![b].left = @ - 1,
                            ![b].seen = [a \in Attributes |->
       IF a \in batch[b].names THEN CurrentSeen(b, a) ELSE CreatedValue[a]]]
  /\ UNCHANGED <<clock, current, history, seen, applied, reader>>

\* changeBatteryStatus validates the transition from the row that it reads; the
\* re-anchor that follows is in PassportAnchor.
MayFollow(from, to) == <<from, to>> \in Transitions
ChangeBatteryStatus(b) ==
  /\ batch[b].pc = "new"
  /\ \E to \in {t[2] : t \in Transitions} :
       /\ MayFollow(current[BatteryStatus], to)
       /\ batch' = [batch EXCEPT ![b] = Started({BatteryStatus}, to, {}, 0)]
  /\ UNCHANGED <<clock, current, history, seen, applied, reader>>

(***************************************************************************)
(* writeAttributeVersions.                                                 *)
(***************************************************************************)
ReadVersions(b) ==
  /\ batch[b].pc = "read"
  /\ batch' = [batch EXCEPT
       ![b].pc = "versions", ![b].now = clock,
       ![b].prev = [a \in Attributes |->
         IF a \in batch[b].names THEN Newest(VersionsOf(Visible(b), a) \cup {NoVersion}) ELSE NoVersion]]
  /\ UNCHANGED <<clock, current, history, seen, applied, reader>>

Row(a, version, value, validFrom) ==
  [attribute |-> a, version |-> version, value |-> value, validFrom |-> validFrom]
\* The creation-time value is written with the first update.
Baseline(b) ==
  {Row(a, 0, batch[b].seen[a], 0) : a \in {n \in batch[b].names : batch[b].prev[n] = NoVersion}}
\* Mutant: the first update takes the number of the baseline.
NextVersionMutant(prev) == prev + 1
NextVersion(prev) == (IF prev = NoVersion THEN 0 ELSE prev) + 1
\* Mutant: no baseline is written.
NewRowsMutant(b) ==
  {Row(a, NextVersion(batch[b].prev[a]), batch[b].value, batch[b].now) : a \in batch[b].names}
NewRows(b) ==
  Baseline(b) \cup {Row(a, NextVersion(batch[b].prev[a]), batch[b].value, batch[b].now) : a \in batch[b].names}

\* Mutant: the schema does not keep versions unique.
VersionTakenMutant(b) == FALSE
\* @assert.unique: { rev: [ passport, attribute, version ] }
VersionTaken(b) ==
  \E r \in Visible(b), n \in NewRows(b) : r.attribute = n.attribute /\ r.version = n.version
\* The row of the passport is locked from its update on.
PassportLocked(b) == \E c \in Batches \ {b} : Open(c) /\ batch[c].rows # {}

WriteVersions(b) ==
  /\ batch[b].pc = "versions"
  /\ ~PassportLocked(b)
  /\ ~VersionTaken(b)
  /\ batch' = [batch EXCEPT ![b].rows = @ \cup NewRows(b),
                            ![b].pc = IF batch[b].left = 0 THEN "written" ELSE "tick",
                            ![b].value = IF batch[b].left = 0 THEN @ ELSE @ + 1]
  /\ UNCHANGED <<clock, current, history, seen, applied, reader>>

Commit(b) ==
  /\ batch[b].pc = "written"
  /\ history' = history \cup batch[b].rows
  /\ current' = [a \in Attributes |-> CurrentSeen(b, a)]
  /\ applied' = [applied EXCEPT ![b] = batch[b].frame]
  /\ batch' = [batch EXCEPT ![b] = [pc |-> "ended"]]
  /\ UNCHANGED <<clock, seen, reader>>

\* A rejected update, a version that is taken, a statement that fails.
RollBack(b) ==
  /\ Open(b)
  /\ batch' = [batch EXCEPT ![b] = [pc |-> "ended"]]
  /\ UNCHANGED <<clock, current, history, seen, applied, reader>>

(***************************************************************************)
(* Reading the past: resolveReal with a date, and attributesAsOf.          *)
(***************************************************************************)
AsOf(cur, rows, a, date) ==
  LET mine == {r \in rows : r.attribute = a}
      past == {r \in mine : r.validFrom <= date}
      first == CHOOSE r \in mine : \A s \in mine : r.version <= s.version
      last  == CHOOSE r \in past : \A s \in past :
                 \/ s.validFrom < r.validFrom
                 \/ s.validFrom = r.validFrom /\ s.version <= r.version
  IN IF mine = {} THEN cur[a] ELSE IF past = {} THEN first.value ELSE last.value

ReadAttributes(date) ==
  /\ reader.pc = "idle"
  /\ date < clock
  /\ reader' = [pc |-> "attributes", date |-> date, found |-> current]
  /\ UNCHANGED <<clock, current, history, batch, seen, applied>>

\* Somebody is about to commit a version that is valid from the date or earlier.
Backdating(date) ==
  \E b \in Batches :
    /\ Open(b)
    /\ \/ batch[b].pc = "versions" /\ batch[b].now <= date
       \/ \E r \in batch[b].rows : r.version > 0 /\ r.validFrom <= date

ReadHistory ==
  /\ reader.pc = "attributes"
  /\ reader' = [pc |-> "answered", date |-> reader.date, settled |-> ~Backdating(reader.date),
                answer |-> [a \in Attributes |-> AsOf(reader.found, history, a, reader.date)]]
  /\ UNCHANGED <<clock, current, history, batch, seen, applied>>

(***************************************************************************)
(* Time passes; the process dies, and its transactions with it.            *)
(***************************************************************************)
Tick ==
  /\ clock < MaxTime
  /\ clock' = clock + 1
  /\ UNCHANGED <<current, history, batch, seen, applied, reader>>

Crash ==
  /\ batch' = [b \in Batches |-> IF Open(b) THEN [pc |-> "ended"] ELSE batch[b]]
  /\ seen' = {}
  /\ applied' = [b \in Batches |-> {}]
  /\ reader' = IF reader.pc = "attributes" THEN NoReader ELSE reader
  /\ UNCHANGED <<clock, current, history>>

Next ==
  \/ \E b \in Batches :
       \/ UpdateAttributes(b) \/ TriggerSimulator(b) \/ ChangeBatteryStatus(b)
       \/ ReadCurrent(b) \/ ReadVersions(b) \/ WriteVersions(b) \/ Commit(b) \/ RollBack(b)
       \/ \E f \in Frames : PostFrame(f, b)
  \/ \E s \in seen : ForgetSignature(s)
  \/ \E date \in Times : ReadAttributes(date)
  \/ ReadHistory
  \/ Tick
  \/ Crash

Spec == Init /\ [][Next]_vars

(***************************************************************************)
(* Properties.                                                             *)
(***************************************************************************)
Statuses == {Created} \cup {t[2] : t \in Transitions}
Values == Batches \cup Nat \cup Statuses
HistoryRow == [attribute : Attributes, version : Nat, value : Values, validFrom : Nat]
Copy == [frame : Frames, at : Nat]
Batch == [pc : {"tick", "read", "versions", "written"}, names : (SUBSET Attributes) \ {{}},
          value : Values, frame : SUBSET Copy, left : 0..MaxTicks,
          seen : [Attributes -> Values], prev : [Attributes -> Int],
          rows : SUBSET HistoryRow, now : Nat]

\* The records the code keeps have their types.
HistoryTypeOK ==
  /\ clock \in Nat
  /\ current \in [Attributes -> Values]
  /\ history \subseteq HistoryRow
  /\ batch \in [Batches -> Batch \cup {[pc |-> "new"], [pc |-> "ended"]}]
  /\ \A b \in Batches : Open(b) => /\ batch[b].pc = "tick" => batch[b].left > 0
                                   /\ batch[b].left > 0 => batch[b].value \in Nat
  /\ seen \subseteq Copy
  /\ applied \in [Batches -> SUBSET Copy]
  /\ reader.pc \in {"idle", "attributes", "answered"}

\* The versions of every attribute in rows have no gap and no twin, start with the
\* value of the creation, and are valid one after the other.
Ordered(rows) ==
  \A r \in rows :
    /\ \A s \in rows : s.attribute = r.attribute /\ s.version = r.version => s = r
    /\ r.version = 0 => r.value = CreatedValue[r.attribute] /\ r.validFrom = 0
    /\ \A v \in 0..r.version : \E s \in rows :
         s.attribute = r.attribute /\ s.version = v /\ s.validFrom <= r.validFrom

\* However the transactions of telemetry, simulator and lifecycle interleave, the
\* history of the versions is in order (writeAttributeVersions).
HistoryIsOrdered == Ordered(history)

\* The value updated in place is that of the newest version: no update is lost
\* between the two tables (writeAttributeVersions).
NewestIsCurrent ==
  \A a \in Attributes :
    current[a] = IF VersionsOf(history, a) = {} THEN CreatedValue[a] ELSE ValueOf(history, a)

\* What dppsByProductIdAndDate answered for a past date stays the answer, whatever
\* is written during the read or after it, once no transaction that took its time
\* before that date is still open (resolveReal, attributesAsOf).
PastIsAnswered ==
  reader.pc = "answered" /\ reader.settled =>
    \A a \in Attributes : reader.answer[a] = AsOf(current, history, a, reader.date)

\* A telemetry frame the network delivers twice ages the battery once in the life
\* of the process, but for one pair of moments: a copy accepted at the first instant
\* of its window and one at the last, when the timer fires before it is looked up
\* (the replay window of server.ts).
FrameAppliedOnce ==
  \A b, c \in Batches : b # c =>
    \A x \in applied[b], y \in applied[c] :
      x.frame = y.frame => {x.at, y.at} = {x.frame - Skew, x.frame + Skew}

\* rows holds the newest version, among all, of every attribute it has.
HoldsNewest(rows, all) ==
  \A r \in rows : \E s \in rows :
    s.attribute = r.attribute /\ \A t \in all : t.attribute = r.attribute => t.version <= s.version

HasNewest(rows) == rows = {} \/ \E r \in rows : \A s \in rows : s.version <= r.version

\* What an open transaction has read is still true, or its next write fails: the
\* newest version it found exists, and an attribute whose baseline it holds back
\* has not been updated unless there are versions by now.
Sound(t, committed, time) ==
  LET visible == committed \cup t.rows
  IN /\ Ordered(visible)
     /\ HoldsNewest(t.rows, visible) /\ HasNewest(visible)
     /\ \A r \in t.rows : r.validFrom <= time
     /\ t.now <= time
     /\ t.pc = "written" => t.rows # {}
     /\ t.pc \in {"read", "versions"} => \A a \in t.names :
          t.seen[a] = CreatedValue[a] \/ VersionsOf(visible, a) # {}
     /\ t.pc = "versions" => \A a \in t.names :
          \/ t.prev[a] = NoVersion
          \/ \E r \in visible : r.attribute = a /\ r.version = t.prev[a] /\ r.validFrom <= t.now

\* The inductive invariant behind the two properties above: one transaction writes
\* at a time, and every open one is sound (writeAttributeVersions with the unique
\* constraint of the schema).
HistoryInvariant ==
  /\ HistoryTypeOK
  /\ HistoryIsOrdered
  /\ NewestIsCurrent
  /\ HoldsNewest(history, history) /\ HasNewest(history)
  /\ \A r \in history : r.validFrom <= clock
  /\ \A b, c \in Batches : Open(b) /\ Open(c) /\ batch[b].rows # {} /\ batch[c].rows # {} => b = c
  /\ \A b \in Batches : Open(b) => Sound(batch[b], history, clock)
=============================================================================
