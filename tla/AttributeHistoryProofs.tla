------------------------- MODULE AttributeHistoryProofs -------------------------
(***************************************************************************)
(* Proofs about AttributeHistory, for any number of attributes and of      *)
(* interleaved transactions and for either database.                       *)
(*                                                                         *)
(* A transaction that read versions must find them unchanged when it       *)
(* writes: the newest version it found exists, versions have no gaps, and  *)
(* the next one is not taken, so nothing newer has been committed.  That a *)
(* baseline holds the creation-time value follows in the same way.         *)
(***************************************************************************)
EXTENDS AttributeHistory, TLAPS

LEMMA CreatedValueType == CreatedValue \in [Attributes -> Values]
  BY DEF CreatedValue, Values, Statuses

\* The newest of a set of versions is the one that is not exceeded.
LEMMA NewestIsGreatest ==
  ASSUME NEW V \in SUBSET Int, NEW m \in V, \A w \in V : w <= m
  PROVE  Newest(V) = m
<1>1. \E v \in V : \A w \in V : w <= v
  OBVIOUS
<1>2. Newest(V) \in V /\ \A w \in V : w <= Newest(V)
  BY <1>1 DEF Newest
<1>3. m \in Int /\ Newest(V) \in Int /\ m <= Newest(V) /\ Newest(V) <= m
  BY <1>2
<1> QED
  BY <1>3

\* In ordered rows, a next version that is not taken is newer than all.
LEMMA NothingNewer ==
  ASSUME NEW rows \in SUBSET HistoryRow, Ordered(rows), NEW a, NEW v \in Nat,
         ~ \E r \in rows : r.attribute = a /\ r.version = v
  PROVE  \A r \in rows : r.attribute = a => r.version < v
<1> SUFFICES ASSUME NEW r \in rows, r.attribute = a, ~(r.version < v)
             PROVE  FALSE
  OBVIOUS
<1>1. r.version \in Nat
  BY DEF HistoryRow
<1>2. v \in 0..r.version
  BY <1>1
<1> QED
  BY <1>2 DEF Ordered

\* The value of an attribute is that of its newest row.
LEMMA ValueOfNewest ==
  ASSUME NEW rows \in SUBSET HistoryRow, NEW r \in rows,
         \A s \in rows : s.attribute = r.attribute => s.version <= r.version,
         \A s \in rows : s.attribute = r.attribute /\ s.version = r.version => s = r
  PROVE  ValueOf(rows, r.attribute) = r.value
<1> DEFINE V == VersionsOf(rows, r.attribute)
<1>1. V \in SUBSET Int /\ r.version \in V /\ \A w \in V : w <= r.version
  BY DEF VersionsOf, HistoryRow
<1>2. Newest(V) = r.version
  BY <1>1, NewestIsGreatest
<1>3. (CHOOSE s \in rows : s.attribute = r.attribute /\ s.version = r.version) = r
  OBVIOUS
<1> QED
  BY <1>2, <1>3 DEF ValueOf

\* An attribute that is not the value of its creation has a version.
LEMMA UpdatedHasVersions ==
  ASSUME HistoryInvariant, NEW a \in Attributes
  PROVE  current[a] = CreatedValue[a] \/ VersionsOf(history, a) # {}
  BY DEF HistoryInvariant, NewestIsCurrent

LEMMA OpenBatch ==
  ASSUME HistoryTypeOK, NEW b \in Batches, Open(b)
  PROVE  /\ batch[b] \in Batch
         /\ Visible(b) \in SUBSET HistoryRow
  BY DEF HistoryTypeOK, Open, Batch, Visible

(***************************************************************************)
(* A step of one transaction that commits nothing.                         *)
(***************************************************************************)
LEMMA OneBatchMoves ==
  ASSUME HistoryInvariant, NEW b \in Batches,
         UNCHANGED <<clock, current, history>>,
         batch' \in [Batches -> Batch \cup {[pc |-> "new"], [pc |-> "ended"]}],
         \A c \in Batches \ {b} : batch'[c] = batch[c],
         seen' \subseteq Copy, applied' \in [Batches -> SUBSET Copy],
         reader'.pc \in {"idle", "attributes", "answered"},
         Open(b)' => /\ Sound(batch[b], history, clock)'
                     /\ batch'[b].pc = "tick" => batch'[b].left > 0
                     /\ batch'[b].left > 0 => batch'[b].value \in Nat
                     /\ batch'[b].rows # {} =>
                          \A c \in Batches \ {b} : Open(c) => batch[c].rows = {}
  PROVE  HistoryInvariant'
<1>1. \A c \in Batches \ {b} : /\ Open(c)' <=> Open(c)
                               /\ Open(c) => Sound(batch[c], history, clock)'
  BY DEF Open, HistoryInvariant
<1>2. HistoryTypeOK'
  BY <1>1 DEF HistoryInvariant, HistoryTypeOK, Open
<1>3. HistoryIsOrdered' /\ NewestIsCurrent' /\ HoldsNewest(history, history)'
      /\ HasNewest(history)' /\ \A r \in history' : r.validFrom <= clock'
  BY DEF HistoryInvariant, HistoryIsOrdered, NewestIsCurrent, HoldsNewest, HasNewest
<1>4. ASSUME NEW c \in Batches, NEW d \in Batches, Open(c)', Open(d)',
             batch'[c].rows # {}, batch'[d].rows # {}
      PROVE  c = d
  <2>1. CASE c # b /\ d # b
    BY <1>1, <1>4, <2>1 DEF HistoryInvariant
  <2>2. CASE c = b /\ d # b
    BY <1>1, <1>4, <2>2
  <2>3. CASE c # b /\ d = b
    BY <1>1, <1>4, <2>3
  <2> QED
    BY <2>1, <2>2, <2>3
<1>5. \A c \in Batches : Open(c)' => Sound(batch[c], history, clock)'
  BY <1>1
<1> QED
  BY <1>2, <1>3, <1>4, <1>5 DEF HistoryInvariant

(***************************************************************************)
(* Requests.                                                               *)
(***************************************************************************)
\* A transaction that has read no more than the current rows is sound.
LEMMA StartedIsSound ==
  ASSUME HistoryInvariant, NEW names \in (SUBSET Attributes) \ {{}}, NEW value \in Values,
         NEW from \in SUBSET Copy, NEW t \in Batch,
         t.pc \in {"tick", "read"}, t.rows = {}, t.now = 0,
         \A a \in t.names : t.seen[a] = current[a]
  PROVE  Sound(t, history, clock)
<1>1. history \cup t.rows = history /\ Ordered(history)
  BY DEF HistoryInvariant, HistoryIsOrdered
<1>2. t.now <= clock
  BY DEF HistoryInvariant, HistoryTypeOK
<1>3. \A a \in t.names : t.seen[a] = CreatedValue[a] \/ VersionsOf(history, a) # {}
  BY UpdatedHasVersions DEF Batch
<1> QED
  BY <1>1, <1>2, <1>3 DEF Sound, HoldsNewest, HistoryInvariant

LEMMA StartKeeps ==
  ASSUME HistoryInvariant, NEW b \in Batches, batch[b].pc = "new",
         NEW names \in (SUBSET Attributes) \ {{}}, NEW value \in Values,
         NEW from \in SUBSET Copy, NEW ticks \in 0..MaxTicks, ticks > 0 => value \in Nat,
         batch' = [batch EXCEPT ![b] = Started(names, value, from, ticks)],
         UNCHANGED <<clock, current, history, applied, reader>>,
         seen' \subseteq Copy,
         HistoryAssumption
  PROVE  HistoryInvariant'
<1> DEFINE t == Started(names, value, from, ticks)
<1>1. t \in Batch
  BY CreatedValueType DEF HistoryInvariant, HistoryTypeOK, Batch, Started, NoVersion, HistoryAssumption
<1>2. /\ t.pc \in {"tick", "read"} /\ t.rows = {} /\ t.now = 0 /\ t.names = names
      /\ t.pc = "tick" => t.left > 0
      /\ t.left > 0 => t.value \in Nat
      /\ \A a \in t.names : t.seen[a] = current[a]
  BY DEF Started
<1>3. Sound(t, history, clock)
  <2> HIDE DEF t
  <2> QED
    BY <1>1, <1>2, StartedIsSound
<1>4. batch'[b] = t /\ \A c \in Batches \ {b} : batch'[c] = batch[c]
  BY DEF HistoryInvariant, HistoryTypeOK
<1> HIDE DEF t
<1>5. batch' \in [Batches -> Batch \cup {[pc |-> "new"], [pc |-> "ended"]}]
  BY <1>1, <1>4 DEF HistoryInvariant, HistoryTypeOK, t
<1>6. applied' \in [Batches -> SUBSET Copy] /\ reader'.pc \in {"idle", "attributes", "answered"}
  BY DEF HistoryInvariant, HistoryTypeOK
<1>7. Sound(batch[b], history, clock)'
  BY <1>3, <1>4
<1> QED
  BY <1>2, <1>4, <1>5, <1>6, <1>7, OneBatchMoves

LEMMA UpdateAttributesKeeps ==
  ASSUME HistoryAssumption, HistoryInvariant, NEW b \in Batches, UpdateAttributes(b)
  PROVE  HistoryInvariant'
<1> PICK names \in (SUBSET Telemetry) \ {{}} : batch' = [batch EXCEPT ![b] = Started(names, b, {}, 0)]
  BY DEF UpdateAttributes
<1>1. names \in (SUBSET Attributes) \ {{}} /\ b \in Values /\ {} \in SUBSET Copy /\ 0 \in 0..MaxTicks
  BY HistoryAssumption DEF Attributes, Values
<1>2. seen' \subseteq Copy
  BY DEF UpdateAttributes, HistoryInvariant, HistoryTypeOK
<1>3. batch[b].pc = "new" /\ UNCHANGED <<clock, current, history, applied, reader>> /\ (0 > 0 => b \in Nat)
  BY DEF UpdateAttributes
<1> QED
  BY <1>1, <1>2, <1>3, StartKeeps, HistoryAssumption

LEMMA PostFrameKeeps ==
  ASSUME HistoryAssumption, HistoryInvariant, NEW b \in Batches, NEW f \in Frames, PostFrame(f, b)
  PROVE  HistoryInvariant'
<1> PICK names \in (SUBSET Telemetry) \ {{}} : batch' = [batch EXCEPT ![b] = Started(names, b, {CopyOf(f)}, 0)]
  BY DEF PostFrame
<1>0. CopyOf(f) \in Copy
  BY DEF CopyOf, Copy, HistoryInvariant, HistoryTypeOK
<1>1. names \in (SUBSET Attributes) \ {{}} /\ b \in Values /\ {CopyOf(f)} \in SUBSET Copy /\ 0 \in 0..MaxTicks
  BY <1>0, HistoryAssumption DEF Attributes, Values
<1>2. seen' \subseteq Copy
  BY <1>0 DEF PostFrame, RememberSignature, HistoryInvariant, HistoryTypeOK
<1>3. batch[b].pc = "new" /\ UNCHANGED <<clock, current, history, applied, reader>> /\ (0 > 0 => b \in Nat)
  BY DEF PostFrame
<1> QED
  BY <1>1, <1>2, <1>3, StartKeeps, HistoryAssumption

LEMMA ChangeBatteryStatusKeeps ==
  ASSUME HistoryAssumption, HistoryInvariant, NEW b \in Batches, ChangeBatteryStatus(b)
  PROVE  HistoryInvariant'
<1> PICK to \in {t[2] : t \in Transitions} :
      batch' = [batch EXCEPT ![b] = Started({BatteryStatus}, to, {}, 0)]
  BY DEF ChangeBatteryStatus
<1>1. {BatteryStatus} \in (SUBSET Attributes) \ {{}} /\ to \in Values /\ {} \in SUBSET Copy /\ 0 \in 0..MaxTicks
  BY HistoryAssumption DEF Attributes, Values, Statuses
<1>2. seen' \subseteq Copy
  BY DEF ChangeBatteryStatus, HistoryInvariant, HistoryTypeOK
<1>3. batch[b].pc = "new" /\ UNCHANGED <<clock, current, history, applied, reader>> /\ (0 > 0 => to \in Nat)
  BY DEF ChangeBatteryStatus
<1> QED
  BY <1>1, <1>2, <1>3, StartKeeps, HistoryAssumption

LEMMA LastTickType ==
  ASSUME HistoryInvariant
  PROVE  LastTick \in Nat
<1> DEFINE V == {r.version : r \in history} \cup {0}
<1>1. \A r \in history : r.version \in Nat
  BY DEF HistoryInvariant, HistoryTypeOK, HistoryRow
<1>2. V \in SUBSET Int /\ \A w \in V : w >= 0
  BY <1>1
<1>3. PICK m \in V : \A w \in V : w <= m
  BY <1>1 DEF HistoryInvariant, HasNewest
<1>4. Newest(V) = m
  BY <1>2, <1>3, NewestIsGreatest
<1> QED
  BY <1>2, <1>4 DEF LastTick

LEMMA TriggerSimulatorKeeps ==
  ASSUME HistoryAssumption, HistoryInvariant, NEW b \in Batches, TriggerSimulator(b)
  PROVE  HistoryInvariant'
<1> PICK names \in (SUBSET Telemetry) \ {{}}, count \in 1..MaxTicks :
      batch' = [batch EXCEPT ![b] = Started(names, LastTick + 1, {}, count)]
  BY DEF TriggerSimulator
<1>1. LastTick + 1 \in Nat
  BY LastTickType
<1>2. names \in (SUBSET Attributes) \ {{}} /\ LastTick + 1 \in Values
      /\ {} \in SUBSET Copy /\ count \in 0..MaxTicks
  BY <1>1, HistoryAssumption DEF Attributes, Values
<1>3. seen' \subseteq Copy
  BY DEF TriggerSimulator, HistoryInvariant, HistoryTypeOK
<1>4. batch[b].pc = "new" /\ UNCHANGED <<clock, current, history, applied, reader>>
  BY DEF TriggerSimulator
<1> HIDE DEF LastTick
<1> QED
  BY <1>1, <1>2, <1>3, <1>4, StartKeeps, HistoryAssumption

\* An update that is rolled back leaves nothing.
LEMMA RollBackKeeps ==
  ASSUME HistoryInvariant, NEW b \in Batches, RollBack(b)
  PROVE  HistoryInvariant'
<1>1. ~Open(b)' /\ \A c \in Batches \ {b} : batch'[c] = batch[c]
  BY DEF RollBack, HistoryInvariant, HistoryTypeOK, Open
<1>2. batch' \in [Batches -> Batch \cup {[pc |-> "new"], [pc |-> "ended"]}]
  BY DEF RollBack, HistoryInvariant, HistoryTypeOK
<1>3. /\ UNCHANGED <<clock, current, history>>
      /\ seen' \subseteq Copy /\ applied' \in [Batches -> SUBSET Copy]
      /\ reader'.pc \in {"idle", "attributes", "answered"}
  BY DEF RollBack, HistoryInvariant, HistoryTypeOK
<1> QED
  BY <1>1, <1>2, <1>3, OneBatchMoves

(***************************************************************************)
(* What an open transaction reads.                                         *)
(***************************************************************************)
\* The own rows of a transaction, where it has any, hold the newest version.
LEMMA OwnRowIsNewest ==
  ASSUME HistoryInvariant, NEW b \in Batches, Open(b), NEW a,
         VersionsOf(batch[b].rows, a) # {}
  PROVE  \E r \in batch[b].rows :
           /\ r.attribute = a
           /\ \A s \in Visible(b) : s.attribute = a => s.version <= r.version
           /\ ValueOf(batch[b].rows, a) = r.value
           /\ ValueOf(Visible(b), a) = r.value
<1>1. Sound(batch[b], history, clock) /\ Visible(b) \in SUBSET HistoryRow
      /\ batch[b].rows \in SUBSET HistoryRow /\ batch[b].rows \subseteq Visible(b)
  BY OpenBatch DEF HistoryInvariant, Batch, Visible
<1>2. PICK q \in batch[b].rows : q.attribute = a
  BY DEF VersionsOf
<1>3. PICK r \in batch[b].rows : /\ r.attribute = a
                                /\ \A s \in Visible(b) : s.attribute = a => s.version <= r.version
  BY <1>1, <1>2 DEF Sound, HoldsNewest, Visible
<1>4. \A s \in Visible(b) : s.attribute = r.attribute /\ s.version = r.version => s = r
  BY <1>1 DEF Sound, Ordered, Visible
<1>5. ValueOf(Visible(b), r.attribute) = r.value
  BY <1>1, <1>3, <1>4, ValueOfNewest
<1>6. ValueOf(batch[b].rows, r.attribute) = r.value
  BY <1>1, <1>3, <1>4, ValueOfNewest
<1> QED
  BY <1>3, <1>5, <1>6

LEMMA CurrentSeenType ==
  ASSUME HistoryInvariant, NEW b \in Batches, Open(b), NEW a \in Attributes
  PROVE  /\ CurrentSeen(b, a) \in Values
         /\ CurrentSeen(b, a) = CreatedValue[a] \/ VersionsOf(Visible(b), a) # {}
<1>1. CASE VersionsOf(batch[b].rows, a) = {}
  <2>1. current[a] \in Values /\ CurrentSeen(b, a) = current[a]
    BY <1>1 DEF HistoryInvariant, HistoryTypeOK, CurrentSeen
  <2>2. VersionsOf(history, a) # {} => VersionsOf(Visible(b), a) # {}
    BY DEF VersionsOf, Visible
  <2> QED
    BY <2>1, <2>2, UpdatedHasVersions
<1>2. CASE VersionsOf(batch[b].rows, a) # {}
  <2>1. PICK r \in batch[b].rows : r.attribute = a /\ ValueOf(batch[b].rows, a) = r.value
    BY <1>2, OwnRowIsNewest
  <2>2. r \in HistoryRow /\ r \in Visible(b)
    BY OpenBatch DEF HistoryInvariant, Batch, Visible
  <2> QED
    BY <1>2, <2>1, <2>2 DEF CurrentSeen, HistoryRow, VersionsOf
<1> QED
  BY <1>1, <1>2

LEMMA ReadCurrentKeeps ==
  ASSUME HistoryAssumption, HistoryInvariant, NEW b \in Batches, ReadCurrent(b)
  PROVE  HistoryInvariant'
<1> DEFINE t == batch[b]
           found == [a \in Attributes |->
                       IF a \in t.names THEN CurrentSeen(b, a) ELSE CreatedValue[a]]
           u == [t EXCEPT !.pc = "read", !.left = @ - 1, !.seen = found]
<1>1. Open(b) /\ t \in Batch /\ t.left > 0 /\ t.value \in Nat /\ t.pc = "tick"
      /\ Sound(t, history, clock)
  <2>1. Open(b) /\ t.pc = "tick"
    BY DEF ReadCurrent, Open
  <2> QED
    BY <2>1, OpenBatch DEF HistoryInvariant, HistoryTypeOK
<1>2. found \in [Attributes -> Values]
  BY <1>1, CurrentSeenType, CreatedValueType
<1>3. u \in Batch /\ u.pc = "read" /\ u.left \in Nat /\ u.value = t.value /\ u.rows = t.rows
      /\ u.names = t.names /\ u.now = t.now /\ u.seen = found
  <2>1. t.left - 1 \in 0..MaxTicks
    BY <1>1, HistoryAssumption DEF Batch
  <2> HIDE DEF found, t
  <2>2. u.pc = "read" /\ u.left = t.left - 1 /\ u.seen = found
        /\ u.value = t.value /\ u.rows = t.rows /\ u.names = t.names /\ u.now = t.now
    BY <1>1 DEF Batch
  <2>3. u \in Batch
    BY <1>1, <1>2, <2>1 DEF Batch
  <2> QED
    BY <2>1, <2>2, <2>3, HistoryAssumption
<1>4. \A a \in u.names : u.seen[a] = CreatedValue[a] \/ VersionsOf(history \cup u.rows, a) # {}
  <2> SUFFICES ASSUME NEW a \in t.names
               PROVE  found[a] = CreatedValue[a] \/ VersionsOf(Visible(b), a) # {}
    BY <1>3 DEF Visible
  <2>1. a \in Attributes
    BY <1>1 DEF Batch
  <2> QED
    BY <1>1, <2>1, CurrentSeenType
<1>5. batch'[b] = u /\ \A c \in Batches \ {b} : batch'[c] = batch[c]
  BY DEF ReadCurrent, HistoryInvariant, HistoryTypeOK
<1> HIDE DEF u, found
<1>6. Sound(u, history, clock)
  BY <1>1, <1>3, <1>4 DEF Sound
<1>7. batch' \in [Batches -> Batch \cup {[pc |-> "new"], [pc |-> "ended"]}]
  BY <1>3, <1>5 DEF HistoryInvariant, HistoryTypeOK, ReadCurrent, u
<1>8. /\ UNCHANGED <<clock, current, history>>
      /\ seen' \subseteq Copy /\ applied' \in [Batches -> SUBSET Copy]
      /\ reader'.pc \in {"idle", "attributes", "answered"}
  BY DEF ReadCurrent, HistoryInvariant, HistoryTypeOK
<1>9. Sound(batch[b], history, clock)'
  BY <1>5, <1>6, <1>8
<1>10. batch'[b].rows # {} => \A c \in Batches \ {b} : Open(c) => batch[c].rows = {}
  BY <1>1, <1>3, <1>5 DEF HistoryInvariant
<1> QED
  BY <1>1, <1>3, <1>5, <1>7, <1>8, <1>9, <1>10, OneBatchMoves

\* The newest version a transaction finds is -1, or that of a row it sees.
LEMMA NewestIsSeen ==
  ASSUME HistoryInvariant, NEW b \in Batches, Open(b), NEW a
  PROVE  LET p == Newest(VersionsOf(Visible(b), a) \cup {NoVersion})
         IN \/ p = NoVersion
            \/ p \in Nat /\ \E r \in Visible(b) : r.attribute = a /\ r.version = p
<1> DEFINE V == VersionsOf(Visible(b), a)
<1>1. Visible(b) \in SUBSET HistoryRow /\ batch[b].rows \subseteq Visible(b)
      /\ history \subseteq Visible(b)
  BY OpenBatch DEF HistoryInvariant, Visible
<1>2. V \in SUBSET Nat
  BY <1>1 DEF VersionsOf, HistoryRow
<1>3. CASE V = {}
  BY <1>3, NewestIsGreatest DEF NoVersion
<1>4. CASE V # {}
  <2>1. \E r \in Visible(b) : /\ r.attribute = a
                              /\ \A s \in Visible(b) : s.attribute = a => s.version <= r.version
    <3>1. CASE VersionsOf(batch[b].rows, a) # {}
      BY <1>1, <3>1, OwnRowIsNewest
    <3>2. CASE VersionsOf(batch[b].rows, a) = {}
      <4>1. \A s \in Visible(b) : s.attribute = a => s \in history
        BY <3>2 DEF VersionsOf, Visible
      <4>2. PICK q \in history : q.attribute = a
        BY <1>4, <4>1 DEF VersionsOf
      <4>3. HoldsNewest(history, history)
        BY DEF HistoryInvariant
      <4>4. PICK r \in history : /\ r.attribute = a
                                /\ \A s \in history : s.attribute = a => s.version <= r.version
        BY <4>2, <4>3 DEF HoldsNewest
      <4> QED
        BY <1>1, <4>1, <4>4
    <3> QED
      BY <3>1, <3>2
  <2>2. PICK r \in Visible(b) : /\ r.attribute = a
                               /\ \A s \in Visible(b) : s.attribute = a => s.version <= r.version
    BY <2>1
  <2>3. r.version \in V /\ \A w \in V : w <= r.version
    BY <2>2 DEF VersionsOf
  <2>4. V \cup {NoVersion} \in SUBSET Int /\ r.version \in V \cup {NoVersion}
        /\ \A w \in V \cup {NoVersion} : w <= r.version
    BY <1>2, <2>3 DEF NoVersion
  <2>5. Newest(V \cup {NoVersion}) = r.version
    <3> HIDE DEF V
    <3> QED
      BY <2>4, NewestIsGreatest
  <2> QED
    BY <1>2, <2>2, <2>3, <2>5
<1> QED
  BY <1>3, <1>4

LEMMA ReadVersionsKeeps ==
  ASSUME HistoryInvariant, NEW b \in Batches, ReadVersions(b)
  PROVE  HistoryInvariant'
<1> DEFINE t == batch[b]
           found == [a \in Attributes |->
                       IF a \in t.names THEN Newest(VersionsOf(Visible(b), a) \cup {NoVersion})
                       ELSE NoVersion]
           u == [t EXCEPT !.pc = "versions", !.now = clock, !.prev = found]
<1>1. Open(b) /\ t \in Batch /\ t.pc = "read" /\ Sound(t, history, clock)
      /\ clock \in Nat /\ (t.left > 0 => t.value \in Nat)
  <2>1. Open(b) /\ t.pc = "read"
    BY DEF ReadVersions, Open
  <2> QED
    BY <2>1, OpenBatch DEF HistoryInvariant, HistoryTypeOK
<1>2. found \in [Attributes -> Int]
      /\ \A a \in t.names : \/ found[a] = NoVersion
                            \/ \E r \in Visible(b) : r.attribute = a /\ r.version = found[a]
  <2>1. \A a \in Attributes : found[a] \in Int
    BY <1>1, NewestIsSeen DEF NoVersion
  <2>2. \A a \in t.names : a \in Attributes
    BY <1>1 DEF Batch
  <2> QED
    BY <1>1, <2>1, <2>2, NewestIsSeen
<1>3. u \in Batch /\ u.pc = "versions" /\ u.left = t.left /\ u.value = t.value /\ u.rows = t.rows
      /\ u.names = t.names /\ u.now = clock /\ u.seen = t.seen /\ u.prev = found
  <2> HIDE DEF found, t
  <2> QED
    BY <1>1, <1>2 DEF Batch
<1>4. \A r \in Visible(b) : r.validFrom <= clock
  BY <1>1 DEF Sound, Visible, HistoryInvariant
<1>5. batch'[b] = u /\ \A c \in Batches \ {b} : batch'[c] = batch[c]
  BY DEF ReadVersions, HistoryInvariant, HistoryTypeOK
<1>6. history \cup u.rows = Visible(b)
  BY <1>3 DEF Visible
<1> HIDE DEF u, found
<1>7. \A a \in u.names :
        \/ u.prev[a] = NoVersion
        \/ \E r \in Visible(b) : r.attribute = a /\ r.version = u.prev[a] /\ r.validFrom <= u.now
  BY <1>2, <1>3, <1>4
<1>8. Sound(u, history, clock)
  <2>1. /\ Ordered(Visible(b)) /\ HoldsNewest(u.rows, Visible(b)) /\ HasNewest(Visible(b))
        /\ \A r \in u.rows : r.validFrom <= clock
        /\ u.now <= clock
        /\ \A a \in u.names : u.seen[a] = CreatedValue[a] \/ VersionsOf(Visible(b), a) # {}
    <3>1. /\ Ordered(Visible(b)) /\ HoldsNewest(t.rows, Visible(b)) /\ HasNewest(Visible(b))
          /\ \A r \in t.rows : r.validFrom <= clock
          /\ \A a \in t.names : t.seen[a] = CreatedValue[a] \/ VersionsOf(Visible(b), a) # {}
      BY <1>1 DEF Sound, Visible
    <3>2. u.now <= clock
      BY <1>1, <1>3
    <3> HIDE DEF t
    <3> QED
      BY <1>3, <3>1, <3>2
  <2> QED
    BY <1>3, <1>6, <1>7, <2>1 DEF Sound
<1>9. batch' \in [Batches -> Batch \cup {[pc |-> "new"], [pc |-> "ended"]}]
  BY <1>3, <1>5 DEF HistoryInvariant, HistoryTypeOK, ReadVersions, u
<1>10. /\ UNCHANGED <<clock, current, history>>
       /\ seen' \subseteq Copy /\ applied' \in [Batches -> SUBSET Copy]
       /\ reader'.pc \in {"idle", "attributes", "answered"}
  BY DEF ReadVersions, HistoryInvariant, HistoryTypeOK
<1>11. Sound(batch[b], history, clock)'
  BY <1>5, <1>8, <1>10
<1>12. batch'[b].rows # {} => \A c \in Batches \ {b} : Open(c) => batch[c].rows = {}
  BY <1>1, <1>3, <1>5 DEF HistoryInvariant
<1> QED
  BY <1>1, <1>3, <1>5, <1>9, <1>10, <1>11, <1>12, OneBatchMoves

(***************************************************************************)
(* What an open transaction writes.                                        *)
(***************************************************************************)
\* The rows to write, when none of their versions is taken: either the baseline
\* of an attribute nobody has updated, or the version after the newest one.
LEMMA NewRowsFollow ==
  ASSUME HistoryInvariant, NEW b \in Batches, batch[b].pc = "versions", ~VersionTaken(b)
  PROVE  /\ \A a \in batch[b].names :
              /\ NextVersion(batch[b].prev[a]) \in Nat \ {0}
              /\ \A s \in Visible(b) : s.attribute = a => s.version < NextVersion(batch[b].prev[a])
              /\ Row(a, NextVersion(batch[b].prev[a]), batch[b].value, batch[b].now) \in NewRows(b)
              /\ \/ /\ batch[b].prev[a] = NoVersion
                    /\ \A s \in Visible(b) : s.attribute # a
                    /\ Row(a, 0, CreatedValue[a], 0) \in NewRows(b)
                 \/ /\ batch[b].prev[a] \in Nat
                    /\ \E r \in Visible(b) : /\ r.attribute = a /\ r.version = batch[b].prev[a]
                                             /\ r.validFrom <= batch[b].now
         /\ \A n \in NewRows(b) : \E a \in batch[b].names :
              \/ n = Row(a, NextVersion(batch[b].prev[a]), batch[b].value, batch[b].now)
              \/ batch[b].prev[a] = NoVersion /\ n = Row(a, 0, CreatedValue[a], 0)
<1> DEFINE t == batch[b]
           next(a) == NextVersion(t.prev[a])
<1>1. Open(b) /\ t \in Batch /\ t.pc = "versions" /\ Sound(t, history, clock)
      /\ Visible(b) \in SUBSET HistoryRow /\ Ordered(Visible(b))
  <2>1. Open(b)
    BY DEF Open
  <2> QED
    BY <2>1, OpenBatch DEF HistoryInvariant, Sound, Visible
<1>2. \A a \in t.names : \/ t.prev[a] = NoVersion
                         \/ \E r \in Visible(b) : /\ r.attribute = a /\ r.version = t.prev[a]
                                                  /\ r.validFrom <= t.now
  BY <1>1 DEF Sound, Visible
<1>3. \A a \in t.names : \/ t.prev[a] = NoVersion
                         \/ t.prev[a] \in Nat
  BY <1>1, <1>2 DEF HistoryRow
<1>4. \A a \in t.names : next(a) \in Nat \ {0}
  BY <1>3 DEF NextVersion, NoVersion
<1>5. \A a \in t.names : Row(a, next(a), t.value, t.now) \in NewRows(b)
  BY DEF NewRows
<1>6. ASSUME NEW n \in NewRows(b), NEW s \in Visible(b), s.attribute = n.attribute
      PROVE  s.version # n.version
  BY <1>6 DEF VersionTaken
<1>7. ASSUME NEW a \in t.names
      PROVE  \A s \in Visible(b) : s.attribute = a => s.version < next(a)
  <2>1. ~ \E s \in Visible(b) : s.attribute = a /\ s.version = next(a)
    BY <1>5, <1>6 DEF Row
  <2>2. next(a) \in Nat
    BY <1>4
  <2> HIDE DEF next
  <2> QED
    BY <1>1, <2>1, <2>2, NothingNewer
<1>8. ASSUME NEW a \in t.names, t.prev[a] = NoVersion
      PROVE  /\ \A s \in Visible(b) : s.attribute # a
             /\ t.seen[a] = CreatedValue[a]
  <2>1. Row(a, 0, t.seen[a], 0) \in NewRows(b)
    BY <1>8 DEF NewRows, Baseline
  <2>2. ~ \E s \in Visible(b) : s.attribute = a /\ s.version = 0
    BY <1>6, <2>1 DEF Row
  <2>3. \A s \in Visible(b) : s.attribute = a => s.version < 0
    BY <1>1, <2>2, NothingNewer
  <2>4. \A s \in Visible(b) : s.attribute # a
    BY <1>1, <2>3 DEF HistoryRow
  <2>5. VersionsOf(Visible(b), a) = {}
    BY <2>4 DEF VersionsOf
  <2>6. t.seen[a] = CreatedValue[a] \/ VersionsOf(Visible(b), a) # {}
    BY <1>1 DEF Sound, Visible
  <2> QED
    BY <2>4, <2>5, <2>6
<1>9. \A a \in t.names : t.prev[a] = NoVersion => Row(a, 0, CreatedValue[a], 0) \in NewRows(b)
  <2> SUFFICES ASSUME NEW a \in t.names, t.prev[a] = NoVersion
               PROVE  Row(a, 0, CreatedValue[a], 0) \in NewRows(b)
    OBVIOUS
  <2>1. Row(a, 0, t.seen[a], 0) \in NewRows(b)
    BY DEF NewRows, Baseline
  <2> QED
    BY <1>8, <2>1
<1>10. \A n \in NewRows(b) : \E a \in t.names :
         \/ n = Row(a, next(a), t.value, t.now)
         \/ t.prev[a] = NoVersion /\ n = Row(a, 0, CreatedValue[a], 0)
  <2> SUFFICES ASSUME NEW n \in NewRows(b)
               PROVE  \E a \in t.names :
                        \/ n = Row(a, next(a), t.value, t.now)
                        \/ t.prev[a] = NoVersion /\ n = Row(a, 0, CreatedValue[a], 0)
    OBVIOUS
  <2>1. CASE n \in Baseline(b)
    <3>1. PICK a \in t.names : t.prev[a] = NoVersion /\ n = Row(a, 0, t.seen[a], 0)
      BY <2>1 DEF Baseline
    <3> QED
      BY <1>8, <3>1
  <2>2. CASE n \notin Baseline(b)
    BY <2>2 DEF NewRows
  <2> QED
    BY <2>1, <2>2
<1> QED
  BY <1>2, <1>3, <1>4, <1>5, <1>7, <1>8, <1>9, <1>10

\* With its new rows the transaction is still sound.
LEMMA NewRowsFit ==
  ASSUME HistoryInvariant, NEW b \in Batches, batch[b].pc = "versions", ~VersionTaken(b)
  PROVE  /\ NewRows(b) \in SUBSET HistoryRow /\ NewRows(b) # {}
         /\ \A r \in NewRows(b) : r.validFrom <= clock
         /\ Ordered(Visible(b) \cup NewRows(b))
         /\ HoldsNewest(batch[b].rows \cup NewRows(b), Visible(b) \cup NewRows(b))
         /\ HasNewest(Visible(b) \cup NewRows(b))
<1> DEFINE t == batch[b]
           N == NewRows(b)
           V == Visible(b)
           next(a) == NextVersion(t.prev[a])
           top(a) == Row(a, next(a), t.value, t.now)
<1>1. Open(b) /\ t \in Batch /\ Sound(t, history, clock) /\ V \in SUBSET HistoryRow
      /\ t.names \subseteq Attributes /\ t.names # {} /\ t.value \in Values /\ t.now \in Nat
      /\ t.rows \subseteq V /\ clock \in Nat
  <2>1. Open(b)
    BY DEF Open
  <2>2. t \in Batch /\ V \in SUBSET HistoryRow /\ Sound(t, history, clock) /\ t.rows \subseteq V
        /\ clock \in Nat
    BY <2>1, OpenBatch DEF HistoryInvariant, HistoryTypeOK, Visible
  <2>3. t.names \in (SUBSET Attributes) \ {{}} /\ t.value \in Values /\ t.now \in Nat
    BY <2>2 DEF Batch
  <2> QED
    BY <2>1, <2>2, <2>3
<1>2. Ordered(V) /\ HoldsNewest(t.rows, V) /\ HasNewest(V) /\ t.now <= clock
  BY <1>1 DEF Sound, Visible
<1>3. \A a \in t.names : next(a) \in Nat \ {0} /\ top(a) \in N
  BY NewRowsFollow
<1>4. \A a \in t.names : \A s \in V : s.attribute = a => s.version < next(a)
  BY NewRowsFollow
<1>5. \A a \in t.names : \/ /\ t.prev[a] = NoVersion /\ \A s \in V : s.attribute # a
                            /\ Row(a, 0, CreatedValue[a], 0) \in N
                         \/ /\ t.prev[a] \in Nat
                            /\ \E r \in V : r.attribute = a /\ r.version = t.prev[a] /\ r.validFrom <= t.now
  BY NewRowsFollow
<1>6. \A n \in N : \E a \in t.names :
        \/ n = top(a)
        \/ t.prev[a] = NoVersion /\ n = Row(a, 0, CreatedValue[a], 0)
  BY NewRowsFollow
<1>7. \A a \in t.names : \/ t.prev[a] = NoVersion /\ next(a) = 1
                         \/ t.prev[a] \in Nat /\ next(a) = t.prev[a] + 1
  BY <1>5 DEF NextVersion, NoVersion
<1>8. N \in SUBSET HistoryRow
  BY <1>1, <1>3, <1>6, CreatedValueType DEF Row, HistoryRow
<1>9. /\ \A a \in t.names : /\ top(a).attribute = a /\ top(a).version = next(a)
                            /\ top(a).validFrom = t.now
                            /\ Row(a, 0, CreatedValue[a], 0).attribute = a
                            /\ Row(a, 0, CreatedValue[a], 0).version = 0
                            /\ Row(a, 0, CreatedValue[a], 0).value = CreatedValue[a]
                            /\ Row(a, 0, CreatedValue[a], 0).validFrom = 0
  BY DEF Row
<1> HIDE DEF next, top, N, V, t
<1>10. N # {}
  BY <1>1, <1>3
<1>11. \A r \in N : r.validFrom <= clock
  BY <1>1, <1>2, <1>6, <1>9
<1>12. \A n \in N : /\ n.attribute \in t.names
                    /\ \/ n = top(n.attribute) /\ n.version = next(n.attribute) /\ n.validFrom = t.now
                       \/ /\ n = Row(n.attribute, 0, CreatedValue[n.attribute], 0)
                          /\ n.version = 0 /\ n.validFrom = 0 /\ n.value = CreatedValue[n.attribute]
  BY <1>6, <1>9
<1>13. \A n \in N, s \in V : n.attribute = s.attribute => n.version # s.version /\ s.version < next(n.attribute)
  <2> SUFFICES ASSUME NEW n \in N, NEW s \in V, n.attribute = s.attribute
               PROVE  n.version # s.version /\ s.version < next(n.attribute)
    OBVIOUS
  <2>1. s.version < next(n.attribute) /\ n.attribute \in t.names
    BY <1>4, <1>12
  <2>2. n.version # s.version
    <3> SUFFICES ASSUME n.version = s.version PROVE FALSE
      OBVIOUS
    <3> QED
      BY DEF N, V, t, VersionTaken
  <2> QED
    BY <2>1, <2>2
<1>14. Ordered(V \cup N)
  <2>1. ASSUME NEW r \in V \cup N, NEW s \in V \cup N, s.attribute = r.attribute, s.version = r.version
        PROVE  s = r
    <3>1. CASE r \in V /\ s \in V
      BY <1>2, <2>1, <3>1 DEF Ordered
    <3>2. CASE r \in N /\ s \in N
      BY <1>3, <1>12, <2>1, <3>2
    <3> QED
      BY <1>13, <2>1, <3>1, <3>2
  <2>2. ASSUME NEW r \in V \cup N, r.version = 0
        PROVE  r.value = CreatedValue[r.attribute] /\ r.validFrom = 0
    <3>1. CASE r \in V
      BY <1>2, <2>2, <3>1 DEF Ordered
    <3>2. CASE r \in N
      BY <1>3, <1>12, <2>2, <3>2
    <3> QED
      BY <3>1, <3>2
  <2>3. ASSUME NEW r \in V \cup N, NEW v \in 0..r.version
        PROVE  \E s \in V \cup N : s.attribute = r.attribute /\ s.version = v /\ s.validFrom <= r.validFrom
    <3>1. CASE r \in V
      BY <1>2, <2>3, <3>1 DEF Ordered
    <3>2. CASE r \in N /\ r.version = v
      BY <1>1, <1>8, <2>3, <3>2 DEF HistoryRow
    <3>3. CASE r \in N /\ r.version # v
      <4> DEFINE a == r.attribute
      <4>1. a \in t.names /\ r.version = next(a) /\ r.validFrom = t.now /\ v < next(a)
        BY <1>3, <1>12, <2>3, <3>3
      <4>2. CASE t.prev[a] = NoVersion
        <5>1. v = 0 /\ Row(a, 0, CreatedValue[a], 0) \in N
          BY <1>5, <1>7, <2>3, <4>1, <4>2 DEF NoVersion
        <5> QED
          BY <1>1, <1>9, <4>1, <5>1
      <4>3. CASE t.prev[a] # NoVersion
        <5>1. PICK q \in V : q.attribute = a /\ q.version = t.prev[a] /\ q.validFrom <= t.now
          BY <1>5, <4>1, <4>3
        <5>2. v \in 0..q.version
          BY <1>5, <1>7, <2>3, <4>1, <4>3, <5>1
        <5>3. PICK s \in V : s.attribute = q.attribute /\ s.version = v /\ s.validFrom <= q.validFrom
          BY <1>2, <5>2 DEF Ordered
        <5>4. s.validFrom \in Nat /\ q.validFrom \in Nat
          BY <1>1 DEF HistoryRow
        <5>5. s.validFrom <= r.validFrom
          BY <1>1, <4>1, <5>1, <5>3, <5>4
        <5> QED
          BY <4>1, <5>1, <5>3, <5>5
      <4> QED
        BY <4>2, <4>3
    <3> QED
      BY <3>1, <3>2, <3>3
  <2> QED
    BY <2>1, <2>2, <2>3 DEF Ordered
<1>15. \A a \in t.names : \A s \in V \cup N : s.attribute = a => s.version <= top(a).version
  <2> SUFFICES ASSUME NEW a \in t.names, NEW s \in V \cup N, s.attribute = a
               PROVE  s.version <= next(a)
    BY <1>9
  <2>1. CASE s \in V
    BY <1>1, <1>3, <1>4, <2>1 DEF HistoryRow
  <2>2. CASE s \in N
    BY <1>3, <1>12, <2>2
  <2> QED
    BY <2>1, <2>2
<1>16. HoldsNewest(t.rows \cup N, V \cup N)
  <2> SUFFICES ASSUME NEW r \in t.rows \cup N
               PROVE  \E s \in t.rows \cup N :
                        /\ s.attribute = r.attribute
                        /\ \A x \in V \cup N : x.attribute = r.attribute => x.version <= s.version
    BY DEF HoldsNewest
  <2>1. CASE r.attribute \in t.names
    BY <1>3, <1>9, <1>15, <2>1
  <2>2. CASE r.attribute \notin t.names
    <3>1. r \in t.rows /\ \A x \in V \cup N : x.attribute = r.attribute => x \in V
      BY <1>12, <2>2
    <3> QED
      BY <1>2, <3>1 DEF HoldsNewest
  <2> QED
    BY <2>1, <2>2
<1>17. HasNewest(V \cup N)
  <2>1. ASSUME NEW k \in Nat, \A s \in V : s.version <= k, k = 0 \/ \E s \in V : s.version = k
        PROVE  HasNewest(V \cup N)
    <3>1. \A a \in t.names : next(a) <= k + 1
      BY <1>1, <1>5, <1>7, <2>1 DEF NoVersion
    <3>2. \A n \in N : n.version <= k + 1
      BY <1>3, <1>12, <3>1
    <3>3. CASE \E n \in N : n.version = k + 1
      <4>1. \A s \in V : s.version <= k + 1
        BY <1>1, <2>1 DEF HistoryRow
      <4> QED
        BY <3>2, <3>3, <4>1 DEF HasNewest
    <3>4. CASE ~ \E n \in N : n.version = k + 1
      <4>1. \A n \in N : n.version \in Nat
        BY <1>8 DEF HistoryRow
      <4>2. \A n \in N : n.version <= k
        BY <3>2, <3>4, <4>1
      <4>3. k # 0
        BY <1>1, <1>3, <1>9, <3>4, <4>2
      <4> QED
        BY <2>1, <4>2, <4>3 DEF HasNewest
    <3> QED
      BY <3>3, <3>4
  <2>2. CASE V = {}
    BY <2>1, <2>2
  <2>3. CASE V # {}
    <3>1. PICK m \in V : \A s \in V : s.version <= m.version
      BY <1>2, <2>3 DEF HasNewest
    <3>2. m.version \in Nat
      BY <1>1 DEF HistoryRow
    <3> QED
      BY <2>1, <3>1, <3>2
  <2> QED
    BY <2>2, <2>3
<1> QED
  BY <1>8, <1>10, <1>11, <1>14, <1>16, <1>17 DEF N, V, t

LEMMA WriteVersionsKeeps ==
  ASSUME HistoryAssumption, HistoryInvariant, NEW b \in Batches, WriteVersions(b)
  PROVE  HistoryInvariant'
<1> DEFINE t == batch[b]
           u == [t EXCEPT !.rows = @ \cup NewRows(b),
                          !.pc = IF t.left = 0 THEN "written" ELSE "tick",
                          !.value = IF t.left = 0 THEN @ ELSE @ + 1]
<1>1. Open(b) /\ t \in Batch /\ Sound(t, history, clock) /\ (t.left > 0 => t.value \in Nat)
      /\ t.left \in Nat
  <2>1. Open(b)
    BY DEF WriteVersions, Open
  <2>2. t \in Batch
    BY <2>1, OpenBatch DEF HistoryInvariant
  <2> QED
    BY <2>1, <2>2, HistoryAssumption DEF HistoryInvariant, HistoryTypeOK, Batch
<1>2. /\ NewRows(b) \in SUBSET HistoryRow /\ NewRows(b) # {}
      /\ \A r \in NewRows(b) : r.validFrom <= clock
      /\ Ordered(Visible(b) \cup NewRows(b))
      /\ HoldsNewest(t.rows \cup NewRows(b), Visible(b) \cup NewRows(b))
      /\ HasNewest(Visible(b) \cup NewRows(b))
  BY NewRowsFit DEF WriteVersions
<1>3. batch'[b] = u /\ \A c \in Batches \ {b} : batch'[c] = batch[c]
  BY DEF WriteVersions, HistoryInvariant, HistoryTypeOK
<1>4. history \cup (t.rows \cup NewRows(b)) = Visible(b) \cup NewRows(b)
  BY DEF Visible
<1> HIDE DEF t
<1>5. u \in Batch /\ u.pc \in {"written", "tick"} /\ u.left = t.left /\ u.now = t.now
      /\ u.rows = t.rows \cup NewRows(b)
      /\ (u.pc = "tick" => u.left > 0) /\ (u.left > 0 => u.value \in Nat)
  <2>1. (t.left = 0 => t.value \in Values) /\ (t.left # 0 => t.value + 1 \in Nat)
    BY <1>1 DEF Batch
  <2>2. (IF t.left = 0 THEN t.value ELSE t.value + 1) \in Values
    BY <2>1 DEF Values
  <2>3. t.rows \cup NewRows(b) \in SUBSET HistoryRow
    BY <1>1, <1>2 DEF Batch
  <2>4. u.pc = (IF t.left = 0 THEN "written" ELSE "tick") /\ u.left = t.left /\ u.now = t.now
        /\ u.rows = t.rows \cup NewRows(b)
        /\ u.value = IF t.left = 0 THEN t.value ELSE t.value + 1
    BY <1>1 DEF Batch
  <2>5. u \in Batch
    BY <1>1, <2>2, <2>3 DEF Batch
  <2> QED
    BY <1>1, <2>1, <2>4, <2>5
<1> HIDE DEF u
<1>6. Sound(u, history, clock)
  <2>1. /\ \A r \in u.rows : r.validFrom <= clock
        /\ u.now <= clock
    BY <1>1, <1>2, <1>5 DEF Sound
  <2> QED
    BY <1>2, <1>4, <1>5, <2>1 DEF Sound
<1>7. batch' \in [Batches -> Batch \cup {[pc |-> "new"], [pc |-> "ended"]}]
  BY <1>3, <1>5 DEF HistoryInvariant, HistoryTypeOK, WriteVersions
<1>8. /\ UNCHANGED <<clock, current, history>>
      /\ seen' \subseteq Copy /\ applied' \in [Batches -> SUBSET Copy]
      /\ reader'.pc \in {"idle", "attributes", "answered"}
  BY DEF WriteVersions, HistoryInvariant, HistoryTypeOK
<1>9. Sound(batch[b], history, clock)'
  BY <1>3, <1>6, <1>8
<1>10. \A c \in Batches \ {b} : Open(c) => batch[c].rows = {}
  BY DEF WriteVersions, PassportLocked
<1> QED
  BY <1>3, <1>5, <1>7, <1>8, <1>9, <1>10, OneBatchMoves

(***************************************************************************)
(* What a commit makes of the transactions it passes.                      *)
(***************************************************************************)
LEMMA CommitKeeps ==
  ASSUME HistoryInvariant, NEW b \in Batches, Commit(b)
  PROVE  HistoryInvariant'
<1> DEFINE t == batch[b]
           V == Visible(b)
<1>1. Open(b) /\ t \in Batch /\ Sound(t, history, clock) /\ V \in SUBSET HistoryRow
      /\ V = history \cup t.rows /\ t.rows # {} /\ t.now \in Nat /\ history \in SUBSET HistoryRow
  <2>1. Open(b) /\ t.pc = "written"
    BY DEF Commit, Open
  <2>2. t \in Batch /\ V \in SUBSET HistoryRow /\ Sound(t, history, clock)
    BY <2>1, OpenBatch DEF HistoryInvariant
  <2> QED
    BY <2>1, <2>2 DEF Visible, Sound, Batch, HistoryInvariant, HistoryTypeOK
<1>2. Ordered(V) /\ HoldsNewest(t.rows, V) /\ HasNewest(V) /\ \A r \in t.rows : r.validFrom <= clock
  BY <1>1 DEF Sound
<1>3. history' = V /\ clock' = clock
      /\ current' = [a \in Attributes |-> CurrentSeen(b, a)]
      /\ seen' = seen /\ reader' = reader
  BY <1>1 DEF Commit
<1>4. ASSUME NEW c \in Batches, Open(c)'
      PROVE  Open(c) /\ batch'[c] = batch[c] /\ batch[c].rows = {}
  <2>1. batch'[c] = batch[c] /\ c # b
    BY <1>1, <1>4 DEF Commit, Open, HistoryInvariant, HistoryTypeOK
  <2>2. Open(c)
    BY <1>4, <2>1 DEF Open
  <2> QED
    BY <1>1, <2>1, <2>2 DEF HistoryInvariant
<1>5. HistoryTypeOK'
  <2>1. current' \in [Attributes -> Values]
    BY <1>1, <1>3, CurrentSeenType
  <2>2. applied' \in [Batches -> SUBSET Copy]
    <3>1. applied \in [Batches -> SUBSET Copy] /\ applied' = [applied EXCEPT ![b] = t.frame]
      BY DEF Commit, HistoryInvariant, HistoryTypeOK
    <3>2. t.frame \in SUBSET Copy
      BY <1>1 DEF Batch
    <3> HIDE DEF t
    <3> QED
      BY <3>1, <3>2
  <2>3. batch' \in [Batches -> Batch \cup {[pc |-> "new"], [pc |-> "ended"]}]
    BY DEF Commit, HistoryInvariant, HistoryTypeOK
  <2>4. clock' \in Nat /\ history' \subseteq HistoryRow
        /\ seen' \subseteq Copy
        /\ reader'.pc \in {"idle", "attributes", "answered"}
    BY <1>1, <1>3 DEF HistoryInvariant, HistoryTypeOK
  <2>5. \A c \in Batches : Open(c)' => /\ batch'[c].pc = "tick" => batch'[c].left > 0
                                       /\ batch'[c].left > 0 => batch'[c].value \in Nat
    BY <1>4 DEF HistoryInvariant, HistoryTypeOK
  <2> QED
    BY <2>1, <2>2, <2>3, <2>4, <2>5 DEF HistoryTypeOK
<1> HIDE DEF t, V
<1>6. ASSUME NEW a \in Attributes
      PROVE  current'[a] = IF VersionsOf(V, a) = {} THEN CreatedValue[a] ELSE ValueOf(V, a)
  <2>1. CASE VersionsOf(t.rows, a) # {}
    <3>1. \E r \in t.rows : r.attribute = a /\ ValueOf(t.rows, a) = r.value /\ ValueOf(V, a) = r.value
      <4>1. Open(b) /\ VersionsOf(batch[b].rows, a) # {}
        BY <1>1, <2>1 DEF t
      <4>2. \E r \in batch[b].rows : /\ r.attribute = a
                                    /\ ValueOf(batch[b].rows, a) = r.value
                                    /\ ValueOf(Visible(b), a) = r.value
        BY <4>1, OwnRowIsNewest
      <4> QED
        BY <4>2 DEF t, V
    <3>2. VersionsOf(V, a) # {}
      BY <1>1, <3>1 DEF VersionsOf
    <3> QED
      BY <1>3, <2>1, <3>1, <3>2 DEF CurrentSeen, t
  <2>2. CASE VersionsOf(t.rows, a) = {}
    <3>1. current'[a] = current[a]
      BY <1>3, <2>2 DEF CurrentSeen, t
    <3>2. \A r \in V : r.attribute = a => r \in history
      BY <1>1, <2>2 DEF VersionsOf
    <3>3. VersionsOf(V, a) = VersionsOf(history, a)
      BY <1>1, <3>2 DEF VersionsOf
    <3>4. CASE VersionsOf(history, a) = {}
      BY <3>1, <3>3, <3>4 DEF HistoryInvariant, NewestIsCurrent
    <3>5. CASE VersionsOf(history, a) # {}
      <4>1. PICK q \in history : q.attribute = a
        BY <3>5 DEF VersionsOf
      <4>2. PICK r \in history : r.attribute = a
              /\ \A s \in history : s.attribute = a => s.version <= r.version
        BY <4>1 DEF HistoryInvariant, HoldsNewest
      <4>3. r \in V /\ (\A s \in V : s.attribute = a => s.version <= r.version)
            /\ \A s \in V : s.attribute = r.attribute /\ s.version = r.version => s = r
        BY <1>1, <1>2, <3>2, <4>2 DEF Ordered
      <4>4. ValueOf(V, r.attribute) = r.value
        BY <1>1, <4>2, <4>3, ValueOfNewest
      <4>5. ValueOf(history, r.attribute) = r.value
        BY <1>1, <4>2, <4>3, ValueOfNewest
      <4>6. current[a] = ValueOf(history, a)
        BY <3>5 DEF HistoryInvariant, NewestIsCurrent
      <4> QED
        BY <3>1, <3>3, <3>5, <4>2, <4>4, <4>5, <4>6
    <3> QED
      BY <3>4, <3>5
  <2> QED
    BY <2>1, <2>2
<1>7. HistoryIsOrdered' /\ NewestIsCurrent'
  <2>1. HistoryIsOrdered'
    BY <1>2, <1>3 DEF HistoryIsOrdered
  <2>2. ASSUME NEW a \in Attributes
        PROVE  current'[a] = IF VersionsOf(history', a) = {} THEN CreatedValue[a] ELSE ValueOf(history', a)
    BY <1>3, <1>6
  <2> QED
    BY <2>1, <2>2 DEF NewestIsCurrent
<1>8. HoldsNewest(V, V)
  <2> SUFFICES ASSUME NEW r \in V
               PROVE  \E s \in V : /\ s.attribute = r.attribute
                                   /\ \A x \in V : x.attribute = r.attribute => x.version <= s.version
    BY DEF HoldsNewest
  <2>1. CASE \E q \in t.rows : q.attribute = r.attribute
    BY <1>1, <1>2, <2>1 DEF HoldsNewest
  <2>2. CASE ~ \E q \in t.rows : q.attribute = r.attribute
    <3>1. r \in history /\ \A x \in V : x.attribute = r.attribute => x \in history
      BY <1>1, <2>2
    <3>2. HoldsNewest(history, history)
      BY DEF HistoryInvariant
    <3> QED
      BY <1>1, <3>1, <3>2 DEF HoldsNewest
  <2> QED
    BY <2>1, <2>2
<1>9. \A r \in V : r.validFrom <= clock
  BY <1>1, <1>2 DEF HistoryInvariant
<1>10. ASSUME NEW c \in Batches, Open(c)'
       PROVE  Sound(batch'[c], V, clock)
  <2>1. Open(c) /\ batch'[c] = batch[c] /\ batch[c].rows = {} /\ Sound(batch[c], history, clock)
    BY <1>4, <1>10 DEF HistoryInvariant
  <2>2. V \cup batch[c].rows = V /\ history \cup batch[c].rows = history /\ history \subseteq V
    BY <1>1, <2>1
  <2>3. \A a : VersionsOf(history, a) # {} => VersionsOf(V, a) # {}
    BY <2>2 DEF VersionsOf
  <2>4. /\ batch[c].now <= clock
        /\ batch[c].pc # "written"
        /\ batch[c].pc \in {"read", "versions"} => \A a \in batch[c].names :
             batch[c].seen[a] = CreatedValue[a] \/ VersionsOf(history, a) # {}
        /\ batch[c].pc = "versions" => \A a \in batch[c].names :
             \/ batch[c].prev[a] = NoVersion
             \/ \E r \in history : /\ r.attribute = a /\ r.version = batch[c].prev[a]
                                   /\ r.validFrom <= batch[c].now
    BY <2>1, <2>2 DEF Sound
  <2>5. HoldsNewest(batch[c].rows, V)
    BY <2>1 DEF HoldsNewest
  <2> QED
    BY <1>2, <2>1, <2>2, <2>3, <2>4, <2>5 DEF Sound
<1> QED
  <2>1. HoldsNewest(history, history)' /\ HasNewest(history)' /\ \A r \in history' : r.validFrom <= clock'
    BY <1>2, <1>3, <1>8, <1>9
  <2>2. \A c, d \in Batches : Open(c)' /\ Open(d)' /\ batch'[c].rows # {} /\ batch'[d].rows # {} => c = d
    BY <1>4
  <2>3. \A c \in Batches : Open(c)' => Sound(batch[c], history, clock)'
    BY <1>3, <1>10
  <2> QED
    BY <1>5, <1>7, <2>1, <2>2, <2>3 DEF HistoryInvariant

(***************************************************************************)
(* Time, a crash, and steps that do not touch the tables.                  *)
(***************************************************************************)
LEMMA TickKeeps ==
  ASSUME HistoryInvariant, Tick
  PROVE  HistoryInvariant'
<1>1. clock \in Nat /\ clock' = clock + 1 /\ current' = current /\ history' = history
      /\ batch' = batch /\ seen' = seen /\ applied' = applied
      /\ reader' = reader
  BY DEF Tick, HistoryInvariant, HistoryTypeOK
<1>2. \A b \in Batches : Open(b)' <=> Open(b)
  BY <1>1 DEF Open
<1>3. HistoryTypeOK'
  BY <1>1, <1>2 DEF HistoryInvariant, HistoryTypeOK
<1>4. HistoryIsOrdered' /\ NewestIsCurrent' /\ HoldsNewest(history, history)' /\ HasNewest(history)'
  BY <1>1 DEF HistoryInvariant, HistoryIsOrdered, NewestIsCurrent
<1>5. ASSUME NEW r \in HistoryRow, r.validFrom <= clock
      PROVE  r.validFrom <= clock + 1
  BY <1>1, <1>5 DEF HistoryRow
<1>6. \A r \in history' : r.validFrom <= clock'
  BY <1>1, <1>5 DEF HistoryInvariant, HistoryTypeOK
<1>7. ASSUME NEW b \in Batches, Open(b)
      PROVE  Sound(batch[b], history, clock + 1)
  <2>1. batch[b] \in Batch /\ Sound(batch[b], history, clock)
    BY <1>7, OpenBatch DEF HistoryInvariant
  <2>2. (\A r \in batch[b].rows : r.validFrom <= clock) /\ batch[b].now <= clock
    BY <2>1 DEF Sound
  <2>3. (\A r \in batch[b].rows : r.validFrom <= clock + 1) /\ batch[b].now <= clock + 1
    BY <1>1, <1>5, <2>1, <2>2 DEF Batch
  <2> QED
    BY <2>1, <2>3 DEF Sound
<1>8. \A b \in Batches : Open(b)' => Sound(batch[b], history, clock)'
  BY <1>1, <1>2, <1>7
<1>9. \A b, c \in Batches : Open(b)' /\ Open(c)' /\ batch'[b].rows # {} /\ batch'[c].rows # {} => b = c
  BY <1>1, <1>2 DEF HistoryInvariant
<1> QED
  BY <1>3, <1>4, <1>6, <1>8, <1>9 DEF HistoryInvariant

LEMMA CrashKeeps ==
  ASSUME HistoryInvariant, Crash
  PROVE  HistoryInvariant'
<1>1. \A b \in Batches : ~Open(b)'
  BY DEF Crash, HistoryInvariant, HistoryTypeOK, Open
<1>2. HistoryTypeOK'
  BY <1>1 DEF Crash, HistoryInvariant, HistoryTypeOK, NoReader
<1>3. HistoryIsOrdered' /\ NewestIsCurrent' /\ HoldsNewest(history, history)' /\ HasNewest(history)'
      /\ \A r \in history' : r.validFrom <= clock'
  BY DEF Crash, HistoryInvariant, HistoryIsOrdered, NewestIsCurrent
<1> QED
  BY <1>1, <1>2, <1>3 DEF HistoryInvariant

\* A step that leaves the clock, the tables and the transactions alone.
LEMMA NothingWritten ==
  ASSUME HistoryInvariant, UNCHANGED <<clock, current, history, batch>>,
         seen' \subseteq Copy, applied' \in [Batches -> SUBSET Copy],
         reader'.pc \in {"idle", "attributes", "answered"}
  PROVE  HistoryInvariant'
<1>1. \A b \in Batches : Open(b)' <=> Open(b)
  BY DEF Open
<1>2. HistoryTypeOK'
  BY <1>1 DEF HistoryInvariant, HistoryTypeOK
<1>3. HistoryIsOrdered' /\ NewestIsCurrent' /\ HoldsNewest(history, history)' /\ HasNewest(history)'
      /\ \A r \in history' : r.validFrom <= clock'
  BY DEF HistoryInvariant, HistoryIsOrdered, NewestIsCurrent
<1>4. \A b \in Batches : Open(b)' => Sound(batch[b], history, clock)'
  BY <1>1 DEF HistoryInvariant
<1>5. \A b, c \in Batches : Open(b)' /\ Open(c)' /\ batch'[b].rows # {} /\ batch'[c].rows # {} => b = c
  BY <1>1 DEF HistoryInvariant
<1> QED
  BY <1>2, <1>3, <1>4, <1>5 DEF HistoryInvariant

LEMMA InitHolds == HistoryAssumption /\ Init => HistoryInvariant
<1> SUFFICES ASSUME Init PROVE HistoryInvariant
  OBVIOUS
<1>1. \A b \in Batches : batch[b] = [pc |-> "new"] /\ ~Open(b)
  BY DEF Init, NoBatch, Open
<1>2. HistoryTypeOK
  BY <1>1, CreatedValueType DEF Init, NoBatch, NoReader, HistoryTypeOK
<1>3. HistoryIsOrdered /\ HoldsNewest(history, history) /\ HasNewest(history)
      /\ \A r \in history : r.validFrom <= clock
  BY DEF Init, HistoryIsOrdered, Ordered, HoldsNewest, HasNewest
<1>4. NewestIsCurrent
  BY DEF Init, NewestIsCurrent, VersionsOf
<1> QED
  BY <1>1, <1>2, <1>3, <1>4 DEF HistoryInvariant

LEMMA NextKeeps == HistoryAssumption /\ HistoryInvariant /\ [Next]_vars => HistoryInvariant'
<1> SUFFICES ASSUME HistoryAssumption, HistoryInvariant, [Next]_vars
             PROVE  HistoryInvariant'
  OBVIOUS
<1>1. ASSUME NEW b \in Batches, UpdateAttributes(b)  PROVE HistoryInvariant'
  BY <1>1, UpdateAttributesKeeps
<1>2. ASSUME NEW b \in Batches, TriggerSimulator(b)  PROVE HistoryInvariant'
  BY <1>2, TriggerSimulatorKeeps
<1>3. ASSUME NEW b \in Batches, ChangeBatteryStatus(b)  PROVE HistoryInvariant'
  BY <1>3, ChangeBatteryStatusKeeps
<1>4. ASSUME NEW b \in Batches, ReadCurrent(b)  PROVE HistoryInvariant'
  BY <1>4, ReadCurrentKeeps
<1>5. ASSUME NEW b \in Batches, ReadVersions(b)  PROVE HistoryInvariant'
  BY <1>5, ReadVersionsKeeps
<1>6. ASSUME NEW b \in Batches, WriteVersions(b)  PROVE HistoryInvariant'
  BY <1>6, WriteVersionsKeeps
<1>7. ASSUME NEW b \in Batches, Commit(b)  PROVE HistoryInvariant'
  BY <1>7, CommitKeeps
<1>8. ASSUME NEW b \in Batches, RollBack(b)  PROVE HistoryInvariant'
  BY <1>8, RollBackKeeps
<1>9. ASSUME NEW b \in Batches, NEW f \in Frames, PostFrame(f, b)  PROVE HistoryInvariant'
  BY <1>9, PostFrameKeeps
<1>10. ASSUME NEW s \in seen, ForgetSignature(s)  PROVE HistoryInvariant'
  <2>1. seen' \subseteq Copy /\ applied' \in [Batches -> SUBSET Copy]
        /\ reader'.pc \in {"idle", "attributes", "answered"}
        /\ UNCHANGED <<clock, current, history, batch>>
    BY <1>10 DEF ForgetSignature, HistoryInvariant, HistoryTypeOK
  <2> QED
    BY <2>1, NothingWritten
<1>11. ASSUME (\E date \in Times : ReadAttributes(date)) \/ ReadHistory  PROVE HistoryInvariant'
  <2>1. seen' \subseteq Copy /\ applied' \in [Batches -> SUBSET Copy]
        /\ reader'.pc \in {"idle", "attributes", "answered"}
        /\ UNCHANGED <<clock, current, history, batch>>
    BY <1>11 DEF ReadAttributes, ReadHistory, HistoryInvariant, HistoryTypeOK
  <2> QED
    BY <2>1, NothingWritten
<1>12. CASE UNCHANGED vars
  <2>1. seen' \subseteq Copy /\ applied' \in [Batches -> SUBSET Copy]
        /\ reader'.pc \in {"idle", "attributes", "answered"}
        /\ UNCHANGED <<clock, current, history, batch>>
    BY <1>12 DEF vars, HistoryInvariant, HistoryTypeOK
  <2> QED
    BY <2>1, NothingWritten
<1> QED
  BY <1>1, <1>2, <1>3, <1>4, <1>5, <1>6, <1>7, <1>8, <1>9, <1>10, <1>11, <1>12,
     TickKeeps, CrashKeeps DEF Next

\* Whatever transactions of telemetry, simulator and lifecycle are open, and on
\* either database, one at a time writes and each one is sound: what it has read
\* is still the newest, or its next write fails (writeAttributeVersions).
THEOREM HistoryIsInvariant == Spec => []HistoryInvariant
<1>1. Init => HistoryInvariant
  BY InitHolds, HistoryAssumption
<1>2. HistoryInvariant /\ [Next]_vars => HistoryInvariant'
  BY NextKeeps, HistoryAssumption
<1> QED
  BY <1>1, <1>2, PTL DEF Spec

\* The versions of every attribute have no gap and no twin, begin with the value
\* of the creation and are valid one after the other, however the transactions
\* that write them interleave (writeAttributeVersions, the unique key of the schema).
THEOREM VersionsStayOrdered == Spec => []HistoryIsOrdered
<1>1. HistoryInvariant => HistoryIsOrdered
  BY DEF HistoryInvariant
<1> QED
  BY <1>1, HistoryIsInvariant, PTL

\* The value updated in place is always that of the newest version: neither table
\* loses an update that the other one has (writeAttributeVersions).
THEOREM NewestStaysCurrent == Spec => []NewestIsCurrent
<1>1. HistoryInvariant => NewestIsCurrent
  BY DEF HistoryInvariant
<1> QED
  BY <1>1, HistoryIsInvariant, PTL

(***************************************************************************)
(* What a step makes of the transactions that stay open.                   *)
(***************************************************************************)
\* One step of an open transaction: its frame stays, its time is taken when it
\* reads the versions, and what it writes is a baseline or is valid from its time.
GoesOn(t, u) ==
  /\ u.frame = t.frame
  /\ u.pc = "versions" => u.now = clock \/ (t.pc = "versions" /\ u.now = t.now)
  /\ \A r \in u.rows : \/ r \in t.rows \/ r.version = 0
                       \/ t.pc = "versions" /\ r.validFrom = t.now

\* One that has just started has read the current values, and at most that.
Starts(c, u) ==
  /\ u.pc \in {"tick", "read"} /\ u.rows = {}
  /\ u.frame = {} \/ \E f \in Frames : PostFrame(f, c) /\ u.frame = {CopyOf(f)}

LEMMA StartedStarts ==
  ASSUME NEW names, NEW value, NEW from, NEW ticks
  PROVE  LET u == Started(names, value, from, ticks)
         IN  u.pc \in {"tick", "read"} /\ u.rows = {} /\ u.frame = from
  BY DEF Started

LEMMA BatchMoves ==
  ASSUME HistoryInvariant, [Next]_vars, NEW c \in Batches, Open(c)'
  PROVE  \/ Open(c) /\ GoesOn(batch[c], batch'[c])
         \/ ~Open(c) /\ Starts(c, batch'[c])
<1>1. batch \in [Batches -> Batch \cup {[pc |-> "new"], [pc |-> "ended"]}]
  BY DEF HistoryInvariant, HistoryTypeOK
<1>2. CASE batch'[c] = batch[c]
  <2>1. Open(c)
    BY <1>2 DEF Open
  <2> QED
    BY <1>2, <2>1 DEF GoesOn
<1>3. ASSUME NEW b \in Batches, batch[b].pc = "new", NEW names, NEW value, NEW from, NEW ticks,
             batch' = [batch EXCEPT ![b] = Started(names, value, from, ticks)],
             from = {} \/ \E f \in Frames : PostFrame(f, b) /\ from = {CopyOf(f)}
      PROVE  b = c => ~Open(c) /\ Starts(c, batch'[c])
  BY <1>1, <1>3, StartedStarts DEF Starts, Open
<1>4. ASSUME NEW b \in Batches, UpdateAttributes(b) \/ TriggerSimulator(b) \/ ChangeBatteryStatus(b)
      PROVE  b = c => ~Open(c) /\ Starts(c, batch'[c])
  <2>1. /\ batch[b].pc = "new"
        /\ \E names, value, ticks : batch' = [batch EXCEPT ![b] = Started(names, value, {}, ticks)]
    BY <1>4 DEF UpdateAttributes, TriggerSimulator, ChangeBatteryStatus
  <2> QED
    BY <1>3, <2>1
<1>5. ASSUME NEW b \in Batches, NEW f \in Frames, PostFrame(f, b)
      PROVE  b = c => ~Open(c) /\ Starts(c, batch'[c])
  <2>1. /\ batch[b].pc = "new"
        /\ \E names : batch' = [batch EXCEPT ![b] = Started(names, b, {CopyOf(f)}, 0)]
    BY <1>5 DEF PostFrame
  <2>2. \E g \in Frames : PostFrame(g, b) /\ {CopyOf(f)} = {CopyOf(g)}
    BY <1>5
  <2> QED
    BY <1>3, <2>1, <2>2
<1>6. ASSUME ReadCurrent(c)
      PROVE  Open(c) /\ GoesOn(batch[c], batch'[c])
  <2>1. Open(c)
    BY <1>6 DEF ReadCurrent, Open
  <2>2. batch[c] \in Batch
    BY <2>1, OpenBatch DEF HistoryInvariant
  <2> DEFINE found == [a \in Attributes |->
                        IF a \in batch[c].names THEN CurrentSeen(c, a) ELSE CreatedValue[a]]
             u == [batch[c] EXCEPT !.pc = "read", !.left = @ - 1, !.seen = found]
  <2>3. batch'[c] = u
    BY <1>1, <1>6 DEF ReadCurrent
  <2> HIDE DEF found
  <2>4. u.pc = "read" /\ u.frame = batch[c].frame /\ u.rows = batch[c].rows
    BY <2>2 DEF Batch
  <2> HIDE DEF u
  <2> QED
    BY <2>1, <2>3, <2>4 DEF GoesOn
<1>7. ASSUME ReadVersions(c)
      PROVE  Open(c) /\ GoesOn(batch[c], batch'[c])
  <2>1. Open(c)
    BY <1>7 DEF ReadVersions, Open
  <2>2. batch[c] \in Batch
    BY <2>1, OpenBatch DEF HistoryInvariant
  <2> DEFINE found == [a \in Attributes |->
                        IF a \in batch[c].names THEN Newest(VersionsOf(Visible(c), a) \cup {NoVersion})
                        ELSE NoVersion]
             u == [batch[c] EXCEPT !.pc = "versions", !.now = clock, !.prev = found]
  <2>3. batch'[c] = u
    BY <1>1, <1>7 DEF ReadVersions
  <2> HIDE DEF found
  <2>4. u.now = clock /\ u.frame = batch[c].frame /\ u.rows = batch[c].rows
    BY <2>2 DEF Batch
  <2> HIDE DEF u
  <2> QED
    BY <2>1, <2>3, <2>4 DEF GoesOn
<1>8. ASSUME WriteVersions(c)
      PROVE  Open(c) /\ GoesOn(batch[c], batch'[c])
  <2>1. Open(c) /\ batch[c].pc = "versions"
    BY <1>8 DEF WriteVersions, Open
  <2>2. batch[c] \in Batch
    BY <2>1, OpenBatch DEF HistoryInvariant
  <2> DEFINE u == [batch[c] EXCEPT !.rows = @ \cup NewRows(c),
                                   !.pc = IF batch[c].left = 0 THEN "written" ELSE "tick",
                                   !.value = IF batch[c].left = 0 THEN @ ELSE @ + 1]
  <2>3. batch'[c] = u
    BY <1>1, <1>8 DEF WriteVersions
  <2>4. u.frame = batch[c].frame /\ u.rows = batch[c].rows \cup NewRows(c) /\ u.pc # "versions"
    BY <2>2 DEF Batch
  <2> HIDE DEF u
  <2>5. \A r \in NewRows(c) : r.version = 0 \/ r.validFrom = batch[c].now
    BY DEF NewRows, Baseline, Row
  <2> QED
    BY <2>1, <2>3, <2>4, <2>5 DEF GoesOn
<1>9. ASSUME NEW b \in Batches, ReadCurrent(b) \/ ReadVersions(b) \/ WriteVersions(b), b # c
      PROVE  batch'[c] = batch[c]
  BY <1>1, <1>9 DEF ReadCurrent, ReadVersions, WriteVersions
<1>10. ASSUME NEW b \in Batches, Commit(b) \/ RollBack(b)
       PROVE  batch'[c] = batch[c]
  BY <1>1, <1>10 DEF Commit, RollBack, Open
<1>11. ASSUME NEW b \in Batches, b # c, \/ UpdateAttributes(b) \/ TriggerSimulator(b) \/ ChangeBatteryStatus(b)
                                       \/ \E f \in Frames : PostFrame(f, b)
       PROVE  batch'[c] = batch[c]
  BY <1>1, <1>11 DEF UpdateAttributes, TriggerSimulator, ChangeBatteryStatus, PostFrame
<1>12. ~Crash
  BY <1>1 DEF Crash, Open
<1>13. ((\E s \in seen : ForgetSignature(s)) \/ (\E date \in Times : ReadAttributes(date))
          \/ ReadHistory \/ Tick \/ UNCHANGED vars) => batch' = batch
  BY DEF ForgetSignature, ReadAttributes, ReadHistory, Tick, vars
<1> QED
  BY <1>2, <1>4, <1>5, <1>6, <1>7, <1>8, <1>9, <1>10, <1>11, <1>12, <1>13 DEF Next

(***************************************************************************)
(* The replay window.                                                      *)
(***************************************************************************)
\* The copies of frames that request b has applied, or is about to.
Copies(b) == applied[b] \cup (IF Open(b) THEN batch[b].frame ELSE {})

\* The two ends of the window of a frame.
AtItsEdges(x, y) == {x.at, y.at} = {x.frame - Skew, x.frame + Skew}

\* A copy came no earlier than its window opened, and is remembered until the
\* retention is over; so the next one is not accepted before the window ends.
WindowInvariant ==
  /\ \A b \in Batches : \A x \in Copies(b) :
       x.at >= x.frame - Skew /\ (x \in seen \/ clock >= x.at + 2 * Skew)
  /\ \A b, c \in Batches : b # c =>
       \A x \in Copies(b), y \in Copies(c) : x.frame = y.frame => AtItsEdges(x, y)

\* A request has new copies only when a frame is accepted for it.
LEMMA CopiesStay ==
  ASSUME HistoryInvariant, [Next]_vars, NEW b \in Batches, ~ \E f \in Frames : PostFrame(f, b)
  PROVE  Copies(b)' \subseteq Copies(b)
<1>1. /\ batch \in [Batches -> Batch \cup {[pc |-> "new"], [pc |-> "ended"]}]
      /\ applied \in [Batches -> SUBSET Copy]
  BY DEF HistoryInvariant, HistoryTypeOK
<1>2. Open(b)' => \/ Open(b) /\ batch'[b].frame = batch[b].frame
                  \/ batch'[b].frame = {}
  BY BatchMoves DEF GoesOn, Starts
<1>3. CASE \E c \in Batches : Commit(c)
  <2>1. PICK c \in Batches : Commit(c)
    BY <1>3
  <2>2. Open(c) /\ applied' = [applied EXCEPT ![c] = batch[c].frame]
    BY <2>1 DEF Commit, Open
  <2>3. applied'[b] \subseteq applied[b] \cup (IF Open(b) THEN batch[b].frame ELSE {})
    BY <1>1, <2>2
  <2> QED
    BY <1>2, <2>3 DEF Copies
<1>4. CASE ~ \E c \in Batches : Commit(c)
  <2>1. applied' = applied \/ Crash
    BY <1>4 DEF Next, vars, Tick, ReadHistory, ReadAttributes, UpdateAttributes, TriggerSimulator,
       ChangeBatteryStatus, ReadCurrent, ReadVersions, WriteVersions, RollBack, PostFrame, ForgetSignature
  <2>2. applied'[b] \subseteq applied[b]
    BY <2>1 DEF Crash
  <2> QED
    BY <1>2, <2>2 DEF Copies
<1> QED
  BY <1>3, <1>4

LEMMA WindowStep ==
  ASSUME HistoryInvariant, WindowInvariant, [Next]_vars
  PROVE  WindowInvariant'
<1>1. /\ clock \in Nat /\ seen \subseteq Copy
      /\ batch \in [Batches -> Batch \cup {[pc |-> "new"], [pc |-> "ended"]}]
      /\ applied \in [Batches -> SUBSET Copy]
  BY DEF HistoryInvariant, HistoryTypeOK
<1>2. Skew \in Nat /\ Frames \subseteq Int
  BY HistoryAssumption
<1>t. \A b \in Batches : \A x \in Copies(b) : x \in Copy /\ x.at \in Nat /\ x.frame \in Int
  <2>1. \A b \in Batches : Open(b) => batch[b].frame \subseteq Copy
    BY <1>1 DEF Open, Batch
  <2>2. \A b \in Batches : Copies(b) \subseteq Copy
    BY <1>1, <2>1 DEF Copies
  <2> QED
    BY <1>2, <2>2 DEF Copy
<1>3. ASSUME \A b \in Batches : Copies(b)' \subseteq Copies(b), clock' \in Nat, clock' >= clock,
             \A x \in seen : x \in seen' \/ clock >= x.at + 2 * Skew
      PROVE  WindowInvariant'
  <2>1. ASSUME NEW b \in Batches, NEW x \in Copies(b)'
        PROVE  x.at >= x.frame - Skew /\ (x \in seen' \/ clock' >= x.at + 2 * Skew)
    <3>1. x \in Copies(b) /\ x.at \in Nat
      BY <1>3, <1>t, <2>1
    <3> QED
      BY <1>1, <1>2, <1>3, <3>1 DEF WindowInvariant
  <2>2. \A b, c \in Batches : b # c =>
          \A x \in Copies(b)', y \in Copies(c)' : x.frame = y.frame => AtItsEdges(x, y)
    BY <1>3 DEF WindowInvariant
  <2> QED
    BY <2>1, <2>2 DEF WindowInvariant, AtItsEdges
<1>4. ASSUME NEW g \in Frames, NEW b \in Batches, PostFrame(g, b)
      PROVE  WindowInvariant'
  <2> DEFINE new == CopyOf(g)
  <2>1. /\ clock - g \in (-Skew)..Skew /\ ~Remembered(g) /\ UNCHANGED <<clock, applied>>
        /\ seen' = seen \cup {new} /\ batch[b].pc = "new"
        /\ \E names : batch' = [batch EXCEPT ![b] = Started(names, b, {new}, 0)]
    BY <1>4 DEF PostFrame, InWindow, RememberSignature
  <2>2. new.frame = g /\ new.at = clock
    BY DEF CopyOf
  <2> HIDE DEF new
  <2>3. /\ batch'[b].frame = {new}
        /\ \A c \in Batches \ {b} : batch'[c] = batch[c]
    BY <1>1, <2>1, StartedStarts
  <2>4. /\ Copies(b)' \subseteq Copies(b) \cup {new}
        /\ \A c \in Batches \ {b} : Copies(c)' = Copies(c)
    BY <2>1, <2>3 DEF Copies, Open
  <2>5. ASSUME NEW c \in Batches, NEW y \in Copies(c), y.frame = g
        PROVE  AtItsEdges(new, y) /\ AtItsEdges(y, new)
    <3>1. y \notin seen
      BY <2>1, <2>5 DEF Remembered
    <3>2. y.at >= g - Skew /\ clock >= y.at + 2 * Skew /\ y.at \in Nat
      BY <1>t, <2>5, <3>1 DEF WindowInvariant
    <3>3. clock <= g + Skew
      BY <1>1, <1>2, <2>1
    <3>4. y.at = g - Skew /\ clock = g + Skew
      BY <1>1, <1>2, <3>2, <3>3
    <3> QED
      BY <2>2, <2>5, <3>4 DEF AtItsEdges
  <2>6. ASSUME NEW c \in Batches, NEW x \in Copies(c)'
        PROVE  x.at >= x.frame - Skew /\ (x \in seen' \/ clock' >= x.at + 2 * Skew)
    <3>1. CASE x = new
      BY <1>1, <1>2, <2>1, <2>2, <3>1
    <3>2. CASE x # new
      <4>1. x \in Copies(c)
        BY <2>4, <2>6, <3>2
      <4> QED
        BY <2>1, <4>1 DEF WindowInvariant
    <3> QED
      BY <3>1, <3>2
  <2>7. ASSUME NEW c \in Batches, NEW d \in Batches, c # d,
               NEW x \in Copies(c)', NEW y \in Copies(d)', x.frame = y.frame
        PROVE  AtItsEdges(x, y)
    <3>1. CASE x \in Copies(c) /\ y \in Copies(d)
      BY <2>7, <3>1 DEF WindowInvariant
    <3>2. CASE x = new /\ y \in Copies(d)
      BY <2>2, <2>5, <2>7, <3>2
    <3>3. CASE y = new /\ x \in Copies(c)
      BY <2>2, <2>5, <2>7, <3>3
    <3> QED
      BY <2>4, <2>7, <3>1, <3>2, <3>3
  <2> QED
    BY <2>6, <2>7 DEF WindowInvariant, AtItsEdges
<1>5. CASE Crash
  <2>1. \A b \in Batches : ~Open(b)' /\ applied'[b] = {}
    BY <1>1, <1>5 DEF Crash, Open
  <2>2. \A b \in Batches : Copies(b)' = {}
    BY <2>1 DEF Copies
  <2> QED
    BY <2>2 DEF WindowInvariant
<1>6. CASE ~Crash /\ ~ \E f \in Frames, b \in Batches : PostFrame(f, b)
  <2>1. \A b \in Batches : Copies(b)' \subseteq Copies(b)
    BY <1>6, CopiesStay
  <2>2. clock' \in {clock, clock + 1}
    BY <1>6 DEF Next, vars, Tick, ReadHistory, ReadAttributes, UpdateAttributes, TriggerSimulator,
       ChangeBatteryStatus, ReadCurrent, ReadVersions, WriteVersions, Commit, RollBack, ForgetSignature
  <2>3. seen' = seen \/ \E x \in seen : clock >= x.at + 2 * Skew /\ seen' = seen \ {x}
    BY <1>6 DEF Next, vars, Tick, ReadHistory, ReadAttributes, UpdateAttributes, TriggerSimulator,
       ChangeBatteryStatus, ReadCurrent, ReadVersions, WriteVersions, Commit, RollBack, ForgetSignature,
       RetentionOver
  <2> QED
    BY <1>1, <1>3, <2>1, <2>2, <2>3
<1> QED
  BY <1>4, <1>5, <1>6

\* A telemetry frame is applied once in the life of the process, however often and
\* however late the network delivers it (the replay window of server.ts): when its
\* signature is forgotten, the frame is outside the window, but for a first copy at
\* the very start of the window and a second one at its very end.
THEOREM FramesApplyOnce == Spec => []FrameAppliedOnce
<1>1. Init => WindowInvariant
  <2>1. Init => \A b \in Batches : Copies(b) = {}
    BY DEF Init, Copies, Open, NoBatch
  <2> QED
    BY <2>1 DEF WindowInvariant
<1>2. WindowInvariant => FrameAppliedOnce
  BY DEF WindowInvariant, FrameAppliedOnce, Copies, AtItsEdges
<1> QED
  BY <1>1, <1>2, WindowStep, HistoryIsInvariant, PTL DEF Spec

(***************************************************************************)
(* The past.                                                               *)
(***************************************************************************)
Of(rows, a) == {r \in rows : r.attribute = a}
Past(rows, a, date) == {r \in Of(rows, a) : r.validFrom <= date}

\* With versions in order, only the rows that were valid at the date count.
LEMMA AsOfPast ==
  ASSUME NEW cur, NEW other, NEW rows, Ordered(rows), NEW more, Ordered(more),
         NEW a \in Attributes, NEW date \in Nat,
         Of(rows, a) # {}, Of(more, a) # {}, Past(more, a, date) = Past(rows, a, date),
         rows \in SUBSET HistoryRow, more \in SUBSET HistoryRow
  PROVE  AsOf(cur, rows, a, date) = AsOf(other, more, a, date)
<1>1. ASSUME NEW all \in SUBSET HistoryRow, Ordered(all), Of(all, a) # {}
      PROVE  Past(all, a, date) # {}
  <2>1. PICK r \in all : r.attribute = a
    BY <1>1 DEF Of
  <2>2. r.version \in Nat /\ 0 \in 0..r.version
    BY <1>1 DEF HistoryRow
  <2>3. PICK s \in all : s.attribute = a /\ s.version = 0
    BY <1>1, <2>1, <2>2 DEF Ordered
  <2>4. s.validFrom = 0
    BY <1>1, <2>3 DEF Ordered
  <2> QED
    BY <2>3, <2>4 DEF Past, Of
<1>2. Past(rows, a, date) # {} /\ Past(more, a, date) # {}
  BY <1>1
<1> DEFINE last(past) == CHOOSE r \in past : \A s \in past :
                           \/ s.validFrom < r.validFrom
                           \/ s.validFrom = r.validFrom /\ s.version <= r.version
<1>3. AsOf(cur, rows, a, date) = last(Past(rows, a, date)).value
  BY <1>2 DEF AsOf, Past, Of
<1>4. AsOf(other, more, a, date) = last(Past(more, a, date)).value
  BY <1>2 DEF AsOf, Past, Of
<1> QED
  BY <1>3, <1>4

\* The first commit of an attribute does not change what it was before.
LEMMA AsOfBaseline ==
  ASSUME NEW cur, NEW rows \in SUBSET HistoryRow, Ordered(rows), NEW a \in Attributes,
         NEW date \in Nat, Of(rows, a) # {},
         \A r \in rows : r.attribute = a /\ r.version > 0 => r.validFrom > date
  PROVE  AsOf(cur, rows, a, date) = CreatedValue[a]
<1>1. PICK r \in rows : r.attribute = a
  BY DEF Of
<1>2. r.version \in Nat /\ 0 \in 0..r.version
  BY DEF HistoryRow
<1>3. PICK s \in rows : s.attribute = a /\ s.version = 0
  BY <1>1, <1>2 DEF Ordered
<1>4. s.validFrom = 0 /\ s.value = CreatedValue[a]
  BY <1>3 DEF Ordered
<1>5. Past(rows, a, date) = {s}
  <2>1. ASSUME NEW q \in rows, q.attribute = a, q.validFrom <= date
        PROVE  q = s
    <3>1. q.version \in Nat /\ q.validFrom \in Nat
      BY DEF HistoryRow
    <3>2. q.version = 0
      BY <2>1, <3>1
    <3> QED
      BY <1>3, <2>1, <3>2 DEF Ordered
  <2> QED
    BY <1>3, <1>4, <2>1 DEF Past, Of
<1> DEFINE last(past) == CHOOSE q \in past : \A t \in past :
                           \/ t.validFrom < q.validFrom
                           \/ t.validFrom = q.validFrom /\ t.version <= q.version
<1>6. AsOf(cur, rows, a, date) = last(Past(rows, a, date)).value
  BY <1>5 DEF AsOf, Past, Of
<1>7. last({s}) = s
  <2>1. \A t \in {s} : \/ t.validFrom < s.validFrom
                       \/ t.validFrom = s.validFrom /\ t.version <= s.version
    BY <1>3
  <2> QED
    BY <2>1
<1> QED
  BY <1>4, <1>5, <1>6, <1>7

\* A commit that does not reach back to the date leaves its answer as it is.
LEMMA CommitKeepsPast ==
  ASSUME HistoryInvariant, HistoryInvariant', NEW b \in Batches, Commit(b), NEW date \in Nat,
         ~Backdating(date), NEW a \in Attributes
  PROVE  AsOf(current, history, a, date) = AsOf(current', history', a, date)
<1>1. /\ Open(b) /\ history' = history \cup batch[b].rows /\ current'[a] = CurrentSeen(b, a)
      /\ history \in SUBSET HistoryRow /\ history' \in SUBSET HistoryRow
      /\ Ordered(history) /\ Ordered(history')
  BY DEF Commit, Open, HistoryInvariant, HistoryTypeOK, HistoryIsOrdered
<1>2. \A r \in batch[b].rows : r.version > 0 => r.validFrom > date
  <2>1. ASSUME NEW r \in batch[b].rows, r.version > 0
        PROVE  ~(r.validFrom <= date) /\ r.validFrom \in Nat
    BY <1>1, <2>1 DEF Backdating, HistoryRow
  <2> QED
    BY <2>1
<1>3. CASE Of(history, a) = {} /\ Of(history', a) = {}
  <2>1. VersionsOf(batch[b].rows, a) = {}
    BY <1>1, <1>3 DEF VersionsOf, Of
  <2> QED
    BY <1>1, <1>3, <2>1 DEF AsOf, Of, CurrentSeen
<1>4. CASE Of(history, a) = {} /\ Of(history', a) # {}
  <2>1. VersionsOf(history, a) = {}
    BY <1>4 DEF VersionsOf, Of
  <2>2. current[a] = CreatedValue[a]
    BY <2>1 DEF HistoryInvariant, NewestIsCurrent
  <2>3. AsOf(current, history, a, date) = CreatedValue[a]
    BY <1>4, <2>2 DEF AsOf, Of
  <2>4. \A r \in history' : r.attribute = a /\ r.version > 0 => r.validFrom > date
    BY <1>1, <1>2, <1>4 DEF Of
  <2> QED
    BY <1>1, <1>4, <2>3, <2>4, AsOfBaseline
<1>5. CASE Of(history, a) # {}
  <2>1. Of(history', a) # {}
    BY <1>1, <1>5 DEF Of
  <2>2. PICK s \in history : s.attribute = a /\ s.version = 0
    <3>1. PICK r \in history : r.attribute = a
      BY <1>5 DEF Of
    <3>2. r.version \in Nat /\ 0 \in 0..r.version
      BY <1>1 DEF HistoryRow
    <3> QED
      BY <1>1, <3>1, <3>2 DEF Ordered
  <2>3. ASSUME NEW r \in history', r.attribute = a, r.validFrom <= date
        PROVE  r \in history
    <3>1. r.version \in Nat /\ r.validFrom \in Nat
      BY <1>1 DEF HistoryRow
    <3>2. CASE r.version = 0
      <4>1. r = s
        BY <1>1, <2>2, <2>3, <3>2 DEF Ordered
      <4> QED
        BY <2>2, <4>1
    <3>3. CASE r.version > 0
      BY <1>1, <1>2, <2>3, <3>1, <3>3
    <3> QED
      BY <3>1, <3>2, <3>3
  <2>4. Past(history', a, date) = Past(history, a, date)
    BY <1>1, <2>3 DEF Past, Of
  <2> QED
    BY <1>1, <1>5, <2>1, <2>4, AsOfPast
<1> QED
  BY <1>3, <1>4, <1>5

\* Nobody starts to write what is valid from a past date.
LEMMA NothingIsBackdated ==
  ASSUME HistoryInvariant, [Next]_vars, NEW date \in Nat, date < clock, ~Backdating(date)
  PROVE  ~Backdating(date)'
<1>1. clock \in Nat
  BY DEF HistoryInvariant, HistoryTypeOK
<1>2. ASSUME NEW c \in Batches, Open(c)'
      PROVE  ~ \/ batch'[c].pc = "versions" /\ batch'[c].now <= date
               \/ \E r \in batch'[c].rows : r.version > 0 /\ r.validFrom <= date
  <2>1. CASE Open(c) /\ GoesOn(batch[c], batch'[c])
    <3>1. batch[c].pc = "versions" => ~(batch[c].now <= date)
      BY <2>1 DEF Backdating
    <3>2. \A r \in batch[c].rows : ~(r.version > 0 /\ r.validFrom <= date)
      BY <2>1 DEF Backdating
    <3>3. batch'[c].pc = "versions" => ~(batch'[c].now <= date)
      BY <1>1, <2>1, <3>1 DEF GoesOn
    <3>4. \A r \in batch'[c].rows : ~(r.version > 0 /\ r.validFrom <= date)
      BY <2>1, <3>1, <3>2 DEF GoesOn
    <3> QED
      BY <3>3, <3>4
  <2>2. CASE ~Open(c) /\ Starts(c, batch'[c])
    BY <2>2 DEF Starts
  <2> QED
    BY <1>2, <2>1, <2>2, BatchMoves
<1> QED
  BY <1>2 DEF Backdating

\* What a read of the past has found is what it will answer, and stays true.
ReaderInvariant ==
  /\ reader.pc # "idle" => reader.date \in Nat /\ reader.date < clock
  /\ reader.pc = "attributes" => \A a \in Attributes :
       Of(history, a) = {} => reader.found[a] = CreatedValue[a]
  /\ reader.pc = "answered" /\ reader.settled => ~Backdating(reader.date)
  /\ PastIsAnswered

LEMMA ReaderStep ==
  ASSUME HistoryInvariant, HistoryInvariant', ReaderInvariant, [Next]_vars
  PROVE  ReaderInvariant'
<1>1. clock \in Nat /\ clock' \in Nat /\ reader.pc \in {"idle", "attributes", "answered"}
  BY DEF HistoryInvariant, HistoryTypeOK
<1>2. ASSUME NEW date \in Times, ReadAttributes(date)
      PROVE  ReaderInvariant'
  <2>1. /\ date \in Nat /\ date < clock /\ UNCHANGED <<clock, history>>
        /\ reader' = [pc |-> "attributes", date |-> date, found |-> current]
    BY <1>2 DEF ReadAttributes, Times
  <2>2. ASSUME NEW a \in Attributes, Of(history, a) = {}
        PROVE  current[a] = CreatedValue[a]
    <3>1. VersionsOf(history, a) = {}
      BY <2>2 DEF VersionsOf, Of
    <3> QED
      BY <3>1 DEF HistoryInvariant, NewestIsCurrent
  <2> QED
    BY <2>1, <2>2 DEF ReaderInvariant, PastIsAnswered
<1>3. ASSUME ReadHistory
      PROVE  ReaderInvariant'
  <2>1. /\ reader.pc = "attributes" /\ reader'.pc = "answered" /\ reader'.date = reader.date
        /\ reader'.settled = ~Backdating(reader.date)
        /\ \A a \in Attributes : reader'.answer[a] = AsOf(reader.found, history, a, reader.date)
        /\ UNCHANGED <<clock, current, history, batch>>
    BY <1>3 DEF ReadHistory
  <2>2. ASSUME ~Backdating(reader.date)
        PROVE  ~Backdating(reader.date)'
    BY <2>1, <2>2 DEF Backdating, Open
  <2>3. ASSUME NEW a \in Attributes
        PROVE  AsOf(reader.found, history, a, reader.date) = AsOf(current, history, a, reader.date)
    <3>1. CASE Of(history, a) = {}
      <4>1. VersionsOf(history, a) = {}
        BY <3>1 DEF VersionsOf, Of
      <4>2. reader.found[a] = current[a]
        BY <2>1, <3>1, <4>1 DEF ReaderInvariant, HistoryInvariant, NewestIsCurrent
      <4> QED
        BY <3>1, <4>2 DEF AsOf, Of
    <3>2. CASE Of(history, a) # {}
      BY <3>2 DEF AsOf, Of
    <3> QED
      BY <3>1, <3>2
  <2>4. PastIsAnswered'
    BY <2>1, <2>3 DEF PastIsAnswered
  <2> QED
    BY <2>1, <2>2, <2>4 DEF ReaderInvariant
<1>4. ASSUME reader' = reader, clock' >= clock, NEW b \in Batches, Commit(b)
      PROVE  ReaderInvariant'
  <2>1. history \subseteq history'
    BY <1>4 DEF Commit
  <2>2. reader.pc # "idle" => reader'.date \in Nat /\ reader'.date < clock'
    BY <1>1, <1>4 DEF ReaderInvariant
  <2>3. reader'.pc = "attributes" => \A a \in Attributes :
          Of(history', a) = {} => reader'.found[a] = CreatedValue[a]
    BY <1>4, <2>1 DEF ReaderInvariant, Of
  <2>4. ASSUME reader'.pc = "answered", reader'.settled
        PROVE  /\ ~Backdating(reader.date)'
               /\ \A a \in Attributes : reader'.answer[a] = AsOf(current', history', a, reader'.date)
    <3>1. reader.pc = "answered" /\ reader.settled /\ reader.date \in Nat /\ reader.date < clock
          /\ ~Backdating(reader.date)
      BY <1>4, <2>4 DEF ReaderInvariant
    <3>2. \A a \in Attributes : reader.answer[a] = AsOf(current, history, a, reader.date)
      BY <3>1 DEF ReaderInvariant, PastIsAnswered
    <3>3. PICK date \in Nat : date = reader.date
      BY <3>1
    <3>4. date < clock /\ ~Backdating(date)
      BY <3>1, <3>3
    <3>5. \A a \in Attributes : AsOf(current, history, a, date) = AsOf(current', history', a, date)
      BY <1>4, <3>4, CommitKeepsPast
    <3>6. ~Backdating(date)'
      BY <3>4, NothingIsBackdated
    <3>7. date = reader'.date
      BY <1>4, <3>3
    <3>8. ~Backdating(reader.date)'
      BY <3>6, <3>7 DEF Backdating
    <3> QED
      BY <1>4, <3>2, <3>3, <3>5, <3>7, <3>8
  <2> QED
    BY <1>4, <2>2, <2>3, <2>4 DEF ReaderInvariant, PastIsAnswered
<1>5. ASSUME reader' = reader, clock' >= clock, UNCHANGED <<current, history>>
      PROVE  ReaderInvariant'
  <2>1. reader.pc # "idle" => reader'.date \in Nat /\ reader'.date < clock'
    BY <1>1, <1>5 DEF ReaderInvariant
  <2>2. reader'.pc = "attributes" => \A a \in Attributes :
          Of(history', a) = {} => reader'.found[a] = CreatedValue[a]
    BY <1>5 DEF ReaderInvariant
  <2>3. ASSUME reader'.pc = "answered", reader'.settled
        PROVE  /\ ~Backdating(reader.date)'
               /\ \A a \in Attributes : reader'.answer[a] = AsOf(current', history', a, reader'.date)
    <3>1. reader.pc = "answered" /\ reader.settled /\ reader.date \in Nat /\ reader.date < clock
          /\ ~Backdating(reader.date)
      BY <1>5, <2>3 DEF ReaderInvariant
    <3>2. PICK date \in Nat : date = reader.date
      BY <3>1
    <3>3. date < clock /\ ~Backdating(date)
      BY <3>1, <3>2
    <3>4. ~Backdating(date)'
      BY <3>3, NothingIsBackdated
    <3>5. date = reader'.date
      BY <1>5, <3>2
    <3>6. \A a \in Attributes : reader.answer[a] = AsOf(current, history, a, reader.date)
      BY <3>1 DEF ReaderInvariant, PastIsAnswered
    <3>7. ~Backdating(reader.date)'
      BY <3>4, <3>5 DEF Backdating
    <3> QED
      BY <1>5, <3>6, <3>7
  <2> QED
    BY <1>5, <2>1, <2>2, <2>3 DEF ReaderInvariant, PastIsAnswered
<1>6. ASSUME Crash
      PROVE  ReaderInvariant'
  <2>1. /\ UNCHANGED <<clock, current, history>> /\ \A b \in Batches : ~Open(b)'
        /\ reader' = IF reader.pc = "attributes" THEN NoReader ELSE reader
    BY <1>6 DEF Crash, HistoryInvariant, HistoryTypeOK, Open
  <2>2. CASE reader.pc = "attributes"
    BY <2>1, <2>2 DEF NoReader, ReaderInvariant, PastIsAnswered
  <2>3. CASE reader.pc # "attributes"
    BY <1>1, <1>5, <2>1, <2>3
  <2> QED
    BY <2>2, <2>3
<1>7. ASSUME NEW b \in Batches, Commit(b)
      PROVE  ReaderInvariant'
  <2>1. reader' = reader /\ clock' = clock
    BY <1>7 DEF Commit
  <2> QED
    BY <1>1, <1>4, <1>7, <2>1
<1>8. (\/ Tick \/ UNCHANGED vars \/ \E s \in seen : ForgetSignature(s)
       \/ \E b \in Batches :
            \/ UpdateAttributes(b) \/ TriggerSimulator(b) \/ ChangeBatteryStatus(b)
            \/ ReadCurrent(b) \/ ReadVersions(b) \/ WriteVersions(b) \/ RollBack(b)
            \/ \E f \in Frames : PostFrame(f, b))
        => UNCHANGED <<reader, current, history>> /\ (clock' = clock \/ clock' = clock + 1)
  BY DEF Tick, vars, ForgetSignature, UpdateAttributes, TriggerSimulator, ChangeBatteryStatus,
              ReadCurrent, ReadVersions, WriteVersions, RollBack, PostFrame
<1> QED
  <2>1. (clock' = clock \/ clock' = clock + 1) => clock' >= clock
    BY <1>1
  <2> QED
    BY <1>2, <1>3, <1>5, <1>6, <1>7, <1>8, <2>1 DEF Next

\* What dppsByProductIdAndDate has answered for a past date stays the answer,
\* whatever is committed between its two reads or after them, once no transaction
\* that took its time before the date is still open (resolveReal, attributesAsOf).
THEOREM PastStaysAnswered == Spec => []PastIsAnswered
<1>1. Init => ReaderInvariant
  BY DEF Init, NoReader, ReaderInvariant, PastIsAnswered
<1>2. ReaderInvariant => PastIsAnswered
  BY DEF ReaderInvariant
<1> QED
  BY <1>1, <1>2, ReaderStep, HistoryIsInvariant, PTL DEF Spec
=============================================================================
