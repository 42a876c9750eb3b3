-------------------------- MODULE GoodsReceiptsProofs --------------------------
(***************************************************************************)
(* What the bridge has marked has its passport, and no passport exists     *)
(* twice: for any documents, caps and numbers of calls, however calls and  *)
(* answers are lost and both processes die.  Receipts of two years that    *)
(* have one passport id share the row of the first one.                    *)
(***************************************************************************)
EXTENDS GoodsReceipts, TLAPS

\* Appending to what has been seen adds the receipt, and nothing else.
LEMMA RangeOfAppend ==
  ASSUME NEW s \in Seq(Documents), NEW d \in Documents, NEW e \in Range(Append(s, d))
  PROVE  e \in Range(s) \/ e = d
<1>1. PICK i \in DOMAIN Append(s, d) : e = Append(s, d)[i]
  BY DEF Range
<1>2. i \in 1..Len(s) + 1
  BY <1>1
<1>3. CASE i = Len(s) + 1
  BY <1>1, <1>3
<1>4. CASE i \in 1..Len(s)
  <2>1. e = s[i] /\ i \in DOMAIN s
    BY <1>1, <1>4
  <2> QED BY <2>1 DEF Range
<1> QED BY <1>2, <1>3, <1>4

\* What a capped state file keeps has been seen.
LEMMA KeptIsSeen ==
  ASSUME NEW s \in Seq(Documents)
  PROVE  /\ Kept(s) \in Seq(Documents)
         /\ \A e \in Range(Kept(s)) : e \in Range(s)
<1> DEFINE m == IF Len(s) > SeenCap THEN Len(s) - SeenCap + 1 ELSE 1
<1>1. m \in Nat \ {0} /\ m <= Len(s) + 1
  BY ReceiptsAssumption
<1>2. Kept(s) = SubSeq(s, m, Len(s))
  BY DEF Kept
<1> HIDE DEF m
<1>3. \A i \in m..Len(s) : s[i] \in Documents
  BY <1>1
<1>4. SubSeq(s, m, Len(s)) = [i \in 1..(1 + Len(s) - m) |-> s[i + m - 1]]
  BY <1>1
<1>5. Kept(s) \in Seq(Documents)
  BY <1>1, <1>2, <1>3
<1>6. ASSUME NEW e \in Range(Kept(s))
      PROVE  e \in Range(s)
  <2>1. PICK i \in 1..(1 + Len(s) - m) : e = s[i + m - 1]
    BY <1>6, <1>2, <1>4 DEF Range
  <2>2. i + m - 1 \in 1..Len(s)
    BY <1>1, <2>1
  <2> QED BY <2>1, <2>2 DEF Range
<1> QED BY <1>5, <1>6

\* Passports stay, so that what is minted stays minted.
LEMMA MintedStays ==
  ASSUME Next, NEW d, Minted(d)
  PROVE  Minted(d)'
<1>1. passports \subseteq passports'
  BY DEF Next, PostGoodsReceipt, CockpitCreate, BridgeStep, StartBridge, Fetch, SaveState, PassOver,
         PostEvent, GiveUp, StopBridge, RestartServer, LookUp, Create, DropAnswer, ReceiveAnswer
<1> QED BY <1>1 DEF Minted, Exists, PassportId
\* Nothing is seen but by the steps that mark a receipt of no battery or an answer.
LEMMA SeenStays ==
  ASSUME SeenIsMinted, Next,
         \A d \in Range(file') : IsBattery(d) => d \in Range(file) \/ Minted(d)
                                                 \/ (bridge.pc # "down" /\ d \in Range(bridge.seen)),
         bridge'.pc # "down" => \A d \in Range(bridge'.seen) : IsBattery(d) =>
           d \in Range(file) \/ Minted(d) \/ (bridge.pc # "down" /\ d \in Range(bridge.seen))
  PROVE  SeenIsMinted'
<1> SUFFICES ASSUME NEW d \in Documents, IsBattery(d),
                    d \in Range(file') \/ (bridge'.pc # "down" /\ d \in Range(bridge'.seen))
             PROVE  Minted(d)'
  BY DEF SeenIsMinted, IsBattery
<1>1. d \in Range(file) \/ Minted(d) \/ (bridge.pc # "down" /\ d \in Range(bridge.seen))
  OBVIOUS
<1>2. Minted(d)
  BY <1>1 DEF SeenIsMinted
<1> QED BY <1>2, MintedStays

\* The receipts of the steps of the bridge are documents.
LEMMA PageIsOfDocuments ==
  ASSUME ReceiptsTypeOK, bridge.pc = "cycle"
  PROVE  bridge.seen \in Seq(Documents) /\ bridge.page \subseteq Documents
BY DEF ReceiptsTypeOK, Bridges

(***************************************************************************)
(* The steps of the bridge.                                                *)
(***************************************************************************)
LEMMA PostGoodsReceiptKeeps ==
  ASSUME ReceiptsInvariant, Next, NEW d \in Documents, PostGoodsReceipt(d)
  PROVE  ReceiptsInvariant'
<1>1. ReceiptsTypeOK'
  BY DEF PostGoodsReceipt, ReceiptsInvariant, ReceiptsTypeOK
<1>2. SeenIsMinted'
  BY SeenStays DEF PostGoodsReceipt, ReceiptsInvariant
<1> QED BY <1>1, <1>2 DEF PostGoodsReceipt, ReceiptsInvariant, Minted, Exists, PassportId, Awaited

LEMMA StartBridgeKeeps ==
  ASSUME ReceiptsInvariant, Next, StartBridge
  PROVE  ReceiptsInvariant'
<1>1. ReceiptsTypeOK'
  BY DEF StartBridge, Between, ReceiptsInvariant, ReceiptsTypeOK, Bridges
<1>2. SeenIsMinted'
  BY SeenStays DEF StartBridge, Between, ReceiptsInvariant
<1> QED BY <1>1, <1>2 DEF StartBridge, Between, ReceiptsInvariant, Minted, Exists, PassportId, Awaited

LEMMA FetchKeeps ==
  ASSUME ReceiptsInvariant, Next, Fetch
  PROVE  ReceiptsInvariant'
<1>1. bridge.seen \in Seq(Documents) /\ Newest(posted) \subseteq Documents
  BY DEF Fetch, ReceiptsInvariant, ReceiptsTypeOK, Bridges, Newest
<1>2. ReceiptsTypeOK'
  BY <1>1 DEF Fetch, ReceiptsInvariant, ReceiptsTypeOK, Bridges
<1>3. SeenIsMinted'
  BY SeenStays DEF Fetch, ReceiptsInvariant
<1> QED BY <1>2, <1>3 DEF Fetch, ReceiptsInvariant, Minted, Exists, PassportId, Awaited

LEMMA PassOverKeeps ==
  ASSUME ReceiptsInvariant, Next, NEW d \in Documents, PassOver(d)
  PROVE  ReceiptsInvariant'
<1>1. bridge.pc = "cycle" /\ bridge.seen \in Seq(Documents) /\ bridge.page \subseteq Documents
  BY PageIsOfDocuments DEF PassOver, AtReceipt, ReceiptsInvariant
<1>2. Append(bridge.seen, d) \in Seq(Documents)
  BY <1>1
<1>3. ReceiptsTypeOK'
  <2>1. Passed(d) \in Bridges /\ Marked(d) \in Bridges
    BY <1>1, <1>2 DEF Passed, Marked, Bridges
  <2> QED BY <2>1 DEF PassOver, ReceiptsInvariant, ReceiptsTypeOK, Bridges
<1>4. SeenIsMinted'
  <2>1. CASE bridge' = Passed(d)
    BY <1>1, <2>1, SeenStays DEF PassOver, Passed, ReceiptsInvariant
  <2>2. CASE ~IsBattery(d) /\ bridge' = Marked(d)
    <3>1. bridge'.seen = Append(bridge.seen, d) /\ file' = file
      BY <2>2 DEF PassOver, Marked
    <3>2. \A e \in Range(bridge'.seen) : IsBattery(e) => e \in Range(bridge.seen)
      BY <1>1, <2>2, <3>1, RangeOfAppend
    <3> QED BY <1>1, <3>1, <3>2, SeenStays DEF ReceiptsInvariant
  <2> QED BY <2>1, <2>2 DEF PassOver
<1>5. bridge'.pc = "cycle" /\ calls' = calls /\ passports' = passports
  BY DEF PassOver, Passed, Marked
<1> QED BY <1>3, <1>4, <1>5 DEF ReceiptsInvariant, Minted, Exists, PassportId, Awaited

LEMMA PostEventKeeps ==
  ASSUME ReceiptsInvariant, Next, NEW d \in Documents, PostEvent(d)
  PROVE  ReceiptsInvariant'
<1>1. PICK n \in 1..MaxCalls :
        /\ \A c \in calls : c.n # n
        /\ calls' = calls \cup {[n |-> n, receipt |-> d, pc |-> "arrived"]}
        /\ bridge' = [pc |-> "waiting", seen |-> bridge.seen, page |-> bridge.page,
                      receipt |-> d, call |-> n]
  BY DEF PostEvent
<1>2. /\ bridge.pc = "cycle" /\ bridge.seen \in Seq(Documents) /\ bridge.page \subseteq Documents
      /\ UNCHANGED <<posted, file, passports>>
  BY PageIsOfDocuments DEF PostEvent, AtReceipt, ReceiptsInvariant
<1>3. ReceiptsTypeOK'
  BY <1>1, <1>2 DEF ReceiptsInvariant, ReceiptsTypeOK, Bridges, Calls
<1>4. SeenIsMinted'
  BY <1>1, <1>2, SeenStays DEF ReceiptsInvariant
<1>5. (\A c, e \in calls : c.n = e.n => c = e)'
  BY <1>1 DEF ReceiptsInvariant
<1>6. (\A c \in calls : c.pc \in {"created", "duplicate"} => Minted(c.receipt))'
  BY <1>1, MintedStays DEF ReceiptsInvariant
<1>7. (\A c \in calls : Awaited(c) => c.receipt = bridge.receipt)'
  BY <1>1, <1>2 DEF ReceiptsInvariant, Awaited
<1> QED BY <1>3, <1>4, <1>5, <1>6, <1>7 DEF ReceiptsInvariant

LEMMA ReceiveAnswerKeeps ==
  ASSUME ReceiptsInvariant, Next, NEW c \in calls, ReceiveAnswer(c)
  PROVE  ReceiptsInvariant'
<1> DEFINE d == bridge.receipt
<1>1. /\ bridge.pc = "waiting" /\ bridge.seen \in Seq(Documents)
      /\ bridge.page \subseteq Documents /\ d \in Documents
      /\ UNCHANGED <<posted, file, passports>>
      /\ calls' = calls \ {c}
  BY DEF ReceiveAnswer, Awaited, ReceiptsInvariant, ReceiptsTypeOK, Bridges
<1>2. bridge' = Passed(d) \/ (GoodAnswer(c.pc) /\ bridge' = Marked(d))
  BY DEF ReceiveAnswer
<1>3. Append(bridge.seen, d) \in Seq(Documents)
  BY <1>1
<1>4. ReceiptsTypeOK'
  <2>1. Passed(d) \in Bridges /\ Marked(d) \in Bridges
    BY <1>1, <1>3 DEF Passed, Marked, Bridges
  <2> QED BY <1>1, <1>2, <2>1 DEF ReceiptsInvariant, ReceiptsTypeOK, Bridges
<1>5. SeenIsMinted'
  <2>1. CASE bridge' = Passed(d)
    BY <1>1, <2>1, SeenStays DEF Passed, ReceiptsInvariant
  <2>2. CASE GoodAnswer(c.pc) /\ bridge' = Marked(d)
    <3>1. bridge'.seen = Append(bridge.seen, d)
      BY <2>2 DEF Marked
    <3>2. Minted(d)
      BY <2>2 DEF ReceiveAnswer, ReceiptsInvariant, GoodAnswer
    <3>3. \A e \in Range(bridge'.seen) : e \in Range(bridge.seen) \/ Minted(e)
      BY <1>1, <3>1, <3>2, RangeOfAppend
    <3> QED BY <1>1, <3>3, SeenStays DEF ReceiptsInvariant
  <2> QED BY <1>2, <2>1, <2>2
<1>6. bridge'.pc = "cycle"
  BY <1>2 DEF Passed, Marked
<1> QED BY <1>1, <1>4, <1>5, <1>6 DEF ReceiptsInvariant, Minted, Exists, PassportId, Awaited

LEMMA GiveUpKeeps ==
  ASSUME ReceiptsInvariant, Next, GiveUp
  PROVE  ReceiptsInvariant'
<1>1. /\ bridge.seen \in Seq(Documents) /\ bridge.page \subseteq Documents
      /\ bridge' = [pc |-> "cycle", seen |-> bridge.seen, page |-> bridge.page \ {bridge.receipt}]
  BY DEF GiveUp, Passed, ReceiptsInvariant, ReceiptsTypeOK, Bridges
<1>2. ReceiptsTypeOK'
  BY <1>1 DEF GiveUp, ReceiptsInvariant, ReceiptsTypeOK, Bridges
<1>3. SeenIsMinted'
  BY <1>1, SeenStays DEF GiveUp, ReceiptsInvariant
<1>4. (\A c \in calls : c.pc \in {"created", "duplicate"} => Minted(c.receipt))'
  BY MintedStays DEF GiveUp, ReceiptsInvariant
<1> QED BY <1>1, <1>2, <1>3, <1>4 DEF GiveUp, ReceiptsInvariant, Awaited

LEMMA SaveStateKeeps ==
  ASSUME ReceiptsInvariant, Next, SaveState
  PROVE  ReceiptsInvariant'
<1>1. bridge.pc = "cycle" /\ bridge.seen \in Seq(Documents)
  BY PageIsOfDocuments DEF SaveState, ReceiptsInvariant
<1>2. Kept(bridge.seen) \in Seq(Documents) /\ \A e \in Range(Kept(bridge.seen)) : e \in Range(bridge.seen)
  BY <1>1, KeptIsSeen
<1>3. ReceiptsTypeOK'
  <2>1. Down \in Bridges /\ Between(Kept(bridge.seen)) \in Bridges
    BY <1>2 DEF Down, Between, Bridges
  <2>2. <<>> \in Seq(Documents)
    OBVIOUS
  <2> QED BY <1>2, <2>1, <2>2 DEF SaveState, ReceiptsInvariant, ReceiptsTypeOK, Bridges
<1>4. SeenIsMinted'
  <2>1. CASE file' = Kept(bridge.seen) /\ bridge' = Between(Kept(bridge.seen))
    BY <1>1, <1>2, <2>1, SeenStays DEF Between, ReceiptsInvariant
  <2>2. CASE file' = <<>> /\ bridge' = Down
    <3>1. \A e \in Range(file') : FALSE
      BY <2>2 DEF Range
    <3> QED BY <2>2, <3>1, SeenStays DEF Down, ReceiptsInvariant
  <2> QED BY <2>1, <2>2 DEF SaveState
<1>5. bridge'.pc # "waiting"
  BY DEF SaveState, Between, Down
<1> QED BY <1>3, <1>4, <1>5 DEF SaveState, ReceiptsInvariant, Minted, Exists, PassportId, Awaited

LEMMA StopBridgeKeeps ==
  ASSUME ReceiptsInvariant, Next, StopBridge
  PROVE  ReceiptsInvariant'
<1>1. ReceiptsTypeOK'
  BY DEF StopBridge, Down, ReceiptsInvariant, ReceiptsTypeOK, Bridges
<1>2. SeenIsMinted'
  BY SeenStays DEF StopBridge, Down, ReceiptsInvariant
<1> QED BY <1>1, <1>2 DEF StopBridge, Down, ReceiptsInvariant, Minted, Exists, PassportId, Awaited

(***************************************************************************)
(* The steps of the server.                                                *)
(***************************************************************************)
\* An answer leaves everything else of the invariant alone when it is a true one.
LEMMA AnswerKeeps ==
  ASSUME ReceiptsInvariant, Next, NEW c \in calls,
         NEW answer \in {"creating", "created", "duplicate", "error"}, Answered(c, answer),
         UNCHANGED <<posted, bridge, file>>,
         \A p \in passports' : p.receipt \in Documents /\ p.id = PassportId(p.receipt),
         answer \in {"created", "duplicate"} => Minted(c.receipt)'
  PROVE  ReceiptsInvariant'
<1>1. c \in Calls
  BY DEF ReceiptsInvariant, ReceiptsTypeOK
<1> DEFINE d == [c EXCEPT !.pc = answer]
<1>2. d \in Calls /\ d.n = c.n /\ d.receipt = c.receipt /\ d.pc = answer
  BY <1>1 DEF Calls
<1>3. calls' = (calls \ {c}) \cup {d}
  BY DEF Answered
<1> HIDE DEF d
<1>4. ReceiptsTypeOK'
  BY <1>2, <1>3 DEF ReceiptsInvariant, ReceiptsTypeOK, PassportId
<1>5. SeenIsMinted'
  BY SeenStays DEF ReceiptsInvariant
<1>6. (\A e, f \in calls : e.n = f.n => e = f)'
  BY <1>2, <1>3 DEF ReceiptsInvariant
<1>7. (\A e \in calls : e.pc \in {"created", "duplicate"} => Minted(e.receipt))'
  BY <1>2, <1>3, MintedStays DEF ReceiptsInvariant
<1>8. (\A e \in calls : Awaited(e) => e.receipt = bridge.receipt)'
  BY <1>2, <1>3 DEF ReceiptsInvariant, Awaited
<1> QED BY <1>4, <1>5, <1>6, <1>7, <1>8 DEF ReceiptsInvariant

\* Calls that are gone take nothing with them.
LEMMA LostCallsKeep ==
  ASSUME ReceiptsInvariant, Next, calls' \subseteq calls,
         UNCHANGED <<posted, bridge, file, passports>>
  PROVE  ReceiptsInvariant'
<1>1. SeenIsMinted'
  BY SeenStays DEF ReceiptsInvariant
<1> QED BY <1>1 DEF ReceiptsInvariant, ReceiptsTypeOK, Minted, Exists, PassportId, Awaited

LEMMA LookUpKeeps ==
  ASSUME ReceiptsInvariant, Next, NEW c \in calls, LookUp(c)
  PROVE  ReceiptsInvariant'
<1>1. c.receipt \in Documents
  BY DEF ReceiptsInvariant, ReceiptsTypeOK, Calls
<1>2. CASE Known(c.receipt)
  <2>1. Answered(c, "duplicate") /\ UNCHANGED <<posted, bridge, file, passports>>
    BY <1>2 DEF LookUp
  <2>2. Minted(c.receipt)'
    BY <1>2, MintedStays DEF Known, Minted
  <2> QED BY <2>1, <2>2, AnswerKeeps DEF ReceiptsInvariant, ReceiptsTypeOK
<1>3. CASE ~Known(c.receipt)
  <2>1. Answered(c, "creating") /\ UNCHANGED <<posted, bridge, file, passports>>
    BY <1>3 DEF LookUp
  <2> QED BY <2>1, AnswerKeeps DEF ReceiptsInvariant, ReceiptsTypeOK
<1> QED BY <1>2, <1>3

LEMMA CreateKeeps ==
  ASSUME ReceiptsInvariant, Next, NEW c \in calls, Create(c)
  PROVE  ReceiptsInvariant'
<1>1. c.receipt \in Documents /\ UNCHANGED <<posted, bridge, file>>
  BY DEF Create, ReceiptsInvariant, ReceiptsTypeOK, Calls
<1>2. CASE passports' = passports \cup {NewRow(c.receipt, c.n)} /\ Answered(c, "created")
  <2>1. Minted(c.receipt)'
    <3>1. NewRow(c.receipt, c.n) \in passports' /\ NewRow(c.receipt, c.n).receipt = c.receipt
      BY <1>2 DEF NewRow
    <3> QED BY <3>1 DEF Minted, Exists, PassportId, NewRow
  <2>2. \A p \in passports' : p.receipt \in Documents /\ p.id = PassportId(p.receipt)
    BY <1>1, <1>2 DEF NewRow, ReceiptsInvariant, ReceiptsTypeOK
  <2> QED BY <1>1, <1>2, <2>1, <2>2, AnswerKeeps
<1>3. CASE UNCHANGED passports /\ Answered(c, "error")
  BY <1>1, <1>3, AnswerKeeps DEF ReceiptsInvariant, ReceiptsTypeOK
<1> QED BY <1>2, <1>3 DEF Create

LEMMA CockpitCreateKeeps ==
  ASSUME ReceiptsInvariant, Next, NEW d \in Documents, CockpitCreate(d)
  PROVE  ReceiptsInvariant'
<1>1. \A p \in passports' : p.receipt \in Documents /\ p.id = PassportId(p.receipt)
  BY DEF CockpitCreate, NewRow, ReceiptsInvariant, ReceiptsTypeOK
<1>2. ReceiptsTypeOK'
  BY <1>1 DEF CockpitCreate, ReceiptsInvariant, ReceiptsTypeOK, PassportId
<1>3. SeenIsMinted'
  BY SeenStays DEF CockpitCreate, ReceiptsInvariant
<1>4. (\A c \in calls : c.pc \in {"created", "duplicate"} => Minted(c.receipt))'
  BY MintedStays DEF CockpitCreate, ReceiptsInvariant
<1> QED BY <1>2, <1>3, <1>4 DEF CockpitCreate, ReceiptsInvariant, Awaited

(***************************************************************************)
(* The theorems.                                                           *)
(***************************************************************************)
\* The inductive invariant (cycle, postEvent and the erp-events webhook): answers
\* are about the receipt that was posted, and stand for committed rows.
THEOREM ReceiptsAreSound == Spec => []ReceiptsInvariant
<1>1. Init => ReceiptsInvariant
  BY DEF Init, ReceiptsInvariant, ReceiptsTypeOK, Bridges, Down, SeenIsMinted, Range, Awaited
<1>2. ReceiptsInvariant /\ [Next]_vars => ReceiptsInvariant'
  <2> SUFFICES ASSUME ReceiptsInvariant, [Next]_vars
               PROVE  ReceiptsInvariant'
    OBVIOUS
  <2>1. CASE UNCHANGED vars
    BY <2>1 DEF vars, ReceiptsInvariant, ReceiptsTypeOK, SeenIsMinted, Minted, Exists, PassportId, Awaited
  <2>2. CASE Next
    <3>1. ASSUME NEW d \in Documents, PostGoodsReceipt(d) \/ CockpitCreate(d)
          PROVE  ReceiptsInvariant'
      BY <2>2, <3>1, PostGoodsReceiptKeeps, CockpitCreateKeeps
    <3>2. CASE BridgeStep
      BY <2>2, <3>2, StartBridgeKeeps, FetchKeeps, SaveStateKeeps, PassOverKeeps, PostEventKeeps
         DEF BridgeStep
    <3>3. CASE GiveUp \/ StopBridge
      BY <2>2, <3>3, GiveUpKeeps, StopBridgeKeeps
    <3>4. CASE RestartServer
      BY <2>2, <3>4, LostCallsKeep DEF RestartServer
    <3>5. ASSUME NEW c \in calls, LookUp(c) \/ Create(c) \/ DropAnswer(c) \/ ReceiveAnswer(c)
          PROVE  ReceiptsInvariant'
      <4>1. CASE DropAnswer(c)
        BY <2>2, <4>1, LostCallsKeep DEF DropAnswer
      <4> QED BY <2>2, <3>5, <4>1, LookUpKeeps, CreateKeeps, ReceiveAnswerKeeps
    <3> QED BY <2>2, <3>1, <3>2, <3>3, <3>4, <3>5 DEF Next
  <2> QED BY <2>1, <2>2
<1> QED BY <1>1, <1>2, PTL DEF Spec

\* Whatever the bridge has marked as seen, and will never post again, has its
\* passport: lost posts, lost answers and deaths of both processes cost repetitions
\* only (cycle, saveState).
THEOREM SeenStaysMinted == Spec => []SeenIsMinted
<1>1. ReceiptsInvariant => SeenIsMinted
  BY DEF ReceiptsInvariant
<1> QED BY <1>1, ReceiptsAreSound, PTL

\* Repeated posts and the cockpit make one row of a passport id, also when the ids
\* of two receipts collide (createPassport, erp-events).
THEOREM PassportsAreMintedOnce == Spec => []MintedOnce
<1>1. Init => MintedOnce
  BY DEF Init, MintedOnce
<1>2. MintedOnce /\ [Next]_vars => MintedOnce'
  <2> SUFFICES ASSUME MintedOnce, [Next]_vars
               PROVE  MintedOnce'
    OBVIOUS
  <2>1. CASE passports' = passports
    BY <2>1 DEF MintedOnce
  <2>2. ASSUME NEW d, NEW n, Free(PassportId(d)), passports' = passports \cup {NewRow(d, n)}
        PROVE  MintedOnce'
    BY <2>2 DEF MintedOnce, Free, Exists, NewRow
  <2>3. CASE Next
    BY <2>1, <2>2, <2>3
       DEF Next, PostGoodsReceipt, CockpitCreate, BridgeStep, StartBridge, Fetch, SaveState, PassOver,
           PostEvent, GiveUp, StopBridge, RestartServer, LookUp, Create, DropAnswer, ReceiveAnswer
  <2> QED BY <2>1, <2>3 DEF vars
<1> QED BY <1>1, <1>2, PTL DEF Spec
=============================================================================
