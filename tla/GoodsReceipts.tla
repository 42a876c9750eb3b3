------------------------------ MODULE GoodsReceipts ------------------------------
(***************************************************************************)
(* From a goods receipt in S/4HANA to a passport: the bridge polls the     *)
(* newest material documents and posts every receipt it has not seen to    *)
(* the webhook of the server, which creates a passport once per passport   *)
(* id.  Posts get lost, time out while the server still works on them, and *)
(* are repeated; the bridge and the server die and come back.              *)
(*                                                                         *)
(* A document has one item.  What becomes of the passport afterwards is in *)
(* PassportAnchor.                                                         *)
(***************************************************************************)
EXTENDS Naturals, FiniteSets, Sequences, Functions

CONSTANTS
  Documents,  \* material documents: records of year, number and material
  Master,     \* materials of the product master
  Top,        \* S4_TOP: documents of one page
  SeenCap,    \* SEEN_CAP
  MaxCalls,   \* bound: webhook calls on their way at a time
  MaxStops    \* bound: deaths of the bridge in the middle of a cycle

ASSUME ReceiptsAssumption ==
  /\ \A d \in Documents : d.year \in Nat /\ d.number \in Nat
  /\ Top \in Nat \ {0} /\ SeenCap \in Nat \ {0}
  /\ MaxCalls \in Nat \ {0} /\ MaxStops \in Nat

VARIABLES
  posted,     \* documents in S/4
  bridge,     \* the process of the bridge
  stops,      \* how often it died
  file,       \* its state file
  calls,      \* webhook calls the server has to answer, and their answers
  passports   \* rows of Passports, each with the receipt and the call it was created from

vars == <<posted, bridge, stops, file, calls, passports>>

Down == [pc |-> "down"]
Between(seen) == [pc |-> "idle", seen |-> seen]

\* passportIdFor: the material, the number of the document and its item.
PassportId(d) == <<d.material, d.number>>
IsBattery(d) == d.material \in Master
BatteryReceipts == {d \in Documents : IsBattery(d)}
Exists(id) == \E p \in passports : p.id = id

Init ==
  /\ posted = {}
  /\ bridge = Down
  /\ stops = 0
  /\ file = <<>>
  /\ calls = {}
  /\ passports = {}

\* Somebody receives goods.
PostGoodsReceipt(d) ==
  /\ d \notin posted
  /\ posted' = posted \cup {d}
  /\ UNCHANGED <<bridge, stops, file, calls, passports>>

(***************************************************************************)
(* The bridge.                                                             *)
(***************************************************************************)
\* loadState.
StartBridge ==
  /\ bridge.pc = "down"
  /\ bridge' = Between(file)
  /\ UNCHANGED <<posted, stops, file, calls, passports>>

\* fetchMaterialDocuments: $orderby=MaterialDocument desc & $top.
Later(d, e) == \/ d.number > e.number
               \/ d.number = e.number /\ d.year > e.year
Newest(docs) == {d \in docs : Cardinality({e \in docs : Later(e, d)}) < Top}
Fetch ==
  /\ bridge.pc = "idle"
  /\ bridge' = [pc |-> "cycle", seen |-> bridge.seen, page |-> Newest(posted)]
  /\ UNCHANGED <<posted, stops, file, calls, passports>>

\* The cycle goes through the page from its newest receipt on.
AtReceipt(d) ==
  /\ bridge.pc = "cycle"
  /\ d \in bridge.page /\ \A e \in bridge.page \ {d} : Later(d, e)
Seen(d) == d \in Range(bridge.seen)
Marked(d) == [pc |-> "cycle", seen |-> Append(bridge.seen, d), page |-> bridge.page \ {d}]
Passed(d) == [pc |-> "cycle", seen |-> bridge.seen, page |-> bridge.page \ {d}]

\* What the bridge has seen it passes over; what no passport is made of it marks.
PassOver(d) ==
  /\ AtReceipt(d)
  /\ \/ Seen(d) /\ bridge' = Passed(d)
     \/ ~Seen(d) /\ ~IsBattery(d) /\ bridge' = Marked(d)
  /\ UNCHANGED <<posted, stops, file, calls, passports>>

\* postEvent.
PostEvent(d) ==
  /\ AtReceipt(d)
  /\ ~Seen(d) /\ IsBattery(d)
  /\ \E n \in 1..MaxCalls :
       /\ \A c \in calls : c.n # n
       /\ calls' = calls \cup {[n |-> n, receipt |-> d, pc |-> "arrived"]}
       /\ bridge' = [pc |-> "waiting", seen |-> bridge.seen, page |-> bridge.page,
                     receipt |-> d, call |-> n]
  /\ UNCHANGED <<posted, stops, file, passports>>

\* Mutant: any answer is as good as a passport.
GoodAnswerMutant(answer) == TRUE
\* 201 created, or 200 duplicate.
GoodAnswer(answer) == answer \in {"created", "duplicate"}
IsAnswered(c) == c.pc \in {"created", "duplicate", "error"}
Awaited(c) == bridge.pc = "waiting" /\ bridge.call = c.n
ReceiveAnswer(c) ==
  /\ Awaited(c) /\ IsAnswered(c)
  /\ bridge' = IF GoodAnswer(c.pc) THEN Marked(bridge.receipt) ELSE Passed(bridge.receipt)
  /\ calls' = calls \ {c}
  /\ UNCHANGED <<posted, stops, file, passports>>

\* Unreachable, reset, or 120 seconds have passed; the next cycle tries again.
GiveUp ==
  /\ bridge.pc = "waiting"
  /\ bridge' = Passed(bridge.receipt)
  /\ UNCHANGED <<posted, stops, file, calls, passports>>

\* saveState, at the end of a cycle.  A bridge that dies while it writes leaves a
\* file it cannot read, which it takes for an empty one.
Kept(seen) == SubSeq(seen, IF Len(seen) > SeenCap THEN Len(seen) - SeenCap + 1 ELSE 1, Len(seen))
SaveState ==
  /\ bridge.pc = "cycle" /\ bridge.page = {}
  /\ \/ file' = Kept(bridge.seen) /\ bridge' = Between(Kept(bridge.seen))
     \/ file' = <<>> /\ bridge' = Down
  /\ UNCHANGED <<posted, stops, calls, passports>>

\* The bridge dies, or a run with --once ends.
StopBridge ==
  /\ bridge.pc # "down" /\ stops < MaxStops
  /\ bridge' = Down
  /\ stops' = stops + 1
  /\ UNCHANGED <<posted, file, calls, passports>>

(***************************************************************************)
(* The webhook, POST /api/v1/passport/erp-events.                          *)
(***************************************************************************)
Answered(c, answer) == calls' = (calls \ {c}) \cup {[c EXCEPT !.pc = answer]}

Known(d) == Exists(PassportId(d))
LookUp(c) ==
  /\ c.pc = "arrived"
  /\ Answered(c, IF Known(c.receipt) THEN "duplicate" ELSE "creating")
  /\ UNCHANGED <<posted, bridge, stops, file, passports>>

\* Mutant: createPassport does not look, and the schema lets it pass.
FreeMutant(id) == TRUE
Free(id) == ~Exists(id)
NewRow(d, by) == [id |-> PassportId(d), receipt |-> d, by |-> by]
\* createPassport in a transaction of its own; the loser of a race is rejected.
Create(c) ==
  /\ c.pc = "creating"
  /\ \/ /\ Free(PassportId(c.receipt))
        /\ passports' = passports \cup {NewRow(c.receipt, c.n)}
        /\ Answered(c, "created")
     \/ /\ UNCHANGED passports
        /\ Answered(c, "error")
  /\ UNCHANGED <<posted, bridge, stops, file>>

\* Nobody waits for the answer any more.
DropAnswer(c) ==
  /\ IsAnswered(c) /\ ~Awaited(c)
  /\ calls' = calls \ {c}
  /\ UNCHANGED <<posted, bridge, stops, file, passports>>

RestartServer ==
  /\ calls # {}
  /\ calls' = {}
  /\ UNCHANGED <<posted, bridge, stops, file, passports>>

\* The cockpit creates a draft from a list of receipts it once fetched
\* (s4GoodsReceipts).
CockpitCreate(d) ==
  /\ d \in posted
  /\ IsBattery(d) /\ Free(PassportId(d))
  /\ passports' = passports \cup {NewRow(d, 0)}
  /\ UNCHANGED <<posted, bridge, stops, file, calls>>

\* One step after the other, as far as the bridge is concerned.
BridgeStep ==
  \/ StartBridge \/ Fetch \/ SaveState
  \/ \E d \in Documents : PassOver(d) \/ PostEvent(d)

Next ==
  \/ \E d \in Documents : PostGoodsReceipt(d) \/ CockpitCreate(d)
  \/ BridgeStep \/ GiveUp \/ StopBridge \/ RestartServer
  \/ \E c \in calls : LookUp(c) \/ Create(c) \/ DropAnswer(c) \/ ReceiveAnswer(c)

Spec == Init /\ [][Next]_vars

(***************************************************************************)
(* The bridge loops and S/4 answers it; the server works on what it is     *)
(* asked, and when it is asked about a receipt again and again it succeeds *)
(* before it is restarted in the end.                                      *)
(***************************************************************************)
Creates(c) == Create(c) /\ passports' # passports
FairSpec ==
  /\ Spec
  /\ WF_vars(BridgeStep) /\ WF_vars(GiveUp)
  /\ \A d \in BatteryReceipts :
       /\ SF_vars(\E c \in calls : c.receipt = d /\ LookUp(c))
       /\ SF_vars(\E c \in calls : c.receipt = d /\ Creates(c))
  /\ \A n \in 1..MaxCalls :
       WF_vars(\E c \in calls : c.n = n /\ (Create(c) \/ DropAnswer(c)))

(***************************************************************************)
(* Properties.                                                             *)
(***************************************************************************)
Minted(d) == Exists(PassportId(d))

\* What the bridge will never post again has its passport, whatever was lost on
\* the way: a failure is not marked, an answer stands for a committed row
\* (cycle, the idempotent webhook).  Receipts of two years may have one passport id
\* and then share the row of the first: the id has no year (passportIdFor).
SeenIsMinted ==
  \A d \in Documents :
    /\ IsBattery(d)
    /\ \/ d \in Range(file)
       \/ bridge.pc # "down" /\ d \in Range(bridge.seen)
    => Minted(d)

\* A receipt that is posted again and again, from the bridge and from the cockpit,
\* becomes one passport (erp-events, createPassport).
MintedOnce == \A p, q \in passports : p.id = q.id => p = q

\* A receipt of a battery becomes a passport, in spite of lost posts and deaths,
\* unless other documents fill the page for good before the bridge got to it: then
\* nothing brings it back (fetchMaterialDocuments has no second page).
OnPage(d) == d \in Newest(posted)
ReceiptsAreMinted == \A d \in BatteryReceipts : d \in posted ~> Minted(d) \/ ~OnPage(d)

Bridges ==
  [pc : {"down"}] \cup [pc : {"idle"}, seen : Seq(Documents)]
  \cup [pc : {"cycle"}, seen : Seq(Documents), page : SUBSET Documents]
  \cup [pc : {"waiting"}, seen : Seq(Documents), page : SUBSET Documents,
         receipt : Documents, call : 1..MaxCalls]
Calls ==
  [n : 1..MaxCalls, receipt : Documents,
   pc : {"arrived", "creating", "created", "duplicate", "error"}]

\* The records of bridge, state file, webhook and database have their types.
ReceiptsTypeOK ==
  /\ posted \subseteq Documents
  /\ bridge \in Bridges
  /\ file \in Seq(Documents)
  /\ calls \subseteq Calls
  /\ \A p \in passports : p.receipt \in Documents /\ p.id = PassportId(p.receipt)

\* The inductive invariant behind SeenIsMinted: an answer that lets the bridge mark
\* a receipt is about that receipt, and its row is committed (cycle, postEvent and
\* the webhook).
ReceiptsInvariant ==
  /\ ReceiptsTypeOK
  /\ SeenIsMinted
  /\ \A c, d \in calls : c.n = d.n => c = d
  /\ \A c \in calls : c.pc \in {"created", "duplicate"} => Minted(c.receipt)
  /\ \A c \in calls : Awaited(c) => c.receipt = bridge.receipt
=============================================================================
