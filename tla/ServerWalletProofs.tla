--------------------------- MODULE ServerWalletProofs ---------------------------
(***************************************************************************)
(* What the service does with its server wallets: it keeps one signing     *)
(* session for each (ServerSessions), and hands passports over between     *)
(* them (OperatorHandover); for any wallets, sessions and registrations.   *)
(*                                                                         *)
(* A session that is being opened is the one its wallet has in flight:     *)
(* that is what lets callers join it.  A runner works on a row that nobody *)
(* has settled: that is what keeps a settled row true to its transaction.  *)
(***************************************************************************)
EXTENDS ServerSessions, TLAPS

-----------------------------------------------------------------------------
(* The signing sessions of the server wallets *)

\* What is in flight for a wallet is what is being opened for it, and nothing
\* else is; sessions that are cached were opened for the wallet.
OpeningInvariant ==
  /\ serverSessions \in [Wallets -> Sessions \cup {None}]
  /\ inflight \in [Wallets -> Sessions \cup {None}]
  /\ wallet \in [Sessions -> Wallets \cup {None}]
  /\ session \in [Sessions -> {"none", "opening", "live", "dead"}]
  /\ \A s \in Sessions : session[s] = "opening" => wallet[s] \in Wallets /\ inflight[wallet[s]] = s
  /\ \A w \in Wallets : inflight[w] # None =>
       wallet[inflight[w]] = w /\ session[inflight[w]] = "opening"
  /\ \A w \in Wallets : \A s \in Sessions :
       serverSessions[w] = s => wallet[s] = w /\ session[s] \in {"live", "dead"}

\* A status call that waits for an answer asks about a server wallet.
ReadsAreWhole ==
  /\ read \in [Readers -> [of : Wallets \cup {None}, session : Sessions \cup {None},
                           answer : {"none", "asked", "no facade"}]]
  /\ \A r \in Readers : read[r].answer # "none" => read[r].of \in Wallets

\* An opening starts under a free name, for a wallet that has none in flight,
\* whatever entry of the cache is dropped for it.
LEMMA OpenKeeps ==
  ASSUME None \notin Sessions, OpeningInvariant, NEW w \in Wallets,
         NEW cached, cached \in {serverSessions, [serverSessions EXCEPT ![w] = None]},
         Open(w, cached)
  PROVE  OpeningInvariant'
<1>1. \A v \in Wallets : cached[v] \in {serverSessions[v], None}
      /\ cached \in [Wallets -> Sessions \cup {None}]
  BY DEF OpeningInvariant
<1>2. serverSessions' = cached
  BY DEF Open
<1>3. CASE UNCHANGED <<inflight, wallet, session>>
  BY <1>1, <1>2, <1>3 DEF OpeningInvariant
<1>4. CASE inflight[w] = None /\ Free # {} /\ Connect(w, CHOOSE s \in Free : TRUE)
  <2>1. PICK s \in Free : Connect(w, s)
    BY <1>4
  <2>2. /\ s \in Sessions /\ session[s] \in {"none", "dead"}
        /\ \A v \in Wallets : serverSessions[v] # s /\ inflight[v] # s
    BY DEF Free
  <2>3. /\ inflight' = [inflight EXCEPT ![w] = s]
        /\ wallet' = [wallet EXCEPT ![s] = w]
        /\ session' = [session EXCEPT ![s] = "opening"]
    BY <2>1 DEF Connect
  <2> QED
    BY <1>1, <1>2, <1>4, <2>2, <2>3 DEF OpeningInvariant
<1> QED
  BY <1>3, <1>4 DEF Open

LEMMA NextOpening ==
  ASSUME None \notin Sessions
  PROVE  OpeningInvariant /\ ReadsAreWhole /\ [Next]_vars => OpeningInvariant'
<1> SUFFICES ASSUME OpeningInvariant, ReadsAreWhole, [Next]_vars PROVE OpeningInvariant'
  OBVIOUS
<1>1. ASSUME NEW w \in Wallets, AskSession(w)
      PROVE  OpeningInvariant'
  BY <1>1, OpenKeeps DEF AskSession
<1>2. ASSUME NEW s \in Sessions, OpenSucceeds(s)
      PROVE  OpeningInvariant'
  <2>1. /\ session[s] = "opening" /\ wallet[s] \in Wallets /\ inflight[wallet[s]] = s
        /\ session' = [session EXCEPT ![s] = "live"]
        /\ serverSessions' = [serverSessions EXCEPT ![wallet[s]] = s]
        /\ inflight' = [inflight EXCEPT ![wallet[s]] = None]
        /\ wallet' = wallet
    BY <1>2 DEF OpenSucceeds, OpeningInvariant
  <2> QED
    BY <2>1 DEF OpeningInvariant
<1>3. ASSUME NEW s \in Sessions, OpenFails(s)
      PROVE  OpeningInvariant'
  <2>1. /\ session[s] = "opening" /\ wallet[s] \in Wallets /\ inflight[wallet[s]] = s
        /\ session' = [session EXCEPT ![s] = "dead"]
        /\ inflight' = [inflight EXCEPT ![wallet[s]] = None]
        /\ wallet' = wallet /\ serverSessions' = serverSessions
    BY <1>3 DEF OpenFails, OpeningInvariant
  <2> QED
    BY <2>1 DEF OpeningInvariant
<1>4. ASSUME NEW s \in Sessions, SessionExpires(s)
      PROVE  OpeningInvariant'
  <2>1. /\ session[s] = "live" /\ session' = [session EXCEPT ![s] = "dead"]
        /\ UNCHANGED <<serverSessions, inflight, wallet>>
    BY <1>4 DEF SessionExpires, service
  <2> QED
    BY <2>1 DEF OpeningInvariant
<1>5. ASSUME NEW r \in Readers, SessionNotFound(r) \/ FacadeIsGone(r)
      PROVE  OpeningInvariant'
  <2>1. Heal(r) /\ read[r].of \in Wallets
    BY <1>5 DEF SessionNotFound, FacadeIsGone, ReadsAreWhole
  <2> QED
    BY <2>1, OpenKeeps DEF Heal
<1>6. ASSUME \/ UNCHANGED vars
             \/ \E w \in Wallets : WalletStatus(w) \/ TakePrewarm(w)
             \/ \E s \in Sessions : JobEnds(s)
             \/ \E r \in Readers : \/ \E w \in Wallets : ReadPool(r, w)
                                   \/ PoolAnswers(r) \/ NoFacade(r) \/ StillWarming(r)
      PROVE  OpeningInvariant'
  <2>1. UNCHANGED <<serverSessions, inflight, wallet, session>>
    BY <1>6 DEF vars, WalletStatus, NoJobLeft, AskJob, JobAnswers, JobUnread, TakePrewarm,
       JobEnds, PrewarmSucceeds, PrewarmFails, ReadPool, PoolAnswers, NoFacade, StillWarming,
       service, plugin
  <2> QED
    BY <2>1 DEF OpeningInvariant
<1> QED
  BY <1>1, <1>2, <1>3, <1>4, <1>5, <1>6 DEF Next, Answered

LEMMA NextReads ==
  OpeningInvariant /\ ReadsAreWhole /\ [Next]_vars => ReadsAreWhole'
<1> SUFFICES ASSUME OpeningInvariant, ReadsAreWhole, [Next]_vars PROVE ReadsAreWhole'
  OBVIOUS
<1>1. ASSUME NEW r \in Readers, NEW w \in Wallets, ReadPool(r, w)
      PROVE  ReadsAreWhole'
  <2>1. /\ serverSessions[w] \in Sessions \cup {None}
        /\ read' = [read EXCEPT ![r] = [of |-> w, session |-> serverSessions[w], answer |-> "asked"]]
    BY <1>1 DEF ReadPool, OpeningInvariant
  <2> QED
    BY <2>1 DEF ReadsAreWhole
<1>2. ASSUME NEW r \in Readers, Answered(r)
      PROVE  ReadsAreWhole'
  <2>1. \/ read' = [read EXCEPT ![r] = NoRead]
        \/ read[r].answer = "asked" /\ read' = [read EXCEPT ![r].answer = "no facade"]
    BY <1>2 DEF Answered, PoolAnswers, SessionNotFound, NoFacade,
       StillWarming, FacadeIsGone, Heal
  <2>2. CASE read' = [read EXCEPT ![r] = NoRead]
    BY <2>2 DEF ReadsAreWhole, NoRead
  <2>3. CASE read[r].answer = "asked" /\ read' = [read EXCEPT ![r].answer = "no facade"]
    BY <2>3 DEF ReadsAreWhole
  <2> QED
    BY <2>1, <2>2, <2>3
<1>3. ASSUME \/ UNCHANGED vars
             \/ \E w \in Wallets : AskSession(w) \/ WalletStatus(w) \/ TakePrewarm(w)
             \/ \E s \in Sessions : \/ OpenSucceeds(s) \/ OpenFails(s)
                                    \/ JobEnds(s) \/ SessionExpires(s)
      PROVE  ReadsAreWhole'
  <2>1. read' = read
    BY <1>3 DEF vars, AskSession, WalletStatus, NoJobLeft, AskJob, JobAnswers, JobUnread, TakePrewarm, OpenSucceeds,
       OpenFails, JobEnds, PrewarmSucceeds, PrewarmFails, SessionExpires
  <2> QED
    BY <2>1 DEF ReadsAreWhole
<1> QED
  BY <1>1, <1>2, <1>3 DEF Next

\* However many callers and monitors ask for a session of a wallet at once, join
\* an opening or drop what they find dead, the wallet is connected once at a
\* time, and what is cached for it is a session of its own that was opened.
THEOREM WalletsOpenOnce == Spec => []OneOpening
<1>1. None \notin Sessions
  BY SessionAssumption
<1>2. Init => OpeningInvariant /\ ReadsAreWhole
  BY <1>1 DEF Init, OpeningInvariant, ReadsAreWhole, NoRead
<1>3. OpeningInvariant => OneOpening
  BY DEF OpeningInvariant, OneOpening
<1> QED
  BY <1>1, <1>2, <1>3, NextOpening, NextReads, PTL DEF Spec

-----------------------------------------------------------------------------
(* Handing passports over between them *)

CONSTANTS MaxOps, Requests

VARIABLES status, owner, signers, requests, asked, log, registered, bound

Handover == INSTANCE OperatorHandover

RunnersArePending == \A o \in Handover!Ops : log[o].runner # "none" => log[o].row = "pending"

HandoverInvariant == Handover!HandoverTypeOK /\ RunnersArePending /\ Handover!BookedHasLanded

\* The initial state is one of nobody's registrations.
LEMMA InitIsFine ==
  ASSUME MaxOps \in Nat
  PROVE  Handover!Init => HandoverInvariant
  BY
     DEF Handover!Init, HandoverInvariant, Handover!HandoverTypeOK, RunnersArePending,
         Handover!BookedHasLanded, Handover!NoOp, Handover!Ops, Handover!Statuses

\* What a step makes of one row keeps the invariant when the row stays typed,
\* true to its runner and true to its transaction.
LEMMA RowChanges ==
  ASSUME HandoverInvariant,
         NEW o \in Handover!Ops, NEW r \in Handover!Op,
         r.runner # "none" => r.row = "pending",
         r.row = "succeeded" => r.tx = "landed",
         log' = [log EXCEPT ![o] = r]
  PROVE  /\ log' \in [Handover!Ops -> Handover!Op \cup {Handover!NoOp}]
         /\ RunnersArePending'
         /\ Handover!BookedHasLanded'
  <1>1. log' \in [Handover!Ops -> Handover!Op \cup {Handover!NoOp}]
    BY DEF HandoverInvariant, Handover!HandoverTypeOK
  <1>2. \A p \in Handover!Ops : log'[p] = IF p = o THEN r ELSE log[p]
    BY DEF HandoverInvariant, Handover!HandoverTypeOK
  <1>3. RunnersArePending' /\ Handover!BookedHasLanded'
    BY <1>2 DEF HandoverInvariant, RunnersArePending, Handover!BookedHasLanded
  <1>. QED BY <1>1, <1>3

\* A row somebody works on, or whose transaction is somewhere, is no empty slot.
LEMMA BusyRows ==
  ASSUME HandoverInvariant, NEW o \in Handover!Ops,
         \/ log[o].runner # "none"
         \/ log[o].tx # "none"
  PROVE  log[o] \in Handover!Op
  BY DEF HandoverInvariant, Handover!HandoverTypeOK, Handover!NoOp

\* Every step of the system keeps the invariant.
LEMMA StepKeepsInvariant ==
  ASSUME MaxOps \in Nat, HandoverInvariant, [Handover!Next]_(Handover!vars)
  PROVE  HandoverInvariant'
  <1>. USE DEF HandoverInvariant
  <1>1. ASSUME NEW w \in Wallets,
               Handover!Anchor(w) \/ Handover!AnchorSucceeds(w) \/ Handover!AnchorFails(w)
        PROVE  HandoverInvariant'
    BY <1>1
       DEF Handover!Anchor, Handover!AnchorSucceeds, Handover!AnchorFails,
           Handover!HandoverTypeOK, Handover!Statuses, RunnersArePending, Handover!BookedHasLanded
  <1>2. ASSUME NEW what \in {"claim", "transfer"}, NEW w \in Wallets, Handover!Register(what, w),
               UNCHANGED <<status, owner, signers, registered, bound>>,
               requests' \in [Requests -> Handover!Request \cup {Handover!NoRequest}]
        PROVE  HandoverInvariant'
    <2>. DEFINE r == [what |-> what, to |-> w, row |-> "pending",
                      runner |-> "starting", tx |-> "none"]
    <2>1. r \in Handover!Op /\ r.row = "pending"
      BY DEF Handover!Op
    <2>2. asked + 1 \in Handover!Ops /\ asked' \in 0..MaxOps
      BY <1>2 DEF Handover!Register, Handover!HandoverTypeOK, Handover!Ops
    <2>3. log' = [log EXCEPT ![asked + 1] = r]
      BY <1>2 DEF Handover!Register
    <2>. HIDE DEF r
    <2>4. /\ log' \in [Handover!Ops -> Handover!Op \cup {Handover!NoOp}]
          /\ RunnersArePending' /\ Handover!BookedHasLanded'
      BY <2>1, <2>2, <2>3, RowChanges
    <2>. QED BY <1>2, <2>2, <2>4 DEF Handover!HandoverTypeOK
  <1>3. ASSUME NEW q \in Requests, NEW what \in {"claim", "transfer"}, NEW w \in Wallets,
               Handover!Ask(q, what, w)
        PROVE  HandoverInvariant'
    <2>. DEFINE r == [what |-> what, to |-> w, read |-> status]
    <2>1. r \in Handover!Request
      BY DEF Handover!Request, Handover!HandoverTypeOK
    <2>2. requests' = [requests EXCEPT ![q] = r]
      BY <1>3 DEF Handover!Ask
    <2>. HIDE DEF r
    <2>3. requests' \in [Requests -> Handover!Request \cup {Handover!NoRequest}]
      BY <2>1, <2>2 DEF Handover!HandoverTypeOK
    <2>. QED BY <1>3, <2>3
       DEF Handover!Ask, Handover!HandoverTypeOK, RunnersArePending, Handover!BookedHasLanded
  <1>4. ASSUME NEW q \in Requests, NEW w \in Wallets,
               Handover!ClaimPassportId(q, w) \/ Handover!TransferPassportOperator(q, w)
        PROVE  HandoverInvariant'
    <2>1. \A target \in Handover!Targets(w) : target \in Wallets
      BY DEF Handover!Targets
    <2>. QED BY <1>3, <1>4, <2>1
       DEF Handover!ClaimPassportId, Handover!TransferPassportOperator
  <1>5. ASSUME NEW q \in Requests, Handover!Done(q)
        PROVE  requests' \in [Requests -> Handover!Request \cup {Handover!NoRequest}]
    BY <1>5 DEF Handover!Done, Handover!HandoverTypeOK
  <1>6. ASSUME NEW q \in Requests,
               \/ Handover!TransferLocally(q)
               \/ Handover!RegisterOnChain(q)
               \/ Handover!AbandonRequest(q)
        PROVE  HandoverInvariant'
    <2>1. requests[q] # Handover!NoRequest =>
            requests[q].to \in Wallets /\ requests[q].what \in {"claim", "transfer"}
      BY DEF Handover!HandoverTypeOK, Handover!Request
    <2>2. CASE Handover!TransferLocally(q)
      <3>1. requests[q] # Handover!NoRequest
        BY <2>2 DEF Handover!TransferLocally, Handover!IsLocal, Handover!NoRequest
      <3>. QED BY <1>5, <2>1, <2>2, <3>1
         DEF Handover!TransferLocally, Handover!HandoverTypeOK, RunnersArePending,
             Handover!BookedHasLanded
    <2>3. CASE Handover!RegisterOnChain(q)
      BY <1>2, <1>5, <2>1, <2>3 DEF Handover!RegisterOnChain
    <2>4. CASE Handover!AbandonRequest(q)
      BY <1>5, <2>4
         DEF Handover!AbandonRequest, Handover!HandoverTypeOK, RunnersArePending,
             Handover!BookedHasLanded
    <2>. QED BY <1>6, <2>2, <2>3, <2>4
  <1>7. ASSUME NEW o \in Handover!Ops, Handover!Send(o)
        PROVE  HandoverInvariant'
    <2>. DEFINE r == [log[o] EXCEPT !.runner = "waiting", !.tx = "sent"]
    <2>1. log[o] \in Handover!Op /\ log[o].row = "pending"
      BY <1>7, BusyRows DEF Handover!Send, RunnersArePending
    <2>2. r \in Handover!Op /\ r.row = "pending"
      BY <2>1 DEF Handover!Op
    <2>3. log' = [log EXCEPT ![o] = r]
      BY <1>7 DEF Handover!Send
    <2>. HIDE DEF r
    <2>. QED BY <1>7, <2>2, <2>3, RowChanges DEF Handover!Send, Handover!HandoverTypeOK
  <1>8. ASSUME NEW o \in Handover!Ops, Handover!LandRegistration(o)
        PROVE  HandoverInvariant'
    <2>. DEFINE r == [log[o] EXCEPT !.tx = "landed"]
    <2>1. log[o] \in Handover!Op
      BY <1>8, BusyRows DEF Handover!LandRegistration
    <2>2. /\ r \in Handover!Op /\ r.tx = "landed" /\ log[o].to \in Wallets
          /\ r.runner = log[o].runner /\ r.row = log[o].row
      BY <2>1 DEF Handover!Op
    <2>3. log' = [log EXCEPT ![o] = r]
      BY <1>8 DEF Handover!LandRegistration
    <2>4. r.runner # "none" => r.row = "pending"
      BY <2>2 DEF RunnersArePending
    <2>. HIDE DEF r
    <2>. QED BY <1>8, <2>2, <2>3, <2>4, RowChanges
       DEF Handover!LandRegistration, Handover!HandoverTypeOK
  <1>9. ASSUME NEW o \in Handover!Ops, Handover!RefuseRegistration(o)
        PROVE  HandoverInvariant'
    <2>. DEFINE r == [log[o] EXCEPT !.tx = "refused"]
    <2>1. log[o] \in Handover!Op /\ log[o].tx = "sent"
      BY <1>9, BusyRows DEF Handover!RefuseRegistration
    <2>2. r \in Handover!Op /\ r.runner = log[o].runner /\ r.row = log[o].row
      BY <2>1 DEF Handover!Op
    <2>3. log' = [log EXCEPT ![o] = r]
      BY <1>9 DEF Handover!RefuseRegistration
    <2>4. /\ r.runner # "none" => r.row = "pending"
          /\ r.row # "succeeded"
      BY <2>1, <2>2 DEF RunnersArePending, Handover!BookedHasLanded
    <2>. HIDE DEF r
    <2>. QED BY <1>9, <2>2, <2>3, <2>4, RowChanges
       DEF Handover!RefuseRegistration, Handover!HandoverTypeOK
  <1>10. ASSUME NEW o \in Handover!Ops, Handover!RegistrationSucceeds(o)
         PROVE  HandoverInvariant'
    <2>. DEFINE r == [log[o] EXCEPT !.row = "succeeded", !.runner = "none"]
    <2>1. log[o] \in Handover!Op /\ log[o].tx = "landed"
      BY <1>10, BusyRows DEF Handover!RegistrationSucceeds
    <2>2. /\ r \in Handover!Op /\ r.runner = "none" /\ r.tx = "landed"
          /\ log[o].to \in Wallets
      BY <2>1 DEF Handover!Op
    <2>3. log' = [log EXCEPT ![o] = r]
      BY <1>10 DEF Handover!RegistrationSucceeds
    <2>. HIDE DEF r
    <2>. QED BY <1>10, <2>2, <2>3, RowChanges
       DEF Handover!RegistrationSucceeds, Handover!HandoverTypeOK
  <1>11. ASSUME NEW o \in Handover!Ops, Handover!RegistrationFails(o)
         PROVE  HandoverInvariant'
    <2>1. PICK row \in {"failed", "pending"} : log' = [log EXCEPT ![o].row = row, ![o].runner = "none"]
      BY <1>11 DEF Handover!RegistrationFails
    <2>. DEFINE r == [log[o] EXCEPT !.row = row, !.runner = "none"]
    <2>2. log[o] \in Handover!Op
      BY <1>11, BusyRows DEF Handover!RegistrationFails
    <2>3. r \in Handover!Op /\ r.runner = "none" /\ r.row # "succeeded"
      BY <2>2 DEF Handover!Op
    <2>4. log' = [log EXCEPT ![o] = r]
      BY <2>1
    <2>. HIDE DEF r
    <2>. QED BY <1>11, <2>3, <2>4, RowChanges
       DEF Handover!RegistrationFails, Handover!HandoverTypeOK
  <1>12. CASE Handover!Restart
    <2>1. PICK old \in SUBSET {o \in Handover!Ops : log[o].row = "pending"} :
            log' = [o \in Handover!Ops |->
              IF o \in old THEN [log[o] EXCEPT !.row = "failed", !.runner = "none"]
              ELSE [log[o] EXCEPT !.runner = "none"]]
      BY <1>12 DEF Handover!Restart
    <2>2. \A o \in Handover!Ops :
            /\ log'[o] \in Handover!Op \cup {Handover!NoOp}
            /\ log'[o].runner = "none"
            /\ log'[o].row = "succeeded" => log[o].row = "succeeded"
            /\ log'[o].tx = log[o].tx
      <3>. SUFFICES ASSUME NEW o \in Handover!Ops
           PROVE  /\ log'[o] \in Handover!Op \cup {Handover!NoOp}
                  /\ log'[o].runner = "none"
                  /\ log'[o].row = "succeeded" => log[o].row = "succeeded"
                  /\ log'[o].tx = log[o].tx
        OBVIOUS
      <3>1. CASE log[o] \in Handover!Op
        BY <2>1, <3>1 DEF Handover!Op
      <3>2. CASE log[o] = Handover!NoOp
        <4>1. o \notin old
          <5>1. log[o].row # "pending"
            BY <3>2 DEF Handover!NoOp
          <5>. QED BY <5>1
        <4>2. [Handover!NoOp EXCEPT !.runner = "none"] = Handover!NoOp
          BY DEF Handover!NoOp
        <4>3. log'[o] = Handover!NoOp
          BY <2>1, <3>2, <4>1, <4>2
        <4>. QED BY <3>2, <4>3 DEF Handover!NoOp
      <3>. QED BY <3>1, <3>2 DEF Handover!HandoverTypeOK
    <2>3. log' \in [Handover!Ops -> Handover!Op \cup {Handover!NoOp}]
      BY <2>1, <2>2
    <2>. QED BY <1>12, <2>2, <2>3
       DEF Handover!Restart, Handover!HandoverTypeOK, RunnersArePending, Handover!BookedHasLanded
  <1>13. CASE UNCHANGED Handover!vars
    BY <1>13
       DEF Handover!vars, Handover!HandoverTypeOK, RunnersArePending, Handover!BookedHasLanded
  <1>. QED BY <1>1, <1>4, <1>6, <1>7, <1>8, <1>9, <1>10, <1>11, <1>12, <1>13
     DEF Handover!Next

\* The inductive invariant, for any wallets and any number of registrations: an
\* unsettled row per runner, and only landed registrations booked as succeeded.
THEOREM HandoverIsInvariant ==
  ASSUME MaxOps \in Nat
  PROVE  Handover!Spec => []HandoverInvariant
  <1>. QED BY InitIsFine, StepKeepsInvariant, PTL DEF Handover!Spec

\* No claim and no handover is ever booked as done that the vault has not seen,
\* whatever times out, fails half-way or restarts.
THEOREM BookedRegistrationsHaveLanded ==
  ASSUME MaxOps \in Nat
  PROVE  Handover!Spec => []Handover!BookedHasLanded
  <1>1. HandoverInvariant => Handover!BookedHasLanded
    BY DEF HandoverInvariant
  <1>. QED BY <1>1, HandoverIsInvariant, PTL

\* The owner of an anchored passport changes only after a registration to the new
\* operator has landed, or by a handover that read the passport before the anchor
\* was reported and overtook it.
THEOREM AnchoredHandoversHaveLanded ==
  ASSUME MaxOps \in Nat
  PROVE  Handover!Spec => Handover!AnchoredHandoverHasLanded
  <1>1. ASSUME Handover!HandoverTypeOK, Handover!Next, status = "anchored", owner' # owner
        PROVE  Handover!LandedTransfer(owner') \/ Handover!OvertakenHandover(owner')
    <2>1. \/ \E o \in Handover!Ops : Handover!RegistrationSucceeds(o)
          \/ \E q \in Requests : Handover!TransferLocally(q)
      BY <1>1
         DEF Handover!Next, Handover!Anchor, Handover!AnchorSucceeds, Handover!AnchorFails,
             Handover!ClaimPassportId, Handover!TransferPassportOperator, Handover!Ask,
             Handover!RegisterOnChain, Handover!AbandonRequest,
             Handover!Send, Handover!LandRegistration, Handover!RefuseRegistration,
             Handover!RegistrationFails, Handover!Restart
    <2>2. ASSUME NEW o \in Handover!Ops, Handover!RegistrationSucceeds(o)
          PROVE  Handover!LandedTransfer(owner')
      BY <1>1, <2>2 DEF Handover!RegistrationSucceeds, Handover!LandedTransfer
    <2>3. ASSUME NEW q \in Requests, Handover!TransferLocally(q)
          PROVE  Handover!OvertakenHandover(owner')
      BY <1>1, <2>3 DEF Handover!TransferLocally, Handover!Done, Handover!HandoverTypeOK,
                  Handover!OvertakenHandover
    <2>. QED BY <2>1, <2>2, <2>3
  <1>2. Handover!HandoverTypeOK /\ [Handover!Next]_(Handover!vars) =>
          [status = "anchored" /\ owner' # owner =>
             Handover!LandedTransfer(owner') \/ Handover!OvertakenHandover(owner')]_(Handover!vars)
    BY <1>1
  <1>3. HandoverInvariant => Handover!HandoverTypeOK
    BY DEF HandoverInvariant
  <1>. QED BY <1>2, <1>3, HandoverIsInvariant, PTL
     DEF Handover!Spec, Handover!AnchoredHandoverHasLanded
=============================================================================
