---------------------------- MODULE OperatorHandover ----------------------------
(***************************************************************************)
(* Who operates a passport: the owner the server goes by, and the attester *)
(* the vault has registered for its id.  The registrar's wallet registers  *)
(* ids for the others, on a claim (claimPassportId) and when an anchored   *)
(* passport changes hands (transferPassportOperator).                      *)
(*                                                                         *)
(* One passport.  A wallet stands for its shielded address, the owner      *)
(* column, and for its attester id.  An anchor that lands after its run    *)
(* gave up is in PassportAnchor and left out here.  A request reads the    *)
(* row in one step and writes in another: anchors and other requests       *)
(* commit in between.                                                      *)
(***************************************************************************)
EXTENDS Naturals

CONSTANTS
  Wallets,      \* server wallets
  Requests,     \* slots of open requests
  MaxOps,       \* registrations that are asked for
  None

VARIABLES
  status,       \* Passports.status
  owner,        \* Passports.owner
  signers,      \* the wallets that have anchors under way
  requests,     \* open requests: what is asked, and the status they read
  asked,        \* number of registerPassport rows, in the order of their creation
  log,          \* PassportTransactions: the registerPassport rows, and their runners
  registered,   \* vault: the attester the id is registered to
  bound         \* vault: the attester of the record the id is bound to

vars == <<status, owner, signers, requests, asked, log, registered, bound>>

Ops == 1..MaxOps
NoOp == [what |-> "none", to |-> None, row |-> "none", runner |-> "none", tx |-> "none"]
Op == [what : {"claim", "transfer"}, to : Wallets,
       row : {"pending", "succeeded", "failed"}, runner : {"starting", "waiting", "none"},
       tx : {"none", "sent", "landed", "refused"}]
Statuses == {"draft", "anchoring", "anchored", "failed"}
NoRequest == [what |-> "none", to |-> None, read |-> None]
Request == [what : {"claim", "transfer"}, to : Wallets, read : Statuses]

HandoverTypeOK ==
  /\ status \in Statuses
  /\ {owner, registered, bound} \subseteq Wallets \cup {None}
  /\ signers \subseteq Wallets
  /\ requests \in [Requests -> Request \cup {NoRequest}]
  /\ asked \in 0..MaxOps
  /\ log \in [Ops -> Op \cup {NoOp}]

Init ==
  /\ status = "draft"
  /\ owner \in Wallets \cup {None}
  /\ signers = {}
  /\ requests = [q \in Requests |-> NoRequest]
  /\ asked = 0
  /\ log = [o \in Ops |-> NoOp]
  /\ registered = None
  /\ bound = None

(***************************************************************************)
(* Anchoring, as far as it decides who is the operator.                    *)
(***************************************************************************)
\* assertWalletOwnsPassport
Owns(w) == owner \in {None, w}

\* bindDocument: the registered owner, or, while nobody is registered, the
\* first to come and then only he.
MayBind(w) == registered = w \/ (registered = None /\ bound \in {None, w})

\* submitPassport asks for neither the owner nor the status.
Anchor(w) ==
  /\ status' = "anchoring"
  /\ signers' = signers \cup {w}
  /\ UNCHANGED <<owner, requests, asked, log, registered, bound>>

\* The runner marks the row whatever it says by now; the wallet may have another one.
AnchorSucceeds(w) ==
  /\ w \in signers /\ MayBind(w)
  /\ status' = "anchored"
  /\ bound' = w
  /\ signers' \in {signers, signers \ {w}}
  /\ UNCHANGED <<owner, requests, asked, log, registered>>

AnchorFails(w) ==
  /\ w \in signers
  /\ status' = "failed"
  /\ signers' \in {signers, signers \ {w}}
  /\ UNCHANGED <<owner, requests, asked, log, registered, bound>>

(***************************************************************************)
(* The two requests.                                                       *)
(***************************************************************************)
\* The row of a registration, and the runner that starts after the commit.
Register(what, w) ==
  /\ asked < MaxOps
  /\ asked' = asked + 1
  /\ log' = [log EXCEPT ![asked + 1] =
       [what |-> what, to |-> w, row |-> "pending", runner |-> "starting", tx |-> "none"]]

\* The newest registration that succeeded names the wallet.
AlreadyClaimed(w) ==
  \E o \in Ops : /\ log[o].row = "succeeded" /\ log[o].to = w
                 /\ \A p \in Ops : p > o => log[p].row # "succeeded"

Ask(q, what, w) ==
  /\ requests[q] = NoRequest
  /\ requests' = [requests EXCEPT ![q] = [what |-> what, to |-> w, read |-> status]]
  /\ UNCHANGED <<status, owner, signers, asked, log, registered, bound>>

ClaimPassportId(q, w) ==
  /\ Owns(w)
  /\ ~AlreadyClaimed(w)
  /\ Ask(q, "claim", w)

\* The cockpit of a wallet offers the other server wallets.
Targets(w) == Wallets \ {w}

\* Nobody is asked whether the passport is his.
TransferPassportOperator(q, w) ==
  \E target \in Targets(w) :
    /\ owner # target
    /\ Ask(q, "transfer", target)

\* What was anything but an anchored passport, when it was read, changes hands on
\* the server alone.
IsLocal(request) == request.what = "transfer" /\ request.read # "anchored"
Done(q) == requests' = [requests EXCEPT ![q] = NoRequest]

TransferLocally(q) ==
  /\ IsLocal(requests[q])
  /\ owner' = requests[q].to
  /\ Done(q)
  /\ UNCHANGED <<status, signers, asked, log, registered, bound>>

RegisterOnChain(q) ==
  /\ requests[q] # NoRequest /\ ~IsLocal(requests[q])
  /\ Register(requests[q].what, requests[q].to)
  /\ Done(q)
  /\ UNCHANGED <<status, owner, signers, registered, bound>>

\* No session of the registrar, or the transaction is rolled back.
AbandonRequest(q) ==
  /\ requests[q] # NoRequest
  /\ Done(q)
  /\ UNCHANGED <<status, owner, signers, asked, log, registered, bound>>

(***************************************************************************)
(* The detached runner of a registration.                                  *)
(***************************************************************************)
Send(o) ==
  /\ log[o].runner = "starting"
  /\ log' = [log EXCEPT ![o].runner = "waiting", ![o].tx = "sent"]
  /\ UNCHANGED <<status, owner, signers, requests, asked, registered, bound>>

LandRegistration(o) ==
  /\ log[o].tx = "sent"
  /\ log' = [log EXCEPT ![o].tx = "landed"]
  /\ registered' = log[o].to
  /\ UNCHANGED <<status, owner, signers, requests, asked, bound>>

RefuseRegistration(o) ==
  /\ log[o].tx = "sent"
  /\ log' = [log EXCEPT ![o].tx = "refused"]
  /\ UNCHANGED <<status, owner, signers, requests, asked, registered, bound>>

\* The owner and the row are written in one transaction.
RegistrationSucceeds(o) ==
  /\ log[o].runner = "waiting" /\ log[o].tx = "landed"
  /\ log' = [log EXCEPT ![o].row = "succeeded", ![o].runner = "none"]
  /\ owner' = IF log[o].what = "transfer" THEN log[o].to ELSE owner
  /\ UNCHANGED <<status, signers, requests, asked, registered, bound>>

\* The prewarm, the plugin, the transaction or a write fails, or the wait runs
\* out; the write that says so may fail too.
RegistrationFails(o) ==
  /\ log[o].runner # "none"
  /\ \E row \in {"failed", "pending"} :
       log' = [log EXCEPT ![o].row = row, ![o].runner = "none"]
  /\ UNCHANGED <<status, owner, signers, requests, asked, registered, bound>>

\* Runners and requests die, and the boot sweep fails the rows that are old
\* enough: only attest rows are looked up on the chain.
Restart ==
  /\ \E old \in SUBSET {o \in Ops : log[o].row = "pending"} :
       log' = [o \in Ops |->
         IF o \in old THEN [log[o] EXCEPT !.row = "failed", !.runner = "none"]
         ELSE [log[o] EXCEPT !.runner = "none"]]
  /\ signers' = {}
  /\ requests' = [q \in Requests |-> NoRequest]
  /\ UNCHANGED <<status, owner, asked, registered, bound>>

Next ==
  \/ \E w \in Wallets : Anchor(w) \/ AnchorSucceeds(w) \/ AnchorFails(w)
  \/ \E q \in Requests :
       \/ \E w \in Wallets : ClaimPassportId(q, w) \/ TransferPassportOperator(q, w)
       \/ TransferLocally(q) \/ RegisterOnChain(q) \/ AbandonRequest(q)
  \/ \E o \in Ops :
       \/ Send(o) \/ LandRegistration(o) \/ RefuseRegistration(o)
       \/ RegistrationSucceeds(o) \/ RegistrationFails(o)
  \/ Restart

Spec == Init /\ [][Next]_vars

(***************************************************************************)
(* Properties.                                                             *)
(***************************************************************************)
\* A registration that is booked as succeeded has landed.
BookedHasLanded ==
  \A o \in Ops : log[o].row = "succeeded" => log[o].tx = "landed"

\* The owner of an anchored passport changes only when a registration of the new
\* operator has landed, or by a handover that had read the passport before an anchor
\* was reported and overtook it: each such request costs one change, and one that
\* reads 'anchored' never makes it (transferPassportOperator, runRegisterDetached).
LandedTransfer(w) ==
  \E o \in Ops : log[o].what = "transfer" /\ log[o].to = w /\ log[o].tx = "landed"
OvertakenHandover(w) ==
  \E q \in Requests : IsLocal(requests[q]) /\ requests[q].to = w /\ requests'[q] = NoRequest
AnchoredHandoverHasLanded ==
  [][status = "anchored" /\ owner' # owner =>
       LandedTransfer(owner') \/ OvertakenHandover(owner')]_vars
=============================================================================
