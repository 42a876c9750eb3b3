---------------------------- MODULE AnchorHistory ----------------------------
(***************************************************************************)
(* What anchoring promises to whoever verifies a passport: each passport   *)
(* has a history of anchors, oldest first, that grows at its end only, by  *)
(* an anchor the ledger already holds, and never by one it has published   *)
(* before (PassportAnchorVersions: "the live row is always version         *)
(* max+1").  Turning to another payload leaves the history as it is; only  *)
(* the newest anchor can be taken back, while its own payload is submitted *)
(* again.  A passport that is not watched any more is promised nothing.    *)
(* How an anchor is made, retried or lost is not said.                     *)
(***************************************************************************)
EXTENDS Sequences, Naturals

CONSTANTS
  Passports,
  Payloads,
  Anchors,     \* payload hash and content root of an anchor
  None

VARIABLES
  ledger,      \* the anchors the chain vouches for
  target,      \* per passport, the payload it is anchored with or is to be
  history,     \* per passport, the anchors it published
  watched      \* the passports whose history is kept

vars == <<ledger, target, history, watched>>

Init ==
  /\ ledger = {}
  /\ target = [p \in Passports |-> None]
  /\ history = [p \in Passports |-> <<>>]
  /\ watched = Passports

\* The chain accepts an anchor, whatever root it was given.
Land ==
  /\ \E x \in Anchors \ ledger : x \in ledger' /\ \A y \in ledger' \ ledger : y.hash = x.hash
  /\ ledger \subseteq ledger' /\ ledger' \subseteq Anchors
  /\ UNCHANGED <<target, history, watched>>

\* A passport turns to another payload.
Aim(p) ==
  /\ p \in watched
  /\ \E h \in Payloads : target' = [target EXCEPT ![p] = h]
  /\ UNCHANGED <<ledger, history, watched>>

\* A passport publishes an anchor of its payload that the chain holds.
Publish(p) ==
  /\ p \in watched
  /\ \E x \in ledger :
       /\ x.hash = target[p]
       /\ \A i \in DOMAIN history[p] : history[p][i].hash # x.hash
       /\ history' = [history EXCEPT ![p] = Append(@, x)]
  /\ UNCHANGED <<ledger, target, watched>>

\* The newest anchor of a passport is taken back, and its payload stays.
Withdraw(p) ==
  /\ p \in watched /\ history[p] # <<>>
  /\ history[p][Len(history[p])].hash = target[p]
  /\ history' = [history EXCEPT ![p] = SubSeq(@, 1, Len(@) - 1)]
  /\ UNCHANGED <<ledger, target, watched>>

\* A passport is lost sight of.
Disown(p) ==
  /\ p \in watched
  /\ watched' = watched \ {p}
  /\ target' = [target EXCEPT ![p] = None]
  /\ history' = [history EXCEPT ![p] = <<>>]
  /\ UNCHANGED ledger

Next == Land \/ \E p \in Passports : Aim(p) \/ Publish(p) \/ Withdraw(p) \/ Disown(p)

Spec == Init /\ [][Next]_vars
=============================================================================
