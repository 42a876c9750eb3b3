-------------------------- MODULE AttestationVault --------------------------
(***************************************************************************)
(* The AttestationVault contract, as the passport application uses it.     *)
(* The contract ships with the NIGHTGATE plugin and is not part of this    *)
(* repository, so this module is EXTERNAL: it states what the code relies  *)
(* on (docs/architecture.md section 2, srv/lib/anchor-plan.ts).            *)
(*                                                                         *)
(* A record is keyed by its attester AND the payload it attests (vault     *)
(* lineage 4).  A document is a passport's id hash; its binding names one  *)
(* record.  Nothing is ever removed from attested.                         *)
(***************************************************************************)

CONSTANTS
  Passports,   \* passports; each stands for its document id (passportIdHash) too
  Attesters,   \* wallet identities
  Payloads,    \* payload hashes (equal content, equal hash)
  Seeds,       \* salt seeds of content trees
  None         \* stands for a null column or an absent entry

ASSUME NoneAssumption ==
  /\ None \notin Passports \cup Attesters \cup Payloads \cup Seeds
  /\ None \notin [values : Payloads, seed : Seeds]
  /\ None \notin Attesters \X Payloads

VARIABLES
  attested,    \* set of records <<attester, payload>>
  rootOf,      \* content root anchored with each record, or None
  binding,     \* the record each document is bound to, or None
  registered   \* the attester a document was pre-registered to, or None

vaultVars == <<attested, rootOf, binding, registered>>

\* A salted content root: the field values it commits to and its opening.
Root == [values : Payloads, seed : Seeds]
Record == Attesters \X Payloads

VaultTypeOK ==
  /\ attested \subseteq Record
  /\ rootOf \in [Record -> Root \cup {None}]
  /\ binding \in [Passports -> Record \cup {None}]
  /\ registered \in [Passports -> Attesters \cup {None}]

VaultInit ==
  /\ attested = {}
  /\ rootOf = [rec \in Record |-> None]
  /\ binding = [d \in Passports |-> None]
  /\ registered \in [Passports -> Attesters \cup {None}]

(***************************************************************************)
(* attest refuses a record that exists.  bindDocument is for the           *)
(* registered owner of the document, or, while nobody registered it, for   *)
(* the owner of the record it is bound to now.                             *)
(***************************************************************************)
Attestable(a, h) == <<a, h>> \notin attested

MayBind(d, a) ==
  \/ registered[d] = a
  \/ /\ registered[d] = None
     /\ binding[d] \in {None} \cup ({a} \X Payloads)

\* attest + anchorContentRoot: the guaranteed part of the anchor batch.
AttestWithRoot(a, h, root) ==
  /\ Attestable(a, h)
  /\ attested' = attested \cup {<<a, h>>}
  /\ rootOf' = [rootOf EXCEPT ![<<a, h>>] = root]

\* The whole batch applies.
ApplyAnchorTx(d, a, h, root) ==
  /\ AttestWithRoot(a, h, root)
  /\ MayBind(d, a)
  /\ binding' = [binding EXCEPT ![d] = <<a, h>>]
  /\ UNCHANGED registered

\* PARTIAL_SUCCESS: the fallible bindDocument is refused, the record stays.
ApplyAnchorTxPartially(d, a, h, root) ==
  /\ AttestWithRoot(a, h, root)
  /\ ~MayBind(d, a)
  /\ UNCHANGED <<binding, registered>>
=============================================================================
