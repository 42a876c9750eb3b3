--------------------------- MODULE MCWalletAnchor ---------------------------
(* Instances of WalletAnchor for TLC: one seed per run and per approval.    *)
EXTENDS WalletAnchor, TLC

Symmetric ==
  Permutations(Passports) \cup Permutations(Attesters) \cup Permutations(Payloads)
    \cup Permutations(Runs) \cup Permutations(Requests) \cup Permutations(Approvals)
=============================================================================
