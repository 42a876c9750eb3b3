---------------------------- MODULE MCServerSessions ----------------------------
(* Instances of ServerSessions for TLC.                                       *)
EXTENDS ServerSessions, TLC

\* For runs without a temporal property only.
Symmetric ==
  Permutations(Wallets) \cup Permutations(Sessions) \cup Permutations(Readers)
=============================================================================
