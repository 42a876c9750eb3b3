------------------------------ MODULE MCRunQueue ------------------------------
(* Instances of RunQueue for TLC.                                            *)
EXTENDS RunQueue, TLC

\* Nothing tells runs, testers, sponsors or vaults apart.  Unsound for
\* liveness: only runs without a temporal property use it.
Symmetric ==
  Permutations(Runs) \cup Permutations(Testers) \cup Permutations(Sponsors)
    \cup Permutations(Vaults)
=============================================================================
