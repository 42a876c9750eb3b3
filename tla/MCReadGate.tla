------------------------------- MODULE MCReadGate -------------------------------
(* Instances of ReadGate for TLC.                                             *)
EXTENDS ReadGate, TLC

CONSTANTS g1, g2, p1, p2

Symmetric == Permutations({g1, g2}) \cup Permutations({p1, p2})
=============================================================================
