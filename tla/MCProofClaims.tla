----------------------------- MODULE MCProofClaims -----------------------------
(* Instances of ProofClaims for TLC.                                          *)
EXTENDS ProofClaims, TLC

CONSTANTS c1, c2, v1, v2

\* A claim about the first two contents, and one about the first alone.
Bounds == {{c1, c2}, {c1}}

\* The claim wallets prove, and the change of a version.
OneBound == {{c1, c2}}
OneChange == {{<<c1, c2>>, <<c2, c1>>}}
Symmetric == Permutations({v1, v2})
=============================================================================
