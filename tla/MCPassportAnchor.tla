-------------------------- MODULE MCPassportAnchor --------------------------
(* Instances of PassportAnchor for TLC: a seed per run, and the symmetries  *)
(* of the sets of model values (used by runs that check safety only).       *)
EXTENDS PassportAnchor, TLC

Symmetric ==
  Permutations(Passports) \cup Permutations(Attesters)
    \cup Permutations(Payloads) \cup Permutations(Runs) \cup Permutations(Requests)

\* Runs are numbered in the order they start: the other orders are renamings.
InOrder == \A r \in Runs \ {1} :
  runs[r].phase # "unused" => runs[r - 1].phase # "unused"
=============================================================================
