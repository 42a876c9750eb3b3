--------------------------- MODULE MCAttributeHistory ---------------------------
EXTENDS AttributeHistory, TLC

CONSTANTS original, reused, waste

\* Two steps of the matrix.
MCTransitions == {<<original, reused>>, <<reused, waste>>}
BatchSymmetry == Permutations(Batches)
=============================================================================
