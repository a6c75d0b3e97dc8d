----------------------------- MODULE MCEvidence -----------------------------
EXTENDS Evidence, TLC

CONSTANTS s1, s2, a1, r1, b1

MCBundleOf  == [s \in Segments |-> b1]
MCRequestOf == [a \in Attempts |-> r1]
Symmetry    == Permutations(Segments)
=============================================================================
