--------------------------- MODULE MCPaymentResult ---------------------------
EXTENDS PaymentResult, TLC, FiniteSetsExt
CONSTANTS r1, r2, a1, a2, a3, b1

\* r1 asks for 2, in halves (a1, a2) or at once (a3); r2 asks for 1.
MCRequestOf == (a1 :> r1) @@ (a2 :> r1) @@ (a3 :> r1) @@ (b1 :> r2)
MCAmountOf  == (a1 :> 1) @@ (a2 :> 1) @@ (a3 :> 2) @@ (b1 :> 1)
MCRequested == (r1 :> 2) @@ (r2 :> 1)
MCTotalOf   == [S \in SUBSET Attempts |-> MapThenSumSet(LAMBDA a : MCAmountOf[a], S)]

Symmetry == Permutations({a1, a2}) \cup Permutations(TrackingNumbers) \cup Permutations(Segments)
=============================================================================
