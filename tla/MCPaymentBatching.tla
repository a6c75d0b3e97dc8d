------------------------- MODULE MCPaymentBatching -------------------------
EXTENDS PaymentBatching, TLC
Symmetry == Permutations(Requests) \cup Permutations(Batches) \cup Permutations(Versions) \cup Permutations(Exports)
=============================================================================
