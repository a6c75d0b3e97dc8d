------------------------------ MODULE MCGoldSale ------------------------------
EXTENDS GoldSale, TLC, FiniteSetsExt
CONSTANTS o1, o2, x1, x2, y1

\* o1 is claimed to be paid by two receipts, o2 by one.
MCOrderOf == [x \in Receipts |-> IF x = y1 THEN o2 ELSE o1]
MCTotalOf == [f \in [Receipts -> Sums] |-> MapThenSumSet(LAMBDA x : f[x], Receipts)]

Symmetry == Permutations({x1, x2}) \cup Permutations(Rows) \cup Permutations(Dispatches)
              \cup Permutations(Clerks)
=============================================================================
