\* Two requests, three attempts of one and one of the other, two bank transactions
\* and a receipt segment.
SPECIFICATION Spec
CONSTANTS
  r1 = r1
  r2 = r2
  a1 = a1
  a2 = a2
  a3 = a3
  b1 = b1
  Requests = {r1, r2}
  Attempts = {a1, a2, a3, b1}
  RequestOf <- MCRequestOf
  AmountOf <- MCAmountOf
  Requested <- MCRequested
  TotalOf <- MCTotalOf
  TrackingNumbers = {n1, n2}
  Segments = {s1}
  Null = Null
SYMMETRY Symmetry
INVARIANTS
  PaidWithinRequested
  StatusMatchesLedger
  DiscrepanciesStand
  RetryLineage
  TrackingDistinctWithinRequest
  ToldWhatWasPaid
PROPERTY ImplementsSettlement
\* A settled request whose attempts have all been answered takes no more steps.
CHECK_DEADLOCK FALSE
