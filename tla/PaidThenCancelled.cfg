\* A cancellation that read the request before its money moved.
SPECIFICATION Spec
CONSTANTS
  r1 = r1
  r2 = r2
  a1 = a1
  a2 = a2
  a3 = a3
  b1 = b1
  Requests = {r1, r2}
  Attempts = {a1, a2, a3, b1}
  RequestOf <- MCRequestOf
  AmountOf <- MCAmountOf
  Requested <- MCRequested
  TotalOf <- MCTotalOf
  TrackingNumbers = {n1, n2}
  Segments = {s1}
  Null = Null
SYMMETRY Symmetry
PROPERTY PaidRequestNotCancelled
CHECK_DEADLOCK FALSE
