SPECIFICATION Spec
CONSTANTS
  o1 = o1
  o2 = o2
  x1 = x1
  x2 = x2
  y1 = y1
  Orders = {o1}
  Receipts = {x1, x2}
  OrderOf <- MCOrderOf
  Rows = {w1}
  Dispatches = {d1, d2}
  Prices = {1, 2}
  Amounts = {1, 2}
  TotalOf <- MCTotalOf
  Clerks = {c1, c2}
  Null = Null
SYMMETRY Symmetry
PROPERTY PastDispatchIsPast
CHECK_DEADLOCK FALSE
