SPECIFICATION Spec
CONSTANTS
  f1 = f1
  f2 = f2
  v1 = v1
  v2 = v2
  p1 = p1
  p2 = p2
  k1 = k1
  k2 = k2
  a1 = a1
  a2 = a2
  Versions = {v1, v2}
  Admins = {a1, a2}
  Window <- MCWindow
  FirstNumbers = {1}
  Files = {f1, f2}
  Lines <- MCLines
  Clerks = {k1, k2}
  Parsers = {p1, p2}
  Claims = {c1}
  MaxRuns = 2
  Null = Null
CONSTRAINT Bounds
SYMMETRY Symmetry
INVARIANTS
  RunsAreNumbered
  ActivatedVersionsParse
PROPERTY RowsStay
CHECK_DEADLOCK FALSE
