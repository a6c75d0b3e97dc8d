SPECIFICATION Spec
CONSTANTS
  s1 = s1
  s2 = s2
  a1 = a1
  r1 = r1
  b1 = b1
  Bundles = {b1}
  Segments = {s1, s2}
  BundleOf <- MCBundleOf
  Attempts = {a1}
  Requests = {r1}
  RequestOf <- MCRequestOf
  Operators = {o1}
  Publishers = {p1}
  Null = Null
SYMMETRY Symmetry
INVARIANTS
  PrimaryEvidenceIsAChain
PROPERTY ImplementsCustody
CHECK_DEADLOCK FALSE
