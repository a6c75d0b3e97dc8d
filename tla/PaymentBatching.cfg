\* Two requests; two batches with one version each or one batch replaced once;
\* two files; two accountants, one of whom is also the manager.
SPECIFICATION Spec
CONSTANTS
  Requests = {r1, r2}
  Batches = {b1, b2}
  Versions = {v1, v2}
  Exports = {e1, e2}
  Admins = {acc, both}
  Accountants = {acc, both}
  Managers = {both}
  Null = Null
SYMMETRY Symmetry
INVARIANTS
  ProjectionOfCurrent
  SupersededHoldsNothing
  AllocationsBackTheItems
  FinalFileAuthorised
  OneActiveFinal
  SentTogether
PROPERTY ImplementsDualControl
\* Every identifier is used once, so a bounded instance runs out of steps.
CHECK_DEADLOCK FALSE
