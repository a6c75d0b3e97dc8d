\* Two batches are enough to select the same request twice.
SPECIFICATION Spec
CONSTANTS
  Requests = {r1}
  Batches = {b1, b2}
  Versions = {v1, v2}
  Exports = {e1}
  Admins = {acc, both}
  Accountants = {acc, both}
  Managers = {both}
  Null = Null
SYMMETRY Symmetry
INVARIANT RequestInOneLiveVersion
CHECK_DEADLOCK FALSE
