SPECIFICATION Spec
CONSTANTS
  Requests = {r1}
  Beneficiaries = {b1}
  Business = Business
  Terms = {t1, t2}
  Staff = {acc}
  TraderUsers = {tr}
  NoContent = NoContent
  MaxRevisions = 2
  MaxVersion <- MCMaxVersion
INVARIANTS
  RevisionsInOrder
  EligibleIsWhatWasNamed
PROPERTIES
  AccountantKeepsTheRequest
  ImplementsLifecycle
CHECK_DEADLOCK FALSE
