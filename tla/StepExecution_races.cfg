CONSTANTS
  Workers = {w1, w2}
  Plans = {p1}
  Approvals = {a1, a2}
  Drafts <- OneWrite
  MaxIterations = 2
  MaxRetries = 1
  None = none
  EarlyApproval = TRUE
  StrayRequests = FALSE
  Overlap = TRUE
  Crashes = TRUE
SPECIFICATION Spec
SYMMETRY Symmetry
CHECK_DEADLOCK FALSE
INVARIANTS
  PlanApprovalSingleUse
PROPERTIES
  LedgerSpec
