CONSTANTS
  Workers = {w1, w2}
  Plans = {p1, p2}
  Approvals = {a1, a2, a3}
  Drafts <- Mixed
  MaxIterations = 3
  MaxRetries = 1
  None = none
  EarlyApproval = FALSE
  StrayRequests = FALSE
  Overlap = FALSE
  Crashes = FALSE
SPECIFICATION Spec
SYMMETRY Symmetry
CHECK_DEADLOCK FALSE
INVARIANTS
  PlanCompleted
  WritesAuthorised
PROPERTIES
  SucceededIsFinal
