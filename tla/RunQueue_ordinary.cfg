CONSTANTS
  Invocations = {i1, i2, i3}
  Approvals = {a1}
  Starter = starter
  Nobody = nobody
  MaxAttempts = 2
  EarlyApproval = FALSE
  StalledRenewals = FALSE
  Crashes = FALSE
SPECIFICATION Spec
SYMMETRY Symmetry
INVARIANTS
  SingleExecutor
  
  
