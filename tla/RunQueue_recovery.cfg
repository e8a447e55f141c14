CONSTANTS
  Invocations = {i1, i2}
  Approvals = {}
  Starter = starter
  Nobody = nobody
  MaxAttempts = 2
  EarlyApproval = FALSE
  StalledRenewals = FALSE
  Crashes = TRUE
SPECIFICATION RecycledSpec
PROPERTIES
  
  OrphanIsRecovered
