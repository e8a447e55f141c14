CONSTANTS
  Pages <- OnePage
  Servers <- OneInstance
  MaxHits = 1
  MaxFailed = 2
  MaxSlips = 1
  MaxFailures = 1
  None = None
  p1 = p1
  i1 = i1
SPECIFICATION DashSpec
INVARIANTS
  Safety
PROPERTIES
  ServedAgain
  FindsOut
