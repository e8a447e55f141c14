CONSTANTS
  Calls <- MCCalls
  Instances <- MCInstances
  Threads <- MCThreads
  MaxSandboxes = 3
  MaxFailures = 2
  Nobody = Nobody
  c1 = c1
  c2 = c2
  c3 = c3
  i1 = i1
  i2 = i2
  t1 = t1
  t2 = t2
SPECIFICATION Spec
SYMMETRY Symmetry
CHECK_DEADLOCK FALSE
INVARIANTS
  OwnSandbox
  OneSandbox
  
