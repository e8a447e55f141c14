CONSTANTS
  d1 = d1
  d2 = d2
  d3 = d3
  e1 = e1
  e2 = e2
  m1 = m1
  k1 = k1
  Deliveries <- ThreeDeliveries
  Instances = {i1, i2}
  EventOf <- Sent
  MessageOf <- About
  IntentOf <- Meant
  Failures = TRUE
SPECIFICATION Spec
SYMMETRY Symmetry
CHECK_DEADLOCK FALSE
INVARIANTS
  
  NothingLost
  OneAtATime
