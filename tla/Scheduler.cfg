CONSTANTS
  p1 = p1
  p2 = p2
  p3 = p3
  i1 = i1
  i2 = i2
  Pollers = {p1, p2, p3}
  Instances = {i1, i2}
  InstanceOf <- Sharing
  Latest = 2
  Deferred = {task}
  Recurring = {daily}
  Batch = 2
  MaxFirings = 2
  MaxFailures = 1
SPECIFICATION FairSpec
INVARIANTS
  TypeOK
  SchemaSound
  FiredOncePerDue
  NoTriggerLost
PROPERTIES
  EveryDueFires
