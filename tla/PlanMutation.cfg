CONSTANTS
  read = read
  mail = mail
  Mutations = {m1, m2}
  MaxSteps = 3
  MaxInstructions = 1
  MaxRetries = 1
  Actions = {read, mail}
  Writes = {mail}
  Drafts <- OneWrite
  None = none
SPECIFICATION Spec
SYMMETRY Symmetry
CHECK_DEADLOCK FALSE

  
  
PROPERTIES
  RemovedStaysRemoved
