CONSTANTS
  m1 = m1
  m2 = m2
  m3 = m3
  yes = yes
  no = no
  Callers = {m1, m2}
  Untimed = {}
  Elsewhere = {m3}
  Contexts = {run1}
  MaxPermits = 1
  MaxKept = 2
  Window = 2
  TextOf <- Texting
  Failures <- Everything
  None = none
SPECIFICATION FairSpec
CHECK_DEADLOCK FALSE
INVARIANTS
  PermitWhileWorking
PROPERTIES
  
  EverybodyTold
  Remembered
  SaidOnce
