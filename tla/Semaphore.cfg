CONSTANTS
  c1 = c1
  c2 = c2
  c3 = c3
  c4 = c4
  Callers <- FourCallers
  Untimed <- PatientOnes
  MaxPermits = 2
SPECIFICATION SemFairSpec
INVARIANTS
  PermitsConserved
  NoIdlePermit
PROPERTIES
  NoOvertaking
  EverybodyAdmitted
