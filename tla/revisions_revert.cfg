SPECIFICATION Spec
CONSTANTS
  None = None
  A = A
  B = B
  C = C
  r1 = r1
  r2 = r2
  r3 = r3
  Identities = {A, B}
  Requests <- ThreeRequests
  MaxSaves = 2
  Reverts = TRUE
  Schedule <- ShortSchedule
  AbandonDelay = 1
  ProbeLease = 1
  MaxLag = 0
SYMMETRY Symmetric
INVARIANTS
  OneProbePerTarget
