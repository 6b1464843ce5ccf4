\* Two requests and two saves over the four documents of MCLiveSaves and three
\* identities, none of which comes back.
SPECIFICATION SpecAll
CONSTANTS
  None = None
  Absent = Absent
  Saver = Saver
  a1 = a1
  a2 = a2
  p1 = p1
  p2 = p2
  r1 = r1
  r2 = r2
  A = A
  B = B
  C = C
  Accounts <- TheAccounts
  Pools <- ThePools
  Requests <- TheRequests
  Documents <- TheDocuments
  First <- Retired
  Watched = a1
  Identities <- TheIdentities
  MaxSaves = 2
  Reverts = FALSE
  Schedule <- ShortSchedule
  AbandonDelay = 1
  ProbeLease = 1
  MaxLag = 0
SYMMETRY Symmetric
INVARIANTS
  CountsMatchLeases
  DecidesByActivePolicy
  OneProbePerTarget
  RecordOfActive
PROPERTIES
  AdmittedWithinLimit
