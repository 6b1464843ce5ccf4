\* A request of up to two attempts, a crash and a downgrade; every migration
\* takes several batches.
SPECIFICATION FairSpec
CONSTANTS
  None = None
  old = old
  new = new
  Old = old
  New = new
  Routed = {new}
  RequestIds = {1}
  AttemptIds = {1, 2}
  Minute = 2
  Hour = 4
  Retention = 5
  Windows = {2, 4}
  Batch = 1
  Ages = {0, 5}
  FirstTime = 4
  MaxTime = 7
  MaxStops = 1
  MaxDowngrades = 1
INVARIANTS
  TotalsExact
  WindowsExact
PROPERTIES
  MigrationEnds
