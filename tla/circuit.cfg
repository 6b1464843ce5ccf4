\* An endless stream that may be given the probe and two ordinary clients;
\* writes that fail, a crash, a clock set back at the restart.
SPECIFICATION FairSpec
CONSTANTS
  None = None
  r1 = r1
  r2 = r2
  r3 = r3
  Requests <- ThreeRequests
  Endless = {r1}
  Outcomes <- SomeOutcomes
  Hints <- SomeHints
  Schedule <- ScaledSchedule
  AbandonDelay = 1
  ProbeLease = 2
  MaxLag = 1
  MaxCrashes = 1
  MaxClockStep = 2
INVARIANTS
  TypeOK
  OneLiveProbe
  NextProbeWithinCeiling
  NoLostWakeup
  MemoryIsDurable
PROPERTIES
  ContractSpec
  FailureCountedOnce
  EveryClientAdmitted
