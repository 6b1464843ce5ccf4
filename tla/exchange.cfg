CONSTANTS
  None = None
  Day = 4
  Labels <- MCLabels
  Scenarios <- MCScenarios
  Asking = "alias"

SPECIFICATION Spec

INVARIANTS
  StartsWhatItAccepts
  ServesTheScheduleMeant
  KeepsToTheWarmTarget
  HeardAsSaid
  ThoughtsReturn

CHECK_DEADLOCK FALSE
