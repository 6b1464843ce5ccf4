\* A version 3 file, nobody edits it, and one start is interrupted.
SPECIFICATION WorkspaceSpec
CONSTANTS
  Nothing = Nothing
  Partial = Partial
  d1 = d1
  d2 = d2
  e1 = e1
  e2 = e2
  Documents = {d1, d2}
  Editors = {}
  FirstFiles <- LegacyFile
  HandForms = {}
  MaxRevisions = 2
  MaxEdits = 0
  MaxCrashes = 1
CHECK_DEADLOCK FALSE
INVARIANTS
  BackupIsOriginal
