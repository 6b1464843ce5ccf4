\* Two editors over a file of any form, one edit by hand, one crash.
SPECIFICATION FairSpec
CONSTANTS
  Nothing = Nothing
  Partial = Partial
  d1 = d1
  d2 = d2
  e1 = e1
  e2 = e2
  Documents = {d1, d2}
  Editors = {e1, e2}
  FirstFiles <- AnyFile
  HandForms = {"edited", "legacy"}
  MaxRevisions = 4
  MaxEdits = 1
  MaxCrashes = 1
INVARIANTS
  RestartServesTheSame
PROPERTIES
  NoLostUpdate
  HandEditsSpared
  EverySaveAnswered
