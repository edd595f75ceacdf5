SPECIFICATION FairSpec
CONSTANTS
  Sessions = {s1}
  Hpas = {web, api}
  Fields <- MCFields
  Values <- MCValues
  ValidSpecs <- MCValidSpecs
  CriticalSpecs <- MCCriticalSpecs
  PatchLists <- MixedLists
  Options <- MixedOptions
  MaxRevision = 1
  Faults = TRUE
  BadPatch = BadPatch
  None = None
INVARIANTS
  BatchTriesEveryEntry
  AllOrNothing
  ReportMatchesWrites
PROPERTIES
  SessionsFinish
CHECK_DEADLOCK FALSE
